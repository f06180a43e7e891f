---------------------------- MODULE LlamaProofs ----------------------------
(* For every network whose heads have dim between them, every vocabulary    *)
(* and every process: what the llama programs count and report is what the  *)
(* calls have done, CountersAddUp of MCLlama.                               *)
(*                                                                          *)
(* The prompt has a token, whatever the text: so random choices begin where *)
(* the programs begin to count them. The matrices of the file have the      *)
(* sizes the programs multiply with. The counters of the positions done are *)
(* extended to the midst of a position (MacsIn, CountsIn): by the layers    *)
(* entered and left, and by how many heads have their scores and their      *)
(* sums, in whatever order the threads come to them. CountInv says so, and  *)
(* that the reports are true of the calls up to theirs.                     *)
EXTENDS MCLlama, FoldLemmas, SequenceTheorems

-----------------------------------------------------------------------------
(* Text and tokens.                                                         *)

\* Evaluated is for TLC only.
LEMMA AsWritten ==
  ASSUME NEW x
  PROVE  Evaluated(x) = x
BY DEF Evaluated

\* Sequences put together.
LEMMA Joining ==
  ASSUME NEW V, NEW seq \in Seq(V), NEW t \in Seq(V)
  PROVE  seq \o t \in Seq(V)
BY ConcatProperties

\* The text given to encode: every blank is two bytes.
LEMMA ReplacedText ==
  ASSUME NEW text \in Seq(Nat)
  PROVE  replace_spaces_with_G(text) \in Seq(Nat)
<1> DEFINE op(seq, c) == seq \o IF c = Blank THEN <<Lead, GTail>> ELSE <<c>>
           S == DOMAIN text
           Body(it) == [part \in SUBSET S |->
                          IF part = {} THEN <<>>
                          ELSE op(it[part \ {Max(part)}], text[Max(part)])]
           total == CHOOSE it : it = Body(it)
<1>1. replace_spaces_with_G(text) = total[S]
  BY DEF replace_spaces_with_G, FoldLeft, MapThenFoldSet
<1>2. PICK V : V = Seq(Nat)
  OBVIOUS
<1>3. \A v \in V, c \in Nat : op(v, c) \in V
  BY <1>2, VocabAssumption, Joining
<1> HIDE DEF op
<1>4. PICK n \in Nat : S = 1 .. n
  OBVIOUS
<1>5. PICK step : step = [at \in S \X V |-> op(at[2], text[at[1]])]
  OBVIOUS
<1>6. \A x \in S, v \in V : step[<<x, v>>] = op(v, text[x])
  BY <1>5
<1>7. StaysIn(step, 1 .. n, V) /\ <<>> \in V
  <2>1. \A x \in S, v \in V : op(v, text[x]) \in V
    BY <1>3
  <2>2. StaysIn(step, S, V)
    BY <1>6, <2>1 DEF StaysIn
  <2> QED
    BY <1>2, <1>4, <2>2
<1>8. PICK it : /\ it = [part \in SUBSET S |-> it[part]]
                /\ \A part \in SUBSET S :
                     /\ LeftStep(it, <<>>, step, part)
                     /\ part # {} => Max(part) \in S /\ it[part \ {Max(part)}] \in V
  <2>1. \E it : /\ it = [part \in SUBSET (1 .. n) |-> it[part]]
                /\ \A part \in SUBSET (1 .. n) :
                     /\ LeftStep(it, <<>>, step, part)
                     /\ part # {} => Max(part) \in 1 .. n /\ it[part \ {Max(part)}] \in V
    BY <1>7, LeftFoldExists
  <2> HIDE DEF S
  <2> QED
    BY <1>4, <2>1
<1>9. it = Body(it)
  BY <1>6, <1>8 DEF LeftStep
<1>10. total = Body(total)
  <2> HIDE DEF Body
  <2> QED
    BY <1>9
<1> HIDE DEF total
<1>11. total[S] \in V
  <2>1. ASSUME NEW part \in SUBSET S
        PROVE  \/ part = {} /\ total[part] = <<>>
               \/ part # {}
                    /\ (Max(part) \in S /\ total[part \ {Max(part)}] \in V => LeftStep(total,
                           <<>>, step, part))
    <3>1. total[part] = Body(total)[part]
      BY <1>10
    <3> QED
      BY <1>6, <3>1 DEF LeftStep
  <2> HIDE DEF S
  <2> QED
    BY <1>4, <1>7, <2>1, LeftFoldStays
<1> QED
  BY <1>1, <1>2, <1>11

\* A lookup gives a token or -1.
LEMMA LookedUp ==
  ASSUME NEW str
  PROVE  str_lookup(str) \in Int
<1> DEFINE found(text) == {id \in Tokens : Vocab[id] = text}
           first(ids) == IF ids = {} THEN -1 ELSE CHOOSE id \in ids : TRUE
<1>1. str_lookup(str) = first(found(str))
  <2>1. str_lookup(str) = Applied(first, Applied(found, str))
    BY DEF str_lookup
  <2> HIDE DEF first, found
  <2>2. PICK ids : ids = Applied(found, str)
    OBVIOUS
  <2>3. ids = found(str)
    BY <2>2, AsWritten DEF Applied
  <2>4. Applied(first, ids) = first(ids)
    BY AsWritten DEF Applied
  <2> QED
    BY <2>1, <2>2, <2>3, <2>4
<1>2. first(found(str)) \in Tokens \cup {-1}
  OBVIOUS
<1> HIDE DEF first, found
<1> QED
  BY <1>1, <1>2, VocabAssumption

\* The bytes of a character give tokens.
LEMMA CodePointTokens ==
  ASSUME NEW buffer \in Seq(Nat)
  PROVE  CodePoint(buffer) \in Seq(Int)
<1> DEFINE made(id) == IF id # -1 THEN <<id>> ELSE [i \in DOMAIN buffer |-> buffer[i] + 3]
<1>1. CodePoint(buffer) = made(str_lookup(buffer))
  BY AsWritten DEF CodePoint, Applied
<1>2. PICK id \in Int : id = str_lookup(buffer)
  BY LookedUp
<1>3. [i \in DOMAIN buffer |-> buffer[i] + 3] \in Seq(Int)
  OBVIOUS
<1> QED
  BY <1>1, <1>2, <1>3

\* The tokens encode starts from.
LEMMA CodePointsTokens ==
  ASSUME NEW text \in Seq(Nat)
  PROVE  CodePoints(text) \in Seq(Int)
<1> DEFINE read(state, i) ==
             LET buffer == IF IsContinuation(text[i]) THEN Append(state.buffer, text[i])
                           ELSE <<text[i]>>
             IN  IF i < Len(text) /\ IsContinuation(text[i + 1]) /\ Len(buffer) < 4
                 THEN [state EXCEPT !.buffer = buffer]
                 ELSE [tokens |-> state.tokens \o CodePoint(buffer), buffer |-> <<>>]
           op(old, i) == Applied(LAMBDA state : read(state, i), old)
           seq == [i \in DOMAIN text |-> i]
           S == DOMAIN seq
           base == [tokens |-> <<>>, buffer |-> <<>>]
           Body(it) == [part \in SUBSET S |->
                          IF part = {} THEN base
                          ELSE op(it[part \ {Max(part)}], seq[Max(part)])]
           total == CHOOSE it : it = Body(it)
<1>1. CodePoints(text) = total[S].tokens
  BY DEF CodePoints, FoldLeft, MapThenFoldSet
<1>2. PICK V : V = [tokens : Seq(Int), buffer : Seq(Nat)]
  OBVIOUS
<1>3. ASSUME NEW v \in V, NEW i \in DOMAIN text
      PROVE  op(v, seq[i]) \in V
  <2>1. v \in [tokens : Seq(Int), buffer : Seq(Nat)]
    BY <1>2
  <2>2. op(v, seq[i]) = read(v, i)
    <3> HIDE DEF read
    <3> QED
      BY AsWritten DEF Applied
  <2>3. PICK buffer : buffer = IF IsContinuation(text[i]) THEN Append(v.buffer, text[i])
                               ELSE <<text[i]>>
    OBVIOUS
  <2>4. text[i] \in Nat /\ v.buffer \in Seq(Nat) /\ v.tokens \in Seq(Int)
    BY <2>1
  <2>5. buffer \in Seq(Nat)
    BY <2>3, <2>4
  <2>6. CodePoint(buffer) \in Seq(Int)
    BY <2>5, CodePointTokens
  <2>7. v.tokens \o CodePoint(buffer) \in Seq(Int)
    BY <2>4, <2>6, Joining
  <2>8. read(v, i) = IF i < Len(text) /\ IsContinuation(text[i + 1]) /\ Len(buffer) < 4
                     THEN [v EXCEPT !.buffer = buffer]
                     ELSE [tokens |-> v.tokens \o CodePoint(buffer), buffer |-> <<>>]
    BY <2>3
  <2>9. [v EXCEPT !.buffer = buffer] \in [tokens : Seq(Int), buffer : Seq(Nat)]
    BY <2>1, <2>5
  <2>10. [tokens |-> v.tokens \o CodePoint(buffer), buffer |-> <<>>] \in [tokens : Seq(Int),
             buffer : Seq(Nat)]
    BY <2>7
  <2> HIDE DEF read, op
  <2> QED
    BY <1>2, <2>2, <2>8, <2>9, <2>10
<1>4. \A i \in DOMAIN text : seq[i] = i
  OBVIOUS
<1> HIDE DEF op
<1>5. PICK n \in Nat : S = 1 .. n /\ DOMAIN text = S
  OBVIOUS
<1>6. PICK step : step = [at \in S \X V |-> op(at[2], seq[at[1]])]
  OBVIOUS
<1>7. \A x \in S, v \in V : step[<<x, v>>] = op(v, seq[x])
  BY <1>6
<1>8. StaysIn(step, 1 .. n, V) /\ base \in V
  <2> HIDE DEF seq
  <2>1. \A x \in S, v \in V : op(v, seq[x]) \in V
    BY <1>3, <1>5
  <2>2. StaysIn(step, S, V)
    BY <1>7, <2>1 DEF StaysIn
  <2>3. base \in V
    BY <1>2
  <2> QED
    BY <1>5, <2>2, <2>3
<1> HIDE DEF base
<1>9. PICK it : /\ it = [part \in SUBSET S |-> it[part]]
                /\ \A part \in SUBSET S :
                     /\ LeftStep(it, base, step, part)
                     /\ part # {} => Max(part) \in S /\ it[part \ {Max(part)}] \in V
  <2>1. \E it : /\ it = [part \in SUBSET (1 .. n) |-> it[part]]
                /\ \A part \in SUBSET (1 .. n) :
                     /\ LeftStep(it, base, step, part)
                     /\ part # {} => Max(part) \in 1 .. n /\ it[part \ {Max(part)}] \in V
    BY <1>8, LeftFoldExists
  <2> HIDE DEF S
  <2> QED
    BY <1>5, <2>1
<1> HIDE DEF seq
<1>10. it = Body(it)
  BY <1>7, <1>9 DEF LeftStep
<1>11. total = Body(total)
  <2> HIDE DEF Body
  <2> QED
    BY <1>10
<1> HIDE DEF total
<1>12. total[S] \in V
  <2>1. ASSUME NEW part \in SUBSET S
        PROVE  \/ part = {} /\ total[part] = base
               \/ part # {}
                    /\ (Max(part) \in S /\ total[part \ {Max(part)}] \in V => LeftStep(total,
                           base, step, part))
    <3>1. total[part] = Body(total)[part]
      BY <1>11
    <3> QED
      BY <1>7, <3>1 DEF LeftStep
  <2> HIDE DEF S
  <2> QED
    BY <1>5, <1>8, <2>1, LeftFoldStays
<1> QED
  BY <1>1, <1>2, <1>12

\* The place of the best merge is a place where n tokens are, or 0.
LEMMA BestMergePlace ==
  ASSUME NEW tokens \in Seq(Int), NEW n \in {2, 3}
  PROVE  BestMerge(tokens, n) \in {0} \cup (1 .. Len(tokens) - n + 1)
<1> DEFINE ids == [i \in 1 .. Len(tokens) - n + 1 |-> str_lookup(Joined(tokens, i, n))]
           merges(id) == {i \in DOMAIN id : id[i] # -1}
           better(id, i, j) == \/ Score_(id[i]) > Score_(id[j])
                               \/ Score_(id[i]) = Score_(id[j]) /\ i <= j
           best(id) == IF merges(id) = {} THEN 0
                       ELSE CHOOSE i \in merges(id) : \A j \in merges(id) : better(id, i, j)
<1>1. BestMerge(tokens, n) = best(ids)
  <2>1. BestMerge(tokens, n) = Applied(best, ids)
    BY DEF BestMerge
  <2> HIDE DEF ids, best
  <2> QED
    BY <2>1, AsWritten DEF Applied
<1>2. PICK id, m : id = ids /\ m = merges(ids)
  OBVIOUS
<1>3. m \subseteq 1 .. Len(tokens) - n + 1 /\ \A i \in m : id[i] \in Int
  BY <1>2, LookedUp
<1>4. CASE m = {}
  <2> HIDE DEF ids, merges
  <2>1. best(ids) = 0
    BY <1>2, <1>4
  <2> HIDE DEF best
  <2> QED
    BY <1>1, <2>1
<1>5. CASE m # {}
  <2>1. IsFiniteSet(m)
    <3>1. IsFiniteSet(1 .. Len(tokens) - n + 1)
      BY FS_Interval
    <3> QED
      BY <1>3, <3>1, FS_Subset
  <2>2. \E i \in m : \A j \in m : better(id, i, j)
    <3> DEFINE beaters(i) == {j \in m : better(id, j, i)}
    <3>1. PICK part : part = [i \in m |-> beaters(i)]
      OBVIOUS
    <3>2. Parts(part, m)
      BY <3>1 DEF Parts
    <3>3. PICK i \in m : \A y \in m : part[y] \subseteq part[i] => part[y] = part[i]
      BY <1>5, <2>1, <3>2, SmallestPart
    <3>4. ASSUME NEW j \in m PROVE better(id, i, j)
      <4>1. /\ i \in Int /\ j \in Int /\ id[i] \in Int /\ id[j] \in Int
            /\ \A k \in m : k \in Int /\ id[k] \in Int
        BY <1>3
      <4>2. SUFFICES ASSUME ~better(id, i, j) PROVE FALSE
        OBVIOUS
      <4>3. ASSUME NEW k \in m, better(id, k, j) PROVE better(id, k, i)
        BY <4>1, <4>2, <4>3 DEF Score_
      <4>4. better(id, i, i)
        BY <4>1 DEF Score_
      <4> HIDE DEF better
      <4>5. part[j] \subseteq part[i] /\ i \in part[i] /\ i \notin part[j]
        BY <3>1, <4>2, <4>3, <4>4
      <4> QED
        BY <3>3, <4>5
    <3> QED
      BY <3>4
  <2>3. best(ids) \in m
    <3> HIDE DEF ids, merges, better
    <3> QED
      BY <1>2, <1>5, <2>2
  <2> HIDE DEF ids, best, merges
  <2> QED
    BY <1>1, <1>3, <2>3
<1> QED
  BY <1>4, <1>5

\* Merging leaves a sequence of tokens.
LEMMA MergedTokens ==
  ASSUME NEW tokens \in Seq(Int), NEW n \in {2, 3}, NEW i \in 1 .. Len(tokens) - n + 1
  PROVE  Merged(tokens, i, n) \in Seq(Int)
<1>1. SubSeq(tokens, 1, i - 1) \in Seq(Int) /\ SubSeq(tokens, i + n, Len(tokens)) \in Seq(Int)
  <2>1. Len(tokens) \in Nat
    OBVIOUS
  <2>2. \A j \in 1 .. i - 1 : tokens[j] \in Int
    BY <2>1
  <2>3. \A j \in i + n .. Len(tokens) : tokens[j] \in Int
    BY <2>1
  <2> QED
    BY <2>1, <2>2, <2>3, SubSeqProperties
<1>2. PICK id \in Int : id = str_lookup(Joined(tokens, i, n))
  BY LookedUp
<1>3. <<id>> \in Seq(Int)
  OBVIOUS
<1>4. SubSeq(tokens, 1, i - 1) \o <<id>> \in Seq(Int)
  BY <1>1, <1>3, Joining
<1>5. (SubSeq(tokens, 1, i - 1) \o <<id>>) \o SubSeq(tokens, i + n, Len(tokens)) \in Seq(Int)
  BY <1>1, <1>4, Joining
<1> QED
  BY <1>2, <1>5 DEF Merged

\* A text becomes a sequence of tokens.
LEMMA EncodedText ==
  ASSUME NEW text \in Seq(Nat)
  PROVE  encode(text) \in Seq(Int)
<1> DEFINE merge(tokens) ==
             LET pair   == BestMerge(tokens, 2)
                 triple == BestMerge(tokens, 3)
             IN  IF pair # 0 THEN Merged(tokens, pair, 2)
                 ELSE IF triple # 0 THEN Merged(tokens, triple, 3) ELSE tokens
           op(old, i) == Applied(merge, old)
           merged(tokens) == FoldLeft(op, tokens, [i \in DOMAIN tokens |-> i])
<1>1. PICK points \in Seq(Int) : points = CodePoints(text)
  BY CodePointsTokens
<1>2. encode(text) = merged(points)
  <2>1. encode(text) = Evaluated(Applied(merged, CodePoints(text)))
    BY DEF encode
  <2> HIDE DEF merged
  <2> QED
    BY <1>1, <2>1, AsWritten DEF Applied
<1> DEFINE seq == [i \in DOMAIN points |-> i]
           S == DOMAIN seq
           Body(it) == [part \in SUBSET S |->
                          IF part = {} THEN points
                          ELSE op(it[part \ {Max(part)}], seq[Max(part)])]
           total == CHOOSE it : it = Body(it)
<1>3. merged(points) = total[S]
  BY DEF FoldLeft, MapThenFoldSet
<1>4. PICK V : V = Seq(Int)
  OBVIOUS
<1>5. ASSUME NEW v \in V, NEW i
      PROVE  op(v, i) \in V
  <2>1. v \in Seq(Int)
    BY <1>4
  <2>2. op(v, i) = merge(v)
    <3> HIDE DEF merge
    <3> QED
      BY AsWritten DEF Applied
  <2>3. /\ BestMerge(v, 2) \in {0} \cup (1 .. Len(v) - 2 + 1)
        /\ BestMerge(v, 3) \in {0} \cup (1 .. Len(v) - 3 + 1)
    BY <2>1, BestMergePlace
  <2>4. BestMerge(v, 2) # 0 => Merged(v, BestMerge(v, 2), 2) \in Seq(Int)
    BY <2>1, <2>3, MergedTokens
  <2>5. BestMerge(v, 3) # 0 => Merged(v, BestMerge(v, 3), 3) \in Seq(Int)
    BY <2>1, <2>3, MergedTokens
  <2>6. merge(v) \in Seq(Int)
    BY <2>1, <2>4, <2>5
  <2> HIDE DEF merge, op
  <2> QED
    BY <1>4, <2>2, <2>6
<1> HIDE DEF op
<1>6. PICK n \in Nat : S = 1 .. n
  OBVIOUS
<1>7. PICK step : step = [at \in S \X V |-> op(at[2], seq[at[1]])]
  OBVIOUS
<1>8. \A x \in S, v \in V : step[<<x, v>>] = op(v, seq[x])
  BY <1>7
<1>9. StaysIn(step, 1 .. n, V) /\ points \in V
  <2> HIDE DEF seq
  <2>1. StaysIn(step, S, V)
    BY <1>5, <1>8 DEF StaysIn
  <2> QED
    BY <1>1, <1>4, <1>6, <2>1
<1>10. PICK it : /\ it = [part \in SUBSET S |-> it[part]]
                 /\ \A part \in SUBSET S :
                      /\ LeftStep(it, points, step, part)
                      /\ part # {} => Max(part) \in S /\ it[part \ {Max(part)}] \in V
  <2>1. \E it : /\ it = [part \in SUBSET (1 .. n) |-> it[part]]
                /\ \A part \in SUBSET (1 .. n) :
                     /\ LeftStep(it, points, step, part)
                     /\ part # {} => Max(part) \in 1 .. n /\ it[part \ {Max(part)}] \in V
    BY <1>9, LeftFoldExists
  <2> HIDE DEF S
  <2> QED
    BY <1>6, <2>1
<1> HIDE DEF seq
<1>11. it = Body(it)
  BY <1>8, <1>10 DEF LeftStep
<1>12. total = Body(total)
  <2> HIDE DEF Body
  <2> QED
    BY <1>11
<1> HIDE DEF total
<1>13. total[S] \in V
  <2>1. ASSUME NEW part \in SUBSET S
        PROVE  \/ part = {} /\ total[part] = points
               \/ part # {}
                    /\ (Max(part) \in S /\ total[part \ {Max(part)}] \in V => LeftStep(total,
                           points, step, part))
    <3>1. total[part] = Body(total)[part]
      BY <1>12
    <3> QED
      BY <1>8, <3>1 DEF LeftStep
  <2> HIDE DEF S
  <2> QED
    BY <1>6, <1>9, <2>1, LeftFoldStays
<1> QED
  BY <1>2, <1>3, <1>4, <1>13

\* A prompt is a sequence of tokens, and not empty.
LEMMA PromptTokens ==
  ASSUME NEW user \in Seq(Nat)
  PROVE  /\ promote_to_token(user, SystemPrompt) \in Seq(Int)
         /\ Len(promote_to_token(user, SystemPrompt)) >= 1
<1>1. PICK a, b, c, system, asked :
        /\ a = <<ImStart, System, NewLineToken>>
        /\ b = <<ImEnd, NewLineToken, ImStart, User, NewLineToken>>
        /\ c = <<ImEnd, NewLineToken, ImStart, Assistant, NewLineToken>>
        /\ system = encode(replace_spaces_with_G(SystemPrompt))
        /\ asked = encode(replace_spaces_with_G(user))
  OBVIOUS
<1>2. {a, b, c} \subseteq Seq(Int) /\ Len(a) = 3
  BY <1>1, VocabAssumption, ChatAssumption
<1>3. system \in Seq(Int) /\ asked \in Seq(Int)
  BY <1>1, ProcessAssumption, ReplacedText, EncodedText
<1>4. a \o system \in Seq(Int) /\ Len(a \o system) = Len(a) + Len(system)
  BY <1>2, <1>3, ConcatProperties
<1>5. (a \o system) \o b \in Seq(Int) /\ Len((a \o system) \o b) = Len(a \o system) + Len(b)
  BY <1>2, <1>4, ConcatProperties
<1>6. /\ ((a \o system) \o b) \o asked \in Seq(Int)
      /\ Len(((a \o system) \o b) \o asked) = Len((a \o system) \o b) + Len(asked)
  BY <1>3, <1>5, ConcatProperties
<1>7. /\ (((a \o system) \o b) \o asked) \o c \in Seq(Int)
      /\ Len((((a \o system) \o b) \o asked) \o c)
           = Len(((a \o system) \o b) \o asked) + Len(c)
  BY <1>2, <1>6, ConcatProperties
<1>8. promote_to_token(user, SystemPrompt) = (((a \o system) \o b) \o asked) \o c
  BY <1>1 DEF promote_to_token
<1>9. Len(system) \in Nat /\ Len(asked) \in Nat /\ Len(b) \in Nat /\ Len(c) \in Nat
  BY <1>2, <1>3
<1> QED
  BY <1>2, <1>4, <1>5, <1>6, <1>7, <1>8, <1>9

-----------------------------------------------------------------------------
(* Sequences as functions.                                                  *)

IsList(seq, n) == seq = [i \in 1 .. n |-> seq[i]]

\* Lists and sequences are the same.
LEMMA ListIsSeq ==
  ASSUME NEW n \in Nat, NEW seq, IsList(seq, n), NEW V, \A i \in 1 .. n : seq[i] \in V
  PROVE  seq \in Seq(V) /\ Len(seq) = n
<1>1. PICK t : t = [i \in 1 .. n |-> seq[i]]
  OBVIOUS
<1>2. t \in Seq(V)
  BY <1>1
<1>3. Len(t) = n
  BY <1>1
<1> QED
  BY <1>1, <1>2, <1>3 DEF IsList

LEMMA SeqIsList ==
  ASSUME NEW V, NEW seq \in Seq(V)
  PROVE  IsList(seq, Len(seq))
<1>1. seq \in [1 .. Len(seq) -> V]
  BY LenProperties
<1> QED
  BY <1>1 DEF IsList

\* u has the elements of seq, then those of t.
IsJoined(u, seq, m, t, n) ==
  IsList(u, m + n) /\ (\A i \in 1 .. m : u[i] = seq[i]) /\ \A i \in 1 .. n : u[m + i] = t[i]

\* One list after another.
LEMMA JoinedLists ==
  ASSUME NEW m \in Nat, NEW n \in Nat, NEW seq, IsList(seq, m), NEW t, IsList(t, n)
  PROVE  IsJoined(seq \o t, seq, m, t, n)
<1>1. PICK V : V = {seq[i] : i \in 1 .. m} \cup {t[i] : i \in 1 .. n}
  OBVIOUS
<1>2. (\A i \in 1 .. m : seq[i] \in V) /\ \A i \in 1 .. n : t[i] \in V
  BY <1>1
<1>3. seq \in Seq(V) /\ Len(seq) = m
  BY <1>2, ListIsSeq
<1>4. t \in Seq(V) /\ Len(t) = n
  BY <1>2, ListIsSeq
<1>5. PICK u : u = seq \o t
  OBVIOUS
<1>6. /\ u \in Seq(V) /\ Len(u) = Len(seq) + Len(t)
      /\ \A i \in 1 .. Len(seq) + Len(t) : u[i] = IF i <= Len(seq) THEN seq[i]
                                                  ELSE t[i - Len(seq)]
  BY <1>3, <1>4, <1>5, ConcatProperties
<1>7. IsList(u, m + n)
  BY <1>3, <1>4, <1>6, SeqIsList
<1>8. ASSUME NEW i \in 1 .. m PROVE u[i] = seq[i]
  <2>1. i \in 1 .. Len(seq) + Len(t) /\ i <= Len(seq)
    BY <1>3, <1>4
  <2> QED
    BY <1>6, <2>1
<1>9. ASSUME NEW i \in 1 .. n PROVE u[m + i] = t[i]
  <2>1. PICK j : j = m + i
    OBVIOUS
  <2>2. j \in 1 .. Len(seq) + Len(t) /\ ~(j <= Len(seq)) /\ j - Len(seq) = i
    BY <1>3, <1>4, <2>1
  <2>3. u[j] = t[j - Len(seq)]
    BY <1>6, <2>2
  <2> QED
    BY <2>1, <2>2, <2>3
<1> QED
  BY <1>5, <1>7, <1>8, <1>9 DEF IsJoined

-----------------------------------------------------------------------------
(* Totals.                                                                  *)

LEMMA TotalIsNumber ==
  ASSUME NEW n \in Nat, NEW f, DOMAIN f = 1 .. n, \A i \in 1 .. n : f[i] \in Int
  PROVE  Total(f) \in Int
<1>1. IsFiniteSet(1 .. n)
  BY FS_Interval
<1>2. Total(f) = SumOver(f, 1 .. n)
  BY DEF Total, SumOver
<1> QED
  BY <1>1, <1>2, SumIsNumber

\* One more at the end adds to the total.
LEMMA AppendedTotal ==
  ASSUME NEW n \in Nat, NEW f, NEW g, DOMAIN f = 1 .. n, DOMAIN g = 1 .. n + 1,
         \A i \in 1 .. n : f[i] \in Int /\ g[i] = f[i], g[n + 1] \in Int
  PROVE  Total(g) = Total(f) + g[n + 1]
<1>1. PICK S, m : S = 1 .. n + 1 /\ m = n + 1
  OBVIOUS
<1>2. IsFiniteSet(S) /\ m \in S /\ S \ {m} = 1 .. n
  <2>1. IsFiniteSet(1 .. n + 1)
    BY FS_Interval
  <2>2. \A x : x \in (1 .. n + 1) \ {n + 1} <=> x \in 1 .. n
    OBVIOUS
  <2> QED
    BY <1>1, <2>1, <2>2
<1>3. \A i \in S : g[i] \in Int
  BY <1>1
<1>4. SumOver(g, S) = g[m] + SumOver(g, S \ {m})
  <2>1. IsFiniteSet(S) /\ m \in S
    BY <1>2
  <2> QED
    BY <1>3, <2>1, SumWithout
<1>5. IsFiniteSet(S \ {m})
  BY <1>2, FS_Subset
<1>6. SumOver(g, S \ {m}) = SumOver(f, S \ {m})
  BY <1>2, <1>5, SumOfEquals
<1>7. Total(g) = SumOver(g, S) /\ Total(f) = SumOver(f, S \ {m})
  BY <1>1, <1>2 DEF Total, SumOver
<1>8. SumOver(f, S \ {m}) \in Int
  BY <1>2, <1>5, SumIsNumber
<1> QED
  BY <1>1, <1>4, <1>6, <1>7, <1>8

\* Products of neighbours are even.
LEMMA HalfProduct ==
  ASSUME NEW n \in Nat
  PROVE  /\ (n * (n + 1)) \div 2 \in Nat
         /\ ((n + 1) * (n + 1 + 1)) \div 2 = (n * (n + 1)) \div 2 + (n + 1)
<1>1. PICK x \in Nat : x = n * (n + 1)
  OBVIOUS
<1>2. (n + 1) * (n + 1 + 1) = x + 2 * (n + 1)
  BY <1>1
<1>3. (x + 2 * (n + 1)) \div 2 = x \div 2 + (n + 1) /\ x \div 2 \in Nat
  OBVIOUS
<1> QED
  BY <1>1, <1>2, <1>3

\* A call more adds its positions, and the pairs of positions that look at each other.
LEMMA PositionTotals ==
  ASSUME NEW done \in Seq(Nat), NEW n \in Nat
  PROVE  /\ Total(done) \in Int /\ Pairs(done) \in Int
         /\ Total(Append(done, n)) = Total(done) + n
         /\ Pairs(Append(done, n)) = Pairs(done) + (n * (n + 1)) \div 2
<1>1. PICK k, at : k = Len(done) /\ k \in Nat /\ at = Append(done, n)
  <2>1. Len(done) \in Nat
    OBVIOUS
  <2> QED
    BY <2>1
<1>2. /\ DOMAIN done = 1 .. k /\ DOMAIN at = 1 .. k + 1 /\ at[k + 1] = n
      /\ \A i \in 1 .. k : done[i] \in Nat /\ at[i] = done[i]
  BY <1>1
<1>3. /\ \A i \in 1 .. k : done[i] \in Int /\ at[i] = done[i]
      /\ at[k + 1] \in Int
  BY <1>2
<1>4. Total(done) \in Int
  BY <1>1, <1>2, <1>3, TotalIsNumber
<1>5. Total(at) = Total(done) + n
  <2>1. Total(at) = Total(done) + at[k + 1]
    BY <1>1, <1>2, <1>3, AppendedTotal
  <2> QED
    BY <1>2, <2>1
<1>6. PICK f, g : /\ f = [i \in DOMAIN done |-> (done[i] * (done[i] + 1)) \div 2]
                  /\ g = [i \in DOMAIN at |-> (at[i] * (at[i] + 1)) \div 2]
  OBVIOUS
<1>7. /\ DOMAIN f = 1 .. k /\ DOMAIN g = 1 .. k + 1
      /\ \A i \in 1 .. k : f[i] = (done[i] * (done[i] + 1)) \div 2 /\ g[i] = f[i]
      /\ g[k + 1] = (n * (n + 1)) \div 2
  BY <1>1, <1>2, <1>6
<1>8. /\ \A i \in 1 .. k : f[i] \in Int /\ g[i] = f[i]
      /\ g[k + 1] \in Int
  <2>1. ASSUME NEW i \in 1 .. k PROVE f[i] \in Int
    BY <1>2, <1>7, HalfProduct
  <2>2. g[k + 1] \in Int
    BY <1>7, HalfProduct
  <2> QED
    BY <1>7, <2>1, <2>2
<1>9. Total(f) \in Int
  BY <1>1, <1>7, <1>8, TotalIsNumber
<1>10. Total(g) = Total(f) + g[k + 1]
  BY <1>1, <1>7, <1>8, AppendedTotal
<1>11. Pairs(done) = Total(f) /\ Pairs(at) = Total(g)
  BY <1>6 DEF Pairs
<1> QED
  BY <1>1, <1>4, <1>5, <1>7, <1>9, <1>10, <1>11

-----------------------------------------------------------------------------
(* What the exporter writes.                                                *)

\* The numbers of a config; all heads together have dim.
LEMMA ConfigNumbers ==
  ASSUME NEW c \in Configs, c.dim % c.n_heads = 0
  PROVE  /\ {c.dim, c.hidden_dim, c.n_layers, c.n_heads, c.n_kv_heads} \subseteq Nat
         /\ HeadSize(c) \in Nat /\ c.n_heads * HeadSize(c) = c.dim
         /\ KvDim(c) = c.n_kv_heads * HeadSize(c) /\ KvDim(c) \in Nat
<1>1. PICK dim, n, kv \in Nat : dim = c.dim /\ n = c.n_heads /\ kv = c.n_kv_heads /\ n > 0
  BY DEF Configs
<1>2. dim % n = 0
  BY <1>1
<1>3. PICK size \in Nat : size = dim \div n /\ dim = n * size
  BY <1>1, <1>2
<1>4. dim * kv = n * (size * kv)
  BY <1>1, <1>3
<1>5. (n * (size * kv)) \div n = size * kv
  <2>1. PICK x \in Nat : x = size * kv
    OBVIOUS
  <2>2. (n * x) \div n = x
    BY <1>1
  <2> QED
    BY <2>1, <2>2
<1>6. size * kv = kv * size /\ kv * size \in Nat
  OBVIOUS
<1>7. HeadSize(c) = size /\ KvDim(c) = (dim * kv) \div n
  BY <1>1, <1>3 DEF HeadSize, KvDim
<1>8. {c.dim, c.hidden_dim, c.n_layers, c.n_heads, c.n_kv_heads} \subseteq Nat
  BY DEF Configs
<1> QED
  BY <1>1, <1>3, <1>4, <1>5, <1>6, <1>7, <1>8

\* The sections of a file, in their order, and the sizes of the matrices.
IsExport(f, shared, n, dim, hidden_dim, kv_rows) ==
  /\ DOMAIN f = 1 .. IF shared THEN 16 ELSE 17
  /\ f[1][1] = "tok_embeddings" /\ f[2][1] = "attention_norm"
  /\ f[3] = <<"wq", n * (dim * dim)>> /\ f[4][1] = "bq"
  /\ f[5] = <<"wk", n * (kv_rows * dim)>> /\ f[6][1] = "bk"
  /\ f[7] = <<"wv", n * (kv_rows * dim)>> /\ f[8][1] = "bv"
  /\ f[9] = <<"wo", n * (dim * dim)>> /\ f[10][1] = "ffn_norm"
  /\ f[11] = <<"w1", n * (hidden_dim * dim)>>
  /\ f[12] = <<"w2", n * (dim * hidden_dim)>>
  /\ f[13] = <<"w3", n * (hidden_dim * dim)>>
  /\ f[14][1] = "norm" /\ f[15][1] = "freqs_cos" /\ f[16][1] = "freqs_sin"
  /\ ~shared => f[17][1] = "output"

\* What legacy_export writes, and where.
LEMMA Sections ==
  ASSUME NEW c, NEW shared \in BOOLEAN
  PROVE  IsExport(legacy_export(c, shared), shared, c.n_layers, c.dim, c.hidden_dim,
                  c.n_kv_heads * HeadSize(c))
<1> DEFINE kv_rows == c.n_kv_heads * HeadSize(c)
           freqs == c.seq_len * (HeadSize(c) \div 2)
           names == <<"attention_norm", "wq", "bq", "wk", "bk", "wv", "bv", "wo", "ffn_norm",
                      "w1", "w2", "w3">>
           sizes == <<c.dim, c.dim * c.dim, c.dim, kv_rows * c.dim, kv_rows, kv_rows * c.dim,
                      kv_rows, c.dim * c.dim, c.dim, c.hidden_dim * c.dim,
                          c.dim * c.hidden_dim,
                      c.hidden_dim * c.dim>>
<1>1. PICK s1, s2, s3, s4 :
        /\ s1 = <<<<"tok_embeddings", c.vocab_size * c.dim>>>>
        /\ s2 = PerLayer(c, names, sizes)
        /\ s3 = <<<<"norm", c.dim>>, <<"freqs_cos", freqs>>, <<"freqs_sin", freqs>>>>
        /\ s4 = IF shared THEN <<>> ELSE <<<<"output", c.vocab_size * c.dim>>>>
  OBVIOUS
<1>2. legacy_export(c, shared) = ((s1 \o s2) \o s3) \o s4
  BY <1>1 DEF legacy_export
<1>3. /\ DOMAIN s2 = 1 .. 12 /\ s2[1][1] = "attention_norm"
      /\ s2[2] = <<"wq", c.n_layers * (c.dim * c.dim)>> /\ s2[3][1] = "bq"
      /\ s2[4] = <<"wk", c.n_layers * (kv_rows * c.dim)>> /\ s2[5][1] = "bk"
      /\ s2[6] = <<"wv", c.n_layers * (kv_rows * c.dim)>> /\ s2[7][1] = "bv"
      /\ s2[8] = <<"wo", c.n_layers * (c.dim * c.dim)>> /\ s2[9][1] = "ffn_norm"
      /\ s2[10] = <<"w1", c.n_layers * (c.hidden_dim * c.dim)>>
      /\ s2[11] = <<"w2", c.n_layers * (c.dim * c.hidden_dim)>>
      /\ s2[12] = <<"w3", c.n_layers * (c.hidden_dim * c.dim)>>
      /\ s2 = [i \in 1 .. 12 |-> s2[i]]
  <2> HIDE DEF kv_rows
  <2> QED
    BY <1>1 DEF PerLayer
<1> HIDE DEF names, sizes, kv_rows, freqs
<1>5. IsList(s1, 1) /\ s1[1][1] = "tok_embeddings"
  BY <1>1 DEF IsList
<1>6. IsList(s2, 12)
  BY <1>3 DEF IsList
<1>7. IsList(s3, 3) /\ s3[1][1] = "norm" /\ s3[2][1] = "freqs_cos" /\ s3[3][1] = "freqs_sin"
  BY <1>1 DEF IsList
<1>8. PICK k \in Nat : /\ k = (IF shared THEN 0 ELSE 1) /\ IsList(s4, k)
                       /\ ~shared => s4[1][1] = "output"
  <2>1. CASE shared
    <3>1. IsList(s4, 0)
      BY <1>1, <2>1 DEF IsList
    <3> QED
      BY <2>1, <3>1
  <2>2. CASE ~shared
    <3>1. IsList(s4, 1) /\ s4[1][1] = "output"
      BY <1>1, <2>2 DEF IsList
    <3> QED
      BY <2>2, <3>1
  <2> QED
    BY <2>1, <2>2
<1>9. PICK a : a = s1 \o s2
  OBVIOUS
<1>10. IsList(a, 13) /\ a[1] = s1[1] /\ \A i \in 1 .. 12 : a[1 + i] = s2[i]
  <2>1. IsJoined(a, s1, 1, s2, 12)
    BY <1>5, <1>6, <1>9, JoinedLists
  <2> QED
    BY <2>1 DEF IsJoined
<1>11. PICK b : b = a \o s3
  OBVIOUS
<1>12. IsList(b, 16) /\ (\A i \in 1 .. 13 : b[i] = a[i]) /\ \A i \in 1 .. 3 : b[13 + i] = s3[i]
  <2>1. IsJoined(b, a, 13, s3, 3)
    BY <1>7, <1>10, <1>11, JoinedLists
  <2> QED
    BY <2>1 DEF IsJoined
<1>13. PICK f : f = b \o s4
  OBVIOUS
<1>14. IsList(f, 16 + k) /\ (\A i \in 1 .. 16 : f[i] = b[i])
         /\ \A i \in 1 .. k : f[16 + i] = s4[i]
  <2>1. IsJoined(f, b, 16, s4, k)
    BY <1>8, <1>12, <1>13, JoinedLists
  <2> QED
    BY <2>1 DEF IsJoined
<1>15. /\ f[2] = s2[1] /\ f[3] = s2[2] /\ f[4] = s2[3] /\ f[5] = s2[4] /\ f[6] = s2[5]
            /\ f[7] = s2[6]
       /\ f[8] = s2[7] /\ f[9] = s2[8] /\ f[10] = s2[9] /\ f[11] = s2[10] /\ f[12] = s2[11]
       /\ f[13] = s2[12]
  <2>1. /\ a[1 + 1] = s2[1] /\ a[1 + 2] = s2[2] /\ a[1 + 3] = s2[3] /\ a[1 + 4] = s2[4]
        /\ a[1 + 5] = s2[5] /\ a[1 + 6] = s2[6] /\ a[1 + 7] = s2[7] /\ a[1 + 8] = s2[8]
        /\ a[1 + 9] = s2[9] /\ a[1 + 10] = s2[10] /\ a[1 + 11] = s2[11] /\ a[1 + 12] = s2[12]
    BY <1>10
  <2>2. \A i \in 1 .. 13 : f[i] = a[i]
    BY <1>12, <1>14
  <2> QED
    BY <2>1, <2>2
<1>16. f[1] = s1[1] /\ f[14] = s3[1] /\ f[15] = s3[2] /\ f[16] = s3[3]
  <2>1. f[1] = b[1] /\ b[1] = a[1] /\ f[14] = b[14] /\ f[15] = b[15] /\ f[16] = b[16]
    BY <1>12, <1>14
  <2>2. b[13 + 1] = s3[1] /\ b[13 + 2] = s3[2] /\ b[13 + 3] = s3[3]
    BY <1>12
  <2> QED
    BY <1>10, <2>1, <2>2
<1>17. ~shared => f[17] = s4[1]
  <2>1. ~shared => f[16 + 1] = s4[1]
    BY <1>8, <1>14
  <2> QED
    BY <2>1
<1>18. DOMAIN f = 1 .. IF shared THEN 16 ELSE 17
  BY <1>8, <1>14 DEF IsList
<1>19. f = legacy_export(c, shared)
  BY <1>2, <1>9, <1>11, <1>13
<1>20. c.n_kv_heads * HeadSize(c) = kv_rows
  BY DEF kv_rows
<1>21. IsExport(f, shared, c.n_layers, c.dim, c.hidden_dim, kv_rows)
  BY <1>3, <1>5, <1>7, <1>8, <1>15, <1>16, <1>17, <1>18 DEF IsExport
<1> QED
  BY <1>19, <1>20, <1>21

\* Totals of functions that are 0 but at one place, or at three.
LEMMA TotalOfOne ==
  ASSUME NEW n \in Nat, NEW h, DOMAIN h = 1 .. n, NEW a \in 1 .. n, h[a] \in Int,
         \A i \in 1 .. n : i # a => h[i] = 0
  PROVE  Total(h) = h[a]
<1>1. PICK S : S = 1 .. n
  OBVIOUS
<1>2. IsFiniteSet(S)
  BY <1>1, FS_Interval
<1>3. \A i \in S : h[i] \in Int
  BY <1>1
<1>4. SumOver(h, S) = h[a] + SumOver(h, S \ {a})
  BY <1>1, <1>2, <1>3, SumWithout
<1>5. SumOver(h, S \ {a}) = 0
  <2>1. IsFiniteSet(S \ {a}) /\ \A i \in S \ {a} : h[i] = 0
    BY <1>1, <1>2, FS_Subset
  <2> QED
    BY <2>1, SumOfNothing
<1> QED
  BY <1>1, <1>4, <1>5 DEF Total, SumOver

\* h is 0 but at these places.
ZeroBut(h, n, places) == \A i \in 1 .. n : i \notin places => h[i] = 0

NumbersIn(h, S) == \A i \in S : h[i] \in Int

LEMMA SumOfRest ==
  ASSUME NEW h, NEW S, IsFiniteSet(S), NumbersIn(h, S), NEW a \in S, NEW T, T = S \ {a}
  PROVE  SumOver(h, S) = h[a] + SumOver(h, T)
BY SumWithout DEF NumbersIn

LEMMA TotalOfThree ==
  ASSUME NEW n \in Nat, NEW h, DOMAIN h = 1 .. n,
         NEW a \in 1 .. n, NEW b \in 1 .. n, NEW c \in 1 .. n, a # b, a # c, b # c,
         h[a] \in Int, h[b] \in Int, h[c] \in Int,
         ZeroBut(h, n, {a, b, c})
  PROVE  Total(h) = h[a] + h[b] + h[c]
<1>1. PICK S, T, U, V : S = 1 .. n /\ T = S \ {a} /\ U = T \ {b} /\ V = U \ {c}
  OBVIOUS
<1>2. IsFiniteSet(S) /\ IsFiniteSet(T) /\ IsFiniteSet(U) /\ IsFiniteSet(V)
  <2>1. IsFiniteSet(S)
    BY <1>1, FS_Interval
  <2>2. T \subseteq S /\ U \subseteq S /\ V \subseteq S
    BY <1>1
  <2> QED
    BY <2>1, <2>2, FS_Subset
<1>3. NumbersIn(h, S) /\ NumbersIn(h, T) /\ NumbersIn(h, U)
  BY <1>1 DEF ZeroBut, NumbersIn
<1>4. a \in S /\ b \in T /\ c \in U
  BY <1>1
<1>5. SumOver(h, S) = h[a] + SumOver(h, T)
  BY <1>1, <1>2, <1>3, <1>4, SumOfRest
<1>6. SumOver(h, T) = h[b] + SumOver(h, U)
  BY <1>1, <1>2, <1>3, <1>4, SumOfRest
<1>7. SumOver(h, U) = h[c] + SumOver(h, V)
  BY <1>1, <1>2, <1>3, <1>4, SumOfRest
<1>8. SumOver(h, V) = 0
  <2>1. \A i \in V : h[i] = 0
    BY <1>1 DEF ZeroBut
  <2> QED
    BY <1>2, <2>1, SumOfNothing
<1>9. Total(h) = SumOver(h, S)
  BY <1>1 DEF Total, SumOver
<1> QED
  BY <1>5, <1>6, <1>7, <1>8, <1>9

\* What the exporter's matrices have, for one layer.
QkvFloats(c) == c.dim * c.dim + 2 * c.dim * KvDim(c)

\* h is the size of the sections of these names and 0 for all others.
Picks(h, f, n, names) == \A i \in 1 .. n : h[i] = IF f[i][1] \in names THEN f[i][2] ELSE 0

LEMMA Picked ==
  ASSUME NEW h, NEW f, NEW n, NEW names, Picks(h, f, n, names), NEW i \in 1 .. n
  PROVE  /\ f[i][1] \in names => h[i] = f[i][2]
         /\ f[i][1] \notin names => h[i] = 0
BY DEF Picks

\* The matrices as the exporter sizes them are those the programs multiply with.
LEMMA MatrixFloats ==
  ASSUME process.config \in Configs, process.config.dim % process.config.n_heads = 0,
         process.shared \in BOOLEAN
  PROVE  /\ Floats({"wq", "wk", "wv"}) = process.config.n_layers * QkvFloats(process.config)
         /\ Floats({"wo"})
              = process.config.n_layers * (process.config.dim * process.config.dim)
         /\ Floats({"w1", "w2", "w3"}) =
              process.config.n_layers * (3 * process.config.dim * process.config.hidden_dim)
<1>1. PICK c, shared : c = process.config /\ shared = process.shared
  OBVIOUS
<1>2. PICK N, D, F, KV \in Nat :
        /\ N = c.n_layers /\ D = c.dim /\ F = c.hidden_dim /\ KV = KvDim(c)
        /\ KV = c.n_kv_heads * HeadSize(c)
  BY <1>1, ConfigNumbers
<1>3. PICK f : f = legacy_export(c, shared) /\ IsExport(f, shared, N, D, F, KV)
  BY <1>1, <1>2, Sections
<1>4. PICK n \in Nat : DOMAIN f = 1 .. n /\ n >= 16 /\ n <= 17
             /\ (n = 17 => f[17][1] = "output")
  <2>1. CASE shared
    <3>1. DOMAIN f = 1 .. 16
      BY <1>3, <2>1 DEF IsExport
    <3> QED
      BY <3>1
  <2>2. CASE ~shared
    BY <1>3, <2>2 DEF IsExport
  <2> QED
    BY <2>1, <2>2
<1>5. /\ f[1][1] = "tok_embeddings" /\ f[2][1] = "attention_norm" /\ f[3][1] = "wq"
           /\ f[4][1] = "bq"
      /\ f[5][1] = "wk" /\ f[6][1] = "bk" /\ f[7][1] = "wv" /\ f[8][1] = "bv" /\ f[9][1] = "wo"
      /\ f[10][1] = "ffn_norm" /\ f[11][1] = "w1" /\ f[12][1] = "w2" /\ f[13][1] = "w3"
      /\ f[14][1] = "norm" /\ f[15][1] = "freqs_cos" /\ f[16][1] = "freqs_sin"
  BY <1>3 DEF IsExport
<1>6. PICK DD, DK, DF \in Nat : DD = D * D /\ DK = KV * D /\ DF = F * D
  OBVIOUS
<1>7. D * F = DF /\ 3 * D * F = DF + DF + DF /\ QkvFloats(c) = DD + DK + DK
  <2>1. D * F = F * D /\ D * KV = KV * D
    OBVIOUS
  <2>2. 2 * D * KV = DK + DK /\ 3 * D * F = DF + DF + DF
    BY <1>6, <2>1
  <2> QED
    BY <1>2, <1>6, <2>1, <2>2 DEF QkvFloats
<1>8. PICK x, y, z \in Nat : x = N * DD /\ y = N * DK /\ z = N * DF
  <2>1. ASSUME NEW k \in Nat PROVE N * k \in Nat
    BY <1>2
  <2> QED
    BY <1>6, <2>1
<1>9. /\ f[3][2] = x /\ f[5][2] = y /\ f[7][2] = y /\ f[9][2] = x
      /\ f[11][2] = z /\ f[12][2] = z /\ f[13][2] = z
  BY <1>3, <1>6, <1>7, <1>8 DEF IsExport
<1>10. ASSUME NEW names
       PROVE  \E h : Floats(names) = Total(h) /\ DOMAIN h = 1 .. n /\ Picks(h, f, n, names)
  <2>1. PICK h : h = [i \in DOMAIN f |-> IF f[i][1] \in names THEN f[i][2] ELSE 0]
    OBVIOUS
  <2>2. Floats(names) = Total(h)
    BY <1>1, <1>3, <2>1 DEF Floats
  <2>3. DOMAIN h = 1 .. n /\ Picks(h, f, n, names)
    BY <1>4, <2>1 DEF Picks
  <2> QED
    BY <2>2, <2>3
<1>11. ASSUME NEW i \in 1 .. n PROVE i = 17 \/ i \in 1 .. 16
  BY <1>4
<1>12. Floats({"wq", "wk", "wv"}) = N * (DD + DK + DK)
  <2>1. PICK W : W = {"wq", "wk", "wv"}
    OBVIOUS
  <2>2. PICK h : Floats(W) = Total(h) /\ DOMAIN h = 1 .. n /\ Picks(h, f, n, W)
    BY <1>10
  <2>3. f[3][1] \in W /\ f[5][1] \in W /\ f[7][1] \in W
    BY <1>5, <2>1
  <2>4. h[3] = x /\ h[5] = y /\ h[7] = y
    <3>1. 3 \in 1 .. n /\ 5 \in 1 .. n /\ 7 \in 1 .. n
      BY <1>4
    <3>2. h[3] = f[3][2]
      BY <2>2, <2>3, <3>1, Picked
    <3>3. h[5] = f[5][2]
      BY <2>2, <2>3, <3>1, Picked
    <3>4. h[7] = f[7][2]
      BY <2>2, <2>3, <3>1, Picked
    <3> QED
      BY <1>9, <3>2, <3>3, <3>4
  <2>5. /\ f[1][1] \notin W /\ f[2][1] \notin W /\ f[4][1] \notin W /\ f[6][1] \notin W
        /\ f[8][1] \notin W /\ f[9][1] \notin W /\ f[10][1] \notin W /\ f[11][1] \notin W
        /\ f[12][1] \notin W /\ f[13][1] \notin W /\ f[14][1] \notin W /\ f[15][1] \notin W
        /\ f[16][1] \notin W
    BY <1>5, <2>1
  <2>6. ASSUME NEW i \in 1 .. n, i \notin {3, 5, 7} PROVE h[i] = 0
    <3>1. f[i][1] \notin W
      <4>1. CASE i = 17
        <5>1. n = 17
          BY <1>4, <4>1
        <5> QED
          BY <1>4, <2>1, <4>1, <5>1
      <4>2. CASE i \in 1 .. 16
        BY <2>5, <2>6, <4>2
      <4> QED
        BY <1>11, <4>1, <4>2
    <3> QED
      BY <2>2, <3>1, Picked
  <2>7. Total(h) = h[3] + h[5] + h[7]
    <3>1. PICK i, j, k \in 1 .. n : i = 3 /\ j = 5 /\ k = 7
      BY <1>4
    <3>2. i # j /\ i # k /\ j # k /\ h[i] \in Int /\ h[j] \in Int /\ h[k] \in Int
      BY <1>8, <2>4, <3>1
    <3>3. ZeroBut(h, n, {i, j, k})
      BY <2>6, <3>1 DEF ZeroBut
    <3>4. Total(h) = h[i] + h[j] + h[k]
      BY <1>4, <2>2, <3>1, <3>2, <3>3, TotalOfThree
    <3> QED
      BY <3>1, <3>4
  <2>8. N * (DD + DK + DK) = x + y + y
    BY <1>2, <1>6, <1>8
  <2> QED
    BY <2>1, <2>2, <2>4, <2>7, <2>8
<1>13. Floats({"wo"}) = N * DD
  <2>1. PICK W : W = {"wo"}
    OBVIOUS
  <2>2. PICK h : Floats(W) = Total(h) /\ DOMAIN h = 1 .. n /\ Picks(h, f, n, W)
    BY <1>10
  <2>3. f[9][1] \in W
    BY <1>5, <2>1
  <2>4. h[9] = x
    <3>1. 9 \in 1 .. n
      BY <1>4
    <3>2. h[9] = f[9][2]
      BY <2>2, <2>3, <3>1, Picked
    <3> QED
      BY <1>9, <3>2
  <2>5. /\ f[1][1] \notin W /\ f[2][1] \notin W /\ f[3][1] \notin W /\ f[4][1] \notin W
        /\ f[5][1] \notin W /\ f[6][1] \notin W /\ f[7][1] \notin W /\ f[8][1] \notin W
        /\ f[10][1] \notin W /\ f[11][1] \notin W /\ f[12][1] \notin W /\ f[13][1] \notin W
        /\ f[14][1] \notin W /\ f[15][1] \notin W /\ f[16][1] \notin W
    BY <1>5, <2>1
  <2>6. ASSUME NEW i \in 1 .. n, i \notin {9} PROVE h[i] = 0
    <3>1. f[i][1] \notin W
      <4>1. CASE i = 17
        <5>1. n = 17
          BY <1>4, <4>1
        <5> QED
          BY <1>4, <2>1, <4>1, <5>1
      <4>2. CASE i \in 1 .. 16
        BY <2>5, <2>6, <4>2
      <4> QED
        BY <1>11, <4>1, <4>2
    <3> QED
      BY <2>2, <3>1, Picked
  <2>7. Total(h) = h[9]
    <3>1. 9 \in 1 .. n /\ h[9] \in Int
      BY <1>4, <1>8, <2>4
    <3>2. \A i \in 1 .. n : i # 9 => h[i] = 0
      BY <2>6
    <3> QED
      BY <1>4, <2>2, <3>1, <3>2, TotalOfOne
  <2> QED
    BY <1>8, <2>1, <2>2, <2>4, <2>7
<1>14. Floats({"w1", "w2", "w3"}) = N * (DF + DF + DF)
  <2>1. PICK W : W = {"w1", "w2", "w3"}
    OBVIOUS
  <2>2. PICK h : Floats(W) = Total(h) /\ DOMAIN h = 1 .. n /\ Picks(h, f, n, W)
    BY <1>10
  <2>3. f[11][1] \in W /\ f[12][1] \in W /\ f[13][1] \in W
    BY <1>5, <2>1
  <2>4. h[11] = z /\ h[12] = z /\ h[13] = z
    <3>1. 11 \in 1 .. n /\ 12 \in 1 .. n /\ 13 \in 1 .. n
      BY <1>4
    <3>2. h[11] = f[11][2]
      BY <2>2, <2>3, <3>1, Picked
    <3>3. h[12] = f[12][2]
      BY <2>2, <2>3, <3>1, Picked
    <3>4. h[13] = f[13][2]
      BY <2>2, <2>3, <3>1, Picked
    <3> QED
      BY <1>9, <3>2, <3>3, <3>4
  <2>5. /\ f[1][1] \notin W /\ f[2][1] \notin W /\ f[3][1] \notin W /\ f[4][1] \notin W
        /\ f[5][1] \notin W /\ f[6][1] \notin W /\ f[7][1] \notin W /\ f[8][1] \notin W
        /\ f[9][1] \notin W /\ f[10][1] \notin W /\ f[14][1] \notin W /\ f[15][1] \notin W
        /\ f[16][1] \notin W
    BY <1>5, <2>1
  <2>6. ASSUME NEW i \in 1 .. n, i \notin {11, 12, 13} PROVE h[i] = 0
    <3>1. f[i][1] \notin W
      <4>1. CASE i = 17
        <5>1. n = 17
          BY <1>4, <4>1
        <5> QED
          BY <1>4, <2>1, <4>1, <5>1
      <4>2. CASE i \in 1 .. 16
        BY <2>5, <2>6, <4>2
      <4> QED
        BY <1>11, <4>1, <4>2
    <3> QED
      BY <2>2, <3>1, Picked
  <2>7. Total(h) = h[11] + h[12] + h[13]
    <3>1. PICK i, j, k \in 1 .. n : i = 11 /\ j = 12 /\ k = 13
      BY <1>4
    <3>2. i # j /\ i # k /\ j # k /\ h[i] \in Int /\ h[j] \in Int /\ h[k] \in Int
      BY <1>8, <2>4, <3>1
    <3>3. ZeroBut(h, n, {i, j, k})
      BY <2>6, <3>1 DEF ZeroBut
    <3>4. Total(h) = h[i] + h[j] + h[k]
      BY <1>4, <2>2, <3>1, <3>2, <3>3, TotalOfThree
    <3> QED
      BY <3>1, <3>4
  <2>8. N * (DF + DF + DF) = z + z + z
    BY <1>2, <1>6, <1>8
  <2> QED
    BY <2>1, <2>2, <2>4, <2>7, <2>8
<1> QED
  BY <1>1, <1>2, <1>6, <1>7, <1>12, <1>13, <1>14

-----------------------------------------------------------------------------
(* Random choices.                                                          *)

\* PromptOf and RandomChoices of a process.
PromptIn(pr, i) ==
  IF pr.entry = "run_without_encode_decode" THEN pr.calls[i].tokens
  ELSE promote_to_token(pr.calls[i].user, SystemPrompt)

ChoicesIn(pr, i, n) ==
  IF pr.calls[i].mode = "greedy" THEN 0 ELSE Larger(0, n - Len(PromptIn(pr, i)) + 1)

ChoicesOf(pr, positions) == Total([i \in DOMAIN positions |-> ChoicesIn(pr, i, positions[i])])

\* A prompt is never empty, whatever the text.
LEMMA PromptHasTokens ==
  ASSUME NEW pr \in Processes, NEW i \in DOMAIN pr.calls
  PROVE  Len(PromptIn(pr, i)) \in Nat /\ Len(PromptIn(pr, i)) >= 1
<1>1. IF pr.entry = "run_without_encode_decode"
      THEN pr.calls[i].tokens \in Seq(Tokens) \ {<<>>} ELSE pr.calls[i].user \in Seq(Nat)
  BY ProcessAssumption
<1>2. CASE pr.entry = "run_without_encode_decode"
  <2>1. PICK t : t = pr.calls[i].tokens /\ t \in Seq(Tokens) /\ t # <<>>
    BY <1>1, <1>2
  <2>2. Len(t) \in Nat \ {0}
    BY <2>1, EmptySeq
  <2>3. PromptIn(pr, i) = t
    BY <1>2, <2>1 DEF PromptIn
  <2> QED
    BY <2>2, <2>3
<1>3. CASE pr.entry # "run_without_encode_decode"
  <2>1. PICK u \in Seq(Nat) : u = pr.calls[i].user
    BY <1>1, <1>3
  <2>2. PICK t : t = promote_to_token(u, SystemPrompt) /\ t \in Seq(Int) /\ Len(t) >= 1
    BY PromptTokens
  <2>3. PromptIn(pr, i) = t
    BY <1>3, <2>1, <2>2 DEF PromptIn
  <2>4. Len(t) \in Nat
    BY <2>2
  <2> QED
    BY <2>2, <2>3, <2>4
<1> QED
  BY <1>2, <1>3

\* A position more is a random choice more, once the prompt is over.
LEMMA ChoiceNumbers ==
  ASSUME NEW pr \in Processes, NEW i \in DOMAIN pr.calls, NEW n \in Nat
  PROVE  /\ ChoicesIn(pr, i, n) \in Nat /\ ChoicesIn(pr, i, 0) = 0
         /\ ChoicesIn(pr, i, n + 1) =
              ChoicesIn(pr, i, n) + IF n >= Len(PromptIn(pr, i)) - 1
                /\ pr.calls[i].mode # "greedy"
                                    THEN 1 ELSE 0
<1>1. PICK k \in Nat : k = Len(PromptIn(pr, i)) /\ k >= 1
  BY PromptHasTokens
<1>2. CASE pr.calls[i].mode = "greedy"
  BY <1>2 DEF ChoicesIn
<1>3. CASE pr.calls[i].mode # "greedy"
  <2>1. /\ ChoicesIn(pr, i, n) = Larger(0, n - k + 1)
             /\ ChoicesIn(pr, i, 0) = Larger(0, 0 - k + 1)
        /\ ChoicesIn(pr, i, n + 1) = Larger(0, n + 1 - k + 1)
    BY <1>1, <1>3 DEF ChoicesIn
  <2>2. /\ Larger(0, n - k + 1) \in Nat /\ Larger(0, 0 - k + 1) = 0
        /\ Larger(0, n + 1 - k + 1) = Larger(0, n - k + 1) + IF n >= k - 1 THEN 1 ELSE 0
    <3>1. CASE n >= k - 1
      <4>1. /\ Larger(0, n - k + 1) = n - k + 1 /\ Larger(0, 0 - k + 1) = 0
            /\ Larger(0, n + 1 - k + 1) = n + 1 - k + 1
        BY <1>1, <3>1 DEF Larger
      <4> QED
        BY <1>1, <3>1, <4>1
    <3>2. CASE ~(n >= k - 1)
      <4>1. /\ Larger(0, n - k + 1) = 0 /\ Larger(0, 0 - k + 1) = 0
            /\ Larger(0, n + 1 - k + 1) = 0
        BY <1>1, <3>2 DEF Larger
      <4> QED
        BY <3>2, <4>1
    <3> QED
      BY <3>1, <3>2
  <2> QED
    BY <1>1, <1>3, <2>1, <2>2
<1> QED
  BY <1>2, <1>3

LEMMA AppendedChoices ==
  ASSUME NEW pr \in Processes, NEW done \in Seq(Nat), NEW k \in Nat, Len(done) = k,
         NEW n \in Nat, k + 1 \in DOMAIN pr.calls, 1 .. k \subseteq DOMAIN pr.calls
  PROVE  /\ ChoicesOf(pr, done) \in Int
         /\ ChoicesOf(pr, Append(done, n)) = ChoicesOf(pr, done) + ChoicesIn(pr, k + 1, n)
<1>1. PICK at, f, g : /\ at = Append(done, n)
                      /\ f = [i \in DOMAIN done |-> ChoicesIn(pr, i, done[i])]
                      /\ g = [i \in DOMAIN at |-> ChoicesIn(pr, i, at[i])]
  OBVIOUS
<1>2. /\ DOMAIN done = 1 .. k /\ DOMAIN at = 1 .. k + 1 /\ at[k + 1] = n
      /\ \A i \in 1 .. k : done[i] \in Nat /\ at[i] = done[i]
  BY <1>1
<1>3. /\ DOMAIN f = 1 .. k /\ DOMAIN g = 1 .. k + 1
      /\ \A i \in 1 .. k : f[i] = ChoicesIn(pr, i, done[i]) /\ g[i] = f[i]
      /\ g[k + 1] = ChoicesIn(pr, k + 1, n)
  BY <1>1, <1>2
<1>4. /\ \A i \in 1 .. k : f[i] \in Int
      /\ g[k + 1] \in Int
  <2>1. ASSUME NEW i \in 1 .. k PROVE f[i] \in Int
    <3>1. i \in DOMAIN pr.calls /\ done[i] \in Nat
      BY <1>2
    <3>2. ChoicesIn(pr, i, done[i]) \in Nat
      BY <3>1, ChoiceNumbers
    <3> QED
      BY <1>3, <3>2
  <2>2. ChoicesIn(pr, k + 1, n) \in Nat
    BY ChoiceNumbers
  <2> QED
    BY <1>3, <2>1, <2>2
<1>5. Total(f) \in Int
  BY <1>3, <1>4, TotalIsNumber
<1>6. \A i \in 1 .. k : f[i] \in Int /\ g[i] = f[i]
  BY <1>3, <1>4
<1>7. Total(g) = Total(f) + g[k + 1]
  BY <1>3, <1>4, <1>6, AppendedTotal
<1>8. ChoicesOf(pr, done) = Total(f) /\ ChoicesOf(pr, at) = Total(g)
  BY <1>1 DEF ChoicesOf
<1> QED
  BY <1>1, <1>3, <1>5, <1>7, <1>8

-----------------------------------------------------------------------------
(* What the counters are to hold in the midst of a position.                *)

\* After so many layers entered and left, and so many positions looked at.
Worked(c, entered, left, seen) ==
  [qkv |-> entered * QkvFloats(c), attn |-> seen * (2 * c.dim),
   o |-> left * (c.dim * c.dim), ffn |-> left * (3 * c.dim * c.hidden_dim)]

\* After so many layers entered and left, and so many positions ended.
Operations(entered, left, ended, softmaxes, dots, sums) ==
  [matmul |-> 3 * entered + 4 * left + ended, rmsnorm |-> entered + left + ended,
   softmax |-> softmaxes, attn_dot |-> dots, attn_v |-> sums]

\* run_fa counts no operation of the attention.
Share(pr, n) == IF pr.program = "run_fa" THEN 0 ELSE n

MacsAt(pr, positions) ==
  Worked(pr.config, Total(positions) * pr.config.n_layers,
      Total(positions) * pr.config.n_layers,
         Pairs(positions) * pr.config.n_layers)

CountsAt(pr, positions) ==
  LET N == pr.config.n_layers
      H == pr.config.n_heads
  IN  Operations(Total(positions) * N, Total(positions) * N, Total(positions),
                 Share(pr, (Total(positions) * N) * H) + ChoicesOf(pr, positions),
                 Share(pr, (Pairs(positions) * N) * H), Share(pr, (Pairs(positions) * N) * H))

IsMacs(r, q, a, o, f) == r = [qkv |-> q, attn |-> a, o |-> o, ffn |-> f]
QkvAdded(r, x) == [r EXCEPT !["qkv"] = @ + x]
LayerAdded(r, x, y, z) == [r EXCEPT !.attn = @ + x, !.o = @ + y, !.ffn = @ + z]

LEMMA RecordMore ==
  ASSUME NEW q \in Int, NEW a \in Int, NEW o \in Int, NEW f \in Int,
         NEW x \in Int, NEW y \in Int, NEW z \in Int,
         NEW r, IsMacs(r, q, a, o, f)
  PROVE  IsMacs(LayerAdded(r, x, y, z), q, a + x, o + y, f + z)
<1> USE DEF IsMacs, LayerAdded
<1>1. PICK u : u = [r EXCEPT !.attn = @ + x, !.o = @ + y, !.ffn = @ + z]
  OBVIOUS
<1>2. u.qkv = q /\ u.attn = a + x /\ u.o = o + y /\ u.ffn = f + z
  BY <1>1
<1>3. u = [qkv |-> u["qkv"], attn |-> u["attn"], o |-> u["o"], ffn |-> u["ffn"]]
  BY <1>1
<1> QED
  BY <1>1, <1>2, <1>3

\* A layer entered and left adds to the counters.
WorkAdds(c, entered, left, seen, m) ==
  /\ QkvAdded(Worked(c, entered, left, seen), c.dim * c.dim + 2 * c.dim * KvDim(c))
       = Worked(c, entered + 1, left, seen)
  /\ LayerAdded(Worked(c, entered, left, seen), 2 * c.n_heads * m * HeadSize(c), c.dim * c.dim,
                3 * c.dim * c.hidden_dim)
       = Worked(c, entered, left + 1, seen + m)

\* A layer entered, and a layer left: what is added to the multiplications.
LEMMA WorkedMore ==
  ASSUME NEW c \in Configs, c.dim % c.n_heads = 0,
         NEW entered \in Int, NEW left \in Int, NEW seen \in Int, NEW m \in Int
  PROVE  WorkAdds(c, entered, left, seen, m)
<1>1. PICK D, F, H, S, KV \in Nat :
        /\ D = c.dim /\ F = c.hidden_dim /\ H = c.n_heads /\ S = HeadSize(c) /\ KV = KvDim(c)
        /\ H * S = D
  BY ConfigNumbers
<1>2. PICK Q, DD, DF \in Nat : Q = D * D + 2 * D * KV /\ DD = D * D /\ DF = 3 * D * F
  OBVIOUS
<1>3. \A e, f, seq : Worked(c, e, f, seq)
        = [qkv |-> e * Q, attn |-> seq * (2 * D), o |-> f * DD, ffn |-> f * DF]
  BY <1>1, <1>2 DEF Worked, QkvFloats
<1>4. (entered + 1) * Q = entered * Q + Q /\ (left + 1) * DD = left * DD + DD
      /\ (left + 1) * DF = left * DF + DF
  OBVIOUS
<1>5. (seen + m) * (2 * D) = seen * (2 * D) + 2 * H * m * S
  <2>1. 2 * H * m * S = (H * S) * (2 * m)
    OBVIOUS
  <2>2. (seen + m) * (2 * D) = seen * (2 * D) + D * (2 * m)
    OBVIOUS
  <2> QED
    BY <1>1, <2>1, <2>2
<1>6. [[qkv |-> entered * Q, attn |-> seen * (2 * D), o |-> left * DD, ffn |-> left * DF]
         EXCEPT !["qkv"] = @ + Q]
        = [qkv |-> (entered + 1) * Q, attn |-> seen * (2 * D), o |-> left * DD,
            ffn |-> left * DF]
  BY <1>4
<1>7. PICK q, a, o, f, x \in Int : /\ q = entered * Q /\ a = seen * (2 * D) /\ o = left * DD
                                    /\ f = left * DF /\ x = 2 * H * m * S
  OBVIOUS
<1>8. c.dim * c.dim + 2 * c.dim * KvDim(c) = Q
  BY <1>1, <1>2
<1>9. c.dim * c.dim = DD /\ 3 * c.dim * c.hidden_dim = DF
  BY <1>1, <1>2
<1>10. 2 * c.n_heads * m * HeadSize(c) = 2 * H * m * S
  BY <1>1
<1>11. QkvAdded(Worked(c, entered, left, seen), c.dim * c.dim + 2 * c.dim * KvDim(c))
         = Worked(c, entered + 1, left, seen)
  BY <1>3, <1>6, <1>8 DEF QkvAdded
<1>12. LayerAdded(Worked(c, entered, left, seen), 2 * c.n_heads * m * HeadSize(c),
           c.dim * c.dim,
                  3 * c.dim * c.hidden_dim)
         = Worked(c, entered, left + 1, seen + m)
  <2>1. PICK r : r = Worked(c, entered, left, seen)
    OBVIOUS
  <2>2. r = [qkv |-> q, attn |-> a, o |-> o, ffn |-> f]
    BY <1>3, <1>7, <2>1
  <2>3. /\ (left + 1) * DD = o + DD /\ (left + 1) * DF = f + DF
        /\ (seen + m) * (2 * D) = a + x
    BY <1>4, <1>5, <1>7
  <2>4. Worked(c, entered, left + 1, seen + m)
          = [qkv |-> entered * Q, attn |-> (seen + m) * (2 * D), o |-> (left + 1) * DD,
              ffn |-> (left + 1) * DF]
    BY <1>3
  <2>5. Worked(c, entered, left + 1, seen + m)
          = [qkv |-> q, attn |-> a + x, o |-> o + DD, ffn |-> f + DF]
    BY <1>7, <2>3, <2>4
  <2>6. LayerAdded(r, x, DD, DF) = [qkv |-> q, attn |-> a + x, o |-> o + DD, ffn |-> f + DF]
    <3>1. IsMacs(r, q, a, o, f)
      BY <2>2 DEF IsMacs
    <3>2. IsMacs(LayerAdded(r, x, DD, DF), q, a + x, o + DD, f + DF)
      BY <1>7, <3>1, RecordMore
    <3> QED
      BY <3>2 DEF IsMacs
  <2>7. 2 * c.n_heads * m * HeadSize(c) = x
    BY <1>7, <1>10
  <2> QED
    BY <1>9, <2>1, <2>5, <2>6, <2>7
<1> QED
  BY <1>11, <1>12 DEF WorkAdds

\* Additions to the counts.
IsCounts(r, a, b, c, d, e) ==
  r = [matmul |-> a, rmsnorm |-> b, softmax |-> c, attn_dot |-> d, attn_v |-> e]
MatmulsAdded(r, x, y) == [r EXCEPT !.matmul = @ + x, !.rmsnorm = @ + y]
SoftmaxesAdded(r, x) == [r EXCEPT !.softmax = @ + x]
DotsAdded(r, x) == [r EXCEPT !.attn_dot = @ + x]
SumsAdded(r, x, y) == [r EXCEPT !.softmax = @ + x, !.attn_v = @ + y]

LEMMA CountsMore ==
  ASSUME NEW a \in Int, NEW b \in Int, NEW c \in Int, NEW d \in Int, NEW e \in Int,
         NEW x \in Int, NEW y \in Int, NEW r, IsCounts(r, a, b, c, d, e)
  PROVE  /\ IsCounts(MatmulsAdded(r, x, y), a + x, b + y, c, d, e)
         /\ IsCounts(SoftmaxesAdded(r, x), a, b, c + x, d, e)
         /\ IsCounts(DotsAdded(r, x), a, b, c, d + x, e)
         /\ IsCounts(SumsAdded(r, x, y), a, b, c + x, d, e + y)
<1>1. IsCounts(MatmulsAdded(r, x, y), a + x, b + y, c, d, e)
  <2>1. PICK u : u = [r EXCEPT !.matmul = @ + x, !.rmsnorm = @ + y]
    OBVIOUS
  <2>2. u.matmul = a + x /\ u.rmsnorm = b + y /\ u.softmax = c /\ u.attn_dot = d
          /\ u.attn_v = e
    BY <2>1 DEF IsCounts
  <2>3. u = [matmul |-> u["matmul"], rmsnorm |-> u["rmsnorm"], softmax |-> u["softmax"],
             attn_dot |-> u["attn_dot"], attn_v |-> u["attn_v"]]
    BY <2>1 DEF IsCounts
  <2> QED
    BY <2>1, <2>2, <2>3 DEF IsCounts, MatmulsAdded
<1>2. IsCounts(SoftmaxesAdded(r, x), a, b, c + x, d, e)
  <2>1. PICK u : u = [r EXCEPT !.softmax = @ + x]
    OBVIOUS
  <2>2. u.matmul = a /\ u.rmsnorm = b /\ u.softmax = c + x /\ u.attn_dot = d /\ u.attn_v = e
    BY <2>1 DEF IsCounts
  <2>3. u = [matmul |-> u["matmul"], rmsnorm |-> u["rmsnorm"], softmax |-> u["softmax"],
             attn_dot |-> u["attn_dot"], attn_v |-> u["attn_v"]]
    BY <2>1 DEF IsCounts
  <2> QED
    BY <2>1, <2>2, <2>3 DEF IsCounts, SoftmaxesAdded
<1>3. IsCounts(DotsAdded(r, x), a, b, c, d + x, e)
  <2>1. PICK u : u = [r EXCEPT !.attn_dot = @ + x]
    OBVIOUS
  <2>2. u.matmul = a /\ u.rmsnorm = b /\ u.softmax = c /\ u.attn_dot = d + x /\ u.attn_v = e
    BY <2>1 DEF IsCounts
  <2>3. u = [matmul |-> u["matmul"], rmsnorm |-> u["rmsnorm"], softmax |-> u["softmax"],
             attn_dot |-> u["attn_dot"], attn_v |-> u["attn_v"]]
    BY <2>1 DEF IsCounts
  <2> QED
    BY <2>1, <2>2, <2>3 DEF IsCounts, DotsAdded
<1>4. IsCounts(SumsAdded(r, x, y), a, b, c + x, d, e + y)
  <2>1. PICK u : u = [r EXCEPT !.softmax = @ + x, !.attn_v = @ + y]
    OBVIOUS
  <2>2. u.matmul = a /\ u.rmsnorm = b /\ u.softmax = c + x /\ u.attn_dot = d
          /\ u.attn_v = e + y
    BY <2>1 DEF IsCounts
  <2>3. u = [matmul |-> u["matmul"], rmsnorm |-> u["rmsnorm"], softmax |-> u["softmax"],
             attn_dot |-> u["attn_dot"], attn_v |-> u["attn_v"]]
    BY <2>1 DEF IsCounts
  <2> QED
    BY <2>1, <2>2, <2>3 DEF IsCounts, SumsAdded
<1> QED
  BY <1>1, <1>2, <1>3, <1>4

OperationsAdd(entered, left, ended, softmaxes, dots, sums, m) ==
  LET counted == Operations(entered, left, ended, softmaxes, dots, sums)
  IN  /\ MatmulsAdded(counted, 3, 1)
           = Operations(entered + 1, left, ended, softmaxes, dots, sums)
      /\ MatmulsAdded(counted, 4, 1)
           = Operations(entered, left + 1, ended, softmaxes, dots, sums)
      /\ MatmulsAdded(counted, 1, 1)
           = Operations(entered, left, ended + 1, softmaxes, dots, sums)
      /\ SoftmaxesAdded(counted, 1)
           = Operations(entered, left, ended, softmaxes + 1, dots, sums)
      /\ DotsAdded(counted, m) = Operations(entered, left, ended, softmaxes, dots + m, sums)
      /\ SumsAdded(counted, 1, m)
           = Operations(entered, left, ended, softmaxes + 1, dots, sums + m)

\* What is added to the operations at each place where the programs do.
LEMMA OperationsMore ==
  ASSUME NEW entered \in Int, NEW left \in Int, NEW ended \in Int,
         NEW softmaxes \in Int, NEW dots \in Int, NEW sums \in Int, NEW m \in Int
  PROVE  OperationsAdd(entered, left, ended, softmaxes, dots, sums, m)
<1>1. PICK r : r = Operations(entered, left, ended, softmaxes, dots, sums)
  OBVIOUS
<1>2. PICK a, b \in Int : a = 3 * entered + 4 * left + ended /\ b = entered + left + ended
  OBVIOUS
<1>3. IsCounts(r, a, b, softmaxes, dots, sums)
  BY <1>1, <1>2 DEF Operations, IsCounts
<1>4. MatmulsAdded(r, 3, 1) = Operations(entered + 1, left, ended, softmaxes, dots, sums)
  <2>1. IsCounts(MatmulsAdded(r, 3, 1), a + 3, b + 1, softmaxes, dots, sums)
    BY <1>2, <1>3, CountsMore
  <2>2. IsCounts(Operations(entered + 1, left, ended, softmaxes, dots, sums), a + 3, b + 1,
            softmaxes, dots, sums)
    BY <1>2 DEF Operations, IsCounts
  <2> QED
    BY <2>1, <2>2 DEF IsCounts
<1>5. MatmulsAdded(r, 4, 1) = Operations(entered, left + 1, ended, softmaxes, dots, sums)
  <2>1. IsCounts(MatmulsAdded(r, 4, 1), a + 4, b + 1, softmaxes, dots, sums)
    BY <1>2, <1>3, CountsMore
  <2>2. IsCounts(Operations(entered, left + 1, ended, softmaxes, dots, sums), a + 4, b + 1,
            softmaxes, dots, sums)
    BY <1>2 DEF Operations, IsCounts
  <2> QED
    BY <2>1, <2>2 DEF IsCounts
<1>6. MatmulsAdded(r, 1, 1) = Operations(entered, left, ended + 1, softmaxes, dots, sums)
  <2>1. IsCounts(MatmulsAdded(r, 1, 1), a + 1, b + 1, softmaxes, dots, sums)
    BY <1>2, <1>3, CountsMore
  <2>2. IsCounts(Operations(entered, left, ended + 1, softmaxes, dots, sums), a + 1, b + 1,
            softmaxes, dots, sums)
    BY <1>2 DEF Operations, IsCounts
  <2> QED
    BY <2>1, <2>2 DEF IsCounts
<1>7. SoftmaxesAdded(r, 1) = Operations(entered, left, ended, softmaxes + 1, dots, sums)
  <2>1. IsCounts(SoftmaxesAdded(r, 1), a, b, softmaxes + 1, dots, sums)
    <3>1. PICK one \in Int : one = 1
      OBVIOUS
    <3>2. IsCounts(SoftmaxesAdded(r, one), a, b, softmaxes + one, dots, sums)
      BY <1>2, <1>3, <3>1, CountsMore
    <3> QED
      BY <3>1, <3>2
  <2>2. IsCounts(Operations(entered, left, ended, softmaxes + 1, dots, sums), a, b,
            softmaxes + 1, dots, sums)
    BY <1>2 DEF Operations, IsCounts
  <2> QED
    BY <2>1, <2>2 DEF IsCounts
<1>8. DotsAdded(r, m) = Operations(entered, left, ended, softmaxes, dots + m, sums)
  <2>1. IsCounts(DotsAdded(r, m), a, b, softmaxes, dots + m, sums)
    BY <1>2, <1>3, CountsMore
  <2>2. IsCounts(Operations(entered, left, ended, softmaxes, dots + m, sums), a, b, softmaxes,
            dots + m, sums)
    BY <1>2 DEF Operations, IsCounts
  <2> QED
    BY <2>1, <2>2 DEF IsCounts
<1>9. SumsAdded(r, 1, m) = Operations(entered, left, ended, softmaxes + 1, dots, sums + m)
  <2>1. IsCounts(SumsAdded(r, 1, m), a, b, softmaxes + 1, dots, sums + m)
    <3>1. PICK one \in Int : one = 1
      OBVIOUS
    <3>2. IsCounts(SumsAdded(r, one, m), a, b, softmaxes + one, dots, sums + m)
      BY <1>2, <1>3, <3>1, CountsMore
    <3> QED
      BY <3>1, <3>2
  <2>2. IsCounts(Operations(entered, left, ended, softmaxes + 1, dots, sums + m), a, b,
            softmaxes + 1, dots, sums + m)
    BY <1>2 DEF Operations, IsCounts
  <2> QED
    BY <2>1, <2>2 DEF IsCounts
<1> QED
  BY <1>1, <1>4, <1>5, <1>6, <1>7, <1>8, <1>9 DEF OperationsAdd

\* The promised counters in these terms.
LEMMA CountersAt ==
  ASSUME process \in Processes, NEW positions, Total(positions) \in Int,
         Pairs(positions) \in Int
  PROVE  /\ MacsAfter(positions) = MacsAt(process, positions)
         /\ CountsAfter(positions) = CountsAt(process, positions)
<1>1. process.config \in Configs /\ process.config.dim % process.config.n_heads = 0
      /\ process.shared \in BOOLEAN
  BY ProcessAssumption
<1>2. PICK c : c = process.config
  OBVIOUS
<1>3. PICK N, D, F, H, KV \in Nat :
        N = c.n_layers /\ D = c.dim /\ F = c.hidden_dim /\ H = c.n_heads /\ KV = KvDim(c)
  BY <1>1, <1>2, ConfigNumbers
<1>4. PICK Q, DD, DF \in Nat : Q = QkvFloats(c) /\ DD = D * D /\ DF = 3 * D * F
  BY <1>3 DEF QkvFloats
<1>5. Floats({"wq", "wk", "wv"}) = N * Q /\ Floats({"wo"}) = N * DD
        /\ Floats({"w1", "w2", "w3"}) = N * DF
  BY <1>1, <1>2, <1>3, <1>4, MatrixFloats
<1>6. PICK T, P \in Int : T = Total(positions) /\ P = Pairs(positions)
  OBVIOUS
<1>7. /\ T * (N * Q) = (T * N) * Q /\ T * (N * DD) = (T * N) * DD
           /\ T * (N * DF) = (T * N) * DF
      /\ 2 * N * D * P = (P * N) * (2 * D)
  OBVIOUS
<1>8. MacsAfter(positions) = MacsAt(process, positions)
  <2>1. MacsAfter(positions)
          = [qkv |-> T * (N * Q), attn |-> 2 * N * D * P, o |-> T * (N * DD),
                                ffn |-> T * (N * DF)]
    BY <1>2, <1>3, <1>5, <1>6 DEF MacsAfter
  <2>2. MacsAt(process, positions) = [qkv |-> (T * N) * Q, attn |-> (P * N) * (2 * D),
                                      o |-> (T * N) * DD, ffn |-> (T * N) * DF]
    BY <1>2, <1>3, <1>4, <1>6 DEF MacsAt, Worked
  <2> QED
    BY <1>7, <2>1, <2>2
<1>9. PICK choices : choices = ChoicesOf(process, positions)
  OBVIOUS
<1>10. Total([i \in DOMAIN positions |-> RandomChoices(i, positions[i])]) = choices
  BY <1>9 DEF RandomChoices, PromptOf, ChoicesOf, ChoicesIn, PromptIn
<1>11. PICK heads_ \in Int : heads_ = (IF process.program = "run_fa" THEN 0 ELSE N * H)
  OBVIOUS
<1>12. CountsAfter(positions) = [matmul |-> T * (7 * N + 1), rmsnorm |-> T * (2 * N + 1),
                                 softmax |-> T * heads_ + choices,
                                 attn_dot |-> heads_ * P, attn_v |-> heads_ * P]
  BY <1>2, <1>3, <1>6, <1>10, <1>11 DEF CountsAfter
<1>13. CountsAt(process, positions) =
         [matmul |-> 3 * (T * N) + 4 * (T * N) + T, rmsnorm |-> T * N + T * N + T,
          softmax |-> Share(process, (T * N) * H) + choices,
          attn_dot |-> Share(process, (P * N) * H), attn_v |-> Share(process, (P * N) * H)]
  BY <1>2, <1>3, <1>6, <1>9 DEF CountsAt, Operations
<1>14. T * (7 * N + 1) = 3 * (T * N) + 4 * (T * N) + T /\ T * (2 * N + 1) = T * N + T * N + T
  OBVIOUS
<1>15. T * heads_ = Share(process, (T * N) * H) /\ heads_ * P = Share(process, (P * N) * H)
  <2>1. T * 0 = 0 /\ 0 * P = 0 /\ T * (N * H) = (T * N) * H /\ (N * H) * P = (P * N) * H
    OBVIOUS
  <2> QED
    BY <1>11, <2>1 DEF Share
<1>16. CountsAfter(positions) = CountsAt(process, positions)
  BY <1>12, <1>13, <1>14, <1>15
<1> QED
  BY <1>8, <1>16

-----------------------------------------------------------------------------
(* The reports of the calls.                                                *)

IsSequence(r) == \E V : r \in Seq(V)

DoneOf(r) == [i \in DOMAIN r |-> r[i].pos]

LEMMA AppendedSequence ==
  ASSUME NEW r, IsSequence(r), NEW e
  PROVE  /\ Len(r) \in Nat /\ DOMAIN r = 1 .. Len(r)
         /\ IsSequence(Append(r, e)) /\ Len(Append(r, e)) = Len(r) + 1
         /\ DOMAIN Append(r, e) = 1 .. Len(r) + 1
         /\ Append(r, e)[Len(r) + 1] = e
         /\ \A i \in 1 .. Len(r) : Append(r, e)[i] = r[i]
<1>1. PICK V : r \in Seq(V)
  BY DEF IsSequence
<1>2. PICK W : W = V \cup {e}
  OBVIOUS
<1>3. r \in Seq(W)
  <2>1. V \subseteq W
    BY <1>2
  <2> QED
    BY <1>1, <2>1, SeqMonotonic
<1>4. e \in W
  BY <1>2
<1>5. PICK a : a = Append(r, e)
  OBVIOUS
<1>6. /\ a \in Seq(W) /\ Len(a) = Len(r) + 1 /\ Len(r) \in Nat /\ DOMAIN r = 1 .. Len(r)
      /\ DOMAIN a = 1 .. Len(r) + 1 /\ a[Len(r) + 1] = e
      /\ \A i \in 1 .. Len(r) : a[i] = r[i]
  BY <1>3, <1>4, <1>5
<1>7. IsSequence(a)
  BY <1>6 DEF IsSequence
<1> QED
  BY <1>5, <1>6, <1>7

\* A part of a sequence of numbers.
LEMMA FirstPart ==
  ASSUME NEW seq \in Seq(Nat), NEW t \in Seq(Nat), NEW k \in Nat, k <= Len(seq), k <= Len(t),
         \A i \in 1 .. k : seq[i] = t[i]
  PROVE  SubSeq(seq, 1, k) = SubSeq(t, 1, k) /\ SubSeq(seq, 1, k) \in Seq(Nat)
<1>1. PICK u, v : u = SubSeq(seq, 1, k) /\ v = SubSeq(t, 1, k)
  OBVIOUS
<1>2. (\A i \in 1 .. k : seq[i] \in Nat) /\ \A i \in 1 .. k : t[i] \in Nat
  <2>1. Len(seq) \in Nat
    OBVIOUS
  <2> QED
    BY <2>1
<1>3. 1 \in Int /\ k \in Int /\ (IF 1 <= k THEN k - 1 + 1 ELSE 0) = k /\ k - 1 + 1 = k
  OBVIOUS
<1>4. u \in Seq(Nat) /\ Len(u) = k /\ \A i \in 1 .. k : u[i] = seq[1 + i - 1]
  BY <1>1, <1>2, <1>3, SubSeqProperties
<1>5. v \in Seq(Nat) /\ Len(v) = k /\ \A i \in 1 .. k : v[i] = t[1 + i - 1]
  BY <1>1, <1>2, <1>3, SubSeqProperties
<1>6. \A i \in 1 .. k : u[i] = v[i]
  <2>1. \A i \in 1 .. k : 1 + i - 1 = i
    OBVIOUS
  <2> QED
    BY <1>4, <1>5, <2>1
<1>7. u = v
  BY <1>4, <1>5, <1>6, SeqEqual
<1> QED
  BY <1>1, <1>4, <1>7

LEMMA WholePart ==
  ASSUME NEW seq \in Seq(Nat), NEW k \in Nat, k = Len(seq)
  PROVE  SubSeq(seq, 1, k) = seq
<1>1. PICK u : u = SubSeq(seq, 1, k)
  OBVIOUS
<1>2. \A i \in 1 .. k : seq[i] \in Nat
  OBVIOUS
<1>3. 1 \in Int /\ k \in Int /\ (IF 1 <= k THEN k - 1 + 1 ELSE 0) = k /\ k - 1 + 1 = k
  OBVIOUS
<1>4. u \in Seq(Nat) /\ Len(u) = k /\ \A i \in 1 .. k : u[i] = seq[1 + i - 1]
  BY <1>1, <1>2, <1>3, SubSeqProperties
<1>5. \A i \in 1 .. Len(u) : u[i] = seq[i]
  <2>1. \A i \in 1 .. k : 1 + i - 1 = i
    OBVIOUS
  <2> QED
    BY <1>4, <2>1
<1>6. u = seq
  BY <1>4, <1>5, SeqEqual
<1> QED
  BY <1>1, <1>6

\* The positions of the reports, and of one more.
LEMMA DonePositions ==
  ASSUME NEW r, IsSequence(r), \A i \in DOMAIN r : r[i].pos \in Nat
  PROVE  /\ DoneOf(r) \in Seq(Nat) /\ Len(DoneOf(r)) = Len(r)
         /\ \A i \in DOMAIN r : DoneOf(r)[i] = r[i].pos
<1>1. PICK n \in Nat : n = Len(r) /\ DOMAIN r = 1 .. n
  BY AppendedSequence
<1>2. PICK d : d = DoneOf(r)
  OBVIOUS
<1>3. IsList(d, n) /\ \A i \in 1 .. n : d[i] \in Nat /\ d[i] = r[i].pos
  BY <1>1, <1>2 DEF DoneOf, IsList
<1>4. d \in Seq(Nat) /\ Len(d) = n
  BY <1>1, <1>3, ListIsSeq
<1> QED
  BY <1>1, <1>2, <1>3, <1>4

LEMMA AppendedDone ==
  ASSUME NEW r, IsSequence(r), \A i \in DOMAIN r : r[i].pos \in Nat, NEW e, e.pos \in Nat
  PROVE  DoneOf(Append(r, e)) = Append(DoneOf(r), e.pos)
<1>1. PICK n \in Nat : n = Len(r) /\ DOMAIN r = 1 .. n
  BY AppendedSequence
<1>2. PICK a : a = Append(r, e)
  OBVIOUS
<1>3. IsSequence(a) /\ Len(a) = n + 1 /\ DOMAIN a = 1 .. n + 1 /\ a[n + 1] = e
      /\ \A i \in 1 .. n : a[i] = r[i]
  BY <1>1, <1>2, AppendedSequence
<1>4. \A i \in DOMAIN a : a[i].pos \in Nat
  BY <1>1, <1>3
<1>5. PICK d, x : d = DoneOf(r) /\ x = DoneOf(a)
  OBVIOUS
<1>6. d \in Seq(Nat) /\ Len(d) = n /\ \A i \in 1 .. n : d[i] = r[i].pos
  BY <1>1, <1>5, DonePositions
<1>7. x \in Seq(Nat) /\ Len(x) = n + 1 /\ \A i \in 1 .. n + 1 : x[i] = a[i].pos
  BY <1>3, <1>4, <1>5, DonePositions
<1>8. PICK y, k : y = Append(d, k) /\ k = e.pos
  OBVIOUS
<1>9. y \in Seq(Nat) /\ Len(y) = n + 1 /\ y[n + 1] = k /\ \A i \in 1 .. n : y[i] = d[i]
  BY <1>1, <1>6, <1>8
<1>10. \A i \in 1 .. Len(x) : x[i] = y[i]
  <2>1. ASSUME NEW i \in 1 .. n + 1 PROVE x[i] = y[i]
    <3>1. CASE i = n + 1
      BY <1>1, <1>3, <1>7, <1>8, <1>9, <3>1
    <3>2. CASE i # n + 1
      <4>1. i \in 1 .. n
        BY <1>1, <3>2
      <4> QED
        BY <1>3, <1>6, <1>7, <1>9, <4>1
    <3> QED
      BY <3>1, <3>2
  <2> QED
    BY <1>7, <2>1
<1>11. x = y
  BY <1>7, <1>9, <1>10, SeqEqual
<1> QED
  BY <1>2, <1>5, <1>8, <1>11

-----------------------------------------------------------------------------
(* The counters at a place in a position: m of them are looked at.          *)

MacsIn(pr, positions, entered, left, m) ==
  LET N == pr.config.n_layers
  IN  Worked(pr.config, Total(positions) * N + entered, Total(positions) * N + left,
             Pairs(positions) * N + left * m)

CountsIn(pr, positions, entered, left, ended, scored, weighted, m) ==
  LET N == pr.config.n_layers
      H == pr.config.n_heads
      layers == Total(positions) * N + left
      seen   == Pairs(positions) * N + left * m
  IN  Operations(Total(positions) * N + entered, layers, Total(positions) + ended,
                 Share(pr, layers * H + weighted) + ChoicesOf(pr, positions),
                 Share(pr, seen * H + scored * m), Share(pr, seen * H + weighted * m))

\* What the totals of a process are, for positions of the calls that were made.
AreTotals(pr, positions) ==
  Total(positions) \in Int /\ Pairs(positions) \in Int /\ ChoicesOf(pr, positions) \in Int

LEMMA ShareIsNumber ==
  ASSUME NEW pr, NEW n \in Int
  PROVE  Share(pr, n) \in Int
BY DEF Share

\* At rest, nothing is entered that was not left.
LEMMA AtRest ==
  ASSUME NEW pr \in Processes, NEW positions, AreTotals(pr, positions), NEW m \in Int
  PROVE  /\ MacsIn(pr, positions, 0, 0, m) = MacsAt(pr, positions)
         /\ CountsIn(pr, positions, 0, 0, 0, 0, 0, m) = CountsAt(pr, positions)
<1>1. PICK N, H, T, P \in Int : /\ N = pr.config.n_layers /\ H = pr.config.n_heads
                                /\ T = Total(positions) /\ P = Pairs(positions)
  BY ProcessAssumption, ConfigNumbers DEF AreTotals
<1>2. /\ T * N + 0 = T * N /\ P * N + 0 * m = P * N /\ T + 0 = T
      /\ (T * N) * H + 0 = (T * N) * H /\ (P * N) * H + 0 * m = (P * N) * H
  OBVIOUS
<1>3. MacsIn(pr, positions, 0, 0, m) = MacsAt(pr, positions)
  BY <1>1, <1>2 DEF MacsIn, MacsAt
<1>4. CountsIn(pr, positions, 0, 0, 0, 0, 0, m) = CountsAt(pr, positions)
  BY <1>1, <1>2 DEF CountsIn, CountsAt
<1> QED
  BY <1>3, <1>4

MacsAdd(pr, positions, entered, left, m) ==
  LET c == pr.config
      worked == MacsIn(pr, positions, entered, left, m)
  IN  /\ QkvAdded(worked, c.dim * c.dim + 2 * c.dim * KvDim(c))
           = MacsIn(pr, positions, entered + 1, left, m)
      /\ LayerAdded(worked, 2 * c.n_heads * m * HeadSize(c), c.dim * c.dim,
             3 * c.dim * c.hidden_dim)
           = MacsIn(pr, positions, entered, left + 1, m)

\* The steps of a position, seen from the multiplications.
LEMMA MacsMove ==
  ASSUME NEW pr \in Processes, NEW positions, AreTotals(pr, positions),
         NEW entered \in Int, NEW left \in Int, NEW m \in Int
  PROVE  MacsAdd(pr, positions, entered, left, m)
<1> DEFINE c == pr.config
<1>1. c \in Configs /\ c.dim % c.n_heads = 0
  BY ProcessAssumption
<1>2. PICK N, T, P \in Int : N = c.n_layers /\ T = Total(positions) /\ P = Pairs(positions)
  BY <1>1, ConfigNumbers DEF AreTotals
<1>3. PICK e, f, sn \in Int : e = T * N + entered /\ f = T * N + left /\ sn = P * N + left * m
  OBVIOUS
<1>4. MacsIn(pr, positions, entered, left, m) = Worked(c, e, f, sn)
  BY <1>2, <1>3 DEF MacsIn
<1>5. MacsIn(pr, positions, entered + 1, left, m) = Worked(c, e + 1, f, sn)
  <2>1. T * N + (entered + 1) = e + 1
    BY <1>3
  <2> QED
    BY <1>2, <1>3, <2>1 DEF MacsIn
<1>6. MacsIn(pr, positions, entered, left + 1, m) = Worked(c, e, f + 1, sn + m)
  <2>1. T * N + (left + 1) = f + 1 /\ P * N + (left + 1) * m = sn + m
    BY <1>3
  <2> QED
    BY <1>2, <1>3, <2>1 DEF MacsIn
<1> QED
  <2>1. WorkAdds(c, e, f, sn, m)
    BY <1>1, <1>3, WorkedMore
  <2> QED
    BY <1>4, <1>5, <1>6, <2>1 DEF WorkAdds, MacsAdd

CountsAdd(pr, positions, entered, left, ended, scored, weighted, m) ==
  LET counted == CountsIn(pr, positions, entered, left, ended, scored, weighted, m)
  IN  /\ MatmulsAdded(counted, 3, 1)
           = CountsIn(pr, positions, entered + 1, left, ended, scored, weighted, m)
      /\ scored = pr.config.n_heads /\ weighted = pr.config.n_heads =>
           MatmulsAdded(counted, 4, 1)
             = CountsIn(pr, positions, entered, left + 1, ended, 0, 0, m)
      /\ MatmulsAdded(counted, 1, 1)
           = CountsIn(pr, positions, entered, left, ended + 1, scored, weighted, m)
      /\ pr.program # "run_fa" =>
           /\ DotsAdded(counted, m)
                = CountsIn(pr, positions, entered, left, ended, scored + 1, weighted, m)
           /\ SumsAdded(counted, 1, m)
                = CountsIn(pr, positions, entered, left, ended, scored, weighted + 1, m)
      /\ pr.program = "run_fa" =>
           \A i, j \in Int :
             counted = CountsIn(pr, positions, entered, left, ended, i, j, m)

\* The steps of a position, seen from the operations.
LEMMA CountsMove ==
  ASSUME NEW pr \in Processes, NEW positions, AreTotals(pr, positions),
         NEW entered \in Int, NEW left \in Int, NEW ended \in Int,
         NEW scored \in Int, NEW weighted \in Int, NEW m \in Int
  PROVE  CountsAdd(pr, positions, entered, left, ended, scored, weighted, m)
<1>1. PICK N, H, T, P, K \in Int :
        /\ N = pr.config.n_layers /\ H = pr.config.n_heads /\ T = Total(positions)
        /\ P = Pairs(positions) /\ K = ChoicesOf(pr, positions)
  <2>1. PICK c : c = pr.config /\ c \in Configs /\ c.dim % c.n_heads = 0
    BY ProcessAssumption
  <2>2. c.n_layers \in Int /\ c.n_heads \in Int
    BY <2>1, ConfigNumbers
  <2> QED
    BY <2>1, <2>2 DEF AreTotals
<1> DEFINE At(e, f, g, i, j) ==
      Operations(T * N + e, T * N + f, T + g, Share(pr, (T * N + f) * H + j) + K,
                 Share(pr, (P * N + f * m) * H + i * m), Share(pr,
                     (P * N + f * m) * H + j * m))
<1>2. \A e, f, g, i, j : CountsIn(pr, positions, e, f, g, i, j, m) = At(e, f, g, i, j)
  BY <1>1 DEF CountsIn
<1>3. PICK e, f, g, x, y \in Int : /\ e = T * N + entered /\ f = T * N + left /\ g = T + ended
                                   /\ x = P * N + left * m /\ y = f * H
  OBVIOUS
<1>4. PICK a, b, d \in Int : /\ a = Share(pr, y + weighted) + K
                             /\ b = Share(pr, x * H + scored * m)
                             /\ d = Share(pr, x * H + weighted * m)
  <2>1. y + weighted \in Int /\ x * H + scored * m \in Int /\ x * H + weighted * m \in Int
    BY <1>3
  <2> QED
    BY <2>1, ShareIsNumber
<1>5. CountsIn(pr, positions, entered, left, ended, scored, weighted, m)
        = Operations(e, f, g, a, b, d)
  BY <1>2, <1>3, <1>4
<1>6. CountsIn(pr, positions, entered + 1, left, ended, scored, weighted, m)
        = Operations(e + 1, f, g, a, b, d)
  <2>1. T * N + (entered + 1) = e + 1
    BY <1>3
  <2> QED
    BY <1>2, <1>3, <1>4, <2>1
<1>7. ASSUME scored = H, weighted = H
      PROVE  CountsIn(pr, positions, entered, left + 1, ended, 0, 0, m)
              = Operations(e, f + 1, g, a, b, d)
  <2>1. T * N + (left + 1) = f + 1
    BY <1>3
  <2>2. (T * N + (left + 1)) * H + 0 = y + weighted
    BY <1>3, <1>7
  <2>3. /\ (P * N + (left + 1) * m) * H + 0 * m = x * H + scored * m
        /\ (P * N + (left + 1) * m) * H + 0 * m = x * H + weighted * m
    BY <1>3, <1>7
  <2> QED
    BY <1>2, <1>3, <1>4, <2>1, <2>2, <2>3
<1>8. CountsIn(pr, positions, entered, left, ended + 1, scored, weighted, m)
        = Operations(e, f, g + 1, a, b, d)
  <2>1. T + (ended + 1) = g + 1
    BY <1>3
  <2> QED
    BY <1>2, <1>3, <1>4, <2>1
<1>9. ASSUME pr.program # "run_fa"
      PROVE  /\ CountsIn(pr, positions, entered, left, ended, scored + 1, weighted, m)
                  = Operations(e, f, g, a, b + m, d)
             /\ CountsIn(pr, positions, entered, left, ended, scored, weighted + 1, m)
                  = Operations(e, f, g, a + 1, b, d + m)
  <2>1. \A n : Share(pr, n) = n
    BY <1>9 DEF Share
  <2>2. /\ x * H + (scored + 1) * m = x * H + scored * m + m
        /\ x * H + (weighted + 1) * m = x * H + weighted * m + m
    OBVIOUS
  <2>3. b = x * H + scored * m /\ d = x * H + weighted * m /\ a = y + weighted + K
    BY <1>4, <2>1
  <2>4. y + (weighted + 1) + K = a + 1
    BY <2>3
  <2>5. Share(pr, x * H + (scored + 1) * m) = b + m
    BY <2>1, <2>2, <2>3
  <2>6. Share(pr, x * H + (weighted + 1) * m) = d + m
          /\ Share(pr, y + (weighted + 1)) + K = a + 1
    BY <2>1, <2>2, <2>3, <2>4
  <2>7. CountsIn(pr, positions, entered, left, ended, scored + 1, weighted, m)
          = Operations(e, f, g, a, b + m, d)
    BY <1>2, <1>3, <1>4, <2>5
  <2>8. CountsIn(pr, positions, entered, left, ended, scored, weighted + 1, m)
          = Operations(e, f, g, a + 1, b, d + m)
    BY <1>2, <1>3, <1>4, <2>6
  <2> QED
    BY <2>7, <2>8
<1>10. ASSUME pr.program = "run_fa"
       PROVE  \A i, j \in Int :
                CountsIn(pr, positions, entered, left, ended, scored, weighted, m)
                  = CountsIn(pr, positions, entered, left, ended, i, j, m)
  <2>1. \A n : Share(pr, n) = 0
    BY <1>10 DEF Share
  <2> QED
    BY <1>2, <2>1
<1> HIDE DEF At
<1>11. OperationsAdd(e, f, g, a, b, d, m)
  BY <1>3, <1>4, OperationsMore
<1> QED
  BY <1>1, <1>5, <1>6, <1>7, <1>8, <1>9, <1>10, <1>11 DEF OperationsAdd, CountsAdd

-----------------------------------------------------------------------------
(* From one position to the next.                                           *)

LEMMA TotalsOfCalls ==
  ASSUME NEW pr \in Processes, NEW done \in Seq(Nat), Len(done) <= Len(pr.calls)
  PROVE  /\ AreTotals(pr, done)
         /\ Len(done) < Len(pr.calls) => \A n \in Nat : AreTotals(pr, Append(done, n))
<1>1. PICK k, count \in Nat : k = Len(done) /\ count = Len(pr.calls)
             /\ DOMAIN pr.calls = 1 .. count
  <2>1. PICK V, calls : calls = pr.calls /\ V = Range(calls) /\ calls \in Seq(V)
    BY ProcessAssumption
  <2>2. Len(calls) \in Nat /\ DOMAIN calls = 1 .. Len(calls) /\ Len(done) \in Nat
    BY <2>1
  <2> QED
    BY <2>1, <2>2
<1>2. Total(done) \in Int /\ Pairs(done) \in Int
  BY PositionTotals
<1>3. ASSUME NEW i \in 1 .. k PROVE ChoicesIn(pr, i, done[i]) \in Int
  <2>1. i \in DOMAIN pr.calls /\ done[i] \in Nat
    BY <1>1
  <2> QED
    BY <2>1, ChoiceNumbers
<1>4. ChoicesOf(pr, done) \in Int
  <2>1. PICK f : f = [i \in DOMAIN done |-> ChoicesIn(pr, i, done[i])]
    OBVIOUS
  <2>2. DOMAIN f = 1 .. k /\ \A i \in 1 .. k : f[i] \in Int
    BY <1>1, <1>3, <2>1
  <2>3. Total(f) \in Int
    BY <1>1, <2>2, TotalIsNumber
  <2> QED
    BY <2>1, <2>3 DEF ChoicesOf
<1>5. ASSUME Len(done) < Len(pr.calls), NEW n \in Nat PROVE AreTotals(pr, Append(done, n))
  <2>1. PICK at : at = Append(done, n)
    OBVIOUS
  <2>2. at \in Seq(Nat)
    BY <2>1
  <2>3. Total(at) \in Int /\ Pairs(at) \in Int
    BY <2>2, PositionTotals
  <2>4. k + 1 \in DOMAIN pr.calls /\ 1 .. k \subseteq DOMAIN pr.calls
    BY <1>1, <1>5
  <2>5. ChoicesOf(pr, at) = ChoicesOf(pr, done) + ChoicesIn(pr, k + 1, n)
    BY <1>1, <2>1, <2>4, AppendedChoices
  <2>6. ChoicesIn(pr, k + 1, n) \in Nat
    BY <2>4, ChoiceNumbers
  <2>7. ChoicesOf(pr, at) \in Int
    BY <1>4, <2>5, <2>6
  <2> QED
    BY <2>1, <2>3, <2>7 DEF AreTotals
<1> QED
  BY <1>2, <1>4, <1>5 DEF AreTotals

\* A call that is at its first position has added nothing.
LEMMA CallBegins ==
  ASSUME NEW pr \in Processes, NEW done \in Seq(Nat), NEW k \in Nat, Len(done) = k,
         k + 1 \in DOMAIN pr.calls, 1 .. k \subseteq DOMAIN pr.calls, AreTotals(pr, done),
         NEW m \in Int
  PROVE  /\ MacsIn(pr, Append(done, 0), 0, 0, m) = MacsAt(pr, done)
         /\ CountsIn(pr, Append(done, 0), 0, 0, 0, 0, 0, m) = CountsAt(pr, done)
<1>1. PICK at : at = Append(done, 0)
  OBVIOUS
<1>2. Total(at) = Total(done)
  <2>1. Total(at) = Total(done) + 0 /\ Total(done) \in Int
    BY <1>1, PositionTotals
  <2> QED
    BY <2>1
<1>3. Pairs(at) = Pairs(done)
  <2>1. Pairs(at) = Pairs(done) + (0 * (0 + 1)) \div 2 /\ Pairs(done) \in Int
    BY <1>1, PositionTotals
  <2>2. (0 * (0 + 1)) \div 2 = 0
    OBVIOUS
  <2> QED
    BY <2>1, <2>2
<1>4. ChoicesOf(pr, at) = ChoicesOf(pr, done)
  <2>1. ChoicesOf(pr, at) = ChoicesOf(pr, done) + ChoicesIn(pr, k + 1, 0)
    BY <1>1, AppendedChoices
  <2>2. ChoicesIn(pr, k + 1, 0) = 0
    BY ChoiceNumbers
  <2> QED
    BY <2>1, <2>2 DEF AreTotals
<1>5. AreTotals(pr, at)
  BY <1>2, <1>3, <1>4 DEF AreTotals
<1>6. MacsIn(pr, at, 0, 0, m) = MacsAt(pr, at)
        /\ CountsIn(pr, at, 0, 0, 0, 0, 0, m) = CountsAt(pr, at)
  BY <1>5, AtRest
<1>7. MacsAt(pr, at) = MacsAt(pr, done) /\ CountsAt(pr, at) = CountsAt(pr, done)
  BY <1>2, <1>3, <1>4 DEF MacsAt, CountsAt
<1> QED
  BY <1>1, <1>6, <1>7

\* All layers of a position are done: a position more, with a random choice or
\* without.
Chosen(pr, i, n) == n >= Len(PromptIn(pr, i)) - 1 /\ pr.calls[i].mode # "greedy"

EndSums(T, P, N, j, m) ==
  /\ T * N + N \in Int /\ T * N + N = (T + 1) * N + 0
  /\ P * N + N * j \in Int /\ P * N + N * j = (P + j) * N + 0 * m

LEMMA LastLayer ==
  ASSUME NEW T \in Int, NEW P \in Int, NEW N \in Int, NEW j \in Int, NEW m \in Int
  PROVE  EndSums(T, P, N, j, m)
<1>1. T * N + N \in Int /\ T * N + N = (T + 1) * N
  OBVIOUS
<1>2. P * N + N * j \in Int /\ P * N + N * j = (P + j) * N
  OBVIOUS
<1>3. 0 * m = 0 /\ (P + j) * N \in Int
  OBVIOUS
<1> QED
  BY <1>1, <1>2, <1>3 DEF EndSums

\* With these counts at the end of position n, the counters are those of n + 1.
GoesOn(pr, done, k, n, N, counted, m) ==
  /\ MacsIn(pr, Append(done, n), N, N, n + 1) = MacsIn(pr, Append(done, n + 1), 0, 0, m)
  /\ (IF Chosen(pr, k + 1, n) THEN SoftmaxesAdded(counted, 1) ELSE counted)
       = CountsIn(pr, Append(done, n + 1), 0, 0, 0, 0, 0, m)

\* All layers of a position are done, as they were to be.
LEMMA PositionEnds ==
  ASSUME NEW pr \in Processes, NEW done \in Seq(Nat), NEW k \in Nat, Len(done) = k,
         k + 1 \in DOMAIN pr.calls, 1 .. k \subseteq DOMAIN pr.calls, AreTotals(pr, done),
         NEW n \in Nat, NEW N \in Nat, N = pr.config.n_layers, NEW m \in Int,
         NEW counted, counted = CountsIn(pr, Append(done, n), N, N, 1, 0, 0, n + 1)
  PROVE  GoesOn(pr, done, k, n, N, counted, m)
<1>1. PICK H \in Int : H = pr.config.n_heads
  <2>1. pr.config \in Configs /\ pr.config.dim % pr.config.n_heads = 0
    BY ProcessAssumption
  <2> QED
    BY <2>1, ConfigNumbers
<1>2. PICK at, then : at = Append(done, n) /\ then = Append(done, n + 1)
  OBVIOUS
<1>3. PICK T, P \in Int : T = Total(at) /\ P = Pairs(at) /\ T + 1 = Total(then)
             /\ P + (n + 1) = Pairs(then)
  <2>1. PICK T0, P0 \in Int : T0 = Total(done) /\ P0 = Pairs(done)
    BY PositionTotals
  <2>2. PICK x \in Nat : x = (n * (n + 1)) \div 2
               /\ ((n + 1) * (n + 1 + 1)) \div 2 = x + (n + 1)
    BY HalfProduct
  <2>3. Total(at) = T0 + n /\ Pairs(at) = P0 + x
    BY <1>2, <2>1, <2>2, PositionTotals
  <2>4. n + 1 \in Nat
    OBVIOUS
  <2>5. Total(then) = T0 + (n + 1) /\ Pairs(then) = P0 + ((n + 1) * (n + 1 + 1)) \div 2
    BY <1>2, <2>1, <2>4, PositionTotals
  <2>6. PICK T, P \in Int : T = T0 + n /\ P = P0 + x
    BY <2>1, <2>2
  <2>7. Total(then) = T + 1
    BY <2>1, <2>5, <2>6
  <2>8. Pairs(then) = P + (n + 1)
    <3>1. Pairs(then) = P0 + (x + (n + 1))
      BY <2>2, <2>5
    <3> QED
      BY <2>1, <2>2, <2>6, <3>1
  <2>9. T = Total(at) /\ P = Pairs(at) /\ T + 1 = Total(then) /\ P + (n + 1) = Pairs(then)
    BY <2>3, <2>6, <2>7, <2>8
  <2> QED
    BY <2>6, <2>9
<1>4. PICK K, x \in Int : /\ K = ChoicesOf(pr, at) /\ K + x = ChoicesOf(pr, then)
                          /\ x = (IF Chosen(pr, k + 1, n) THEN 1 ELSE 0)
  <2>1. PICK K0, a, b \in Int : /\ K0 = ChoicesOf(pr, done) /\ a = ChoicesIn(pr, k + 1, n)
                                /\ b = ChoicesIn(pr, k + 1, n + 1)
    <3>1. ChoicesIn(pr, k + 1, n) \in Nat
      BY ChoiceNumbers
    <3>2. n + 1 \in Nat
      OBVIOUS
    <3>3. ChoicesIn(pr, k + 1, n + 1) \in Nat
      BY <3>2, ChoiceNumbers
    <3> QED
      BY <3>1, <3>3 DEF AreTotals
  <2>2. b = a + IF Chosen(pr, k + 1, n) THEN 1 ELSE 0
    BY <2>1, ChoiceNumbers DEF Chosen
  <2>3. ChoicesOf(pr, at) = K0 + a
    BY <1>2, <2>1, AppendedChoices
  <2>4. n + 1 \in Nat
    OBVIOUS
  <2>5. ChoicesOf(pr, then) = K0 + b
    BY <1>2, <2>1, <2>4, AppendedChoices
  <2>6. CASE Chosen(pr, k + 1, n)
    BY <2>1, <2>2, <2>3, <2>5, <2>6
  <2>7. CASE ~Chosen(pr, k + 1, n)
    BY <2>1, <2>2, <2>3, <2>5, <2>7
  <2> QED
    BY <2>6, <2>7
<1>5. /\ T * N + N \in Int /\ T * N + N = (T + 1) * N + 0
      /\ P * N + N * (n + 1) \in Int /\ P * N + N * (n + 1) = (P + (n + 1)) * N + 0 * m
  <2>1. T \in Int /\ P \in Int /\ N \in Int /\ n + 1 \in Int
    BY <1>3
  <2>2. EndSums(T, P, N, n + 1, m)
    BY <2>1, LastLayer
  <2> QED
    BY <2>2 DEF EndSums
<1>6. MacsIn(pr, at, N, N, n + 1) = MacsIn(pr, then, 0, 0, m)
  BY <1>3, <1>5 DEF MacsIn
<1>7. PICK e, sn \in Int : /\ e = T * N + N /\ e = (T + 1) * N + 0
                           /\ sn = P * N + N * (n + 1) /\ sn = (P + (n + 1)) * N + 0 * m
  BY <1>5
<1>8. PICK y, z \in Int : y = Share(pr, e * H + 0) /\ z = Share(pr, sn * H + 0 * (n + 1))
  <2>1. e * H + 0 \in Int /\ sn * H + 0 * (n + 1) \in Int
    OBVIOUS
  <2> QED
    BY <2>1, ShareIsNumber
<1>9. counted = Operations(e, e, T + 1, y + K, z, z)
  BY <1>1, <1>2, <1>3, <1>4, <1>7, <1>8 DEF CountsIn
<1>10. CountsIn(pr, then, 0, 0, 0, 0, 0, m) = Operations(e, e, T + 1, y + (K + x), z, z)
  <2>1. sn * H + 0 * m = sn * H + 0 * (n + 1) /\ T + 1 + 0 = T + 1
    OBVIOUS
  <2> QED
    BY <1>1, <1>3, <1>4, <1>7, <1>8, <2>1 DEF CountsIn
<1>11. SoftmaxesAdded(Operations(e, e, T + 1, y + K, z, z), 1)
         = Operations(e, e, T + 1, y + K + 1, z, z)
  <2>1. T + 1 \in Int /\ y + K \in Int
    OBVIOUS
  <2>2. OperationsAdd(e, e, T + 1, y + K, z, z, m)
    BY <1>7, <1>8, <2>1, OperationsMore
  <2> QED
    BY <2>2 DEF OperationsAdd
<1>12. (IF Chosen(pr, k + 1, n) THEN SoftmaxesAdded(counted, 1) ELSE counted)
         = CountsIn(pr, then, 0, 0, 0, 0, 0, m)
  <2>1. CASE Chosen(pr, k + 1, n)
    <3>1. y + (K + x) = y + K + 1
      BY <1>4, <2>1
    <3> QED
      BY <1>9, <1>10, <1>11, <2>1, <3>1
  <2>2. CASE ~Chosen(pr, k + 1, n)
    <3>1. y + (K + x) = y + K
      BY <1>4, <2>2
    <3> QED
      BY <1>9, <1>10, <2>2, <3>1
  <2> QED
    BY <2>1, <2>2
<1> QED
  BY <1>2, <1>6, <1>12 DEF GoesOn

-----------------------------------------------------------------------------
(* The invariant.                                                           *)

Busy == pc \notin {"call", "exited"}

\* The positions the calls have come to.
Positions == IF pc = "call" THEN DoneOf(reports) ELSE Append(DoneOf(reports), pos)

\* What forward has done of the position.
Entered  == IF pc = "heads" THEN l + 1 ELSE IF pc \in {"layer", "next"} THEN l ELSE 0
Left     == IF pc \in {"layer", "heads", "next"} THEN l ELSE 0
Ended    == IF pc = "next" THEN 1 ELSE 0
HeadsIn(states) == IF pc = "heads" THEN Cardinality({h \in DOMAIN heads : heads[h] \in states})
                   ELSE 0
Scored   == HeadsIn({"scores", "done"})
Summed == HeadsIn({"done"})

FlowInv ==
  /\ process \in Processes /\ p = process.config
  /\ pc \in {"call", "forward", "layer", "heads", "next", "report", "exited", "overrun"}
  /\ IsSequence(reports) /\ Len(reports) <= Len(process.calls)
  /\ \A i \in DOMAIN reports : reports[i].pos \in Nat
  /\ pos \in Nat
  /\ Busy => Len(reports) < Len(process.calls)
       /\ prompt_tokens = PromptIn(process, Len(reports) + 1)
  /\ pc \in {"layer", "heads"} => l \in 0 .. process.config.n_layers
  /\ pc = "heads" =>
       l < process.config.n_layers
         /\ heads \in [0 .. process.config.n_heads - 1 -> {"todo", "scores", "done"}]
  /\ pc = "next" => l = process.config.n_layers

CounterInv ==
  pc # "exited" =>
    /\ total_macs = IF process.program \in Profiled
                    THEN MacsIn(process, Positions, Entered, Left, pos + 1) ELSE NoMacs
    /\ counts = IF process.program \in Counting
                THEN CountsIn(process, Positions, Entered, Left, Ended, Scored, Summed,
                    pos + 1)
                ELSE NoCounts

Told(pr, done, r) ==
  /\ r.report.kind # "nothing" => r.report.total_macs = MacsAt(pr, done)
  /\ r.report.kind = "counts" =>
       /\ r.report.counts = CountsAt(pr, done)
       /\ r.report.prefill_tokens + r.report.decode_tokens = r.pos

ReportInv == \A i \in DOMAIN reports : Told(process, SubSeq(DoneOf(reports), 1, i), reports[i])

CountInv == FlowInv /\ CounterInv /\ ReportInv

-----------------------------------------------------------------------------
(* The steps.                                                               *)

\* What holds of the calls wherever the program is.
LEMMA CallFacts ==
  ASSUME FlowInv
  PROVE  /\ DoneOf(reports) \in Seq(Nat) /\ Len(DoneOf(reports)) = Len(reports)
         /\ Len(reports) \in Nat /\ AreTotals(process, DoneOf(reports))
         /\ Len(reports) < Len(process.calls) =>
              /\ Len(reports) + 1 \in DOMAIN process.calls
              /\ 1 .. Len(reports) \subseteq DOMAIN process.calls
              /\ \A n \in Nat : AreTotals(process, Append(DoneOf(reports), n))
         /\ pc # "exited" => AreTotals(process, Positions)
<1>1. /\ process \in Processes /\ IsSequence(reports) /\ Len(reports) <= Len(process.calls)
      /\ \A i \in DOMAIN reports : reports[i].pos \in Nat
      /\ pos \in Nat /\ (pc \notin {"call", "exited"} => Len(reports) < Len(process.calls))
  BY DEF FlowInv, Busy
<1>2. PICK done, k : done = DoneOf(reports) /\ done \in Seq(Nat) /\ k = Len(reports)
             /\ Len(done) = k
                     /\ k \in Nat
  BY <1>1, DonePositions, AppendedSequence
<1>3. PICK count \in Nat : count = Len(process.calls) /\ DOMAIN process.calls = 1 .. count
  <2>1. PICK V, calls : calls = process.calls /\ V = Range(calls) /\ calls \in Seq(V)
    BY <1>1, ProcessAssumption
  <2>2. Len(calls) \in Nat /\ DOMAIN calls = 1 .. Len(calls)
    BY <2>1
  <2> QED
    BY <2>1, <2>2
<1>4. /\ AreTotals(process, done)
      /\ k < count => \A n \in Nat : AreTotals(process, Append(done, n))
  BY <1>1, <1>2, <1>3, TotalsOfCalls
<1>5. k < count => k + 1 \in 1 .. count /\ 1 .. k \subseteq 1 .. count
  BY <1>2
<1>6. pc # "exited" => AreTotals(process, Positions)
  BY <1>1, <1>2, <1>3, <1>4 DEF Positions
<1> QED
  BY <1>2, <1>3, <1>4, <1>5, <1>6

\* The reports stay true of the calls that were.
LEMMA ReportsKept ==
  ASSUME ReportInv, process' = process, reports' = reports
  PROVE  ReportInv'
BY DEF ReportInv

LEMMA NoHeads ==
  ASSUME pc # "heads"
  PROVE  Scored = 0 /\ Summed = 0
BY DEF Scored, Summed, HeadsIn

\* A position is begun: nothing is counted.
LEMMA StartForwardCounts ==
  ASSUME CountInv, StartForward
  PROVE  CountInv'
<1>1. FlowInv /\ CounterInv /\ ReportInv
  BY DEF CountInv
<1>2. /\ pc = "forward" /\ pc' = "layer" /\ l' = 0
      /\ process' = process /\ transformer' = transformer /\ reports' = reports
      /\ total_macs' = total_macs /\ counts' = counts
      /\ prompt_tokens' = prompt_tokens /\ pos' = pos
  BY DEF StartForward, chatVars, statics
<1>3. FlowInv'
  <2>1. process.config.n_layers \in Nat
    <3>1. process.config \in Configs /\ process.config.dim % process.config.n_heads = 0
      BY <1>1, ProcessAssumption DEF FlowInv
    <3> QED
      BY <3>1, ConfigNumbers
  <2> QED
    BY <1>1, <1>2, <2>1 DEF FlowInv, Busy, p
<1>4. /\ Positions' = Positions /\ Entered = 0 /\ Left = 0 /\ Ended = 0 /\ Scored = 0
           /\ Summed = 0
      /\ Entered' = 0 /\ Left' = 0 /\ Ended' = 0 /\ Scored' = 0 /\ Summed' = 0
  BY <1>2 DEF Positions, Entered, Left, Ended, Scored, Summed, HeadsIn
<1>5. CounterInv'
  BY <1>1, <1>2, <1>4 DEF CounterInv
<1> QED
  BY <1>1, <1>2, <1>3, <1>5, ReportsKept DEF CountInv

\* A layer is entered: the heads are all to do.
LEMMA QkvCounts ==
  ASSUME CountInv, Qkv
  PROVE  CountInv'
<1>1. FlowInv /\ CounterInv /\ ReportInv
  BY DEF CountInv
<1>2. PICK c : c = process.config /\ c = p
  BY <1>1 DEF FlowInv
<1>3. /\ pc = "layer" /\ pc' = "heads" /\ l' = l /\ l < c.n_layers
      /\ process' = process /\ transformer' = transformer /\ reports' = reports
      /\ prompt_tokens' = prompt_tokens /\ pos' = pos
      /\ Macs("qkv", c.dim * c.dim + 2 * c.dim * KvDim(c)) /\ Counts(3, 1)
      /\ heads' = [h \in 0 .. c.n_heads - 1 |-> "todo"]
  BY <1>2 DEF Qkv, chatVars
<1>4. FlowInv'
  BY <1>1, <1>2, <1>3 DEF FlowInv, Busy, p
<1>5. /\ Entered = l /\ Left = l /\ Ended = 0 /\ Scored = 0 /\ Summed = 0
      /\ Entered' = l + 1 /\ Left' = l /\ Ended' = 0
  BY <1>3 DEF Entered, Left, Ended, Scored, Summed, HeadsIn
<1>6. Scored' = 0 /\ Summed' = 0
  <2>1. /\ {h \in DOMAIN heads' : heads'[h] \in {"scores", "done"}} = {}
        /\ {h \in DOMAIN heads' : heads'[h] \in {"done"}} = {}
    BY <1>3
  <2>2. Cardinality({}) = 0
    BY FS_EmptySet
  <2> QED
    BY <1>3, <2>1, <2>2 DEF Scored, Summed, HeadsIn
<1>7. Positions' = Positions
  BY <1>3 DEF Positions
<1>8. process \in Processes /\ AreTotals(process, Positions) /\ l \in Int /\ pos + 1 \in Int
  BY <1>1, <1>3, CallFacts DEF FlowInv
<1>9. MacsAdd(process, Positions, l, l, pos + 1)
  BY <1>8, MacsMove
<1>10. CountsAdd(process, Positions, l, l, 0, 0, 0, pos + 1)
  BY <1>8, CountsMove
<1>11. total_macs' = IF process.program \in Profiled
                     THEN MacsIn(process, Positions, l + 1, l, pos + 1) ELSE NoMacs
  BY <1>1, <1>2, <1>3, <1>5, <1>9 DEF CounterInv, Macs, MacsAdd, QkvAdded
<1>12. counts' = IF process.program \in Counting
                 THEN CountsIn(process, Positions, l + 1, l, 0, 0, 0, pos + 1) ELSE NoCounts
  BY <1>1, <1>3, <1>5, <1>10 DEF CounterInv, Counts, CountsAdd, MatmulsAdded
<1>13. CounterInv'
  BY <1>3, <1>5, <1>6, <1>7, <1>11, <1>12 DEF CounterInv
<1> QED
  BY <1>1, <1>3, <1>4, <1>13, ReportsKept DEF CountInv

\* A head is in a state more or in none of them.
HeadsOf(hs, states) == {h \in DOMAIN hs : hs[h] \in states}

HeadMoved(hs, h, state, states) ==
  LET then == HeadsOf([hs EXCEPT ![h] = state], states)
  IN  /\ hs[h] \notin states
           /\ state \in states => Cardinality(then) = Cardinality(HeadsOf(hs, states)) + 1
      /\ hs[h] \in states
           /\ state \in states => Cardinality(then) = Cardinality(HeadsOf(hs, states))
      /\ hs[h] \notin states
           /\ state \notin states => Cardinality(then) = Cardinality(HeadsOf(hs, states))

\* One head changes its state: one more or one less of those in a set of states, or as many.
LEMMA HeadMoves ==
  ASSUME NEW n \in Nat, NEW hs, DOMAIN hs = 0 .. n - 1, NEW states, NEW h \in 0 .. n - 1,
         NEW state
  PROVE  HeadMoved(hs, h, state, states)
<1>1. PICK A, B : A = HeadsOf(hs, states) /\ B = HeadsOf([hs EXCEPT ![h] = state], states)
  OBVIOUS
<1>2. IsFiniteSet(A) /\ Cardinality(A) \in Nat
  <2>1. IsFiniteSet(0 .. n - 1) /\ A \subseteq 0 .. n - 1
    BY <1>1, FS_Interval DEF HeadsOf
  <2> QED
    BY <2>1, FS_Subset, FS_CardinalityType
<1>3. ASSUME hs[h] \notin states, state \in states PROVE Cardinality(B) = Cardinality(A) + 1
  <2>1. B = A \cup {h} /\ h \notin A
    BY <1>1, <1>3 DEF HeadsOf
  <2> QED
    BY <1>2, <2>1, FS_AddElement
<1>4. ASSUME hs[h] \in states, state \in states PROVE B = A
  BY <1>1, <1>4 DEF HeadsOf
<1>5. ASSUME hs[h] \notin states, state \notin states PROVE B = A
  BY <1>1, <1>5 DEF HeadsOf
<1> QED
  BY <1>1, <1>2, <1>3, <1>4, <1>5 DEF HeadMoved

\* What holds while the threads are at the heads.
LEMMA HeadFacts ==
  ASSUME CountInv, pc = "heads"
  PROVE  /\ process \in Processes /\ AreTotals(process, Positions)
         /\ l \in Int /\ pos + 1 \in Int /\ process.config.n_heads \in Nat
         /\ DOMAIN heads = 0 .. process.config.n_heads - 1
         /\ \A h \in DOMAIN heads : heads[h] \in {"todo", "scores", "done"}
         /\ Entered = l + 1 /\ Left = l /\ Ended = 0
         /\ Scored = Cardinality(HeadsOf(heads, {"scores", "done"})) /\ Scored \in Int
         /\ Summed = Cardinality(HeadsOf(heads, {"done"})) /\ Summed \in Int
<1>1. /\ FlowInv /\ process \in Processes /\ pos \in Nat /\ l \in 0 .. process.config.n_layers
      /\ heads \in [0 .. process.config.n_heads - 1 -> {"todo", "scores", "done"}]
  BY DEF CountInv, FlowInv
<1>2. process.config.n_heads \in Nat
  <2>1. process.config \in Configs /\ process.config.dim % process.config.n_heads = 0
    BY <1>1, ProcessAssumption
  <2> QED
    BY <2>1, ConfigNumbers
<1>3. AreTotals(process, Positions)
  BY <1>1, CallFacts
<1>4. Entered = l + 1 /\ Left = l /\ Ended = 0
  BY DEF Entered, Left, Ended
<1>5. /\ Scored = Cardinality(HeadsOf(heads, {"scores", "done"}))
      /\ Summed = Cardinality(HeadsOf(heads, {"done"}))
  BY DEF Scored, Summed, HeadsIn, HeadsOf
<1>6. \A states : Cardinality(HeadsOf(heads, states)) \in Int
  <2>1. ASSUME NEW states PROVE Cardinality(HeadsOf(heads, states)) \in Int
    <3>1. IsFiniteSet(0 .. process.config.n_heads - 1)
      BY <1>2, FS_Interval
    <3>2. HeadsOf(heads, states) \subseteq 0 .. process.config.n_heads - 1
      BY <1>1 DEF HeadsOf
    <3>3. Cardinality(HeadsOf(heads, states)) \in Nat
      BY <3>1, <3>2, FS_Subset, FS_CardinalityType
    <3> QED
      BY <3>3
  <2> QED
    BY <2>1
<1> QED
  BY <1>1, <1>2, <1>3, <1>4, <1>5, <1>6

\* A head moves on, in a layer that goes on.
LEMMA HeadFlow ==
  ASSUME CountInv, pc = "heads", pc' = pc, l' = l, process' = process,
         transformer' = transformer,
         reports' = reports, prompt_tokens' = prompt_tokens, pos' = pos,
         NEW h \in DOMAIN heads, NEW state \in {"todo", "scores", "done"},
         heads' = [heads EXCEPT ![h] = state]
  PROVE  /\ FlowInv' /\ ReportInv' /\ Positions' = Positions
         /\ Entered' = Entered /\ Left' = Left /\ Ended' = Ended
         /\ Scored' = Cardinality(HeadsOf([heads EXCEPT ![h] = state], {"scores", "done"}))
         /\ Summed' = Cardinality(HeadsOf([heads EXCEPT ![h] = state], {"done"}))
<1>1. FlowInv /\ ReportInv
  BY DEF CountInv
<1>2. FlowInv'
  BY <1>1 DEF FlowInv, Busy, p
<1>3. ReportInv'
  BY <1>1, ReportsKept
<1>4. Positions' = Positions /\ Entered' = Entered /\ Left' = Left /\ Ended' = Ended
  BY DEF Positions, Entered, Left, Ended
<1>5. /\ Scored' = Cardinality(HeadsOf([heads EXCEPT ![h] = state], {"scores", "done"}))
      /\ Summed' = Cardinality(HeadsOf([heads EXCEPT ![h] = state], {"done"}))
  BY DEF Scored, Summed, HeadsIn, HeadsOf
<1> QED
  BY <1>2, <1>3, <1>4, <1>5

\* A thread has the scores of a head.
LEMMA HeadScoresCounts ==
  ASSUME CountInv, NEW h \in DOMAIN heads, HeadScores(h)
  PROVE  CountInv'
<1>1. /\ pc = "heads" /\ pc' = pc /\ l' = l /\ process' = process /\ transformer' = transformer
      /\ reports' = reports /\ prompt_tokens' = prompt_tokens /\ pos' = pos
           /\ total_macs' = total_macs
      /\ process.program \in Direct /\ heads[h] = "todo"
      /\ heads' = [heads EXCEPT ![h] = "scores"]
      /\ counts' = IF process.program \in Counting THEN [counts EXCEPT !.attn_dot
           = @ + (pos + 1)]
                                                   ELSE counts
  BY DEF HeadScores, chatVars
<1>2. PICK n \in Nat : n = process.config.n_heads /\ DOMAIN heads = 0 .. n - 1
  BY <1>1, HeadFacts
<1>3. /\ FlowInv' /\ ReportInv' /\ Positions' = Positions
      /\ Entered' = Entered /\ Left' = Left /\ Ended' = Ended
      /\ Scored' = Cardinality(HeadsOf([heads EXCEPT ![h] = "scores"], {"scores", "done"}))
      /\ Summed' = Cardinality(HeadsOf([heads EXCEPT ![h] = "scores"], {"done"}))
  BY <1>1, HeadFlow
<1>4. Scored' = Scored + 1 /\ Summed' = Summed
  <2>1. HeadMoved(heads, h, "scores", {"scores", "done"})
          /\ HeadMoved(heads, h, "scores", {"done"})
    BY <1>2, HeadMoves
  <2>2. /\ Scored = Cardinality(HeadsOf(heads, {"scores", "done"}))
        /\ Summed = Cardinality(HeadsOf(heads, {"done"}))
    BY <1>1, HeadFacts
  <2> QED
    BY <1>1, <1>3, <2>1, <2>2 DEF HeadMoved
<1>5. /\ process \in Processes /\ AreTotals(process, Positions) /\ l \in Int /\ pos + 1 \in Int
      /\ Scored \in Int /\ Summed \in Int /\ Entered = l + 1 /\ Left = l /\ Ended = 0
  BY <1>1, HeadFacts
<1>6. CountsAdd(process, Positions, l + 1, l, 0, Scored, Summed, pos + 1)
  <2>1. l + 1 \in Int
    BY <1>5
  <2> QED
    BY <1>5, <2>1, CountsMove
<1>7. process.program # "run_fa"
  BY <1>1 DEF Direct
<1>8. counts = IF process.program \in Counting
               THEN CountsIn(process, Positions, l + 1, l, 0, Scored, Summed,
                   pos + 1) ELSE NoCounts
  BY <1>1, <1>5 DEF CountInv, CounterInv
<1>9. counts' = IF process.program \in Counting
                THEN CountsIn(process, Positions, l + 1, l, 0, Scored + 1, Summed,
                    pos + 1) ELSE NoCounts
  <2>1. CASE process.program \in Counting
    <3>1. counts' = DotsAdded(counts, pos + 1)
      BY <1>1, <2>1 DEF DotsAdded
    <3> QED
      BY <1>6, <1>7, <1>8, <2>1, <3>1 DEF CountsAdd
  <2>2. CASE process.program \notin Counting
    BY <1>1, <1>8, <2>2
  <2> QED
    BY <2>1, <2>2
<1>10. CounterInv'
  BY <1>1, <1>3, <1>4, <1>5, <1>9 DEF CountInv, CounterInv
<1> QED
  BY <1>3, <1>10 DEF CountInv

\* A thread has the sum of a head.
LEMMA HeadWeightedCounts ==
  ASSUME CountInv, NEW h \in DOMAIN heads, HeadWeighted(h)
  PROVE  CountInv'
<1>1. /\ pc = "heads" /\ pc' = pc /\ l' = l /\ process' = process /\ transformer' = transformer
      /\ reports' = reports /\ prompt_tokens' = prompt_tokens /\ pos' = pos
           /\ total_macs' = total_macs
      /\ process.program \in Direct /\ heads[h] = "scores"
      /\ heads' = [heads EXCEPT ![h] = "done"]
      /\ counts' = IF process.program \in Counting
                   THEN [counts EXCEPT !.softmax = @ + 1, !.attn_v = @ + (pos + 1)] ELSE counts
  BY DEF HeadWeighted, chatVars
<1>2. PICK n \in Nat : n = process.config.n_heads /\ DOMAIN heads = 0 .. n - 1
  BY <1>1, HeadFacts
<1>3. /\ FlowInv' /\ ReportInv' /\ Positions' = Positions
      /\ Entered' = Entered /\ Left' = Left /\ Ended' = Ended
      /\ Scored' = Cardinality(HeadsOf([heads EXCEPT ![h] = "done"], {"scores", "done"}))
      /\ Summed' = Cardinality(HeadsOf([heads EXCEPT ![h] = "done"], {"done"}))
  BY <1>1, HeadFlow
<1>4. Scored' = Scored /\ Summed' = Summed + 1
  <2>1. HeadMoved(heads, h, "done", {"scores", "done"})
          /\ HeadMoved(heads, h, "done", {"done"})
    BY <1>2, HeadMoves
  <2>2. /\ Scored = Cardinality(HeadsOf(heads, {"scores", "done"}))
        /\ Summed = Cardinality(HeadsOf(heads, {"done"}))
    BY <1>1, HeadFacts
  <2> QED
    BY <1>1, <1>3, <2>1, <2>2 DEF HeadMoved
<1>5. /\ process \in Processes /\ AreTotals(process, Positions) /\ l \in Int /\ pos + 1 \in Int
      /\ Scored \in Int /\ Summed \in Int /\ Entered = l + 1 /\ Left = l /\ Ended = 0
  BY <1>1, HeadFacts
<1>6. CountsAdd(process, Positions, l + 1, l, 0, Scored, Summed, pos + 1)
  <2>1. l + 1 \in Int
    BY <1>5
  <2> QED
    BY <1>5, <2>1, CountsMove
<1>7. process.program # "run_fa"
  BY <1>1 DEF Direct
<1>8. counts = IF process.program \in Counting
               THEN CountsIn(process, Positions, l + 1, l, 0, Scored, Summed,
                   pos + 1) ELSE NoCounts
  BY <1>1, <1>5 DEF CountInv, CounterInv
<1>9. counts' = IF process.program \in Counting
                THEN CountsIn(process, Positions, l + 1, l, 0, Scored, Summed + 1,
                    pos + 1) ELSE NoCounts
  <2>1. CASE process.program \in Counting
    <3>1. counts' = SumsAdded(counts, 1, pos + 1)
      BY <1>1, <2>1 DEF SumsAdded
    <3> QED
      BY <1>6, <1>7, <1>8, <2>1, <3>1 DEF CountsAdd
  <2>2. CASE process.program \notin Counting
    BY <1>1, <1>8, <2>2
  <2> QED
    BY <2>1, <2>2
<1>10. CounterInv'
  BY <1>1, <1>3, <1>4, <1>5, <1>9 DEF CountInv, CounterInv
<1> QED
  BY <1>3, <1>10 DEF CountInv

\* run_fa has done a head, and counts nothing.
LEMMA HeadFlashCounts ==
  ASSUME CountInv, NEW h \in DOMAIN heads, HeadFlash(h)
  PROVE  CountInv'
<1>1. /\ pc = "heads" /\ pc' = pc /\ l' = l /\ process' = process /\ transformer' = transformer
      /\ reports' = reports /\ prompt_tokens' = prompt_tokens /\ pos' = pos
           /\ total_macs' = total_macs
      /\ counts' = counts /\ process.program = "run_fa" /\ heads[h] = "todo"
      /\ heads' = [heads EXCEPT ![h] = "done"]
  BY DEF HeadFlash, chatVars, statics
<1>2. PICK n \in Nat : n = process.config.n_heads /\ DOMAIN heads = 0 .. n - 1
  BY <1>1, HeadFacts
<1>3. /\ FlowInv' /\ ReportInv' /\ Positions' = Positions
      /\ Entered' = Entered /\ Left' = Left /\ Ended' = Ended
      /\ Scored' = Cardinality(HeadsOf([heads EXCEPT ![h] = "done"], {"scores", "done"}))
      /\ Summed' = Cardinality(HeadsOf([heads EXCEPT ![h] = "done"], {"done"}))
  BY <1>1, HeadFlow
<1>4. Scored' = Scored + 1 /\ Summed' = Summed + 1
  <2>1. HeadMoved(heads, h, "done", {"scores", "done"})
          /\ HeadMoved(heads, h, "done", {"done"})
    BY <1>2, HeadMoves
  <2>2. /\ Scored = Cardinality(HeadsOf(heads, {"scores", "done"}))
        /\ Summed = Cardinality(HeadsOf(heads, {"done"}))
    BY <1>1, HeadFacts
  <2> QED
    BY <1>1, <1>3, <2>1, <2>2 DEF HeadMoved
<1>5. /\ process \in Processes /\ AreTotals(process, Positions) /\ l \in Int /\ pos + 1 \in Int
      /\ Scored \in Int /\ Summed \in Int /\ Entered = l + 1 /\ Left = l /\ Ended = 0
  BY <1>1, HeadFacts
<1>6. CountsAdd(process, Positions, l + 1, l, 0, Scored, Summed, pos + 1)
  <2>1. l + 1 \in Int
    BY <1>5
  <2> QED
    BY <1>5, <2>1, CountsMove
<1>7. CountsIn(process, Positions, l + 1, l, 0, Scored, Summed, pos + 1)
        = CountsIn(process, Positions, l + 1, l, 0, Scored + 1, Summed + 1, pos + 1)
  <2>1. Scored + 1 \in Int /\ Summed + 1 \in Int
    BY <1>5
  <2> QED
    BY <1>1, <1>6, <2>1 DEF CountsAdd
<1>8. CounterInv'
  BY <1>1, <1>3, <1>4, <1>5, <1>7 DEF CountInv, CounterInv
<1> QED
  BY <1>3, <1>8 DEF CountInv

\* All heads are done, and the layer is left.
LEMMA LayerEndsCounts ==
  ASSUME CountInv, LayerEnds
  PROVE  CountInv'
<1>1. FlowInv /\ CounterInv /\ ReportInv
  BY DEF CountInv
<1>2. PICK c : c = process.config /\ c = p
  BY <1>1 DEF FlowInv
<1>3. /\ pc = "heads" /\ pc' = "layer" /\ l' = l + 1
      /\ \A h \in DOMAIN heads : heads[h] = "done"
      /\ process' = process /\ transformer' = transformer /\ reports' = reports
      /\ prompt_tokens' = prompt_tokens /\ pos' = pos
      /\ total_macs' = IF process.program \in Profiled
                       THEN [total_macs EXCEPT !.attn
                         = @ + 2 * c.n_heads * (pos + 1) * HeadSize(c),
                                               !.o    = @ + c.dim * c.dim,
                                               !.ffn  = @ + 3 * c.dim * c.hidden_dim]
                       ELSE total_macs
      /\ Counts(4, 1)
  BY <1>2 DEF LayerEnds, chatVars
<1>4. FlowInv'
  <2>1. PICK N \in Nat : N = process.config.n_layers
    <3>1. process.config \in Configs /\ process.config.dim % process.config.n_heads = 0
      BY <1>1, ProcessAssumption DEF FlowInv
    <3> QED
      BY <3>1, ConfigNumbers
  <2>2. l + 1 \in 0 .. N
    BY <1>1, <1>3, <2>1 DEF FlowInv
  <2> QED
    BY <1>1, <1>3, <2>1, <2>2 DEF FlowInv, Busy, p
<1>5. /\ process \in Processes /\ AreTotals(process, Positions) /\ l \in Int /\ pos + 1 \in Int
      /\ Entered = l + 1 /\ Left = l /\ Ended = 0
  BY <1>3, HeadFacts
<1>6. Scored = c.n_heads /\ Summed = c.n_heads /\ c.n_heads \in Int
  <2>1. PICK n \in Nat : n = c.n_heads /\ DOMAIN heads = 0 .. n - 1
    BY <1>2, <1>3, HeadFacts
  <2>2. HeadsOf(heads, {"scores", "done"}) = 0 .. n - 1
          /\ HeadsOf(heads, {"done"}) = 0 .. n - 1
    BY <1>3, <2>1 DEF HeadsOf
  <2>3. Cardinality(0 .. n - 1) = n
    <3>1. 0 \in Int /\ n - 1 \in Int /\ n - 1 - 0 + 1 = n
      OBVIOUS
    <3>2. Cardinality(0 .. n - 1) = IF 0 > n - 1 THEN 0 ELSE n - 1 - 0 + 1
      BY <3>1, FS_Interval
    <3> QED
      BY <3>1, <3>2
  <2>4. /\ Scored = Cardinality(HeadsOf(heads, {"scores", "done"}))
        /\ Summed = Cardinality(HeadsOf(heads, {"done"}))
    BY <1>3, HeadFacts
  <2> QED
    BY <2>1, <2>2, <2>3, <2>4
<1>7. Positions' = Positions /\ Entered' = l + 1 /\ Left' = l + 1 /\ Ended' = 0
        /\ Scored' = 0 /\ Summed' = 0
  BY <1>3 DEF Positions, Entered, Left, Ended, Scored, Summed, HeadsIn
<1>8. l + 1 \in Int
  BY <1>5
<1>9. MacsAdd(process, Positions, l + 1, l, pos + 1)
  BY <1>5, <1>8, MacsMove
<1>10. CountsAdd(process, Positions, l + 1, l, 0, c.n_heads, c.n_heads, pos + 1)
  BY <1>5, <1>6, <1>8, CountsMove
<1>11. total_macs' = IF process.program \in Profiled
                     THEN MacsIn(process, Positions, l + 1, l + 1, pos + 1) ELSE NoMacs
  BY <1>1, <1>2, <1>3, <1>5, <1>9 DEF CounterInv, MacsAdd, LayerAdded
<1>12. counts' = IF process.program \in Counting
                 THEN CountsIn(process, Positions, l + 1, l + 1, 0, 0, 0,
                     pos + 1) ELSE NoCounts
  BY <1>1, <1>2, <1>3, <1>5, <1>6, <1>10 DEF CounterInv, Counts, CountsAdd, MatmulsAdded
<1>13. CounterInv'
  BY <1>3, <1>7, <1>11, <1>12 DEF CounterInv
<1> QED
  BY <1>1, <1>3, <1>4, <1>13, ReportsKept DEF CountInv

\* The last matrix of the position.
LEMMA LogitsCounts ==
  ASSUME CountInv, Logits
  PROVE  CountInv'
<1>1. FlowInv /\ CounterInv /\ ReportInv
  BY DEF CountInv
<1>2. /\ pc = "layer" /\ pc' = "next" /\ l' = l /\ l = process.config.n_layers
      /\ process' = process /\ transformer' = transformer /\ reports' = reports
      /\ prompt_tokens' = prompt_tokens /\ pos' = pos /\ total_macs' = total_macs
           /\ Counts(1, 1)
  BY <1>1 DEF Logits, chatVars, FlowInv
<1>3. FlowInv'
  BY <1>1, <1>2 DEF FlowInv, Busy, p
<1>4. /\ Positions' = Positions /\ Entered = l /\ Left = l /\ Ended = 0 /\ Scored = 0
           /\ Summed = 0
      /\ Entered' = l /\ Left' = l /\ Ended' = 1 /\ Scored' = 0 /\ Summed' = 0
  BY <1>2 DEF Positions, Entered, Left, Ended, Scored, Summed, HeadsIn
<1>5. process \in Processes /\ AreTotals(process, Positions) /\ l \in Int /\ pos + 1 \in Int
  BY <1>1, <1>2, CallFacts DEF FlowInv
<1>6. CountsAdd(process, Positions, l, l, 0, 0, 0, pos + 1)
  BY <1>5, CountsMove
<1>7. CountsIn(process, Positions, l, l, 0 + 1, 0, 0, pos + 1)
        = CountsIn(process, Positions, l, l, 1, 0, 0, pos + 1)
  OBVIOUS
<1>8. counts' = IF process.program \in Counting
                THEN CountsIn(process, Positions, l, l, 1, 0, 0, pos + 1) ELSE NoCounts
  BY <1>1, <1>2, <1>4, <1>6, <1>7 DEF CounterInv, Counts, CountsAdd, MatmulsAdded
<1>9. CounterInv'
  BY <1>1, <1>2, <1>4, <1>8 DEF CounterInv
<1> QED
  BY <1>1, <1>2, <1>3, <1>9, ReportsKept DEF CountInv

-----------------------------------------------------------------------------
(* Calls begin, go on and end.                                              *)

\* The config read is the one that was exported.
LEMMA ConfigRead ==
  ASSUME NEW c \in Configs, NEW shared \in BOOLEAN
  PROVE  read_checkpoint(ExportedHeader(c, shared)).config = c
<1> DEFINE header == ExportedHeader(c, shared)
           shared_weights == header.vocab_size > 0
           config == IF shared_weights THEN header ELSE [header EXCEPT !.vocab_size = -@]
           mapped(q) == [config |-> q, weights |-> memory_map_weights(q, shared_weights, TRUE)]
<1>1. config = c
  <2>1. CASE shared
    BY <2>1 DEF ExportedHeader, Configs
  <2>2. CASE ~shared
    <3>1. PICK head : head = [c EXCEPT !.vocab_size = -@]
      OBVIOUS
    <3>2. PICK v \in Nat : v = c.vocab_size /\ v > 0
      BY DEF Configs
    <3>3. head.vocab_size = -v /\ ~(-v > 0) /\ -(-v) = v
      BY <3>1, <3>2 DEF Configs
    <3>4. PICK back : back = [head EXCEPT !.vocab_size = -@]
      OBVIOUS
    <3>5. back.vocab_size = v
      BY <3>1, <3>3, <3>4 DEF Configs
    <3>6. back = c
      BY <3>1, <3>2, <3>4, <3>5 DEF Configs
    <3>7. header = head
      BY <2>2, <3>1 DEF ExportedHeader
    <3> QED
      BY <3>3, <3>4, <3>6, <3>7
  <2> QED
    BY <2>1, <2>2
<1>2. read_checkpoint(header) = Evaluated(Applied(mapped, config))
  BY DEF read_checkpoint
<1>3. mapped(config).config = config
  OBVIOUS
<1> HIDE DEF mapped, config, header
<1>4. read_checkpoint(header) = mapped(config)
  BY <1>2, AsWritten DEF Applied
<1>5. read_checkpoint(header).config = c
  BY <1>1, <1>3, <1>4
<1> QED
  BY <1>5 DEF header

\* A call begins at its first position.
LEMMA CallStarts ==
  ASSUME CountInv, NEW n, NEW tokens, ChatStarts(tokens, n),
         tokens = PromptIn(process, Len(reports) + 1)
  PROVE  CountInv'
<1>1. FlowInv /\ CounterInv /\ ReportInv
  BY DEF CountInv
<1>2. /\ pc = "call" /\ pc' = "forward" /\ Len(reports) < Len(process.calls)
      /\ process' = process /\ reports' = reports /\ total_macs' = total_macs
           /\ counts' = counts
      /\ transformer' = read_checkpoint(ExportedHeader(process.config, process.shared))
      /\ prompt_tokens' = tokens /\ pos' = 0
  BY DEF ChatStarts, build_transformer, statics
<1>3. p' = process.config
  <2>1. process.config \in Configs /\ process.shared \in BOOLEAN
    BY <1>1, ProcessAssumption DEF FlowInv
  <2>2. transformer'.config = process.config
    BY <1>2, <2>1, ConfigRead
  <2> QED
    BY <2>2 DEF p
<1>4. FlowInv'
  BY <1>1, <1>2, <1>3 DEF FlowInv, Busy
<1>5. PICK done, k : done = DoneOf(reports) /\ k = Len(reports)
  OBVIOUS
<1>6. /\ done \in Seq(Nat) /\ Len(done) = k /\ k \in Nat /\ AreTotals(process, done)
      /\ k + 1 \in DOMAIN process.calls /\ 1 .. k \subseteq DOMAIN process.calls
      /\ process \in Processes /\ pos + 1 \in Int
  BY <1>1, <1>2, <1>5, CallFacts DEF FlowInv
<1>7. /\ Positions = done /\ Entered = 0 /\ Left = 0 /\ Ended = 0 /\ Scored = 0 /\ Summed = 0
      /\ Positions' = Append(done, 0) /\ Entered' = 0 /\ Left' = 0 /\ Ended' = 0 /\ Scored' = 0
      /\ Summed' = 0
  BY <1>2, <1>5 DEF Positions, Entered, Left, Ended, Scored, Summed, HeadsIn
<1>8. /\ MacsIn(process, done, 0, 0, pos + 1) = MacsAt(process, done)
      /\ CountsIn(process, done, 0, 0, 0, 0, 0, pos + 1) = CountsAt(process, done)
  BY <1>6, AtRest
<1>9. PICK m \in Int : m = 0 + 1
  OBVIOUS
<1>10. /\ MacsIn(process, Append(done, 0), 0, 0, m) = MacsAt(process, done)
       /\ CountsIn(process, Append(done, 0), 0, 0, 0, 0, 0, m) = CountsAt(process, done)
  BY <1>6, CallBegins
<1>11. /\ total_macs = IF process.program \in Profiled THEN MacsAt(process, done) ELSE NoMacs
       /\ counts = IF process.program \in Counting THEN CountsAt(process, done) ELSE NoCounts
  BY <1>1, <1>2, <1>7, <1>8 DEF CounterInv
<1>12. CounterInv'
  BY <1>2, <1>7, <1>9, <1>10, <1>11 DEF CounterInv
<1> QED
  BY <1>1, <1>2, <1>4, <1>12, ReportsKept DEF CountInv

LEMMA StartsCount ==
  ASSUME CountInv, main \/ run_with_encode_decode \/ run_without_encode_decode
  PROVE  CountInv'
<1>1. /\ call = process.calls[Len(reports) + 1]
  BY DEF call
<1>2. CASE main
  BY <1>1, <1>2, CallStarts DEF main, PromptIn
<1>3. CASE run_with_encode_decode
  BY <1>1, <1>3, CallStarts DEF run_with_encode_decode, PromptIn
<1>4. CASE run_without_encode_decode
  BY <1>1, <1>4, CallStarts DEF run_without_encode_decode, PromptIn
<1> QED
  BY <1>2, <1>3, <1>4

\* What stops the process leaves nothing to count.
LEMMA StopsCount ==
  ASSUME CountInv, BuildFails \/ Crashes
  PROVE  CountInv'
<1>1. FlowInv /\ ReportInv
  BY DEF CountInv
<1>2. /\ pc' = "exited" /\ process' = process /\ transformer' = transformer
           /\ reports' = reports
      /\ pos' = pos
  BY DEF BuildFails, Crashes, chatVars
<1>3. FlowInv'
  BY <1>1, <1>2 DEF FlowInv, Busy, p
<1>4. CounterInv'
  BY <1>2 DEF CounterInv
<1> QED
  BY <1>1, <1>2, <1>3, <1>4, ReportsKept DEF CountInv

\* No step is left, or no room.
LEMMA StepsOverCounts ==
  ASSUME CountInv, StepsOver \/ Overruns
  PROVE  CountInv'
<1>1. FlowInv /\ CounterInv /\ ReportInv
  BY DEF CountInv
<1>2. /\ pc = "forward" /\ pc' \in {"report", "overrun"}
      /\ process' = process /\ transformer' = transformer /\ reports' = reports
      /\ prompt_tokens' = prompt_tokens /\ pos' = pos /\ total_macs' = total_macs
           /\ counts' = counts
  BY DEF StepsOver, Overruns, chatVars, statics
<1>3. FlowInv'
  BY <1>1, <1>2 DEF FlowInv, Busy, p
<1>4. /\ Positions' = Positions /\ Entered = 0 /\ Left = 0 /\ Ended = 0 /\ Scored = 0
           /\ Summed = 0
      /\ Entered' = 0 /\ Left' = 0 /\ Ended' = 0 /\ Scored' = 0 /\ Summed' = 0
  BY <1>2 DEF Positions, Entered, Left, Ended, Scored, Summed, HeadsIn
<1>5. CounterInv'
  BY <1>1, <1>2, <1>4 DEF CounterInv
<1> QED
  BY <1>1, <1>2, <1>3, <1>5, ReportsKept DEF CountInv

\* The position is over: a softmax more, if the choice is random.
LEMMA NextPositionCounts ==
  ASSUME CountInv, NextPosition, pc' \in {"forward", "report"}
  PROVE  CountInv'
<1>1. FlowInv /\ CounterInv /\ ReportInv
  BY DEF CountInv
<1>2. /\ pc = "next" /\ pos' = pos + 1
      /\ process' = process /\ transformer' = transformer /\ reports' = reports
      /\ prompt_tokens' = prompt_tokens /\ total_macs' = total_macs
      /\ counts' = IF pos >= Len(prompt_tokens) - 1 /\ process.program \in Counting
           /\ call.mode # "greedy"
                   THEN [counts EXCEPT !.softmax = @ + 1] ELSE counts
  BY DEF NextPosition, forwardVars
<1>3. FlowInv'
  BY <1>1, <1>2 DEF FlowInv, Busy, p
<1>4. PICK done, k : done = DoneOf(reports) /\ k = Len(reports)
  OBVIOUS
<1>5. PICK N \in Nat : N = process.config.n_layers
  <2>1. process.config \in Configs /\ process.config.dim % process.config.n_heads = 0
    BY <1>1, ProcessAssumption DEF FlowInv
  <2> QED
    BY <2>1, ConfigNumbers
<1>6. /\ done \in Seq(Nat) /\ Len(done) = k /\ k \in Nat /\ AreTotals(process, done)
      /\ k + 1 \in DOMAIN process.calls /\ 1 .. k \subseteq DOMAIN process.calls
      /\ process \in Processes /\ pos \in Nat /\ prompt_tokens = PromptIn(process, k + 1)
           /\ l = N
  BY <1>1, <1>2, <1>4, <1>5, CallFacts DEF FlowInv, Busy
<1>7. /\ Positions = Append(done, pos) /\ Entered = N /\ Left = N /\ Ended = 1
      /\ Scored = 0 /\ Summed = 0
      /\ Positions' = Append(done, pos + 1) /\ Entered' = 0 /\ Left' = 0 /\ Ended' = 0
      /\ Scored' = 0 /\ Summed' = 0
  BY <1>2, <1>4, <1>6 DEF Positions, Entered, Left, Ended, Scored, Summed, HeadsIn
<1>8. PICK m \in Int : m = pos + 1 + 1
  BY <1>6
<1> DEFINE counted == CountsIn(process, Append(done, pos), N, N, 1, 0, 0, pos + 1)
<1> HIDE DEF counted
<1>9. /\ MacsIn(process, Append(done, pos), N, N, pos + 1)
           = MacsIn(process, Append(done, pos + 1), 0, 0, m)
      /\ (IF Chosen(process, k + 1, pos) THEN SoftmaxesAdded(counted, 1) ELSE counted)
           = CountsIn(process, Append(done, pos + 1), 0, 0, 0, 0, 0, m)
  <2>1. PICK c : c = counted
    OBVIOUS
  <2>2. c = CountsIn(process, Append(done, pos), N, N, 1, 0, 0, pos + 1)
    BY <2>1 DEF counted
  <2>3. GoesOn(process, done, k, pos, N, c, m)
    BY <1>5, <1>6, <1>8, <2>2, PositionEnds
  <2> QED
    BY <2>1, <2>3 DEF GoesOn
<1>10. total_macs' = IF process.program \in Profiled
                     THEN MacsIn(process, Append(done, pos + 1), 0, 0, m) ELSE NoMacs
  BY <1>1, <1>2, <1>7, <1>9 DEF CounterInv
<1>11. counts = IF process.program \in Counting THEN counted ELSE NoCounts
  BY <1>1, <1>2, <1>7, <1>8 DEF CounterInv, counted
<1>12. Chosen(process, k + 1, pos) <=> pos >= Len(prompt_tokens) - 1 /\ call.mode # "greedy"
  BY <1>4, <1>6 DEF Chosen, call
<1>13. counts' = IF process.program \in Counting
                 THEN CountsIn(process, Append(done, pos + 1), 0, 0, 0, 0, 0, m) ELSE NoCounts
  <2>1. CASE process.program \notin Counting
    BY <1>2, <1>11, <2>1
  <2>2. CASE process.program \in Counting /\ Chosen(process, k + 1, pos)
    <3>1. counts' = SoftmaxesAdded(counted, 1)
      BY <1>2, <1>11, <1>12, <2>2 DEF SoftmaxesAdded
    <3> QED
      BY <1>9, <2>2, <3>1
  <2>3. CASE process.program \in Counting /\ ~Chosen(process, k + 1, pos)
    <3>1. counts' = counted
      BY <1>2, <1>11, <1>12, <2>3
    <3> QED
      BY <1>9, <2>3, <3>1
  <2> QED
    BY <2>1, <2>2, <2>3
<1>14. CounterInv'
  BY <1>2, <1>7, <1>8, <1>10, <1>13 DEF CounterInv
<1> QED
  BY <1>1, <1>2, <1>3, <1>14, ReportsKept DEF CountInv

LEMMA PositionsCount ==
  ASSUME CountInv, Chat \/ ChatCounting \/ chat_without_encode_decode
  PROVE  CountInv'
<1>1. NextPosition /\ pc' \in {"forward", "report"}
  <2>1. CASE Chat
    BY <2>1 DEF Chat, Continues
  <2>2. CASE ChatCounting
    BY <2>2 DEF ChatCounting, Continues
  <2>3. CASE chat_without_encode_decode
    BY <2>3 DEF chat_without_encode_decode, Continues
  <2> QED
    BY <2>1, <2>2, <2>3
<1> QED
  BY <1>1, NextPositionCounts

\* What a call that returns reports is true of the calls up to it.
LEMMA ReportTold ==
  ASSUME FlowInv, CounterInv, pc = "report",
         NEW e, e = [gen |-> gen, pos |-> pos, report |-> Report]
  PROVE  Told(process, Append(DoneOf(reports), pos), e)
<1>1. PICK at : at = Append(DoneOf(reports), pos)
  OBVIOUS
<1>2. /\ Positions = at /\ Entered = 0 /\ Left = 0 /\ Ended = 0 /\ Scored = 0 /\ Summed = 0
  BY <1>1 DEF Positions, Entered, Left, Ended, Scored, Summed, HeadsIn
<1>3. process \in Processes /\ AreTotals(process, at) /\ pos \in Nat /\ pos + 1 \in Int
  BY <1>2, CallFacts DEF FlowInv
<1>4. /\ MacsIn(process, at, 0, 0, pos + 1) = MacsAt(process, at)
      /\ CountsIn(process, at, 0, 0, 0, 0, 0, pos + 1) = CountsAt(process, at)
  BY <1>3, AtRest
<1>5. /\ process.program \in Profiled => total_macs = MacsAt(process, at)
      /\ process.program \in Counting => counts = CountsAt(process, at)
  BY <1>2, <1>4 DEF CounterInv
<1>6. PICK k \in Nat : k = Len(prompt_tokens)
  <2>1. Len(reports) + 1 \in DOMAIN process.calls
          /\ prompt_tokens = PromptIn(process, Len(reports) + 1)
    BY CallFacts DEF FlowInv, Busy
  <2> QED
    BY <1>3, <2>1, PromptHasTokens
<1>7. process.program \in Programs
  BY <1>3, ProcessAssumption
<1>8. Told(process, at, e)
  <2>1. CASE Report = Nothing
    <3>1. e.report.kind = "nothing"
      BY <2>1 DEF Nothing
    <3> QED
      BY <3>1 DEF Told
  <2>2. CASE Report = ProfiledReport /\ process.program \in Profiled
    <3>1. e.report.kind = "macs" /\ e.report.total_macs = total_macs
      BY <2>2 DEF ProfiledReport
    <3> QED
      BY <1>5, <2>2, <3>1 DEF Told
  <2>3. CASE Report = CountingReport /\ process.program \in Counting
    <3>1. /\ e.report.kind = "counts" /\ e.report.total_macs = total_macs
               /\ e.report.counts = counts
          /\ e.report.prefill_tokens = k /\ e.report.decode_tokens = pos - k /\ e.pos = pos
      BY <1>6, <2>3 DEF CountingReport
    <3>2. k + (pos - k) = pos
      BY <1>3
    <3>3. process.program \in Profiled
      BY <2>3 DEF Counting, Profiled
    <3> QED
      BY <1>5, <2>3, <3>1, <3>2, <3>3 DEF Told
  <2>4. \/ Report = Nothing
        \/ Report = ProfiledReport /\ process.program \in Profiled
        \/ Report = CountingReport /\ process.program \in Counting
    BY <1>7 DEF Report, Programs, Direct, Profiled, Counting
  <2> QED
    BY <2>1, <2>2, <2>3, <2>4
<1> QED
  BY <1>1, <1>8

\* A call returns: its position is that of its report.
LEMMA ReturnsCount ==
  ASSUME CountInv, Returns
  PROVE  CountInv'
<1>1. FlowInv /\ CounterInv /\ ReportInv
  BY DEF CountInv
<1>2. PICK e : e = [gen |-> gen, pos |-> pos, report |-> Report]
  OBVIOUS
<1>3. /\ pc = "report" /\ pc' = "call" /\ reports' = Append(reports, e)
      /\ process' = process /\ transformer' = transformer /\ prompt_tokens' = prompt_tokens
      /\ pos' = pos /\ total_macs' = total_macs /\ counts' = counts
  BY <1>2 DEF Returns, chatVars, statics
<1>4. PICK done, k, at : done = DoneOf(reports) /\ k = Len(reports) /\ at = Append(done, pos)
  OBVIOUS
<1>5. /\ done \in Seq(Nat) /\ Len(done) = k /\ k \in Nat /\ pos \in Nat /\ IsSequence(reports)
      /\ process \in Processes /\ \A i \in DOMAIN reports : reports[i].pos \in Nat
      /\ k + 1 \in DOMAIN process.calls
  BY <1>1, <1>3, <1>4, CallFacts DEF FlowInv, Busy
<1>6. /\ IsSequence(reports') /\ Len(reports') = k + 1 /\ DOMAIN reports' = 1 .. k + 1
      /\ DOMAIN reports = 1 .. k
      /\ reports'[k + 1] = e /\ \A i \in 1 .. k : reports'[i] = reports[i]
  <2>1. IsSequence(reports)
    BY <1>5
  <2>2. PICK r : r = Append(reports, e)
    OBVIOUS
  <2>3. /\ IsSequence(r) /\ Len(r) = Len(reports) + 1 /\ DOMAIN r = 1 .. Len(reports) + 1
        /\ DOMAIN reports = 1 .. Len(reports)
        /\ r[Len(reports) + 1] = e /\ \A i \in 1 .. Len(reports) : r[i] = reports[i]
    BY <2>1, <2>2, AppendedSequence
  <2> QED
    BY <1>3, <1>4, <2>2, <2>3
<1>7. at \in Seq(Nat) /\ Len(at) = k + 1 /\ \A i \in 1 .. k : at[i] = done[i]
  BY <1>4, <1>5
<1>8. DoneOf(reports') = at
  <2>1. e.pos = pos /\ e.pos \in Nat
    BY <1>2, <1>5
  <2>2. DoneOf(Append(reports, e)) = Append(DoneOf(reports), e.pos)
    BY <1>5, <2>1, AppendedDone
  <2> QED
    BY <1>3, <1>4, <2>1, <2>2
<1>9. FlowInv'
  <2>1. PICK count \in Nat : count = Len(process.calls) /\ DOMAIN process.calls = 1 .. count
    <3>1. PICK V, calls : calls = process.calls /\ V = Range(calls) /\ calls \in Seq(V)
      BY <1>5, ProcessAssumption
    <3>2. Len(calls) \in Nat /\ DOMAIN calls = 1 .. Len(calls)
      BY <3>1
    <3> QED
      BY <3>1, <3>2
  <2>2. k + 1 <= count
    BY <1>5, <2>1
  <2>3. ASSUME NEW i \in 1 .. k + 1 PROVE reports'[i].pos \in Nat
    <3>1. CASE i = k + 1
      BY <1>2, <1>5, <1>6, <3>1
    <3>2. CASE i # k + 1
      <4>1. i \in 1 .. k
        BY <1>5, <3>2
      <4> QED
        BY <1>5, <1>6, <4>1
    <3> QED
      BY <3>1, <3>2
  <2>4. \A i \in DOMAIN reports' : reports'[i].pos \in Nat
    BY <1>6, <2>3
  <2> QED
    BY <1>1, <1>3, <1>6, <2>1, <2>2, <2>4 DEF FlowInv, Busy, p
<1>10. /\ Positions' = Positions /\ Entered = 0 /\ Left = 0 /\ Ended = 0 /\ Scored = 0
            /\ Summed = 0
       /\ Entered' = 0 /\ Left' = 0 /\ Ended' = 0 /\ Scored' = 0 /\ Summed' = 0
  BY <1>3, <1>4, <1>8 DEF Positions, Entered, Left, Ended, Scored, Summed, HeadsIn
<1>11. CounterInv'
  BY <1>1, <1>3, <1>10 DEF CounterInv
<1>12. ASSUME NEW i \in 1 .. k + 1 PROVE Told(process, SubSeq(at, 1, i), reports'[i])
  <2>1. CASE i = k + 1
    <3>1. Told(process, at, e)
      BY <1>1, <1>2, <1>3, <1>4, ReportTold
    <3>2. SubSeq(at, 1, i) = at
      <4>1. i \in Nat
        BY <1>5
      <4> QED
        BY <1>7, <2>1, <4>1, WholePart
    <3> QED
      BY <1>6, <2>1, <3>1, <3>2
  <2>2. CASE i # k + 1
    <3>1. i \in 1 .. k /\ i \in Nat /\ i <= Len(done) /\ i <= Len(at)
      BY <1>5, <1>7, <2>2
    <3>2. \A j \in 1 .. i : at[j] = done[j]
      BY <1>5, <1>7, <3>1
    <3>3. SubSeq(at, 1, i) = SubSeq(done, 1, i)
      BY <1>5, <1>7, <3>1, <3>2, FirstPart
    <3>4. Told(process, SubSeq(done, 1, i), reports[i])
      BY <1>1, <1>4, <1>6, <3>1 DEF ReportInv
    <3> QED
      BY <1>6, <3>1, <3>3, <3>4
  <2> QED
    BY <2>1, <2>2
<1>13. ReportInv'
  BY <1>3, <1>6, <1>8, <1>12 DEF ReportInv
<1> QED
  BY <1>9, <1>11, <1>13 DEF CountInv

-----------------------------------------------------------------------------
(* The theorem.                                                             *)

\* Nothing is done and nothing counted.
LEMMA CountInit ==
  ASSUME Init
  PROVE  CountInv
<1>1. /\ process \in Processes /\ pc = "call" /\ pos = 0 /\ reports = <<>>
      /\ transformer = read_checkpoint(ExportedHeader(process.config, process.shared))
      /\ total_macs = NoMacs /\ counts = NoCounts
  BY DEF Init
<1>2. p = process.config
  <2>1. process.config \in Configs /\ process.shared \in BOOLEAN
    BY <1>1, ProcessAssumption
  <2>2. transformer.config = process.config
    BY <1>1, <2>1, ConfigRead
  <2> QED
    BY <2>2 DEF p
<1>3. reports \in Seq({}) /\ Len(reports) = 0 /\ DOMAIN reports = {}
  BY <1>1
<1>4. FlowInv
  <2>1. PICK count \in Nat : count = Len(process.calls)
    <3>1. PICK V, calls : calls = process.calls /\ V = Range(calls) /\ calls \in Seq(V)
      BY <1>1, ProcessAssumption
    <3>2. Len(calls) \in Nat
      BY <3>1
    <3> QED
      BY <3>1, <3>2
  <2>2. IsSequence(reports)
    BY <1>3 DEF IsSequence
  <2>3. Len(reports) <= Len(process.calls)
    BY <1>3, <2>1
  <2> QED
    BY <1>1, <1>2, <1>3, <2>2, <2>3 DEF FlowInv, Busy
<1>5. ReportInv
  BY <1>3 DEF ReportInv
<1>6. PICK done : done = DoneOf(reports) /\ DOMAIN done = {}
  BY <1>3 DEF DoneOf
<1>7. Total(done) = 0 /\ Pairs(done) = 0 /\ ChoicesOf(process, done) = 0
  <2>1. ASSUME NEW f, DOMAIN f = {} PROVE Total(f) = 0
    <3>1. Total(f) = SumOver(f, {})
      BY <2>1 DEF Total, SumOver
    <3>2. IsFiniteSet({}) /\ \A i \in {} : f[i] = 0
      BY FS_EmptySet
    <3>3. SumOver(f, {}) = 0
      BY <3>2, SumOfNothing
    <3> QED
      BY <3>1, <3>3
  <2>2. PICK f, g : /\ f = [i \in DOMAIN done |-> (done[i] * (done[i] + 1)) \div 2]
                    /\ g = [i \in DOMAIN done |-> ChoicesIn(process, i, done[i])]
    OBVIOUS
  <2>3. DOMAIN f = {} /\ DOMAIN g = {}
    BY <1>6, <2>2
  <2>4. Total(done) = 0 /\ Total(f) = 0 /\ Total(g) = 0
    BY <1>6, <2>1, <2>3
  <2> QED
    BY <2>2, <2>4 DEF Pairs, ChoicesOf
<1>8. /\ Positions = done /\ Entered = 0 /\ Left = 0 /\ Ended = 0 /\ Scored = 0 /\ Summed = 0
  BY <1>1, <1>6 DEF Positions, Entered, Left, Ended, Scored, Summed, HeadsIn
<1>9. PICK N, H, D, F, Q \in Int :
        /\ N = process.config.n_layers /\ H = process.config.n_heads /\ D = process.config.dim
        /\ F = process.config.hidden_dim /\ Q = QkvFloats(process.config)
  <2>1. PICK c : c = process.config /\ c \in Configs /\ c.dim % c.n_heads = 0
    BY <1>1, ProcessAssumption
  <2>2. {c.dim, c.hidden_dim, c.n_layers, c.n_heads} \subseteq Int /\ KvDim(c) \in Int
    BY <2>1, ConfigNumbers
  <2>3. QkvFloats(c) \in Int
    BY <2>2 DEF QkvFloats
  <2> QED
    BY <2>1, <2>2, <2>3
<1>10. \A x \in Int : 0 * x = 0
  OBVIOUS
<1>11. MacsIn(process, done, 0, 0, pos + 1) = NoMacs
  <2>1. MacsIn(process, done, 0, 0, pos + 1)
          = [qkv |-> (0 * N + 0) * Q, attn |-> (0 * N + 0 * 1) * (2 * D),
              o |-> (0 * N + 0) * (D * D),
             ffn |-> (0 * N + 0) * (3 * D * F)]
    BY <1>1, <1>7, <1>9 DEF MacsIn, Worked
  <2>2. /\ (0 * N + 0) * Q = 0 /\ (0 * N + 0 * 1) * (2 * D) = 0 /\ (0 * N + 0) * (D * D) = 0
        /\ (0 * N + 0) * (3 * D * F) = 0
    OBVIOUS
  <2> QED
    BY <2>1, <2>2 DEF NoMacs
<1>12. CountsIn(process, done, 0, 0, 0, 0, 0, pos + 1) = NoCounts
  <2>1. 0 * N + 0 = 0 /\ 0 * N + 0 * (pos + 1) = 0 /\ 0 * H + 0 = 0
          /\ 0 * H + 0 * (pos + 1) = 0 /\ 0 + 0 = 0
    BY <1>1
  <2>2. Share(process, 0) = 0
    BY DEF Share
  <2>3. CountsIn(process, done, 0, 0, 0, 0, 0, pos + 1) = Operations(0, 0, 0, 0, 0, 0)
    BY <1>7, <1>9, <2>1, <2>2 DEF CountsIn
  <2> QED
    BY <2>3 DEF Operations, NoCounts
<1>13. CounterInv
  BY <1>1, <1>8, <1>11, <1>12 DEF CounterInv
<1> QED
  BY <1>4, <1>5, <1>13 DEF CountInv

\* One step more.
LEMMA CountNext ==
  ASSUME CountInv, [Next]_vars
  PROVE  CountInv'
<1>1. CASE main \/ run_with_encode_decode \/ run_without_encode_decode
  BY <1>1, StartsCount
<1>2. CASE BuildFails \/ Crashes
  BY <1>2, StopsCount
<1>3. CASE Forward
  <2>1. CASE StartForward \/ Overruns
    BY <2>1, StartForwardCounts, StepsOverCounts
  <2>2. CASE Qkv
    BY <2>2, QkvCounts
  <2>3. ASSUME NEW h \in DOMAIN heads, HeadScores(h) \/ HeadWeighted(h) \/ HeadFlash(h)
        PROVE  CountInv'
    <3>1. CASE HeadScores(h)
      BY <3>1, HeadScoresCounts
    <3>2. CASE HeadWeighted(h)
      BY <3>2, HeadWeightedCounts
    <3>3. CASE HeadFlash(h)
      BY <3>3, HeadFlashCounts
    <3> QED
      BY <2>3, <3>1, <3>2, <3>3
  <2>4. CASE LayerEnds
    BY <2>4, LayerEndsCounts
  <2>5. CASE Logits
    BY <2>5, LogitsCounts
  <2> QED
    BY <1>3, <2>1, <2>2, <2>3, <2>4, <2>5 DEF Forward
<1>4. CASE Chat \/ ChatCounting \/ chat_without_encode_decode
  BY <1>4, PositionsCount
<1>5. CASE StepsOver
  BY <1>5, StepsOverCounts
<1>6. CASE Returns
  BY <1>6, ReturnsCount
<1>7. CASE UNCHANGED vars
  <2>1. FlowInv /\ CounterInv /\ ReportInv
    BY DEF CountInv
  <2>2. /\ process' = process /\ pc' = pc /\ transformer' = transformer /\ l' = l
             /\ heads' = heads
        /\ prompt_tokens' = prompt_tokens /\ pos' = pos /\ total_macs' = total_macs
        /\ counts' = counts /\ reports' = reports
    BY <1>7 DEF vars, forwardVars, chatVars, statics
  <2>3. FlowInv'
    BY <2>1, <2>2 DEF FlowInv, Busy, p
  <2>4. CounterInv'
    BY <2>1, <2>2 DEF CounterInv, Positions, Entered, Left, Ended, Scored, Summed, HeadsIn
  <2> QED
    BY <2>1, <2>2, <2>3, <2>4, ReportsKept DEF CountInv
<1> QED
  BY <1>1, <1>2, <1>3, <1>4, <1>5, <1>6, <1>7 DEF Next

\* The invariant says what CountersAddUp does, with the steps of a position.
LEMMA CountedAsPromised ==
  ASSUME CountInv
  PROVE  CountersAddUp
<1>1. FlowInv /\ CounterInv /\ ReportInv
  BY DEF CountInv
<1>2. SUFFICES ASSUME pc \in {"call", "forward", "report"} PROVE CountersAddUp
  BY DEF CountersAddUp
<1>3. PICK done, k, positions : done = DoneOf(reports) /\ k = Len(reports)
             /\ positions = Positions
  OBVIOUS
<1>4. /\ process \in Processes /\ done \in Seq(Nat) /\ Len(done) = k /\ k \in Nat
           /\ pos + 1 \in Int
      /\ AreTotals(process, positions) /\ IsSequence(reports)
  BY <1>1, <1>2, <1>3, CallFacts DEF FlowInv
<1>5. /\ positions = IF pc = "call" THEN done ELSE Append(done, pos)
      /\ Entered = 0 /\ Left = 0 /\ Ended = 0 /\ Scored = 0 /\ Summed = 0
  BY <1>2, <1>3 DEF Positions, Entered, Left, Ended, Scored, Summed, HeadsIn
<1>6. /\ MacsIn(process, positions, 0, 0, pos + 1) = MacsAfter(positions)
      /\ CountsIn(process, positions, 0, 0, 0, 0, 0, pos + 1) = CountsAfter(positions)
  <2>1. Total(positions) \in Int /\ Pairs(positions) \in Int
    BY <1>4 DEF AreTotals
  <2>2. /\ MacsIn(process, positions, 0, 0, pos + 1) = MacsAt(process, positions)
        /\ CountsIn(process, positions, 0, 0, 0, 0, 0, pos + 1) = CountsAt(process, positions)
    BY <1>4, AtRest
  <2>3. /\ MacsAfter(positions) = MacsAt(process, positions)
        /\ CountsAfter(positions) = CountsAt(process, positions)
    BY <1>4, <2>1, CountersAt
  <2> QED
    BY <2>2, <2>3
<1>7. /\ total_macs = IF process.program \in Profiled THEN MacsAfter(positions) ELSE NoMacs
      /\ counts = IF process.program \in Counting THEN CountsAfter(positions) ELSE NoCounts
  BY <1>1, <1>2, <1>3, <1>5, <1>6 DEF CounterInv
<1>8. DOMAIN reports = 1 .. k
  BY <1>3, <1>4, AppendedSequence
<1>9. ASSUME NEW i \in DOMAIN reports
      PROVE  LET r == reports[i].report
             IN  /\ r.kind # "nothing" => r.total_macs = MacsAfter(SubSeq(done, 1, i))
                 /\ r.kind = "counts" =>
                      /\ r.counts = CountsAfter(SubSeq(done, 1, i))
                      /\ r.prefill_tokens + r.decode_tokens = reports[i].pos
  <2>1. i \in Nat /\ i <= Len(done)
    BY <1>4, <1>8
  <2>2. PICK part : part = SubSeq(done, 1, i)
    OBVIOUS
  <2>3. part \in Seq(Nat)
    BY <1>4, <2>1, <2>2, FirstPart
  <2>4. Total(part) \in Int /\ Pairs(part) \in Int
    BY <2>3, PositionTotals
  <2>5. MacsAfter(part) = MacsAt(process, part) /\ CountsAfter(part) = CountsAt(process, part)
    BY <1>4, <2>4, CountersAt
  <2>6. Told(process, part, reports[i])
    BY <1>1, <1>3, <2>2 DEF ReportInv
  <2> QED
    BY <2>2, <2>5, <2>6 DEF Told
<1>10. done = [i \in DOMAIN reports |-> reports[i].pos]
  BY <1>3 DEF DoneOf
<1> QED
  BY <1>5, <1>7, <1>9, <1>10 DEF CountersAddUp

\* For every network, vocabulary and sampler, every sequence of calls of a process and
\* every order in which the threads do their heads: the static counters hold what the
\* calls so far have done, nothing lost and nothing counted twice, whichever entry was
\* called and wherever it stopped; and each report printed says it of the calls up to its
\* own. The steps asked for may be any number, more than the network has positions and
\* fewer than none too.
THEOREM CallsCounted == Spec => []CountersAddUp
<1>1. Init => CountInv
  BY CountInit
<1>2. CountInv /\ [Next]_vars => CountInv'
  BY CountNext
<1>3. CountInv => CountersAddUp
  BY CountedAsPromised
<1> QED
  BY <1>1, <1>2, <1>3, PTL DEF Spec

-----------------------------------------------------------------------------
(* Room for the positions.                                                  *)

\* Only chat of run_with_encode_decode is given the steps as they were asked for.
StepsInv ==
  /\ Busy => steps \in Int
  /\ Busy => IF process.entry = "run_with_encode_decode"
             THEN steps = call.max_steps ELSE steps <= process.config.seq_len
  /\ Busy => pos <= process.config.seq_len
  /\ PassesFit

LEMMA RoomNumbers ==
  ASSUME FlowInv
  PROVE  /\ process.config.seq_len \in Nat \ {0} /\ p = process.config /\ pos \in Nat
         /\ Busy => call.max_steps \in Int
<1>1. process \in Processes /\ p = process.config /\ pos \in Nat
  BY DEF FlowInv
<1>2. process.config.seq_len \in Nat \ {0}
  BY <1>1, ProcessAssumption DEF Configs
<1>3. ASSUME Busy PROVE call.max_steps \in Int
  <2>1. Len(reports) + 1 \in DOMAIN process.calls
    BY <1>3, CallFacts DEF FlowInv
  <2> QED
    BY <1>1, <2>1, ProcessAssumption DEF call
<1> QED
  BY <1>1, <1>2, <1>3

LEMMA ClampedFits ==
  ASSUME process.config.seq_len \in Nat, NEW n \in Int
  PROVE  Clamped(n) \in Int /\ Clamped(n) <= process.config.seq_len
BY DEF Clamped

LEMMA StartsFit ==
  ASSUME FlowInv, main \/ run_with_encode_decode \/ run_without_encode_decode
  PROVE  StepsInv'
<1>1. process.config.seq_len \in Nat \ {0} /\ process \in Processes
  BY RoomNumbers DEF FlowInv
<1>2. pc = "call" /\ Len(reports) < Len(process.calls)
  BY DEF main, run_with_encode_decode, run_without_encode_decode, ChatStarts
<1>3. pc' = "forward" /\ pos' = 0 /\ process' = process /\ reports' = reports
  BY DEF main, run_with_encode_decode, run_without_encode_decode, ChatStarts
<1>4. call.max_steps \in Int
  <2>1. Len(reports) + 1 \in DOMAIN process.calls
    BY <1>2, CallFacts
  <2> QED
    BY <1>1, <2>1, ProcessAssumption DEF call
<1>5. call' = call
  BY <1>3 DEF call
<1>6. /\ steps' \in Int
      /\ IF process.entry = "run_with_encode_decode"
         THEN steps' = call.max_steps ELSE steps' <= process.config.seq_len
  <2>1. CASE main
    BY <1>1, <2>1, ClampedFits DEF main, ChatStarts, MainSteps
  <2>2. CASE run_with_encode_decode
    BY <1>4, <2>2 DEF run_with_encode_decode, ChatStarts
  <2>3. CASE run_without_encode_decode
    BY <1>1, <1>4, <2>3, ClampedFits DEF run_without_encode_decode, ChatStarts
  <2> QED
    BY <2>1, <2>2, <2>3
<1> QED
  BY <1>1, <1>3, <1>5, <1>6 DEF StepsInv, PassesFit

\* A pass is begun where there is room, and no other step of it changes the position.
LEMMA PassFits ==
  ASSUME FlowInv, StepsInv, pos' = pos, steps' = steps, process' = process, reports' = reports,
         transformer' = transformer,
         \/ pc = "forward" /\ pos < steps /\ pos < p.seq_len
         \/ pc \in {"layer", "heads", "next"}
  PROVE  pc' \in {"layer", "heads", "next"} => StepsInv'
<1>1. process.config.seq_len \in Nat \ {0} /\ p = process.config /\ pos \in Nat
  BY RoomNumbers
<1>2. p' = p /\ call' = call
  BY DEF p, call
<1>3. pos < steps /\ pos < p.seq_len
  BY DEF StepsInv, PassesFit
<1> QED
  BY <1>1, <1>2, <1>3 DEF StepsInv, PassesFit, Busy

LEMMA ForwardFits ==
  ASSUME FlowInv, StepsInv, Forward
  PROVE  StepsInv'
<1>1. CASE StartForward
  BY <1>1, PassFits DEF StartForward, chatVars
<1>2. CASE Overruns
  <2>1. /\ pc = "forward" /\ pos < steps /\ pos >= p.seq_len /\ pc' = "overrun"
        /\ process' = process /\ transformer' = transformer /\ reports' = reports
        /\ pos' = pos /\ steps' = steps
    BY <1>2 DEF Overruns, chatVars
  <2>2. process.config.seq_len \in Nat \ {0} /\ p = process.config /\ pos \in Nat /\ Busy
    BY <2>1, RoomNumbers DEF Busy
  <2>3. p' = p /\ call' = call
    BY <2>1 DEF p, call
  <2>4. pos = p.seq_len
    BY <2>1, <2>2 DEF StepsInv
  <2>5. call.max_steps \in Int
    BY <2>2, RoomNumbers
  <2>6. process.entry = "run_with_encode_decode" /\ steps = call.max_steps
    <3>1. ASSUME process.entry # "run_with_encode_decode" PROVE FALSE
      <4>1. steps <= process.config.seq_len
        BY <2>2, <3>1 DEF StepsInv
      <4> QED
        BY <2>1, <2>2, <2>4, <4>1 DEF StepsInv
    <3> QED
      BY <2>2, <3>1 DEF StepsInv
  <2> QED
    BY <2>1, <2>2, <2>3, <2>4, <2>5, <2>6 DEF StepsInv, PassesFit
<1>3. CASE Qkv
  BY <1>3, PassFits DEF Qkv, chatVars
<1>4. ASSUME NEW h \in DOMAIN heads, HeadScores(h) \/ HeadWeighted(h) \/ HeadFlash(h)
      PROVE  StepsInv'
  BY <1>4, PassFits DEF HeadScores, HeadWeighted, HeadFlash, chatVars
<1>5. CASE LayerEnds
  BY <1>5, PassFits DEF LayerEnds, chatVars
<1>6. CASE Logits
  BY <1>6, PassFits DEF Logits, chatVars
<1> QED
  BY <1>1, <1>2, <1>3, <1>4, <1>5, <1>6 DEF Forward

LEMMA PositionsFit ==
  ASSUME FlowInv, StepsInv, Chat \/ ChatCounting \/ chat_without_encode_decode
  PROVE  StepsInv'
<1>1. /\ pc = "next" /\ pos' = pos + 1 /\ process' = process /\ reports' = reports
      /\ transformer' = transformer /\ steps' = steps
  BY DEF Chat, ChatCounting, chat_without_encode_decode, NextPosition
<1>2. pc' \in {"forward", "report"}
  BY DEF Chat, ChatCounting, chat_without_encode_decode, Continues
<1>3. process.config.seq_len \in Nat \ {0} /\ p = process.config /\ pos \in Nat
  BY RoomNumbers
<1>4. pos < p.seq_len
  BY <1>1 DEF StepsInv, PassesFit
<1>5. call' = call
  BY <1>1 DEF call
<1> QED
  BY <1>1, <1>2, <1>3, <1>4, <1>5 DEF StepsInv, PassesFit, Busy

LEMMA StepsNext ==
  ASSUME FlowInv, StepsInv, [Next]_vars
  PROVE  StepsInv'
<1>1. CASE main \/ run_with_encode_decode \/ run_without_encode_decode
  BY <1>1, StartsFit
<1>2. CASE BuildFails \/ Crashes \/ Returns
  <2>1. pc' \in {"exited", "call"}
    BY <1>2 DEF BuildFails, Crashes, Returns
  <2> QED
    BY <2>1 DEF StepsInv, PassesFit, Busy
<1>3. CASE Forward
  BY <1>3, ForwardFits
<1>4. CASE Chat \/ ChatCounting \/ chat_without_encode_decode
  BY <1>4, PositionsFit
<1>5. CASE StepsOver
  <2>1. /\ pc = "forward" /\ pc' = "report" /\ pos' = pos /\ steps' = steps
        /\ process' = process /\ reports' = reports
    BY <1>5 DEF StepsOver, chatVars
  <2>2. call' = call
    BY <2>1 DEF call
  <2> QED
    BY <2>1, <2>2 DEF StepsInv, PassesFit, Busy
<1>6. CASE UNCHANGED vars
  BY <1>6 DEF vars, forwardVars, chatVars, statics, StepsInv, PassesFit, Busy, call, p
<1> QED
  BY <1>1, <1>2, <1>3, <1>4, <1>5, <1>6 DEF Next

\* For every network and whatever steps are asked for: a pass is made only of a position the
\* caches and the scores have room for, and the one way to a position they have none for is
\* a call of run_with_encode_decode for more steps than there are positions. main and
\* run_without_encode_decode clamp what they are asked for.
THEOREM PassesHaveRoom == Spec => []PassesFit
<1>1. Init => CountInv /\ StepsInv
  <2> SUFFICES ASSUME Init PROVE CountInv /\ StepsInv
    OBVIOUS
  <2>1. CountInv
    BY CountInit
  <2>2. pc = "call"
    BY DEF Init
  <2> QED
    BY <2>1, <2>2 DEF StepsInv, PassesFit, Busy
<1>2. CountInv /\ StepsInv /\ [Next]_vars => (CountInv /\ StepsInv)'
  <2> SUFFICES ASSUME CountInv, StepsInv, [Next]_vars PROVE CountInv' /\ StepsInv'
    OBVIOUS
  <2>1. CountInv'
    BY CountNext
  <2>2. StepsInv'
    BY StepsNext DEF CountInv
  <2> QED
    BY <2>1, <2>2
<1>3. CountInv /\ StepsInv => PassesFit
  BY DEF StepsInv
<1> QED
  BY <1>1, <1>2, <1>3, PTL DEF Spec
=============================================================================
