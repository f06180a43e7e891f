----------------------------- MODULE Tokenizer -----------------------------
(* The byte pair encoding of the llama programs. Text is a sequence of      *)
(* bytes; the few bytes that matter have codes of their own. The file of    *)
(* the tokenizer gives every token its text and a score, which              *)
(* export_token_bin.py sets to its number.                                  *)
EXTENDS Evaluation, Integers, Sequences, SequencesExt, FiniteSetsExt

CONSTANTS
  Vocab,        \* text of token number i, for i in 0 .. vocab_size - 1
  Blank, NewLine,       \* the bytes ' ' and '\n'
  Lead, GTail, CTail    \* C4, A0 and 8A: Lead GTail is a blank in the vocabulary,
                        \* Lead CTail a new line

Tokens == DOMAIN Vocab

ASSUME VocabAssumption ==
  /\ {Blank, NewLine, Lead, GTail, CTail} \subseteq Nat
  /\ \A id \in Tokens : id \in Nat /\ Vocab[id] \in Seq(Nat)

Score_(id) == id

IsContinuation(byte) == byte \in {GTail, CTail}

-----------------------------------------------------------------------------
\* The string of a token, with the vocabulary's blanks and new lines as they
\* are printed; whatever follows the byte C4 is passed over.
decode(token) ==
  LET piece == Vocab[token]
      string[i \in 1 .. Len(piece) + 2] ==
        IF i > Len(piece) THEN <<>>
        ELSE IF piece[i] # Lead THEN <<piece[i]>> \o string[i + 1]
        ELSE <<IF i < Len(piece) /\ piece[i + 1] = GTail THEN Blank ELSE NewLine>> \o string[i + 2]
  IN  string[1]

replace_spaces_with_G(text) ==
  FoldLeft(LAMBDA s, c : s \o IF c = Blank THEN <<Lead, GTail>> ELSE <<c>>, <<>>, text)

\* The number of the token that is exactly this string, or -1.
str_lookup(str) ==
  LET found(text) == {id \in Tokens : Vocab[id] = text}
      first(ids) == IF ids = {} THEN -1 ELSE CHOOSE id \in ids : TRUE
  IN  Applied(first, Applied(found, str))

-----------------------------------------------------------------------------
(* encode. *)

\* A code point that is no token of its own becomes a token per byte.
CodePoint(buffer) ==
  LET token(id) == IF id # -1 THEN <<id>> ELSE [i \in DOMAIN buffer |-> buffer[i] + 3]
  IN  Applied(token, str_lookup(buffer))

\* The tokens of the code points. A code point ends before a byte that is no
\* continuation, or after four bytes.
CodePoints(text) ==
  LET read(s, i) ==
        LET buffer == IF IsContinuation(text[i]) THEN Append(s.buffer, text[i]) ELSE <<text[i]>>
        IN  IF i < Len(text) /\ IsContinuation(text[i + 1]) /\ Len(buffer) < 4
            THEN [s EXCEPT !.buffer = buffer]
            ELSE [tokens |-> s.tokens \o CodePoint(buffer), buffer |-> <<>>]
      byte(old, i) == Applied(LAMBDA s : read(s, i), old)
  IN  FoldLeft(byte, [tokens |-> <<>>, buffer |-> <<>>], [i \in DOMAIN text |-> i]).tokens

\* The text of n tokens from the i-th on.
Joined(tokens, i, n) ==
  Vocab[tokens[i]] \o Vocab[tokens[i + 1]] \o IF n = 3 THEN Vocab[tokens[i + 2]] ELSE <<>>

\* Where n consecutive tokens make a token of the best score, the first such
\* place; 0 if there is none.
BestMerge(tokens, n) ==
  LET ids == [i \in 1 .. Len(tokens) - n + 1 |-> str_lookup(Joined(tokens, i, n))]
      best(id) ==
        LET merges == {i \in DOMAIN id : id[i] # -1}
            better(i, j) == \/ Score_(id[i]) > Score_(id[j])
                            \/ Score_(id[i]) = Score_(id[j]) /\ i <= j
        IN  IF merges = {} THEN 0 ELSE CHOOSE i \in merges : \A j \in merges : better(i, j)
  IN  Applied(best, ids)

\* A mutant of Merged: the last of three tokens stays.
MergedAsPair(tokens, i, n) ==
  SubSeq(tokens, 1, i - 1) \o <<str_lookup(Joined(tokens, i, n))>>
    \o SubSeq(tokens, i + 2, Len(tokens))

\* n tokens from the i-th on replaced by the one they make.
Merged(tokens, i, n) ==
  SubSeq(tokens, 1, i - 1) \o <<str_lookup(Joined(tokens, i, n))>>
    \o SubSeq(tokens, i + n, Len(tokens))

\* Pairs are merged as long as there are any, then triples. Every merge leaves
\* fewer tokens, so as many rounds as there are tokens are enough.
encode(text) ==
  LET merge(tokens) ==
        LET pair   == BestMerge(tokens, 2)
            triple == BestMerge(tokens, 3)
        IN  IF pair # 0 THEN Merged(tokens, pair, 2)
            ELSE IF triple # 0 THEN Merged(tokens, triple, 3) ELSE tokens
      round(old, i) == Applied(merge, old)
      merged(tokens) == FoldLeft(round, tokens, [i \in DOMAIN tokens |-> i])
  IN  Evaluated(Applied(merged, CodePoints(text)))

-----------------------------------------------------------------------------
(* The prompt of a chat. *)

CONSTANTS ImStart, ImEnd, System, User, Assistant, NewLineToken   \* tokens

ASSUME ChatAssumption == {ImStart, ImEnd, System, User, Assistant, NewLineToken} \subseteq Tokens

promote_to_token(user_prompt, system_prompt) ==
  <<ImStart, System, NewLineToken>> \o encode(replace_spaces_with_G(system_prompt))
    \o <<ImEnd, NewLineToken, ImStart, User, NewLineToken>>
    \o encode(replace_spaces_with_G(user_prompt))
    \o <<ImEnd, NewLineToken, ImStart, Assistant, NewLineToken>>
=============================================================================
