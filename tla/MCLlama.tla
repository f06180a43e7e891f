------------------------------ MODULE MCLlama ------------------------------
(* The llama programs on a small network and vocabulary, against the network*)
(* without a cache and the promise of TextGenerator.                        *)
EXTENDS Llama, ReferenceModel

\* Small weights that are not alike.
MCFileLength == 1100
MCFileData == [e \in 0 .. MCFileLength - 1 |-> Num(((e * e * 31) \div 13) + 3 * e)]

\* Two layers, four heads on two kv heads.
MCConfig == [dim |-> 8, hidden_dim |-> 3, n_layers |-> 2, n_heads |-> 4, n_kv_heads |-> 2,
             vocab_size |-> 13, seq_len |-> 18]

\* The bytes a, b, c are 1 to 3; d, which no token has, is 4. The texts of the
\* special tokens are bytes of their own. a b c Ġ Ċ ab Ġab bca, then the
\* special tokens and the names of the parts of a chat.
MCVocab ==
  LET texts == <<<<1>>, <<2>>, <<3>>, <<7, 8>>, <<7, 9>>, <<1, 2>>, <<7, 8, 1, 2>>, <<2, 3, 1>>,
                 <<20>>, <<21>>, <<22>>, <<23>>, <<24>>>>
  IN  [id \in 0 .. 12 |-> texts[id + 1]]

MCSystemPrompt == <<3>>
MCTopp == <<9, 10>>
MCQ8_8Min == -6

Call(user, max_steps, mode) == [user |-> user, max_steps |-> max_steps, mode |-> mode]
CallOf(tokens, max_steps, mode) == [tokens |-> tokens, max_steps |-> max_steps, mode |-> mode]
Process(program, entry, shared, calls) ==
  [program |-> program, entry |-> entry, shared |-> shared, config |-> MCConfig, calls |-> calls]

\* The texts are "ab", "a b", " ab", "bca", "adc", "aba". Of the 18 positions
\* some calls ask for more, and some of them for fewer than none.
MCProcesses ==
  {Process("run", "main", TRUE, <<Call(<<1, 2>>, 0, "greedy")>>),
   Process("run_fa", "main", FALSE, <<Call(<<1, 5, 2>>, 0, "greedy")>>),
   Process("runperf", "run_with_encode_decode", FALSE,
           <<Call(<<5, 1, 2>>, 16, "nucleus"), Call(<<2, 3, 1>>, 15, "multinomial")>>),
   Process("run_profiled", "run_with_encode_decode", TRUE,
           <<Call(<<1, 4, 3>>, 4, "greedy"), Call(<<1, 2>>, -2, "greedy"), Call(<<2, 3>>, 40, "greedy")>>),
   Process("run_fa", "run_with_encode_decode", TRUE,
           <<Call(<<2, 3, 1>>, 16, "nucleus"), Call(<<1, 2>>, 1, "greedy")>>),
   Process("run_profiled", "run_without_encode_decode", FALSE,
           <<CallOf(<<7, 2, 0>>, 40, "greedy"), CallOf(<<0, 5>>, 5, "nucleus")>>),
   Process("run", "run_without_encode_decode", TRUE,
           <<CallOf(<<6, 2>>, -1, "greedy"), CallOf(<<3>>, 4, "multinomial")>>),
   Process("run_fa", "run_with_encode_decode", TRUE,
           <<Call(<<1, 2>>, 5, "greedy"), Call(<<1, 2, 1>>, 19, "multinomial")>>)}

-----------------------------------------------------------------------------
\* The arrays have room for the position of a pass. A call comes to a position
\* they have no room for only where it is asked for more steps than there are
\* positions and hands them to chat as they are (run_with_encode_decode); main
\* and run_without_encode_decode never do, whatever they are asked for.
PassesFit ==
  /\ pc \in {"layer", "heads", "next"} => pos < steps /\ pos < p.seq_len
  /\ pc = "overrun" => /\ process.entry = "run_with_encode_decode"
                       /\ pos = p.seq_len /\ pos < call.max_steps

\* What is read is within the model, and passes fit.
LlamaTypeOK ==
  /\ pc \in {"call", "forward", "layer", "heads", "next", "report", "exited", "overrun"}
  /\ token \in Tokens /\ pos \in 0 .. p.seq_len /\ l \in 0 .. p.n_layers
  /\ \A i \in DOMAIN gen : gen[i] \in Tokens
  /\ \A v \in {s.x, s.xb, s.q, s.key_cache, s.value_cache, s.logits} :
       \A e \in DOMAIN v : v[e] \in Numbers
  /\ PassesFit

-----------------------------------------------------------------------------
(* The network. *)

\* The first n tokens of the prompt and the answer.
FirstTokens(n) == SubSeq(prompt_tokens \o gen, 1, n)

\* The logits are those of the network without a cache after all tokens so far:
\* the layers and positions share the two caches, the heads share kv heads and
\* the buffers they write at the same time, the weights are where the exporter
\* put them, and one pass over the keys gives what the scores of all would.
LogitsAsReference ==
  pc = "next" =>
    s.logits = LogitsOf(process.config, process.shared, FirstTokens(pos + 1),
                        process.program = "run_fa")

-----------------------------------------------------------------------------
(* The tokenizer. *)

Text(tokens) == FoldLeft(LAMBDA text, t : text \o decode(t), <<>>, tokens)

InVocabulary(text) == \A i \in DOMAIN text : text[i] = Blank \/ str_lookup(<<text[i]>>) # -1

ChatText(user) ==
  Vocab[ImStart] \o Vocab[System] \o <<NewLine>> \o SystemPrompt \o Vocab[ImEnd] \o <<NewLine>>
    \o Vocab[ImStart] \o Vocab[User] \o <<NewLine>> \o user \o Vocab[ImEnd] \o <<NewLine>>
    \o Vocab[ImStart] \o Vocab[Assistant] \o <<NewLine>>

\* The tokens of a prompt spell the chat, where every character of the user has
\* a token, and those of the user's text cannot be merged further.
PromptEncoded ==
  pc = "forward" /\ pos = 0 /\ process.entry # "run_without_encode_decode" =>
    LET first == 9 + Len(encode(replace_spaces_with_G(SystemPrompt)))
        user  == SubSeq(prompt_tokens, first, Len(prompt_tokens) - 5)
    IN  /\ InVocabulary(call.user) => Text(prompt_tokens) = ChatText(call.user)
        /\ \A n \in {2, 3} : \A i \in 1 .. Len(user) - n + 1 :
             ~\E id \in Tokens : Vocab[id] = Joined(user, i, n)

-----------------------------------------------------------------------------
(* The counters. *)

PromptOf(i) ==
  IF process.entry = "run_without_encode_decode" THEN process.calls[i].tokens
  ELSE promote_to_token(process.calls[i].user, SystemPrompt)

\* Random choices in a call that has come to a position.
RandomChoices(i, n) ==
  IF process.calls[i].mode = "greedy" THEN 0 ELSE Larger(0, n - Len(PromptOf(i)) + 1)

Total(f) == MapThenSumSet(LAMBDA i : f[i], DOMAIN f)

\* The matrices of these names, as the exporter sizes them.
Floats(names) ==
  LET sections == legacy_export(process.config, process.shared)
  IN  Total([i \in DOMAIN sections |-> IF sections[i][1] \in names THEN sections[i][2] ELSE 0])

\* A token looks at itself and all before it.
Pairs(positions) == Total([i \in DOMAIN positions |-> (positions[i] * (positions[i] + 1)) \div 2])

\* What the counters are to hold when the calls have come to these positions. A
\* product is counted once for each weight of a matrix and each token.
MacsAfter(positions) ==
  [qkv  |-> Total(positions) * Floats({"wq", "wk", "wv"}),
   attn |-> 2 * process.config.n_layers * process.config.dim * Pairs(positions),
   o    |-> Total(positions) * Floats({"wo"}),
   ffn  |-> Total(positions) * Floats({"w1", "w2", "w3"})]

CountsAfter(positions) ==
  LET layers  == process.config.n_layers
      heads_  == IF process.program = "run_fa" THEN 0 ELSE layers * process.config.n_heads
      choices == Total([i \in DOMAIN positions |-> RandomChoices(i, positions[i])])
  IN  [matmul   |-> Total(positions) * (7 * layers + 1),
       rmsnorm  |-> Total(positions) * (2 * layers + 1),
       softmax  |-> Total(positions) * heads_ + choices,
       attn_dot |-> heads_ * Pairs(positions), attn_v |-> heads_ * Pairs(positions)]

\* The static counters, and what the calls report of them, count what all calls
\* of the process so far have done; no head's share is lost or counted twice.
CountersAddUp ==
  pc \in {"call", "forward", "report"} =>
    LET done == [i \in DOMAIN reports |-> reports[i].pos]
        positions == IF pc = "call" THEN done ELSE Append(done, pos)
    IN  /\ total_macs = IF process.program \in Profiled THEN MacsAfter(positions) ELSE NoMacs
        /\ counts = IF process.program \in Counting THEN CountsAfter(positions) ELSE NoCounts
        /\ \A i \in DOMAIN reports :
             LET r == reports[i].report
             IN  /\ r.kind # "nothing" => r.total_macs = MacsAfter(SubSeq(done, 1, i))
                 /\ r.kind = "counts" =>
                      /\ r.counts = CountsAfter(SubSeq(done, 1, i))
                      /\ r.prefill_tokens + r.decode_tokens = reports[i].pos

-----------------------------------------------------------------------------
(* The promise. *)

\* What a text may go on with: by the logits of the network without a cache.
PermittedBy(text, r) ==
  LET From(logits) ==
        LET e == softmax(logits, r.config.vocab_size)
            above(t) == {u \in DOMAIN logits : logits[u] > logits[t]}
            mass(ts) == MapThenSumSet(LAMBDA u : e.exp[u], ts)
        IN  CASE r.mode = "greedy"      -> {t \in DOMAIN logits :
                                              \A u \in DOMAIN logits :
                                                \/ logits[u] < logits[t]
                                                \/ logits[u] = logits[t] /\ u >= t}
              [] r.mode = "multinomial" -> DOMAIN logits
              [] r.mode = "nucleus"     -> {t \in DOMAIN logits :
                                              mass(above(t)) * Topp[2] <= Topp[1] * e.sum}
  IN  Applied(From, LogitsOf(r.config, r.shared, text, r.cut))

\* A call of an encoding entry may sample after the last of the steps, too.
CurrentRequest ==
  LET made     == process.calls[IF pc = "call" THEN Len(reports) ELSE Len(reports) + 1]
      encoding == process.entry # "run_without_encode_decode"
  IN  [prompt |-> prompt_tokens, limit |-> IF encoding THEN steps + 1 ELSE steps,
       room |-> process.config.seq_len, show_end |-> ~encoding, mode |-> made.mode, config |-> process.config,
       shared |-> process.shared, cut |-> process.program = "run_fa"]

Promised == INSTANCE TextGenerator WITH
  EndToken <- ImEnd, PermittedAfter <- PermittedBy,
  request  <- IF prompt_tokens = <<>> \/ pc \in {"exited", "overrun"} THEN [none |-> TRUE] ELSE CurrentRequest,
  text     <- gen,
  status   <- CASE pc \in {"exited", "overrun"} -> "failed"
                [] pc \in {"call", "report"} -> "idle"
                [] OTHER -> "busy"

\* The programs implement TextGenerator: an answer grows by tokens the network
\* permits after the whole text, ends with the end token or the steps, never
\* earlier or later, and every call comes to its end, or to a text the network
\* has no position for.
GenerationAsPromised == Promised!Spec
=============================================================================
