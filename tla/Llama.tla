------------------------------- MODULE Llama -------------------------------
(* The programs run, run_profiled, runperf and run_fa: one program four     *)
(* times, without profiling, with counters of multiplications, with         *)
(* counters of operations too, and with the Q8.8 attention of flash_attn.c  *)
(* in the place of the loops over the cache. Each is built as a program     *)
(* ("main") or as a library with one of two entries, and a library may be   *)
(* called again and again: what is static stays.                            *)
EXTENDS ModelFile, LlamaMath, Tokenizer, Sampler

CONSTANTS
  Processes,      \* the processes to consider: see ProcessAssumption
  SystemPrompt    \* the text of the system prompt, which is in the source

Direct   == {"run", "run_profiled", "runperf"}
Profiled == {"run_profiled", "runperf", "run_fa"}
Counting == {"runperf", "run_fa"}
Programs == Direct \cup Profiled
Entries  == {"main", "run_with_encode_decode", "run_without_encode_decode"}

MainSteps == 600

\* A network whose heads have dim between them.
Configs == [dim : Nat \ {0}, hidden_dim : Nat \ {0}, n_layers : Nat \ {0}, n_heads : Nat \ {0},
            n_kv_heads : Nat \ {0}, vocab_size : Nat \ {0}, seq_len : Nat \ {0}]

\* A caller may ask for any number of steps, also for more than the network has
\* positions (python_c_throughput.py does), or for fewer than none. A prompt is
\* text for the entries that encode it and a sequence of tokens for the other.
ASSUME ProcessAssumption ==
  /\ SystemPrompt \in Seq(Nat)
  /\ \A p \in Processes :
       /\ p.program \in Programs /\ p.entry \in Entries /\ p.shared \in BOOLEAN
       /\ p.config \in Configs /\ p.config.dim % p.config.n_heads = 0
       /\ p.calls \in Seq(Range(p.calls)) \ {<<>>}
       /\ p.entry = "main" => Len(p.calls) = 1
       /\ \A i \in DOMAIN p.calls :
            /\ p.calls[i].max_steps \in Int
            /\ p.calls[i].mode \in SamplerModes
            /\ IF p.entry = "run_without_encode_decode"
               THEN p.calls[i].tokens \in Seq(Tokens) \ {<<>>} ELSE p.calls[i].user \in Seq(Nat)

VARIABLES
  process,        \* the process: program, entry, model file and calls
  pc,             \* where it is: "call", "forward", "layer", "heads", "next", "report",
                  \* "exited", or "overrun": memory is written that is not its own
  transformer,    \* config and weights
  s,              \* RunState
  l,              \* the layer of forward
  heads,          \* what the threads have done of each head: "todo", "scores", "done"
  prompt_tokens, token, pos, steps,   \* locals of chat
  gen,            \* the tokens shown, or returned in gen
  total_macs, counts,                 \* static counters
  reports         \* what each call that returned has printed and returned

forwardVars == <<s, l, heads>>
chatVars    == <<prompt_tokens, token, pos, steps, gen>>
statics     == <<total_macs, counts>>
vars == <<process, pc, transformer, forwardVars, chatVars, statics, reports>>

p      == transformer.config
w      == transformer.weights
kv_mul == p.n_heads \div p.n_kv_heads
call   == process.calls[Len(reports) + 1]

Zeros(n) == [e \in 0 .. n - 1 |-> 0]

\* An array with the elements of x from at on.
Written(array, at, x) ==
  Applied(LAMBDA y : [e \in DOMAIN array |-> IF e - at \in DOMAIN y THEN y[e - at] ELSE array[e]], x)

NoMacs   == [qkv |-> 0, attn |-> 0, o |-> 0, ffn |-> 0]
NoCounts == [matmul |-> 0, rmsnorm |-> 0, softmax |-> 0, attn_dot |-> 0, attn_v |-> 0]

\* A mutant of Macs: the counter is set, not added to.
MacsAssigned(field, n) ==
  total_macs' = IF process.program \in Profiled THEN [total_macs EXCEPT ![field] = n]
                                                ELSE total_macs

\* The counters a step of forward adds to, where the program has them.
Macs(field, n) ==
  total_macs' = IF process.program \in Profiled THEN [total_macs EXCEPT ![field] = @ + n]
                                                ELSE total_macs
Counts(matmuls, rmsnorms) ==
  counts' = IF process.program \in Counting
            THEN [counts EXCEPT !.matmul = @ + matmuls, !.rmsnorm = @ + rmsnorms] ELSE counts

-----------------------------------------------------------------------------
(* The entries. *)

malloc_run_state(config) ==
  LET cache == Zeros(config.n_layers * config.seq_len * KvDim(config))
  IN  [x |-> Zeros(config.dim), xb |-> Zeros(config.dim), q |-> Zeros(config.dim),
       key_cache |-> cache, value_cache |-> cache,
       att |-> Zeros(config.n_heads * config.seq_len), logits |-> Zeros(config.vocab_size)]

build_transformer ==
  /\ transformer' = read_checkpoint(ExportedHeader(process.config, process.shared))
  /\ s' = malloc_run_state(transformer'.config)

\* A mutant of Clamped: too many steps stay too many.
ClampedFromBelow(max_steps) == IF max_steps <= 0 THEN process.config.seq_len ELSE max_steps

\* No steps, fewer than none or too many mean as many as there are positions.
Clamped(max_steps) ==
  IF max_steps <= 0 \/ max_steps > process.config.seq_len THEN process.config.seq_len ELSE max_steps

ChatStarts(tokens, n) ==
  /\ pc = "call" /\ Len(reports) < Len(process.calls)
  /\ build_transformer
  /\ prompt_tokens' = tokens /\ token' = prompt_tokens'[1]
  /\ pos' = 0 /\ gen' = <<>> /\ steps' = n
  /\ pc' = "forward"
  /\ UNCHANGED <<process, l, heads, statics, reports>>

main == process.entry = "main"
        /\ ChatStarts(promote_to_token(call.user, SystemPrompt), Clamped(MainSteps))

\* chat is given max_steps as it is, not the steps that were made of it.
run_with_encode_decode ==
  process.entry = "run_with_encode_decode"
  /\ ChatStarts(promote_to_token(call.user, SystemPrompt), call.max_steps)

run_without_encode_decode ==
  process.entry = "run_without_encode_decode"
  /\ ChatStarts(call.tokens, Clamped(call.max_steps))

\* The file cannot be opened or mapped, or an allocation fails.
BuildFails ==
  /\ pc = "call" /\ Len(reports) < Len(process.calls)
  /\ pc' = "exited"
  /\ UNCHANGED <<process, transformer, forwardVars, chatVars, statics, reports>>

-----------------------------------------------------------------------------
(* forward. *)

StartForward ==
  /\ pc = "forward" /\ pos < steps /\ pos < p.seq_len
  /\ s' = [s EXCEPT !.x = [i \in 0 .. p.dim - 1 |-> FileData[w.token_embedding_table + token * p.dim + i]]]
  /\ l' = 0
  /\ pc' = "layer"
  /\ UNCHANGED <<process, transformer, heads, chatVars, statics, reports>>

\* There is no such position: its key and value would be written over those of
\* the next layer, and in the last layer behind the caches. What becomes of the
\* process is undefined.
Overruns ==
  /\ pc = "forward" /\ pos < steps /\ pos >= p.seq_len
  /\ pc' = "overrun"
  /\ UNCHANGED <<process, transformer, forwardVars, chatVars, statics, reports>>

Biased(x, b) == Sum(x, [i \in DOMAIN x |-> FileData[b + i]])

\* Query, key and value of the position; key and value go to the cache.
Qkv ==
  LET dim       == p.dim
      kv_dim    == KvDim(p)
      head_size == HeadSize(p)
      row       == l * p.seq_len * kv_dim + pos * kv_dim
      Proj(xb, wm, bm, d) ==
        Applied(LAMBDA x : Biased(x, bm + l * d), matmul(xb, FileData, wm + l * dim * d, dim, d))
      State(xb) ==
        [s EXCEPT !.xb = xb,
                  !.q  = RoPE(Proj(xb, w.wq, w.bq, dim), pos, p.n_heads, head_size),
                  !.key_cache   = Written(@, row, RoPE(Proj(xb, w.wk, w.bk, kv_dim), pos,
                                                       p.n_kv_heads, head_size)),
                  !.value_cache = Written(@, row, Proj(xb, w.wv, w.bv, kv_dim))]
  IN  /\ pc = "layer" /\ l < p.n_layers
      /\ s' = Applied(State, rmsnorm(s.x, FileData, w.rms_att_weight + l * dim, dim))
      /\ Macs("qkv", dim * dim + 2 * dim * kv_dim) /\ Counts(3, 1)
      /\ heads' = [h \in 0 .. p.n_heads - 1 |-> "todo"]
      /\ pc' = "heads"
      /\ UNCHANGED <<process, transformer, l, chatVars, reports>>

\* A mutant of LayerOfCache: the offset of the layer is left out.
FirstOfCache(cache) == [e \in 0 .. (pos + 1) * KvDim(p) - 1 |-> cache[e]]

\* The cache of the layer, as the attention is given it.
LayerOfCache(cache) ==
  LET loff == l * p.seq_len * KvDim(p)
  IN  [e \in 0 .. (pos + 1) * KvDim(p) - 1 |-> cache[loff + e]]

HeadQuery(h) == [i \in 0 .. HeadSize(p) - 1 |-> s.q[h * HeadSize(p) + i]]

\* A thread computes the scores of a head into the head's row of att.
HeadScores(h) ==
  LET Scores(in) == [t \in 0 .. pos |-> Score(in.q, in.keys, t, h, HeadSize(p), kv_mul, KvDim(p))]
  IN  /\ pc = "heads" /\ process.program \in Direct /\ heads[h] = "todo"
      /\ s' = [s EXCEPT !.att = Written(@, h * p.seq_len,
                                        Applied(Scores, [q    |-> HeadQuery(h),
                                                         keys |-> LayerOfCache(s.key_cache)]))]
      /\ heads' = [heads EXCEPT ![h] = "scores"]
      /\ counts' = IF process.program \in Counting THEN [counts EXCEPT !.attn_dot = @ + (pos + 1)]
                                                   ELSE counts
      /\ UNCHANGED <<process, pc, transformer, l, chatVars, total_macs, reports>>

\* It makes weights of them and the head's part of xb.
HeadWeighted(h) ==
  LET att == [t \in 0 .. pos |-> s.att[h * p.seq_len + t]]
      Result(in) == Weighted(in.att, in.values, pos, h, HeadSize(p), kv_mul, KvDim(p))
  IN  /\ pc = "heads" /\ process.program \in Direct /\ heads[h] = "scores"
      /\ s' = [s EXCEPT !.xb = Written(@, h * HeadSize(p),
                                       Applied(Result, [att    |-> softmax(Evaluated(att), pos + 1),
                                                        values |-> LayerOfCache(s.value_cache)]))]
      /\ heads' = [heads EXCEPT ![h] = "done"]
      /\ counts' = IF process.program \in Counting
                   THEN [counts EXCEPT !.softmax = @ + 1, !.attn_v = @ + (pos + 1)] ELSE counts
      /\ UNCHANGED <<process, pc, transformer, l, chatVars, total_macs, reports>>

\* run_fa has flash_attn.c do a head; it counts no operation of the attention.
HeadFlash(h) ==
  LET Result(o) == [s EXCEPT !.xb = Written(@, h * HeadSize(p), o)]
  IN  /\ pc = "heads" /\ process.program = "run_fa" /\ heads[h] = "todo"
      /\ s' = Applied(Result,
                      flash_attention_forward(HeadQuery(h), LayerOfCache(s.key_cache),
                                              LayerOfCache(s.value_cache), pos, h, HeadSize(p),
                                              kv_mul, KvDim(p)))
      /\ heads' = [heads EXCEPT ![h] = "done"]
      /\ UNCHANGED <<process, pc, transformer, l, chatVars, statics, reports>>

\* All heads are there: the output projection and the feed-forward network,
\* each added to x.
LayerEnds ==
  LET dim        == p.dim
      hidden_dim == p.hidden_dim
      O(xb) == Sum(s.x, matmul(xb, FileData, w.wo + l * dim * dim, dim, dim))
      Up(xb, wm) == matmul(xb, FileData, wm + l * dim * hidden_dim, dim, hidden_dim)
      FFN(xb) == matmul(SwiGLU(Up(xb, w.w1), Up(xb, w.w3)), FileData,
                        w.w2 + l * dim * hidden_dim, hidden_dim, dim)
      State(x) ==
        Applied(LAMBDA xb : [s EXCEPT !.x = Sum(x, xb), !.xb = xb],
                Applied(FFN, rmsnorm(x, FileData, w.rms_ffn_weight + l * dim, dim)))
  IN  /\ pc = "heads" /\ \A h \in DOMAIN heads : heads[h] = "done"
      /\ s' = Applied(State, O(s.xb))
      /\ total_macs' = IF process.program \in Profiled
                       THEN [total_macs EXCEPT !.attn = @ + 2 * p.n_heads * (pos + 1) * HeadSize(p),
                                               !.o    = @ + dim * dim,
                                               !.ffn  = @ + 3 * dim * hidden_dim]
                       ELSE total_macs
      /\ Counts(4, 1)
      /\ l' = l + 1
      /\ pc' = "layer"
      /\ UNCHANGED <<process, transformer, heads, chatVars, reports>>

Logits ==
  LET State(x) == [s EXCEPT !.x = x, !.logits = matmul(x, FileData, w.wcls, p.dim, p.vocab_size)]
  IN  /\ pc = "layer" /\ l = p.n_layers
      /\ s' = Applied(State, rmsnorm(s.x, FileData, w.rms_final_weight, p.dim))
      /\ Counts(1, 1)
      /\ pc' = "next"
      /\ UNCHANGED <<process, transformer, l, heads, chatVars, total_macs, reports>>

-----------------------------------------------------------------------------
(* The loops over the positions. *)

\* The tokens that may come after the one at pos: that of the prompt as long as
\* there is one, and then those the sampler may choose.
NextTokens ==
  IF pos < Len(prompt_tokens) - 1 THEN {prompt_tokens[pos + 2]}
  ELSE IF call.mode = "greedy" THEN {sample_argmax(s.logits, p.vocab_size)}
  ELSE {sample(s.logits, p.vocab_size, call.mode, coin, up) : coin \in 0 .. Coins - 1, up \in BOOLEAN}

\* One position on. Sampling at random counts a softmax.
NextPosition ==
  /\ pc = "next"
  /\ pos' = pos + 1
  /\ counts' = IF pos >= Len(prompt_tokens) - 1 /\ process.program \in Counting /\ call.mode # "greedy"
               THEN [counts EXCEPT !.softmax = @ + 1] ELSE counts
  /\ UNCHANGED <<process, transformer, forwardVars, prompt_tokens, steps, total_macs, reports>>

\* The token follows: it belongs to the answer when the prompt is over.
Continues(next) ==
  /\ gen' = IF pos + 1 >= Len(prompt_tokens) THEN Append(gen, next) ELSE gen
  /\ token' = next /\ pc' = "forward"

EndOfAnswer(next) == pos + 1 >= Len(prompt_tokens) /\ next = ImEnd

\* chat in run and run_profiled.
Chat ==
  /\ process.entry # "run_without_encode_decode" /\ process.program \notin Counting
  /\ NextPosition
  /\ \E next \in NextTokens :
       IF EndOfAnswer(next) THEN pc' = "report" /\ UNCHANGED <<token, gen>> ELSE Continues(next)

\* chat in runperf and run_fa: the end is looked for before the steps are.
ChatCounting ==
  /\ process.entry # "run_without_encode_decode" /\ process.program \in Counting
  /\ NextPosition
  /\ \E next \in NextTokens :
       IF pos + 1 > steps \/ EndOfAnswer(next)
       THEN pc' = "report" /\ UNCHANGED <<token, gen>> ELSE Continues(next)

\* The last of the steps gives no token; the end token is part of the answer.
chat_without_encode_decode ==
  /\ process.entry = "run_without_encode_decode"
  /\ NextPosition
  /\ \E next \in NextTokens :
       IF pos + 1 >= steps THEN pc' = "report" /\ UNCHANGED <<token, gen>>
       ELSE IF EndOfAnswer(next)
       THEN pc' = "report" /\ gen' = Append(gen, next) /\ token' = token
       ELSE Continues(next)

StepsOver ==
  /\ pc = "forward" /\ pos >= steps
  /\ pc' = "report"
  /\ UNCHANGED <<process, transformer, forwardVars, chatVars, statics, reports>>

-----------------------------------------------------------------------------
(* What a call prints at its end, and the return to the caller. *)

\* After one position or none there is nothing to report.
Nothing == [kind |-> "nothing"]

ProfiledReport ==
  [kind |-> "macs", pos |-> pos, prefill_tokens |-> Len(prompt_tokens), total_macs |-> total_macs]

CountingReport ==
  [kind |-> "counts", prefill_tokens |-> Len(prompt_tokens),
   decode_tokens |-> pos - Len(prompt_tokens), total_macs |-> total_macs, counts |-> counts]

Report ==
  IF pos <= 1 \/ process.entry = "run_without_encode_decode" \/ process.program = "run"
  THEN Nothing
  ELSE IF process.program = "run_profiled" THEN ProfiledReport ELSE CountingReport

Returns ==
  /\ pc = "report"
  /\ reports' = Append(reports, [gen |-> gen, pos |-> pos, report |-> Report])
  /\ pc' = "call"
  /\ UNCHANGED <<process, transformer, forwardVars, chatVars, statics>>

\* main of run and run_profiled gives chat two pointers it has not set; what
\* writing the throughput through them does is undefined, the end of the
\* process included.
Crashes ==
  /\ pc = "report" /\ pos > 1
  /\ process.entry = "main" /\ process.program \in {"run", "run_profiled"}
  /\ pc' = "exited"
  /\ UNCHANGED <<process, transformer, forwardVars, chatVars, statics, reports>>

-----------------------------------------------------------------------------
\* There is no transformer before the first call, whose build writes all of it.
Init ==
  /\ process \in Processes
  /\ pc = "call"
  /\ transformer = read_checkpoint(ExportedHeader(process.config, process.shared))
  /\ s = malloc_run_state(process.config)
  /\ l = 0 /\ heads = [h \in 0 .. process.config.n_heads - 1 |-> "done"]
  /\ prompt_tokens = <<>> /\ token = 0 /\ pos = 0 /\ steps = 0 /\ gen = <<>>
  /\ total_macs = NoMacs /\ counts = NoCounts
  /\ reports = <<>>

Forward ==
  \/ StartForward \/ Overruns \/ Qkv
  \/ \E h \in DOMAIN heads : HeadScores(h) \/ HeadWeighted(h) \/ HeadFlash(h)
  \/ LayerEnds \/ Logits

Next ==
  \/ main \/ run_with_encode_decode \/ run_without_encode_decode \/ BuildFails
  \/ Forward
  \/ Chat \/ ChatCounting \/ chat_without_encode_decode \/ StepsOver
  \/ Returns \/ Crashes

\* The threads of the OpenMP loop are not held up for ever.
Spec == Init /\ [][Next]_vars /\ WF_vars(Next)
=============================================================================
