--------------------------- MODULE ReferenceModel ---------------------------
(* The network without a cache: the logits after a sequence of tokens are   *)
(* computed from all of them, layer by layer, from the tensors the exporter *)
(* wrote. What the programs of src/inference/native compute token by token  *)
(* is measured against it.                                                  *)
EXTENDS LlamaMath, ModelFile

\* Float e of a tensor, from the start of the part that belongs to layer l.
TensorAt(p, shared, name, l, size) == OffsetIn(legacy_export(p, shared), name) + l * size

\* The attention of head h at position i over the keys and values of the
\* positions 1 .. i: cut says that operands and results are Q8.8.
AttentionOf(p, qs, ks, vs, h, i, cut) ==
  LET size   == HeadSize(p)
      kv     == ((h * p.n_kv_heads) \div p.n_heads) * size
      As(x)  == IF cut THEN float_to_q8_8(x) ELSE x
      score  == [t \in 1 .. i |->
                   MapThenSumSet(LAMBDA d : As(qs[i][h * size + d]) * As(ks[t][kv + d]),
                                 0 .. size - 1) \div ScoreUnit]
      Result(sc) ==
        LET best   == Max({sc[t] : t \in 1 .. i})
            weight == [t \in 1 .. i |-> TimesExp(One, sc[t] - best)]
            total  == MapThenSumSet(LAMBDA t : weight[t], 1 .. i)
        IN  [d \in 0 .. size - 1 |->
               As(Quotient(MapThenSumSet(LAMBDA t : weight[t] * As(vs[t][kv + d]), 1 .. i), total))]
  IN  Applied(Result, score)

\* One layer, from the vectors of all positions to the vectors of all positions.
LayerOf(p, shared, l, cut, xs) ==
  LET dim == p.dim
      kv  == KvDim(p)
      at(name, size) == TensorAt(p, shared, name, l, size)
      Projected(x, w, b, rows) ==
        Sum(matmul(x, FileData, at(w, dim * rows), dim, rows),
            [e \in 0 .. rows - 1 |-> FileData[at(b, rows) + e]])
      Rows(F(_)) == Evaluated([i \in DOMAIN xs |-> Evaluated(F(i))])
      Heads(qs, ks, vs, i) ==
        Evaluated([h \in 0 .. p.n_heads - 1 |-> AttentionOf(p, qs, ks, vs, h, i, cut)])
      Joint(hs) == [e \in 0 .. dim - 1 |-> hs[e \div HeadSize(p)][e % HeadSize(p)]]
      Output(hs) == matmul(Joint(hs), FileData, at("wo", dim * dim), dim, dim)
      Attended(r) ==
        Rows(LAMBDA i : Sum(xs[i], Applied(Output, Heads(r.q, r.k, r.v, i))))
      Projections(ns) ==
        [q |-> Rows(LAMBDA i : RoPE(Projected(ns[i], "wq", "bq", dim), i - 1, p.n_heads, HeadSize(p))),
         k |-> Rows(LAMBDA i : RoPE(Projected(ns[i], "wk", "bk", kv), i - 1, p.n_kv_heads, HeadSize(p))),
         v |-> Rows(LAMBDA i : Projected(ns[i], "wv", "bv", kv))]
      FedForward(y) ==
        LET Hidden(x, w) == matmul(x, FileData, at(w, dim * p.hidden_dim), dim, p.hidden_dim)
            Out(x) == matmul(SwiGLU(Hidden(x, "w1"), Hidden(x, "w3")), FileData,
                             at("w2", dim * p.hidden_dim), p.hidden_dim, dim)
        IN  Sum(y, Applied(Out, rmsnorm(y, FileData, at("ffn_norm", dim), dim)))
      Normed == Rows(LAMBDA i : rmsnorm(xs[i], FileData, at("attention_norm", dim), dim))
      Ended(ys) == Rows(LAMBDA i : FedForward(ys[i]))
  IN  Applied(Ended, Applied(Attended, Applied(Projections, Normed)))

\* The logits of the token that follows.
LogitsOf(p, shared, tokens, cut) ==
  LET Embedded == [i \in DOMAIN tokens |->
                     [e \in 0 .. p.dim - 1 |->
                        FileData[TensorAt(p, shared, "tok_embeddings", tokens[i], p.dim) + e]]]
      Through(xs, l) == Applied(LAMBDA ys : LayerOf(p, shared, l, cut, ys), xs)
      Final(xs) == rmsnorm(xs[Len(tokens)], FileData, TensorAt(p, shared, "norm", 0, 0), p.dim)
      Classified(x) ==
        matmul(x, FileData,
               TensorAt(p, shared, IF shared THEN "tok_embeddings" ELSE "output", 0, 0),
               p.dim, p.vocab_size)
  IN  Evaluated(Applied(Classified, Applied(Final, FoldLeft(Through, Embedded,
                                                  [l \in 1 .. p.n_layers |-> l - 1]))))
=============================================================================
