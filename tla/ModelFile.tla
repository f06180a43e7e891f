----------------------------- MODULE ModelFile -----------------------------
(* The checkpoint of the llama programs: a header, then the weights, float  *)
(* after float. export_qwen2_bin.py writes it (legacy_export) and           *)
(* read_checkpoint maps it into memory and points into it.                  *)
(*                                                                          *)
(* A config p is the header: dim, hidden_dim, n_layers, n_heads, n_kv_heads,*)
(* vocab_size and seq_len. shared says whether the classifier is the        *)
(* embedding table.                                                         *)
EXTENDS Evaluation, Integers, Sequences, SequencesExt

CONSTANT FileData   \* the floats after the header, as numbers (see LlamaMath)

HeadSize(p) == p.dim \div p.n_heads
KvDim(p)    == (p.dim * p.n_kv_heads) \div p.n_heads

\* The sum of the sizes before section name in a sequence of <<name, size>>.
OffsetIn(sections, name) ==
  LET at == CHOOSE i \in DOMAIN sections : sections[i][1] = name
  IN  FoldLeft(LAMBDA ptr, i : ptr + sections[i][2], 0, [i \in 1 .. at - 1 |-> i])

-----------------------------------------------------------------------------
(* The exporter. The sizes are those of the tensors of the network.         *)

\* The header as written: unshared weights make vocab_size negative.
ExportedHeader(p, shared) == IF shared THEN p ELSE [p EXCEPT !.vocab_size = -@]

PerLayer(p, names, sizes) == [i \in DOMAIN names |-> <<names[i], p.n_layers * sizes[i]>>]

legacy_export(p, shared) ==
  LET kv_rows == p.n_kv_heads * HeadSize(p)
      freqs   == p.seq_len * (HeadSize(p) \div 2)
  IN  <<<<"tok_embeddings", p.vocab_size * p.dim>>>>
        \o PerLayer(p, <<"attention_norm", "wq", "bq", "wk", "bk", "wv", "bv", "wo", "ffn_norm",
                         "w1", "w2", "w3">>,
                    <<p.dim, p.dim * p.dim, p.dim, kv_rows * p.dim, kv_rows, kv_rows * p.dim,
                      kv_rows, p.dim * p.dim, p.dim, p.hidden_dim * p.dim, p.dim * p.hidden_dim,
                      p.hidden_dim * p.dim>>)
        \o <<<<"norm", p.dim>>, <<"freqs_cos", freqs>>, <<"freqs_sin", freqs>>>>
        \o IF shared THEN <<>> ELSE <<<<"output", p.vocab_size * p.dim>>>>

-----------------------------------------------------------------------------
(* The reader.                                                              *)

\* The pointers into the file, as offsets.
memory_map_weights(p, shared_weights, bias) ==
  LET head_size == HeadSize(p)
      q_dim     == p.n_heads * head_size
      kv_dim    == p.n_kv_heads * head_size
      biases(name, size) == IF bias THEN <<<<name, p.n_layers * size>>>> ELSE <<>>
      sections  ==
        <<<<"token_embedding_table", p.vocab_size * p.dim>>,
          <<"rms_att_weight", p.n_layers * p.dim>>,
          <<"wq", p.n_layers * p.dim * q_dim>>>> \o biases("bq", q_dim)
        \o <<<<"wk", p.n_layers * p.dim * kv_dim>>>> \o biases("bk", kv_dim)
        \o <<<<"wv", p.n_layers * p.dim * kv_dim>>>> \o biases("bv", kv_dim)
        \o <<<<"wo", p.n_layers * q_dim * p.dim>>,
             <<"rms_ffn_weight", p.n_layers * p.dim>>,
             <<"w1", p.n_layers * p.dim * p.hidden_dim>>,
             <<"w2", p.n_layers * p.hidden_dim * p.dim>>,
             <<"w3", p.n_layers * p.dim * p.hidden_dim>>,
             <<"rms_final_weight", p.dim>>,
             <<"freq_cis_real", (p.seq_len * head_size) \div 2>>,
             <<"freq_cis_imag", (p.seq_len * head_size) \div 2>>,
             <<"wcls", p.vocab_size * p.dim>>>>
      pointers(parts) ==
        [n \in {parts[i][1] : i \in DOMAIN parts} |->
           IF n = "wcls" /\ shared_weights THEN 0 ELSE OffsetIn(parts, n)]
  IN  Applied(pointers, sections)

\* The config and the weights of a file with this header.
read_checkpoint(header) ==
  LET shared_weights == header.vocab_size > 0
      config == IF shared_weights THEN header ELSE [header EXCEPT !.vocab_size = -@]
      mapped(p) == [config |-> p, weights |-> memory_map_weights(p, shared_weights, TRUE)]
  IN  Evaluated(Applied(mapped, config))
=============================================================================
