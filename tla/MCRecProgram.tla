---------------------------- MODULE MCRecProgram ----------------------------
(* Recognition graphs for RecProgram, built from fragments: a stem, blocks *)
(* chosen from lists, and a tail.  A fragment appends nodes to the graph   *)
(* built so far and moves the current tensor on.                           *)
EXTENDS RecProgram, SequencesExt

Start == [nodes |-> <<>>, rank |-> <<4>>, bytes |-> <<2>>, const |-> {}, cur |-> 1, skip |-> 1]

Weight(b, lines) ==
  [b EXCEPT !.rank = Append(@, 1), !.bytes = Append(@, lines), !.const = @ \cup {Len(b.bytes) + 1}]
Step(b, op, form, ins, rank, bytes) ==
  [b EXCEPT !.nodes = Append(@, [op |-> op, form |-> form, ins |-> ins, out |-> Len(b.bytes) + 1]),
            !.rank = Append(@, rank), !.bytes = Append(@, bytes), !.cur = Len(b.bytes) + 1]
Same(b, op, ins) == Step(b, op, "", ins, b.rank[b.cur], b.bytes[b.cur])
WithWeight(b, op, lines) ==
  LET w == Weight(b, lines) IN Same(w, op, <<b.cur, Len(w.bytes)>>)
Gelu(b) ==
  LET source == b.cur
      sum == WithWeight(Same(WithWeight(b, "div", 1), "erf", <<Len(b.bytes) + 2>>), "add", 1)
  IN  WithWeight(Same(sum, "mul", <<source, sum.cur>>), "mul", 1)
Attention(b) ==
  LET map == Step(b, "reshape", "flat", <<b.cur>>, 4, 2)
      turned == Same(map, "transpose", <<map.cur>>)
      scores == Same(turned, "matmul", <<map.cur, turned.cur>>)
      soft == Same(scores, "softmax", <<scores.cur>>)
  IN  Step(soft, "reshape", "flat", <<soft.cur>>, 3, 2)

Appended(b, f) ==
  CASE f = "pw"     -> Step(b, "conv", "pointwise", <<b.cur>>, 4, 2)
    [] f = "wide"   -> Step(b, "conv", "pointwise", <<b.cur>>, 4, 3)
    [] f = "bias"   -> WithWeight(b, "add", 1)
    [] f = "scale"  -> WithWeight(b, "mul", 1)
    [] f = "keep"   -> [b EXCEPT !.skip = b.cur]
    [] f = "swap"   -> [b EXCEPT !.skip = b.cur, !.cur = b.skip]
    [] f = "res"    -> Same(b, "add", <<b.cur, b.skip>>)
    [] f = "serres" -> Same(b, "add", <<b.skip, b.cur>>)
    [] f = "gelu"   -> Gelu(b)
    [] f = "relu"   -> Same(b, "relu", <<b.cur>>)
    [] f = "concat" -> Step(b, "concat", "", <<b.skip, b.cur>>, 4, 4)
    [] f = "pool"   -> Step(b, "pool", "", <<b.cur>>, 4, 2)
    [] f = "toseq"  -> Step(b, "reshape", "flat", <<b.cur>>, 3, 2)
    [] f = "renamed" -> Step(b, "reshape", "flat", <<b.cur>>, 3, 2)
    [] f = "turn"   -> Same(b, "transpose", <<b.cur>>)
    [] f = "heads"  -> Attention(b)
    [] f = "norm"   -> Same(b, "bn", <<b.cur>>)
    [] f = "fc"     -> WithWeight(b, "matmul", 2)
    [] f = "tomap"  -> Step(b, "reshape", "channels", <<b.cur>>, 4, 2)
    [] f = "flatmap" -> Step(b, "reshape", "flat", <<b.cur>>, 4, 2)
    [] f = "softmax" -> Same(b, "softmax", <<b.cur>>)
    [] OTHER        -> Same(b, f, <<b.cur>>)
Shaped(b, f) ==
  IF f \in {"dw", "stem", "dense", "other"}
    THEN Step(b, "conv", IF f = "dw" THEN "depthwise" ELSE f, <<b.cur>>, 4, b.bytes[b.cur])
    ELSE Appended(b, f)

Built(fragments) ==
  LET b == FoldLeft(Shaped, Start, fragments)
  IN  [nodes |-> b.nodes, rank |-> b.rank, bytes |-> b.bytes, const |-> b.const,
       input |-> 1, outputs |-> {b.cur}]

CtcNodes == <<"fc", "bias", "softmax">>
Stems == {<<"stem">>, <<"pw", "bias">>, <<"dw", "bias", "relu">>}
Blocks ==
  { <<"keep", "wide", "bias", "gelu", "pw", "bias", "res">>,
    <<"keep", "wide", "gelu", "pw", "serres", "gelu">>,
    <<"keep", "pw", "bias", "res", "bias", "gelu", "res">>,
    <<"wide", "bias", "gelu", "pw", "bias">>,
    <<"pw", "keep", "bias", "gelu", "res">>,
    <<"keep", "dw", "bias", "pw", "concat", "dense", "pw">>,
    <<"wide", "bias", "gelu", "dw", "pw", "norm", "keep", "gelu", "pool", "res">>,
    <<"other", "bias">> }
Middles ==
  { <<"toseq">>,
    <<"toseq", "renamed", "turn">>,
    <<"toseq", "keep", "renamed", "fc", "res">>,
    <<"toseq", "keep", "fc", "gelu", "res">>,
    <<"toseq", "heads", "fc">>,
    <<"toseq", "keep", "heads", "turn", "res", "turn", "tomap", "pw", "toseq">>,
    <<"keep", "toseq", "fc", "flatmap", "res", "toseq">>,
    <<"keep", "toseq", "fc", "flatmap", "swap", "relu", "serres", "toseq">> }
Ends == { CtcNodes, <<"fc">>, <<"renamed">> }

MCGraphs ==
  {Built(s \o b \o m \o e) : s \in Stems, b \in Blocks, m \in Middles, e \in Ends}
=============================================================================
