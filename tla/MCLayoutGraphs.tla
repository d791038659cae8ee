--------------------------- MODULE MCLayoutGraphs ---------------------------
(* Graphs for the engines that plan layouts, built from fragments.  A      *)
(* fragment appends nodes to the graph built so far and moves the current  *)
(* tensor on.  Maps have 2 lines or, after "wide", 3; vectors and planes   *)
(* have 1.                                                                 *)
EXTENDS SequencesExt, Naturals, FiniteSets

Blank ==
  [nodes |-> <<>>, rank |-> <<4>>, bytes |-> <<2>>, shape |-> <<"map">>,
   const |-> {}, cur |-> 1, skip |-> 1]
New(b) == Len(b.bytes) + 1

Sizes == [map |-> 2, wide |-> 3, vector |-> 1, plane |-> 1, sequence |-> 2, double |-> 3]
Ranks == [map |-> 4, wide |-> 4, vector |-> 4, plane |-> 4, sequence |-> 3, double |-> 4]

Kernel(b) ==
  [b EXCEPT !.rank = Append(@, 1), !.bytes = Append(@, 1), !.shape = Append(@, "weights"),
            !.const = @ \cup {New(b)}]
Node(b, op, form, ins, shape) ==
  [b EXCEPT !.nodes = Append(@, [op |-> op, form |-> form, tail |-> FALSE,
                                 ins |-> ins, out |-> New(b)]),
            !.rank = Append(@, Ranks[shape]), !.bytes = Append(@, Sizes[shape]),
            !.shape = Append(@, shape), !.cur = New(b)]
Keep(b, op, ins) == Node(b, op, "", ins, b.shape[b.cur])
Weighted(b, op) == LET w == Kernel(b) IN Keep(w, op, <<b.cur, Len(w.bytes)>>)
GeluChain(b) ==
  LET from == b.cur
      quotient == Weighted(b, "div")
      sum == Weighted(Keep(quotient, "erf", <<quotient.cur>>), "add")
  IN  Weighted(Keep(sum, "mul", <<from, sum.cur>>), "mul")

Piece(b, f) ==
  CASE f \in {"pointwise", "dense", "depthwise", "other"} ->
         Node(b, "conv", f, <<b.cur>>, b.shape[b.cur])
    [] f = "wide"     -> Node(b, "conv", "pointwise", <<b.cur>>, "wide")
    [] f = "narrow"   -> Node(b, "conv", "pointwise", <<b.cur>>, "map")
    [] f = "plane"    -> Node(b, "conv", "other", <<b.cur>>, "plane")
    [] f = "planeup"  -> Node(b, "up", "double", <<b.cur>>, "plane")
    [] f = "up"       -> Node(b, "up", "double", <<b.cur>>, "double")
    [] f = "bias"     -> Weighted(b, "add")
    [] f = "keep"     -> [b EXCEPT !.skip = b.cur]
    [] f = "residual" -> Keep(b, "add", <<b.cur, b.skip>>)
    [] f = "reversed" -> Keep(b, "add", <<b.skip, b.cur>>)
    [] f = "scaled"   -> Node(b, "mul", "", <<b.skip, b.cur>>, b.shape[b.skip])
    [] f = "gelu"     -> GeluChain(b)
    [] f = "mean"     -> Node(b, "reduce", "spatial", <<b.cur>>, "vector")
    [] f = "concat"   -> Node(b, "concat", "channels", <<b.skip, b.cur>>, "wide")
    [] f = "resize"   -> Node(b, "resize", "integer", <<b.cur>>, b.shape[b.cur])
    [] f = "stretch"  -> Node(b, "resize", "other", <<b.cur>>, b.shape[b.cur])
    [] f = "pool"     -> Node(b, "pool", "", <<b.cur>>, b.shape[b.cur])
    [] f = "sequence" -> Node(b, "reshape", "", <<b.cur>>, "sequence")
    [] f = "renamed"  -> Keep(b, "reshape", <<b.cur>>)
    [] f = "unfold"   -> Node(b, "reshape", "", <<b.cur>>, "map")
    [] OTHER          -> Keep(b, f, <<b.cur>>)

Assembled(fragments) ==
  LET b == FoldLeft(Piece, Blank, fragments)
      vectors == {t \in DOMAIN b.shape : b.shape[t] = "vector"}
  IN  [nodes |-> b.nodes, rank |-> b.rank, bytes |-> b.bytes, shape |-> b.shape,
       const |-> b.const, input |-> 1, outputs |-> {b.cur}, vector |-> vectors,
       neutral |-> vectors \cup {t \in DOMAIN b.shape : b.shape[t] = "plane"}]
=============================================================================
