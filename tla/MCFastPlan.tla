----------------------------- MODULE MCFastPlan -----------------------------
(* Recognition backbones for FastPlan: a stem, a block and an end; every   *)
(* way to fuse, both layouts, and their borders.  Channels come in whole   *)
(* blocks of 16.                                                           *)
EXTENDS FastPlan, MCLayoutGraphs

Stems == {<<"dense">>, <<"dense", "bn", "relu">>, <<"depthwise", "pointwise">>}
Blocks ==
  { <<"keep", "pointwise", "bn", "relu", "wide", "narrow", "residual", "relu", "pool">>,
    <<"keep", "depthwise", "bn", "pointwise", "reversed", "gelu", "pointwise">>,
    <<"keep", "mean", "pointwise", "relu", "pointwise", "hard_sigmoid", "scaled", "wide">>,
    <<"pointwise", "keep", "resize", "pointwise", "concat", "narrow", "bn">>,
    <<"keep", "wide", "gelu", "narrow", "residual", "relu", "keep", "other", "residual">>,
    <<"keep", "mean", "gelu", "pointwise", "gelu", "scaled", "stretch", "gelu">> }
Ends ==
  { <<"pointwise">>, <<"sequence", "gelu", "softmax">>,
    <<"stretch", "sequence", "transpose", "unfold", "keep", "dense", "residual", "relu">> }

MCGraphs == {Assembled(s \o b \o e) : s \in Stems, b \in Blocks, e \in Ends}
=============================================================================
