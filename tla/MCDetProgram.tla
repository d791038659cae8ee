---------------------------- MODULE MCDetProgram ----------------------------
(* Detection graphs for DetProgram: a backbone, a neck and a head in the   *)
(* style of the DB models, with both orders of the epilogue's sums, the    *)
(* squeeze-and-excitation gate, nodes only one layout supports, and maps   *)
(* with readers in both.                                                   *)
EXTENDS DetProgram, MCLayoutGraphs

Stems == {<<"dense", "bias", "relu">>, <<"other", "relu", "pointwise">>, <<"depthwise", "dense">>}
Blocks ==
  { <<"keep", "wide", "bias", "gelu", "narrow", "bias", "residual", "relu">>,
    <<"keep", "pointwise", "reversed", "bias", "gelu", "pool", "pointwise", "residual">>,
    <<"keep", "mean", "pointwise", "relu", "pointwise", "hard_sigmoid", "scaled", "wide">>,
    <<"keep", "other", "keep", "pointwise", "residual", "bn", "other", "residual">>,
    <<"pointwise", "keep", "bias", "relu", "residual", "sigmoid", "scaled">>,
    <<"wide", "keep", "gelu", "stretch", "pointwise", "concat", "keep", "sigmoid", "gelu">>,
    <<"bias", "keep", "relu", "stretch", "residual", "relu">>,
    <<"pointwise", "keep", "other", "pointwise", "residual", "relu", "reversed">> }
Heads ==
  { <<"dense", "bn", "relu", "up", "relu", "planeup", "sigmoid">>,
    <<"resize", "pointwise">>,
    <<"planeup", "sigmoid", "renamed">>,
    <<"other", "renamed", "relu", "sigmoid">>,
    <<"pointwise", "sqrt">> }

MCGraphs == {Assembled(s \o b \o h) : s \in Stems, b \in Blocks, h \in Heads}
=============================================================================
