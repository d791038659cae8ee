----------------------------- MODULE MCConvRun -----------------------------
(* Small nodes for ConvRun: every window, stride and padding a kernel of    *)
(* its own exists for, and neighbours of them that fall to the general      *)
(* kernel; planes as small as the kernels accept and wide enough for a      *)
(* vector, an edge and a remainder.                                         *)
EXTENDS ConvRun

Node(op, size, ic, oc, groups, k, s, p, q) ==
    LET bare == [op |-> op, h |-> size[1], w |-> size[2], ic |-> ic, oc |-> oc,
                 groups |-> groups, k |-> k, s |-> s, d |-> <<1, 1>>, p |-> p, q |-> q,
                 oh |-> 0, ow |-> 0]
    IN  [bare EXCEPT !.oh = OutputSize(bare)[1], !.ow = OutputSize(bare)[2]]
Conv(size, ic, oc, groups, k, s, p) == Node("conv", size, ic, oc, groups, k, s, p, p)

Ones == <<1, 1>>
None == <<0, 0>>

MCJobs ==
    \* pointwise, with packed blocks whole or not
    {Conv(z, 2, oc, 1, Ones, Ones, None) : z \in {<<1, 1>>, <<2, 4>>}, oc \in {3, 8}}
    \cup {Conv(<<1, 4>>, 2, oc, 1, Ones, Ones, None) : oc \in {4, 12}}
    \cup {Conv(<<4, 4>>, 1, 4, 1, Ones, Ones, None)}
    \* dense 3x3
    \cup {Conv(z, 2, oc, 1, <<3, 3>>, Ones, Ones) : z \in {<<1, 2>>, <<3, 6>>}, oc \in {2, 4}}
    \cup {Conv(z, 1, 8, 1, <<3, 3>>, Ones, Ones) : z \in {<<2, 5>>}}
    \* 3x3, stride 2: even and odd planes, few and many input channels, and a
    \* vector that ends with the last row
    \cup {Conv(z, 1, oc, 1, <<3, 3>>, <<2, 2>>, Ones) :
             z \in {<<3, 8>>, <<4, 8>>, <<4, 9>>, <<1, 1>>}, oc \in {2, 4}}
    \cup {Conv(<<4, 8>>, 1, 16, 1, <<3, 3>>, <<2, 2>>, Ones),
          Conv(<<2, 8>>, 5, 2, 1, <<3, 3>>, <<2, 2>>, Ones)}
    \* depthwise
    \cup {Conv(z, 2, 2, 2, <<3, 3>>, s, Ones) :
             z \in {<<1, 1>>, <<3, 4>>, <<4, 3>>}, s \in {Ones, <<2, 1>>, <<2, 2>>}}
    \cup {Conv(z, 2, 2, 2, <<5, 5>>, Ones, <<2, 2>>) : z \in {<<1, 1>>, <<2, 6>>}}
    \cup {Conv(<<9, 9>>, 1, 1, 1, <<9, 9>>, Ones, <<4, 4>>)}
    \* wide dense windows
    \cup {Conv(<<5, 7>>, 1, oc, 1, <<5, 5>>, Ones, <<2, 2>>) : oc \in {1, 4}}
    \cup {Conv(<<7, 7>>, 1, oc, 1, <<7, 7>>, Ones, <<3, 3>>) : oc \in {1, 4}}
    \cup {Conv(<<7, 2>>, 1, 2, 1, <<7, 1>>, Ones, <<3, 0>>),
          Conv(<<2, 7>>, 1, 2, 1, <<1, 7>>, Ones, <<0, 3>>),
          Conv(<<5, 2>>, 1, 2, 1, <<5, 1>>, Ones, <<2, 0>>),
          Conv(<<1, 6>>, 1, 2, 1, <<1, 5>>, Ones, <<0, 2>>)}
    \* padding after the plane only
    \cup {Node("conv", <<2, 5>>, 2, oc, 1, <<2, 2>>, Ones, None, Ones) : oc \in {3, 4}}
    \* no kernel of their own
    \cup {Conv(<<3, 4>>, 4, 4, 2, <<3, 3>>, Ones, Ones),
          [Node("conv", <<5, 4>>, 1, 2, 1, <<3, 2>>, <<2, 1>>, <<2, 1>>, <<1, 0>>)
               EXCEPT !.d = <<2, 1>>, !.oh = 2]}
    \* transposed
    \cup {Node("convtranspose", z, 2, 3, 1, <<2, 2>>, <<2, 2>>, None, None) :
             z \in {<<1, 1>>, <<2, 4>>}}
    \cup {Node("convtranspose", <<2, 3>>, 2, 2, g, <<3, 3>>, s, Ones, Ones) :
             g \in {1, 2}, s \in {<<1, 2>>, <<2, 2>>}}

MCLevels == {"avx2", "sse2", "neon", "lsx", "scalar"}
=============================================================================
