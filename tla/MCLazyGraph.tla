----------------------------- MODULE MCLazyGraph -----------------------------
(* Finite instances of LazyGraph. *)
EXTENDS LazyGraph, TLC
Op(in, content, shape) == [in |-> in, content |-> content, shape |-> shape]
Of(leaves, ops) ==
  [leaves |-> leaves, in |-> [e \in DOMAIN ops |-> ops[e].in],
   content |-> [e \in DOMAIN ops |-> ops[e].content], shape |-> [e \in DOMAIN ops |-> ops[e].shape]]
\* A diamond, a reshape by a computed shape, one by the shape of an input, and a
\* crop by the size of what it is computed from.
Diamond == Of(1, 2 :> Op(<<1>>, {1}, {}) @@ 3 :> Op(<<1>>, {1}, {}) @@ 4 :> Op(<<2, 3>>, {1, 2}, {}))
Reshape == Of(2, 3 :> Op(<<1>>, {1}, {}) @@ 4 :> Op(<<2, 3>>, {1}, {2}) @@ 5 :> Op(<<4, 2>>, {1, 2}, {}))
ReshapeLike == Of(1, 2 :> Op(<<1>>, {}, {}) @@ 3 :> Op(<<1, 2>>, {1}, {2}) @@ 4 :> Op(<<3, 1>>, {1, 2}, {}))
CropOfOwn == Of(1, 2 :> Op(<<1>>, {1}, {}) @@ 3 :> Op(<<2, 1>>, {2}, {}))
MCGraphs == {Diamond, Reshape, ReshapeLike, CropOfOwn}
\* The second leaf changes its size once, from unknown to 1.
MCDims == <<0 .. 2, 0 .. 1>>
==============================================================================
