----------------------------- MODULE MCSession -----------------------------
EXTENDS Session

Op(in, out) == [in |-> in, out |-> out, reduce |-> FALSE, const |-> FALSE]

\* x -> a, (a, y) -> b, (b, b) -> r: a wrong pair of sizes fails at the second operation.
Merge == [ops |-> <<Op(<<"x">>, "a"), Op(<<"a", "y">>, "b"), Op(<<"b", "b">>, "r")>>,
          usage |-> [x |-> "input", y |-> "input", a |-> "normal", b |-> "normal", r |-> "output"]]
\* x -> a, reduced to one element m, which a part of fixed size reads; a is read again at the end.
Skip == [ops |-> <<Op(<<"x">>, "a"), [Op(<<"a">>, "m") EXCEPT !.reduce = TRUE],
                   Op(<<"m">>, "b"), Op(<<"a">>, "r")>>,
         usage |-> [x |-> "input", a |-> "normal", m |-> "normal", b |-> "output", r |-> "output"]]
\* a weight w, folded into k before it meets the input.
Folded == [ops |-> <<[Op(<<"w">>, "k") EXCEPT !.const = TRUE], Op(<<"x", "k">>, "a"), Op(<<"a">>, "r")>>,
           usage |-> [x |-> "input", w |-> "constant", k |-> "constant", a |-> "normal", r |-> "output"]]

With(s, inside, static) == [ops |-> s.ops, usage |-> s.usage, allocInput |-> inside, outputStatic |-> static]
MCSetups == {With(s, TRUE, FALSE) : s \in {Merge, Skip, Folded}} \cup
            {With(s, FALSE, TRUE) : s \in {Merge, Skip, Folded}}
MCRetry == {"resize after a failure"}
=============================================================================
