------------------------------ MODULE MCPrintf ------------------------------
(* Formats of up to three pieces, buffers of five characters, ints of one   *)
(* hexadecimal digit and longs of two.                                      *)
EXTENDS Printf

Plain(c) == [kind |-> "char", c |-> c]
Conv(c, long) == [kind |-> "conv", c |-> c, long |-> long]
Unknown(c) == [kind |-> "unknown", c |-> c, long |-> FALSE]

Pieces == {Plain("u"), Plain("d"), Unknown("%"), Unknown("u"),
           Conv("d", FALSE), Conv("d", TRUE), Conv("x", FALSE), Conv("x", TRUE),
           Conv("p", FALSE), Conv("s", TRUE), Conv("c", FALSE)}
MCFormats == UNION {[1..n -> Pieces] : n \in 0..3}

R(n, s, c) == [num |-> n, str |-> s, char |-> c]
\* Whatever else is in the registers and on the stack.
Rest == <<R(3, <<>>, "u"), R(3, <<>>, "u")>>
MCArgs == {<<R(-128, <<"u", "v", "w", "y", "z">>, "c"), R(127, <<>>, "%"), R(-9, <<"u">>, "w")>> \o Rest,
           <<R(7, <<"%", "d">>, "c"), R(-8, <<"u", "v">>, NUL), R(100, <<>>, "c")>> \o Rest,
           <<R(-1, <<>>, "u"), R(0, <<"v">>, "c"), R(10, <<"u">>, "w")>> \o Rest}
MCStale == {<<R(5, <<"w">>, "v"), R(5, <<>>, NUL), R(5, <<>>, "v")>> \o Rest}
MCChar == ToSet(Digits) \cup Conversions
            \cup {"%", "l", "-", "bad", "u", "v", "w", "y", "z"}

=============================================================================
