------------------------- MODULE MCSimpleSetParser -------------------------
(* All sets of a few cpus, with one and two digits, and all short texts.     *)
EXTENDS SimpleSetParser

SmallSets == SUBSET {0, 1, 2, 3, 8, 9, 10, 11, 23} \ {{}}

Alphabet == {0, 1, 2, Comma, Dash, End, Other}
ShortTexts == UNION {[1 .. n -> Alphabet] : n \in 0 .. 4}
           \cup {<<a, Comma, b, Dash, c, d>> : a, b, c \in 0 .. 2, d \in Separators}
=============================================================================
