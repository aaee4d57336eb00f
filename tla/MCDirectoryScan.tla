--------------------------- MODULE MCDirectoryScan ---------------------------
(* DirectoryScan of a small tree with a mount point, a link, an excluded     *)
(* directory, overlapping roots and a file that is a root.                   *)
EXTENDS DirectoryScan, TLC

CONSTANTS w1, w2

a == <<"a">>
b == <<"b">>
d == <<"a", "d">>
m == <<"a", "m">>
x == <<"a", "x">>
e == <<"a", "d", "e">>

MCTree == {a, b, d, m, x, <<"a", "l">>, <<"a", "d", "f">>, e, <<"a", "d", "e", "k">>,
           <<"a", "m", "g">>, <<"a", "x", "h">>}

MCKind ==
    [p \in MCTree |-> CASE p \in {a, d, e, m, x} -> "dir"
                        [] p = <<"a", "l">>   -> "link"
                        [] OTHER              -> "file"]

MCDevice == [p \in MCTree |-> IF IsPrefix(m, p) THEN 2 ELSE 1]

Overlapping == {a, b, d}
WithMount   == {a, m}
MCExcluded  == {x}
=============================================================================
