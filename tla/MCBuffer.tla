------------------------------ MODULE MCBuffer ------------------------------
(* A file of two bytes; what is typed or pasted has none, one or two.      *)
EXTENDS Buffer

CONSTANTS a, b, x, y

Files == {<<a, b>>}
Typed == {<<>>, <<x>>, <<x, y>>}
=============================================================================
