--------------------------- MODULE MC_ConnectionGraph ---------------------------
(* Three generations of connections, of which the plugin may refuse the    *)
(* youngest.                                                               *)
EXTENDS ConnectionGraph

CONSTANTS root, ns, w1

Line     == {root, ns, w1}
Lineage  == [c \in Line |-> CASE c = ns -> root [] c = w1 -> ns [] OTHER -> NoConn]
OneFlaky == {w1}
=============================================================================
