------------------------------ MODULE MCFlatten ------------------------------
(* Columns nested like those of the scenarios: a struct, a list, a list of  *)
(* lists (matrix[][]), of structs (line_items[].sku), a map, and a struct   *)
(* that holds a list.                                                       *)
EXTENDS Flatten

Numbers == {IntValue(1), IntValue(2)}

Pair(t) == Struct([n \in {"a", "b"} |-> IF n = "a" THEN Leaf ELSE t])

AllColumns == {
    Pair(Leaf), Pair(List(Leaf)), Pair(Struct([n \in {"x"} |-> Leaf])),
    List(Leaf), List(List(Leaf)), List(Pair(Leaf)),
    Map(Leaf, Leaf), Map(Leaf, Struct([n \in {"x"} |-> Leaf]))}
=============================================================================
