--------------------------- MODULE MCChartValues ---------------------------
(* One outer key with two keys below it: enough for a leaf and a map, or    *)
(* two maps with common and different keys, to meet.  Flat values set one   *)
(* path, two because of a comma, or have text after a comma.                *)
EXTENDS ChartValues

MCKey == {"a", "x", "y"}

A == <<"a">>
AX == <<"a", "x">>
AY == <<"a", "y">>

MCPath == {A, AX, AY}

MCFlatMap == {{}, {<<A>>, <<AX>>}, {<<AX>>, <<AY, AX>>}, {<<A, NoPath>>}}
MCFlatList == {<<>>, << <<AX>>, <<AX>> >>}
MCStringMap == {{}, {<<AX>>, <<AY>>}, {<<AY, A>>}}
MCStringList == {<<>>, << <<A>> >>}

(* The map of a Go program that a tree stands for, from a path on.          *)
RECURSIVE Nested(_, _)
Nested(tree, path) ==
    [k \in {l \in Key : Append(path, l) \in DOMAIN tree} |->
        LET node == tree[Append(path, k)]
        IN  IF node = Map
            THEN [isMap |-> TRUE, below |-> Nested(tree, Append(path, k))]
            ELSE [isMap |-> FALSE, source |-> node]]

(* DeepMerge as the code has it, a recursion over nested maps.              *)
RECURSIVE NestedMerge(_, _)
NestedMerge(a, b) ==
    [k \in DOMAIN a \cup DOMAIN b |->
        IF k \notin DOMAIN b THEN a[k]
        ELSE IF k \in DOMAIN a /\ a[k].isMap /\ b[k].isMap
             THEN [isMap |-> TRUE, below |-> NestedMerge(a[k].below, b[k].below)]
             ELSE b[k]]

(* The definition by paths does what the recursion does.                    *)
ASSUME MergesNestedMaps ==
    \A a \in Content(File(1)) : \A b \in Content(Complex) \cup Content(File(2)) :
        Nested(DeepMerge(a, b), <<>>) = NestedMerge(Nested(a, <<>>), Nested(b, <<>>))
=============================================================================
