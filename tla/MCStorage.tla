------------------------------ MODULE MCStorage ------------------------------
(* Instances of Storage for TLC. *)
EXTENDS Storage

CONSTANTS A, B    \* two texts: one that begins with a number, one that does not

Up  == [parses |-> TRUE, n |-> 1, tail |-> A]
Abc == [parses |-> FALSE, n |-> 0, tail |-> B]
SomeTexts == {Up, Abc}

SomeBatches == {<<Up>>, <<Up, Abc>>}
SomeSteps   == {-1}
SomeSpans   == {1, -1}
SomeIndices == {-1, 0, 1}

\* The number of maps that have a key, and the length of a list.
MaxMaps == 2
MaxList == 2
Small ==
    \A k \in Keys :
        /\ Cardinality({y \in Types : data[k][y].in}) <= MaxMaps
        /\ data[k]["list"].in => Len(data[k]["list"].value) <= MaxList
=============================================================================
