---------------------------- MODULE MCSharedGraphs ----------------------------
\* An instance of SharedGraphs for TLC.
EXTENDS SharedGraphs

CONSTANTS g, h, unit, om2, i1, i2, i3

UnitVocabs == <<unit, om2>>

\* A PUT may add a graph.
TwoLists == {<<g>>, <<g, h>>}

SomeHolds == [x \in {g, h, unit, om2} |->
                CASE x = g -> {i1, i3} [] x = h -> {i2, i3} [] OTHER -> {}]

SomeItems == <<i1, i2, i3>>
===============================================================================
