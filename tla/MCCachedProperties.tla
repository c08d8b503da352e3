------------------------- MODULE MCCachedProperties -------------------------
\* Instances of CachedProperties for TLC.
EXTENDS CachedProperties

Files == INSTANCE CodeTables

SomeContents  == {{}, {1}, {1, 3}, {6}, {1, 3, 6, 8}}

CodedTables   == {t \in Files!Operations : t.codes # <<>>}
LabelledRight == CodedTables \ Files!Mislabelled

\* The hypothesis of HintsAreRight (CachedProperties_proofs) on these tables, and
\* that the others are those that break it.
ASSUME LabelsAssumption ==
  \A t \in CodedTables : Labelled(t) <=> t \notin Files!Mislabelled
=============================================================================
