-------------------------- MODULE MCQueryDispatch --------------------------
\* Instances of QueryDispatch for TLC: three small shapes of operation on all
\* combinations of results, and the operations of resources/ on data modelled
\* in one of their ways.
EXTENDS QueryDispatch, TLC

Files == INSTANCE CodeTables

Plain  == [n |-> 2, codes |-> <<>>, bits |-> {}, shared |-> FALSE]
Coded  == [n |-> 3, codes |-> <<3, 2, 0>>, bits |-> {0, 1}, shared |-> FALSE]
OneSum == [n |-> 3, codes |-> <<3, 2, 2>>, bits |-> {0, 1}, shared |-> TRUE]

SmallTables == {Plain, Coded, OneSum}
AllTables   == SmallTables \cup Files!Operations

AllPages == [top : {1, 2}, skip : {0, 1}]

\* Every code of an operation's files, and two that are in few or none.
SmallCached == {0, 1, 2, 7, None}
RealCached(t) == {t.codes[i] : i \in DOMAIN t.codes} \cup {34, 127, None}

AllCached == [t \in AllTables |-> IF t \in SmallTables THEN SmallCached ELSE RealCached(t)]

\* Results of a variant: none; one or two counted, all or some of them shown.
Nothing == [count |-> 0, shown |-> {}, odd |-> FALSE]
Both    == [count |-> 2, shown |-> {1, 2}, odd |-> FALSE]

SmallResults ==
  {Nothing, Both, [count |-> 1, shown |-> {1}, odd |-> FALSE],
   [count |-> 2, shown |-> {2}, odd |-> FALSE], [count |-> 1, shown |-> {1}, odd |-> TRUE]}

SmallDatasets == [results : [1 .. 3 -> SmallResults], all : {0, 2}]

\* Data modelled in one of the ways, early, late or in the middle, or not there at
\* all (way 0).
RealDatasets(t) ==
  {[results |-> [i \in 1 .. t.n |-> IF i = way THEN Both ELSE Nothing],
    all |-> IF way = 0 THEN 0 ELSE 2] : way \in {0} \cup ({1, 2, 5, 6, 8, 10, 11, 27, 32} \cap 1 .. t.n)}

AllDatasets ==
  [t \in AllTables |-> IF t \in SmallTables THEN SmallDatasets ELSE RealDatasets(t)]

\* What others may feed while a request is answered: both positions, in any of
\* the first two ways; and in a real operation, any of its ways.
AllFeeds ==
  {[results |-> [i \in 1 .. 3 |-> IF i \in S THEN Both ELSE Nothing], all |-> 2] :
     S \in SUBSET {1, 2}}
=============================================================================
