-------------------------- MODULE CachedProperties --------------------------
(***************************************************************************)
(* CachedPropertiesHandler.get_integer_code: the properties of a pilot's   *)
(* data, found by eight ASK queries, each sent for one graph after another *)
(* until one says yes.  One step is one query; others feed and empty the   *)
(* graphs in between, and a query may fail.                                *)
(*                                                                         *)
(* Fact k of a graph is that the k-th query says yes to it:                *)
(*   1 it has an observation collection; 2 .. 5 and 8 a collection with a  *)
(*   phenomenonTime, resultTime, madeBySensor, observedProperty and        *)
(*   hasFeatureOfInterest; 6 an observation with a hasResult; 7 a feature  *)
(*   with wgs84 coordinates.                                               *)
(* Fact k > 1 is bit k - 2 of the code; code is the set of its bits.       *)
(***************************************************************************)
EXTENDS Integers, Sequences

CONSTANTS
  NumGraphs,   \* the pilot's graphs, in order
  Contents,    \* the sets of facts that a graph may have
  Fed,         \* bound: the contents between which others change a graph
  Tables,      \* operations, see CodeTables
  MaxFailures, \* bound: failed queries
  MaxUpdates   \* bound: changes of a graph during the computation

Graphs == 1 .. NumGraphs
Facts  == 1 .. 8

Collection == 1
OfACollection == {2, 3, 4, 5, 8}

\* Queries 2 .. 5 and 8 contain the first.
PossibleContents == {f \in SUBSET Facts : f \cap OfACollection # {} => Collection \in f}

ASSUME ConstantsAssumption ==
  /\ {NumGraphs, MaxFailures, MaxUpdates} \subseteq Nat
  /\ Contents \subseteq PossibleContents
  /\ Fed \subseteq Contents

VARIABLES
  data,    \* the facts of each graph
  ask, at, \* the query to send next, 9 after the last, and the graph
  code,    \* the bits found
  failed,  \* a query raised: the request ends and the row stays as it is
  always, ever,  \* ghosts: the facts that a graph had throughout, and at some time
  failures, updates  \* the bounds' counters

vars == <<data, ask, at, code, failed, always, ever, failures, updates>>

TypeOK ==
  /\ data \in [Graphs -> Contents]
  /\ ask \in 1 .. 9
  /\ at \in 1 .. NumGraphs + 1
  /\ code \subseteq 0 .. 6
  /\ failed \in BOOLEAN
  /\ always \in [Graphs -> SUBSET Facts]
  /\ ever \in [Graphs -> SUBSET Facts]
  /\ failures \in 0 .. MaxFailures
  /\ updates \in 0 .. MaxUpdates

Init ==
  /\ data \in [Graphs -> Contents]
  /\ ask = 1
  /\ at = 1
  /\ code = {}
  /\ failed = FALSE
  /\ always = data
  /\ ever = data
  /\ failures = 0
  /\ updates = 0

-----------------------------------------------------------------------------
Asking == ask \in Facts /\ ~failed

\* Variant: the same query is sent again from the first graph.
AnswerAgain(yes) ==
  /\ ask' = IF yes THEN ask + 1 ELSE ask
  /\ at' = 1
  /\ code' = IF yes /\ ask # Collection THEN code \cup {ask - 2} ELSE code

\* Variant: the bits are numbered from the first query.
AnswerFromOne(yes) ==
  /\ ask' = IF ask = Collection /\ ~yes THEN 6 ELSE ask + 1
  /\ at' = 1
  /\ code' = IF yes /\ ask # Collection THEN code \cup {ask - 1} ELSE code

\* A query has its answer.  Without a collection the four properties are not
\* asked; the last query is, though it contains the first one too.
Answer(yes) ==
  /\ ask' = IF ask = Collection /\ ~yes THEN 6 ELSE ask + 1
  /\ at' = 1
  /\ code' = IF yes /\ ask # Collection THEN code \cup {ask - 2} ELSE code

\* Variant: the first graph answers for all.
AskFirst ==
  /\ Asking
  /\ at \in Graphs
  /\ Answer(ask \in data[at])
  /\ UNCHANGED <<data, failed, always, ever, failures, updates>>

Ask ==
  /\ Asking
  /\ at \in Graphs
  /\ IF ask \in data[at] THEN Answer(TRUE)
     ELSE at' = at + 1 /\ UNCHANGED <<ask, code>>
  /\ UNCHANGED <<data, failed, always, ever, failures, updates>>

\* The loop over the graphs is over (at once, for a pilot without graphs).
NoneHasIt ==
  /\ Asking
  /\ at \notin Graphs
  /\ Answer(FALSE)
  /\ UNCHANGED <<data, failed, always, ever, failures, updates>>

\* handle_sparql_exception raises 503 or 400.
AskFails ==
  /\ Asking
  /\ at \in Graphs
  /\ failures < MaxFailures
  /\ failures' = failures + 1
  /\ failed' = TRUE
  /\ UNCHANGED <<data, ask, at, code, always, ever, updates>>

\* Others change some of the graphs.
Update ==
  /\ Asking
  /\ updates < MaxUpdates
  /\ updates' = updates + 1
  /\ data \in [Graphs -> Fed]
  /\ data' \in [Graphs -> Fed]
  /\ always' = [g \in Graphs |-> always[g] \cap data'[g]]
  /\ ever' = [g \in Graphs |-> ever[g] \cup data'[g]]
  /\ UNCHANGED <<ask, at, code, failed, failures>>

Handle == Ask \/ NoneHasIt

Next == Handle \/ AskFails \/ Update

Spec     == Init /\ [][Next]_vars
FairSpec == Spec /\ WF_vars(Handle)

-----------------------------------------------------------------------------
(* Properties                                                              *)

\* get_integer_code returns, and the code goes into the row.
Returned == ask = 9

\* The queries are spread over time and graphs, and the code of a changing
\* data set may be that of none of its states.  Still each bit stands for a
\* fact that some graph had at some time, and a fact that one graph had
\* throughout has its bit.  (A fact that moves between graphs may be missed.)
CodeIsWitnessed ==
  Returned =>
    \A k \in 2 .. 8 :
      /\ k - 2 \in code => \E g \in Graphs : k \in ever[g]
      /\ (\E g \in Graphs : k \in always[g]) => k - 2 \in code

\* Every computation returns or raises, as long as the endpoint answers.
ComputationEnds == <>(Returned \/ failed)

Bit(n, pos) == (n \div 2^pos) % 2

\* Two codes agree on the important bits; the second as a set.
Agrees(n, bits, important) == \A pos \in important : Bit(n, pos) = 1 <=> pos \in bits

\* The code of the data as they are.
Truth == {k - 2 : k \in {j \in 2 .. 8 : \E g \in Graphs : j \in data[g]}}

\* The $CODE_n$ of each file of an operation is, on the important bits, the code
\* that its triples ask for.
Labelled(t) ==
  /\ t.n \in Nat
  /\ \A i \in 1 .. t.n, pos \in t.bits : Bit(t.codes[i], pos) = 1 <=> Bit(t.asks[i], pos) = 1

\* On data that holds still, the first WHERE file with an agreeing $CODE_n$ (the
\* one get_response hints at) is a file whose triples ask for just that data.
HintIsRight ==
  Returned /\ updates = 0 =>
    \A t \in Tables :
      LET agree == {i \in 1 .. t.n : Agrees(t.codes[i], code, t.bits)}
      IN  \/ agree = {} /\ \A i \in 1 .. t.n : ~Agrees(t.asks[i], Truth, t.bits)
          \/ \E i \in agree : /\ \A j \in agree : i <= j
                              /\ Agrees(t.asks[i], Truth, t.bits)
=============================================================================
