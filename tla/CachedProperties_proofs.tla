----------------------- MODULE CachedProperties_proofs -----------------------
(***************************************************************************)
(* Proofs about CachedProperties, for any number of graphs, any contents,  *)
(* any operations and any number of changes and failures.                  *)
(***************************************************************************)
EXTENDS CachedProperties, WellFoundedInduction, TLAPS

\* The first state is of its type.
LEMMA InitTypeOK == Init => TypeOK
<1> SUFFICES ASSUME Init PROVE TypeOK
  OBVIOUS
<1>1. \A f \in Contents : f \in SUBSET Facts
  BY ConstantsAssumption DEF ConstantsAssumption, PossibleContents
<1>2. always \in [Graphs -> SUBSET Facts] /\ ever \in [Graphs -> SUBSET Facts]
  BY <1>1 DEF Init
<1>3. at \in 1 .. NumGraphs + 1 /\ failures \in 0 .. MaxFailures /\ updates \in 0 .. MaxUpdates
  BY ConstantsAssumption DEF Init, ConstantsAssumption
<1>4. data \in [Graphs -> Contents] /\ failed \in BOOLEAN
  BY DEF Init
<1>5. ask \in 1 .. 9
  BY DEF Init
<1>6. code \subseteq 0 .. 6
  BY DEF Init
<1>. QED
  BY <1>2, <1>3, <1>4, <1>5, <1>6 DEF TypeOK

\* An answer leads to the next query, and adds at most one bit.
LEMMA AnswerTypes ==
  ASSUME TypeOK, Asking, NEW yes \in BOOLEAN, Answer(yes)
  PROVE  ask' \in 1 .. 9 /\ at' \in 1 .. NumGraphs + 1 /\ code' \subseteq 0 .. 6
<1>1. ask \in 1 .. 8
  BY DEF Asking, Facts
<1>2. ask' \in 1 .. 9
  BY <1>1 DEF Answer
<1>3. at' \in 1 .. NumGraphs + 1
  BY ConstantsAssumption DEF Answer, ConstantsAssumption
<1>4. ask # Collection => ask - 2 \in 0 .. 6
  BY <1>1 DEF Collection
<1>5. code' \subseteq 0 .. 6
  BY <1>4 DEF Answer, TypeOK
<1>. QED
  BY <1>2, <1>3, <1>5

\* Every step keeps the type.
LEMMA NextTypeOK == TypeOK /\ [Next]_vars => TypeOK'
<1> SUFFICES ASSUME TypeOK, [Next]_vars PROVE TypeOK'
  OBVIOUS
<1>1. CASE Ask
  <2>1. ask' \in 1 .. 9 /\ at' \in 1 .. NumGraphs + 1 /\ code' \subseteq 0 .. 6
    <3>1. CASE ask \in data[at]
      BY <1>1, <3>1, AnswerTypes DEF Ask
    <3>2. CASE ask \notin data[at]
      <4>1. ask' = ask /\ code' = code /\ at' = at + 1 /\ at \in Graphs
        BY <1>1, <3>2 DEF Ask
      <4>2. at' \in 1 .. NumGraphs + 1
        BY <4>1, ConstantsAssumption DEF Graphs, ConstantsAssumption
      <4>. QED
        BY <4>1, <4>2 DEF TypeOK
    <3>. QED
      BY <3>1, <3>2
  <2>. QED
    BY <1>1, <2>1 DEF Ask, TypeOK
<1>2. CASE NoneHasIt
  <2>1. ask' \in 1 .. 9 /\ at' \in 1 .. NumGraphs + 1 /\ code' \subseteq 0 .. 6
    BY <1>2, AnswerTypes DEF NoneHasIt
  <2>. QED
    BY <1>2, <2>1 DEF NoneHasIt, TypeOK
<1>3. CASE AskFails
  <2>1. failures' \in 0 .. MaxFailures
    BY <1>3, ConstantsAssumption DEF AskFails, TypeOK, ConstantsAssumption
  <2>. QED
    BY <1>3, <2>1 DEF AskFails, TypeOK
<1>4. CASE Update
  <2>1. updates' \in 0 .. MaxUpdates
    BY <1>4, ConstantsAssumption DEF Update, TypeOK, ConstantsAssumption
  <2>2. Fed \subseteq Contents /\ \A f \in Contents : f \in SUBSET Facts
    BY ConstantsAssumption DEF ConstantsAssumption, PossibleContents
  <2>6. data' \in [Graphs -> Contents]
    BY <1>4, <2>2 DEF Update
  <2>3. \A g \in Graphs : data'[g] \in SUBSET Facts
    BY <2>2, <2>6
  <2>4. always' \in [Graphs -> SUBSET Facts]
    BY <1>4, <2>3 DEF Update, TypeOK
  <2>5. ever' \in [Graphs -> SUBSET Facts]
    BY <1>4, <2>3 DEF Update, TypeOK
  <2>. QED
    BY <1>4, <2>1, <2>4, <2>5, <2>6 DEF Update, TypeOK
<1>5. CASE UNCHANGED vars
  BY <1>5 DEF vars, TypeOK
<1>. QED
  BY <1>1, <1>2, <1>3, <1>4, <1>5 DEF Next, Handle

\* TypeOK: the code has no bit but the seven that bits.txt and $CODE_n$ can
\* name, and no query is sent for a graph the pilot does not have.
THEOREM TypeCorrect == Spec => []TypeOK
BY InitTypeOK, NextTypeOK, PTL DEF Spec

-----------------------------------------------------------------------------
(* What a graph has now lies between what it had throughout and what it    *)
(* ever had, and facts of a collection come with one.                      *)
Witnesses ==
  \A g \in Graphs :
    /\ always[g] \subseteq data[g]
    /\ data[g] \subseteq ever[g]
    /\ always[g] \cap OfACollection # {} => Collection \in always[g]

(* The queries that were answered: a bit has its witness, a fact that one  *)
(* graph had throughout has its bit, and the graphs that the present query *)
(* has passed did not have its fact throughout.                            *)
Answered ==
  /\ \A k \in 2 .. 8 : k - 2 \in code => \E g \in Graphs : k \in ever[g]
  /\ \A k \in 2 .. 8 : k < ask /\ (\E g \in Graphs : k \in always[g]) => k - 2 \in code
  /\ \A g \in Graphs : g < at => ask \notin always[g]

Witnessed == Witnesses /\ Answered

\* Nothing has changed yet, nothing was asked yet.
LEMMA InitWitnessed == Init => Witnessed
<1> SUFFICES ASSUME Init PROVE Witnessed
  OBVIOUS
<1>1. \A g \in Graphs : data[g] \in PossibleContents
  BY ConstantsAssumption DEF Init, ConstantsAssumption
<1>2. Witnesses
  BY <1>1 DEF Init, Witnesses, PossibleContents
<1>3. Answered
  BY DEF Init, Answered, Graphs
<1>. QED
  BY <1>2, <1>3 DEF Witnessed

\* A yes comes from a graph that has the fact now.
LEMMA YesKeeps ==
  ASSUME TypeOK, Witnessed, Asking, at \in Graphs, ask \in data[at], Answer(TRUE),
         UNCHANGED <<always, ever>>
  PROVE  Answered'
<1>1. ask \in 1 .. 8 /\ ask' = ask + 1 /\ at' = 1
  BY DEF Asking, Facts, Answer
<1>2. code' = IF ask # Collection THEN code \cup {ask - 2} ELSE code
  BY DEF Answer
<1>3. ASSUME NEW k \in 2 .. 8, k - 2 \in code'
      PROVE  \E g \in Graphs : k \in ever'[g]
  <2>1. CASE k - 2 \in code
    BY <1>3, <2>1 DEF Witnessed, Answered
  <2>2. CASE k = ask
    BY <2>2 DEF Witnessed, Witnesses
  <2>. QED
    BY <1>1, <1>2, <1>3, <2>1, <2>2
<1>4. ASSUME NEW k \in 2 .. 8, k < ask', \E g \in Graphs : k \in always'[g]
      PROVE  k - 2 \in code'
  <2>1. CASE k < ask
    BY <1>2, <1>4, <2>1 DEF Witnessed, Answered
  <2>2. CASE k = ask
    BY <1>2, <2>2 DEF Collection
  <2>. QED
    BY <1>1, <1>4, <2>1, <2>2
<1>5. \A g \in Graphs : ~(g < at')
  BY <1>1 DEF Graphs
<1>. QED
  BY <1>3, <1>4, <1>5 DEF Answered

\* A no is given when all the graphs have been passed; the queries that it
\* skips could not be answered yes by a graph that never changed.
LEMMA NoKeeps ==
  ASSUME TypeOK, Witnessed, Asking, at \notin Graphs, Answer(FALSE),
         UNCHANGED <<always, ever>>
  PROVE  Answered'
<1>1. ask \in 1 .. 8 /\ at' = 1 /\ code' = code
      /\ ask' = IF ask = Collection THEN 6 ELSE ask + 1
  BY DEF Asking, Facts, Answer
<1>2. \A g \in Graphs : g < at
  BY ConstantsAssumption DEF TypeOK, Graphs, ConstantsAssumption
<1>3. \A g \in Graphs : ask \notin always[g]
  BY <1>2 DEF Witnessed, Answered
<1>4. ASSUME NEW k \in 2 .. 8, k < ask', NEW g \in Graphs, k \in always[g]
      PROVE  k - 2 \in code
  <2>1. CASE k < ask
    BY <1>4, <2>1 DEF Witnessed, Answered
  <2>2. CASE ask = Collection /\ k < 6
    <3>1. k \in OfACollection
      BY <1>4, <2>2 DEF OfACollection
    <3>2. Collection \in always[g]
      BY <1>4, <3>1 DEF Witnessed, Witnesses
    <3>. QED
      BY <1>3, <2>2, <3>2
  <2>3. k # ask
    BY <1>3, <1>4
  <2>. QED
    BY <1>1, <1>4, <2>1, <2>2, <2>3
<1>5. \A g \in Graphs : ~(g < at')
  BY <1>1 DEF Graphs
<1>. QED
  BY <1>1, <1>4, <1>5 DEF Witnessed, Answered

\* A change of the data takes facts from `always` and gives facts to `ever`.
LEMMA UpdateKeeps == TypeOK /\ Witnessed /\ Update => Witnessed'
<1> SUFFICES ASSUME TypeOK, Witnessed, Update PROVE Witnessed'
  OBVIOUS
<1>1. /\ \A g \in Graphs : always'[g] = always[g] \cap data'[g]
      /\ \A g \in Graphs : ever'[g] = ever[g] \cup data'[g]
      /\ \A g \in Graphs : data'[g] \in PossibleContents
      /\ UNCHANGED <<ask, at, code>>
  BY ConstantsAssumption DEF Update, ConstantsAssumption
<1>2. ASSUME NEW g \in Graphs, always'[g] \cap OfACollection # {}
      PROVE  Collection \in always'[g]
  <2>1. Collection \in always[g]
    BY <1>1, <1>2 DEF Witnessed, Witnesses
  <2>2. Collection \in data'[g]
    BY <1>1, <1>2 DEF PossibleContents
  <2>. QED
    BY <1>1, <2>1, <2>2
<1>3. Witnesses'
  BY <1>1, <1>2 DEF Witnesses
<1>4. Answered'
  BY <1>1 DEF Witnessed, Answered
<1>. QED
  BY <1>3, <1>4 DEF Witnessed

\* Every step keeps the invariant.
LEMMA NextWitnessed == TypeOK /\ Witnessed /\ [Next]_vars => Witnessed'
<1> SUFFICES ASSUME TypeOK, Witnessed, [Next]_vars PROVE Witnessed'
  OBVIOUS
<1>1. CASE Ask
  <2>1. UNCHANGED <<data, always, ever>> /\ Asking /\ at \in Graphs
    BY <1>1 DEF Ask
  <2>2. Witnesses'
    BY <2>1 DEF Witnessed, Witnesses
  <2>3. CASE ask \in data[at]
    BY <1>1, <2>1, <2>2, <2>3, YesKeeps DEF Ask, Witnessed
  <2>4. CASE ask \notin data[at]
    <3>1. at' = at + 1 /\ UNCHANGED <<ask, code>>
      BY <1>1, <2>4 DEF Ask
    <3>2. ask \notin always[at]
      BY <2>1, <2>4 DEF Witnessed, Witnesses
    <3>3. \A g \in Graphs : g < at' => g < at \/ g = at
      BY <2>1, <3>1 DEF Graphs
    <3>4. Answered'
      BY <2>1, <3>1, <3>2, <3>3 DEF Witnessed, Answered
    <3>. QED
      BY <2>2, <3>4 DEF Witnessed
  <2>. QED
    BY <2>3, <2>4
<1>2. CASE NoneHasIt
  <2>1. UNCHANGED <<data, always, ever>>
    BY <1>2 DEF NoneHasIt
  <2>2. Witnesses'
    BY <2>1 DEF Witnessed, Witnesses
  <2>. QED
    BY <1>2, <2>1, <2>2, NoKeeps DEF NoneHasIt, Witnessed
<1>3. CASE AskFails
  BY <1>3 DEF AskFails, Witnessed, Witnesses, Answered
<1>4. CASE Update
  BY <1>4, UpdateKeeps
<1>5. CASE UNCHANGED vars
  BY <1>5 DEF vars, Witnessed, Witnesses, Answered
<1>. QED
  BY <1>1, <1>2, <1>3, <1>4, <1>5 DEF Next, Handle

\* CodeIsWitnessed: however the data changes between the queries, each bit of
\* the returned code stands for a fact some graph had at some time, and no fact
\* that one graph had throughout is left out.
THEOREM CodesAreWitnessed == Spec => []CodeIsWitnessed
<1>1. TypeOK /\ Witnessed => CodeIsWitnessed
  <2> SUFFICES ASSUME Witnessed, Returned, NEW k \in 2 .. 8
               PROVE  /\ k - 2 \in code => \E g \in Graphs : k \in ever[g]
                      /\ (\E g \in Graphs : k \in always[g]) => k - 2 \in code
    BY DEF CodeIsWitnessed
  <2>1. k < ask
    BY DEF Returned
  <2>. QED
    BY <2>1 DEF Witnessed, Answered
<1>. QED
  BY <1>1, InitWitnessed, NextWitnessed, TypeCorrect, PTL DEF Spec

-----------------------------------------------------------------------------
(* Before the first change, what a graph had throughout, has now and ever  *)
(* had are one.                                                            *)
Still == updates = 0 => always = data /\ ever = data

\* A change is counted, and nothing else touches the data or the ghosts.
LEMMA NextStill == TypeOK /\ Still /\ [Next]_vars => Still'
<1> SUFFICES ASSUME TypeOK, Still, [Next]_vars PROVE Still'
  OBVIOUS
<1>1. CASE Handle \/ AskFails
  BY <1>1 DEF Handle, Ask, NoneHasIt, AskFails, Still
<1>2. CASE Update
  <2>1. updates \in Nat /\ updates' = updates + 1
    BY <1>2, ConstantsAssumption DEF Update, TypeOK, ConstantsAssumption
  <2>2. updates' # 0
    BY <2>1
  <2>. QED
    BY <2>2 DEF Still
<1>3. CASE UNCHANGED vars
  BY <1>3 DEF vars, Still
<1>. QED
  BY <1>1, <1>2, <1>3 DEF Next

\* A code between its two bounds, on data that held still, has no choice.
LEMMA StillIsExact ==
  ASSUME TypeOK, Still, CodeIsWitnessed, Returned, updates = 0
  PROVE  code = Truth
<1>1. always = data /\ ever = data
  BY DEF Still
<1>2. ASSUME NEW b \in code
      PROVE  b \in Truth
  <2>1. b \in 0 .. 6
    BY <1>2 DEF TypeOK
  <2>2. b + 2 \in 2 .. 8 /\ (b + 2) - 2 = b
    BY <2>1
  <2>3. \E g \in Graphs : b + 2 \in data[g]
    BY <1>1, <1>2, <2>2 DEF CodeIsWitnessed
  <2>. QED
    BY <2>2, <2>3 DEF Truth
<1>3. ASSUME NEW b \in Truth
      PROVE  b \in code
  <2>1. PICK k \in 2 .. 8 : b = k - 2 /\ \E g \in Graphs : k \in data[g]
    BY <1>3 DEF Truth
  <2>. QED
    BY <1>1, <2>1 DEF CodeIsWitnessed
<1>. QED
  BY <1>2, <1>3

\* As long as nobody changes the data, the eight queries find the code of just
\* these data: skipping four of them without a collection loses nothing, and no
\* bit is set by the wrong query.
THEOREM StillCodesAreExact == Spec => [](Returned /\ updates = 0 => code = Truth)
<1>1. Init => Still
  BY DEF Init, Still
<1>2. TypeOK /\ Still /\ CodeIsWitnessed => (Returned /\ updates = 0 => code = Truth)
  BY StillIsExact
<1>. QED
  BY <1>1, <1>2, NextStill, TypeCorrect, CodesAreWitnessed, PTL DEF Spec

\* A file that is labelled with what it asks for agrees with a code, on the
\* important bits, as what it asks for does.
LEMMA LabelledAgree ==
  ASSUME NEW t, Labelled(t), NEW i \in 1 .. t.n, NEW bits
  PROVE  Agrees(t.codes[i], bits, t.bits) <=> Agrees(t.asks[i], bits, t.bits)
BY DEF Labelled, Agrees

\* A set of natural numbers has a smallest one.
LEMMA Smallest ==
  ASSUME NEW S \in SUBSET Nat, S # {}
  PROVE  \E n \in S : \A m \in S : n <= m
<1>. DEFINE Less == OpToRel(<, Nat)
<1>1. IsWellFoundedOn(Less, Nat)
  BY NatLessThanWellFounded
<1>2. ASSUME NEW m \in Nat, NEW n \in Nat, m < n
      PROVE  <<m, n>> \in Less
  <2>1. <<m, n>> \in Nat \X Nat /\ <<m, n>>[1] = m /\ <<m, n>>[2] = n
    OBVIOUS
  <2>. QED
    BY <1>2, <2>1 DEF OpToRel
<1>. HIDE DEF Less
<1>3. PICK n \in S : \A m \in S : ~(<<m, n>> \in Less)
  BY <1>1, WFMin
<1>4. \A m \in S : ~(m < n)
  BY <1>2, <1>3
<1>. QED
  BY <1>3, <1>4

\* HintIsRight, for whatever operations the files have, if each file's $CODE_n$
\* says what its triples ask for: on data that holds still the hint leads to a
\* file for just these data, and there is none only if no file is.
THEOREM HintsAreRight ==
  ASSUME \A t \in Tables : Labelled(t)
  PROVE  Spec => []HintIsRight
<1>1. ASSUME Returned /\ updates = 0 => code = Truth
      PROVE  HintIsRight
  <2> SUFFICES ASSUME Returned, updates = 0, NEW t \in Tables
               PROVE  LET agree == {i \in 1 .. t.n : Agrees(t.codes[i], code, t.bits)}
                      IN  \/ agree = {} /\ \A i \in 1 .. t.n : ~Agrees(t.asks[i], Truth, t.bits)
                          \/ \E i \in agree : /\ \A j \in agree : i <= j
                                              /\ Agrees(t.asks[i], Truth, t.bits)
    BY DEF HintIsRight
  <2> DEFINE agree == {i \in 1 .. t.n : Agrees(t.codes[i], code, t.bits)}
  <2>1. Labelled(t) /\ t.n \in Nat /\ code = Truth
    BY <1>1 DEF Labelled
  <2>2. \A i \in 1 .. t.n : i \in agree <=> Agrees(t.asks[i], Truth, t.bits)
    BY <2>1, LabelledAgree
  <2>3. CASE agree = {}
    BY <2>2, <2>3
  <2>4. CASE agree # {}
    <3>1. PICK i \in agree : \A j \in agree : i <= j
      <4>1. agree \in SUBSET Nat
        BY <2>1
      <4>. QED
        BY <2>4, <4>1, Smallest
    <3>. QED
      BY <2>2, <3>1
  <2>. QED
    BY <2>3, <2>4
<1>. QED
  BY <1>1, StillCodesAreExact, PTL
=============================================================================
