------------------------ MODULE SharedGraphs_proofs ------------------------
(***************************************************************************)
(* Proof about SharedGraphs: for any number of threads, lists, vocabularies*)
(* requests and rebuilds.                                                  *)
(***************************************************************************)
EXTENDS SharedGraphs, FiniteSetTheorems, SequenceTheorems, WellFoundedInduction, TLAPS

\* The part of the types that the argument needs.
Types ==
  /\ heap \in Seq(Seq(Graphs)) /\ heap # <<>>
  /\ own \in Seq(Lists) /\ Len(own) = Len(heap)
  /\ pc \in [Threads -> Steps]
  /\ kind = [t \in Threads |-> kind[t]]
  /\ \A t \in Threads : kind[t].counts \in {"first", "last"}
  /\ mount \in [Threads -> DOMAIN heap]
  /\ from \in [Threads -> [Parts -> Seq(Graphs)]]

Units == Elems(Vocabs)

\* A list holds the pilot's graphs, and both vocabularies or none of them.
Whole(m) == Elems(heap[m]) \in {Elems(own[m]), Elems(own[m]) \cup Units}

\* A thread that wants units reads a list that has them.
Extended(t) ==
  kind[t].units /\ pc[t] \notin {"idle", "extend"} =>
    Elems(heap[mount[t]]) = Elems(own[mount[t]]) \cup Units

\* What a part names so far is the beginning of the list, however it grew.
Begun(t, part) ==
  /\ Len(from[t][part]) <= Len(heap[mount[t]])
  /\ \A i \in 1 .. Len(from[t][part]) : from[t][part][i] = heap[mount[t]][i]

\* Parts that are still to be written name nothing.
Unwritten(t) ==
  /\ pc[t] \in {"idle", "extend"} => \A part \in Parts : from[t][part] = <<>>
  /\ pc[t] \in {"count", "ask count"} /\ kind[t].counts = "first" =>
       from[t]["outer"] = <<>> /\ from[t]["inner"] = <<>>
  /\ pc[t] = "outer" => from[t]["inner"] = <<>>
  /\ pc[t] \in {"outer", "inner", "ask where"} /\ kind[t].counts = "last" =>
       from[t]["count"] = <<>>

\* Parts that are written are right, though the list may have grown since.
Written(t) ==
  /\ pc[t] \in {"inner", "ask where"} => Right(t, "outer")
  /\ pc[t] = "ask where" => Right(t, "inner")
  /\ pc[t] = "ask count" => Right(t, "count")

Reads(t) ==
  /\ Extended(t)
  /\ pc[t] \in Parts => Begun(t, pc[t])
  /\ Unwritten(t)
  /\ Written(t)

IInv == Types /\ (\A m \in DOMAIN heap : Whole(m)) /\ \A t \in Threads : Reads(t)

-----------------------------------------------------------------------------
LEMMA ListTypes ==
  /\ Vocabs \in Seq(Graphs) /\ Lists \subseteq Seq(Graphs)
BY ConstantsAssumption DEF ConstantsAssumption

LEMMA InitIInv == Init => IInv
<1> SUFFICES ASSUME Init PROVE IInv
  OBVIOUS
<1>1. PICK l \in Lists : heap = <<l>> /\ own = <<l>>
  BY DEF Init
<1>2. Types
  <2>1. heap \in Seq(Seq(Graphs)) /\ heap # <<>> /\ own \in Seq(Lists)
        /\ Len(own) = Len(heap) /\ 1 \in DOMAIN heap
    BY <1>1, ListTypes
  <2>2. NoKind.counts \in {"first", "last"} /\ Nothing \in [Parts -> Seq(Graphs)] /\ "idle" \in Steps
    BY DEF NoKind, Nothing, Steps
  <2>. QED
    BY <2>1, <2>2 DEF Init, Types
<1>3. ASSUME NEW m \in DOMAIN heap PROVE Whole(m)
  <2>1. heap[m] = own[m]
    BY <1>1
  <2>. QED
    BY <2>1 DEF Whole
<1>4. ASSUME NEW t \in Threads PROVE Reads(t)
  BY DEF Init, Reads, Extended, Unwritten, Written, Parts, Nothing
<1>. QED
  BY <1>2, <1>3, <1>4 DEF IInv

\* A thread that does not move reads on as before, when no list changes.
LEMMA IdleReads ==
  ASSUME IInv, NEW t \in Threads,
         pc'[t] = pc[t], kind'[t] = kind[t], mount'[t] = mount[t], from'[t] = from[t],
         heap'[mount[t]] = heap[mount[t]], own'[mount[t]] = own[mount[t]]
  PROVE  Reads(t)'
<1>1. Reads(t)
  BY DEF IInv
<1>2. Extended(t)'
  BY <1>1 DEF Reads, Extended
<1>3. pc'[t] \in Parts => Begun(t, pc[t])'
  BY <1>1 DEF Reads, Begun
<1>4. Unwritten(t)'
  BY <1>1 DEF Reads, Unwritten
<1>5. ASSUME NEW part \in Parts, Right(t, part) PROVE Right(t, part)'
  BY <1>5 DEF Right
<1>6. Written(t)'
  BY <1>1, <1>5 DEF Reads, Written, Parts
<1>. QED
  BY <1>2, <1>3, <1>4, <1>6 DEF Reads

\* A part that names nothing is the beginning of any list.
LEMMA NothingBegun ==
  ASSUME IInv, NEW t \in Threads, NEW part, from[t][part] = <<>>
  PROVE  Begun(t, part)
<1>1. heap[mount[t]] \in Seq(Graphs)
  BY DEF IInv, Types
<1>2. Len(heap[mount[t]]) \in Nat
  BY <1>1
<1>3. Len(from[t][part]) = 0
  OBVIOUS
<1>. QED
  BY <1>2, <1>3 DEF Begun

\* What a thread is left with when its request ends.
LEMMA EndReads ==
  ASSUME IInv, NEW t \in Threads, End(t), UNCHANGED <<heap, own>>
  PROVE  IInv'
<1>1. /\ pc' = [pc EXCEPT ![t] = "idle"] /\ kind' = [kind EXCEPT ![t] = NoKind]
      /\ mount' = [mount EXCEPT ![t] = 1] /\ from' = [from EXCEPT ![t] = Nothing]
  BY DEF End, Goto
<1>2. Types'
  <2>1. NoKind.counts \in {"first", "last"} /\ Nothing \in [Parts -> Seq(Graphs)] /\ "idle" \in Steps
    BY DEF NoKind, Nothing, Steps
  <2>2. 1 \in DOMAIN heap
    BY DEF IInv, Types
  <2>. QED
    BY <1>1, <2>1, <2>2 DEF IInv, Types
<1>3. Reads(t)'
  <2>1. pc'[t] = "idle" /\ from'[t] = Nothing
    BY <1>1 DEF IInv, Types
  <2>. QED
    BY <2>1 DEF Reads, Extended, Unwritten, Written, Parts, Nothing
<1>4. ASSUME NEW u \in Threads, u # t PROVE Reads(u)'
  BY <1>1, <1>4, IdleReads DEF IInv, Types
<1>. QED
  BY <1>2, <1>3, <1>4 DEF IInv, Whole

-----------------------------------------------------------------------------
(* Each step                                                               *)

LEMMA AcceptReads ==
  ASSUME IInv, NEW t \in Threads, NEW k, k.counts \in {"first", "last"}, Accept(t, k)
  PROVE  IInv'
<1>1. /\ pc' = [pc EXCEPT ![t] = IF k.units THEN "extend" ELSE FirstPart(k)]
      /\ kind' = [kind EXCEPT ![t] = k] /\ mount' = [mount EXCEPT ![t] = Len(heap)]
      /\ UNCHANGED <<heap, own, from>> /\ pc[t] = "idle"
  BY DEF Accept, Goto
<1>2. FirstPart(k) \in {"count", "outer"} /\ (FirstPart(k) = "count" => k.counts = "first")
  BY DEF FirstPart
<1>3. Len(heap) \in DOMAIN heap
  BY DEF IInv, Types
<1>4. Types'
  BY <1>1, <1>2, <1>3 DEF IInv, Types, Steps
<1>5. /\ pc'[t] = (IF k.units THEN "extend" ELSE FirstPart(k)) /\ kind'[t] = k
      /\ mount'[t] \in DOMAIN heap /\ from'[t] = from[t]
      /\ \A part \in Parts : from[t][part] = <<>>
  BY <1>1, <1>3 DEF IInv, Types, Reads, Unwritten
<1>6. Reads(t)'
  <2>1. Extended(t)'
    BY <1>5 DEF Extended
  <2>2. ASSUME NEW part \in Parts PROVE Begun(t, part)'
    <3>1. from'[t][part] = <<>> /\ Len(<<>>) = 0
      BY <1>5
    <3>2. Len(heap'[mount'[t]]) \in Nat
      BY <1>4 DEF Types
    <3>. QED
      BY <3>1, <3>2 DEF Begun
  <2>3. Unwritten(t)' /\ Written(t)'
    BY <1>2, <1>5 DEF Unwritten, Written, Parts
  <2>. QED
    BY <2>1, <2>2, <2>3 DEF Reads
<1>7. ASSUME NEW u \in Threads, u # t PROVE Reads(u)'
  BY <1>1, <1>7, IdleReads DEF IInv, Types
<1>. QED
  BY <1>1, <1>4, <1>6, <1>7 DEF IInv, Whole

\* The graphs of a list that the vocabularies are appended to.
LEMMA Appended ==
  ASSUME NEW list \in Seq(Graphs)
  PROVE  /\ list \o Vocabs \in Seq(Graphs)
         /\ Elems(list \o Vocabs) = Elems(list) \cup Units
         /\ Len(list) <= Len(list \o Vocabs)
         /\ \A i \in 1 .. Len(list) : (list \o Vocabs)[i] = list[i]
<1>1. /\ list \o Vocabs \in Seq(Graphs) /\ Len(list \o Vocabs) = Len(list) + Len(Vocabs)
      /\ Len(list) \in Nat /\ Len(Vocabs) \in Nat
      /\ DOMAIN (list \o Vocabs) = 1 .. Len(list) + Len(Vocabs)
      /\ DOMAIN list = 1 .. Len(list) /\ DOMAIN Vocabs = 1 .. Len(Vocabs)
  BY ListTypes
<1>2. \A i \in 1 .. Len(list) : (list \o Vocabs)[i] = list[i]
  BY ListTypes
<1>3. \A i \in 1 .. Len(Vocabs) : (list \o Vocabs)[Len(list) + i] = Vocabs[i]
  BY ListTypes
<1>4. ASSUME NEW g \in Elems(list \o Vocabs) PROVE g \in Elems(list) \cup Units
  <2>1. PICK i \in 1 .. Len(list) + Len(Vocabs) : g = (list \o Vocabs)[i]
    BY <1>1 DEF Elems
  <2>2. CASE i <= Len(list)
    BY <1>1, <1>2, <2>1, <2>2 DEF Elems
  <2>3. CASE i > Len(list)
    <3>1. i - Len(list) \in 1 .. Len(Vocabs) /\ i = Len(list) + (i - Len(list))
      BY <1>1, <2>1, <2>3
    <3>2. g = Vocabs[i - Len(list)]
      BY <1>3, <2>1, <3>1
    <3>. QED
      BY <1>1, <3>1, <3>2 DEF Elems, Units
  <2>. QED
    BY <1>1, <2>2, <2>3
<1>5. ASSUME NEW g \in Elems(list) PROVE g \in Elems(list \o Vocabs)
  <2>1. PICK i \in 1 .. Len(list) : g = list[i]
    BY <1>1 DEF Elems
  <2>2. i \in DOMAIN (list \o Vocabs) /\ g = (list \o Vocabs)[i]
    BY <1>1, <1>2, <2>1
  <2>. QED
    BY <2>2 DEF Elems
<1>6. ASSUME NEW g \in Units PROVE g \in Elems(list \o Vocabs)
  <2>1. PICK i \in 1 .. Len(Vocabs) : g = Vocabs[i]
    BY <1>1 DEF Elems, Units
  <2>2. Len(list) + i \in DOMAIN (list \o Vocabs) /\ g = (list \o Vocabs)[Len(list) + i]
    BY <1>1, <1>3, <2>1
  <2>. QED
    BY <2>2 DEF Elems
<1>. QED
  BY <1>1, <1>2, <1>4, <1>5, <1>6

\* The list grows under all that share it: those that are half through go on into
\* the vocabularies, those that are through stay right.
LEMMA ExtendReads == ASSUME IInv, NEW t \in Threads, Extend(t) PROVE IInv'
<1> DEFINE m == mount[t]
<1>1. /\ heap' = [heap EXCEPT ![m] = heap[m] \o Vocabs]
      /\ pc' = [pc EXCEPT ![t] = FirstPart(kind[t])] /\ pc[t] = "extend"
      /\ UNCHANGED <<own, kind, mount, from>>
  BY DEF Extend, Goto
<1>2. m \in DOMAIN heap /\ heap[m] \in Seq(Graphs) /\ kind[t].counts \in {"first", "last"}
  BY DEF IInv, Types
<1>3. /\ heap' \in Seq(Seq(Graphs)) /\ Len(heap') = Len(heap) /\ DOMAIN heap' = DOMAIN heap
      /\ heap'[m] = heap[m] \o Vocabs
      /\ \A n \in DOMAIN heap : n # m => heap'[n] = heap[n]
  BY <1>1, <1>2, Appended DEF IInv, Types
<1>4. FirstPart(kind[t]) \in {"count", "outer"}
      /\ (FirstPart(kind[t]) = "count" => kind[t].counts = "first")
  BY DEF FirstPart
<1>5. Types'
  <2>1. heap' # <<>>
    BY <1>2, <1>3
  <2>. QED
    BY <1>1, <1>3, <1>4, <2>1 DEF IInv, Types, Steps
<1>6. ASSUME NEW n \in DOMAIN heap' PROVE Whole(n)'
  <2>1. n \in DOMAIN heap /\ Whole(n)
    BY <1>3 DEF IInv
  <2>2. CASE n = m
    <3>1. Elems(heap'[m]) = Elems(heap[m]) \cup Units
      BY <1>2, <1>3, Appended
    <3>. QED
      BY <1>1, <2>1, <2>2, <3>1 DEF Whole
  <2>3. CASE n # m
    BY <1>1, <1>3, <2>1, <2>3 DEF Whole
  <2>. QED
    BY <2>2, <2>3
<1>7. Elems(heap'[m]) = Elems(own[m]) \cup Units
  <2>1. Elems(heap[m] \o Vocabs) = Elems(heap[m]) \cup Units
    BY <1>2, Appended
  <2>2. Whole(m)
    BY <1>2 DEF IInv
  <2>. QED
    BY <1>3, <2>1, <2>2 DEF Whole
<1>8. ASSUME NEW u \in Threads PROVE Extended(u)'
  <2>1. CASE mount[u] = m
    BY <1>1, <1>7, <2>1 DEF Extended
  <2>2. CASE mount[u] # m
    <3>1. u # t /\ mount[u] \in DOMAIN heap /\ pc'[u] = pc[u]
      BY <1>1, <2>2 DEF IInv, Types
    <3>. QED
      BY <1>1, <1>3, <2>2, <3>1 DEF IInv, Reads, Extended
  <2>. QED
    BY <2>1, <2>2
<1>9. ASSUME NEW u \in Threads, NEW part \in Parts, Begun(u, part) PROVE Begun(u, part)'
  <2>1. mount[u] \in DOMAIN heap /\ heap[mount[u]] \in Seq(Graphs)
        /\ from[u][part] \in Seq(Graphs)
    BY DEF IInv, Types
  <2>2. CASE mount[u] = m
    <3>1. /\ Len(heap[m]) <= Len(heap'[m])
          /\ \A i \in 1 .. Len(heap[m]) : heap'[m][i] = heap[m][i]
      BY <1>2, <1>3, Appended
    <3>2. Len(heap[m]) \in Nat /\ Len(from[u][part]) \in Nat
      BY <1>2, <2>1
    <3>3. Len(heap'[m]) \in Nat
      BY <1>2, <1>3, Appended
    <3>4. Len(from[u][part]) <= Len(heap[m])
      BY <1>9, <2>2 DEF Begun
    <3>5. \A i \in 1 .. Len(from[u][part]) : i \in 1 .. Len(heap[m])
      BY <3>2, <3>4
    <3>. QED
      BY <1>1, <1>9, <2>2, <3>1, <3>2, <3>3, <3>4, <3>5 DEF Begun
  <2>3. CASE mount[u] # m
    BY <1>1, <1>3, <1>9, <2>1, <2>3 DEF Begun
  <2>. QED
    BY <2>2, <2>3
<1>10. ASSUME NEW u \in Threads, NEW part \in Parts PROVE Right(u, part)' <=> Right(u, part)
  BY <1>1 DEF Right
<1>11. Reads(t)'
  <2>1. pc'[t] = FirstPart(kind[t]) /\ \A part \in Parts : from[t][part] = <<>>
    BY <1>1 DEF IInv, Types, Reads, Unwritten
  <2>2. ASSUME NEW part \in Parts PROVE Begun(t, part)
    BY <2>1, NothingBegun
  <2>3. Unwritten(t)' /\ Written(t)'
    BY <1>1, <1>4, <2>1 DEF Unwritten, Written, Parts
  <2>. QED
    BY <1>8, <1>9, <2>2, <2>3 DEF Reads
<1>12. ASSUME NEW u \in Threads, u # t PROVE Reads(u)'
  <2>1. pc'[u] = pc[u] /\ Reads(u)
    BY <1>1, <1>12 DEF IInv, Types
  <2>2. Unwritten(u)'
    BY <1>1, <2>1 DEF Reads, Unwritten
  <2>3. Written(u)'
    BY <1>10, <2>1 DEF Reads, Written, Parts
  <2>4. pc'[u] \in Parts => Begun(u, pc[u])'
    BY <1>9, <2>1 DEF Reads
  <2>. QED
    BY <1>8, <2>1, <2>2, <2>3, <2>4 DEF Reads
<1>. QED
  BY <1>5, <1>6, <1>11, <1>12 DEF IInv

LEMMA NameReads == ASSUME IInv, NEW t \in Threads, Name(t) PROVE IInv'
<1> DEFINE part == pc[t]
           n    == Len(from[t][part])
           list == heap[mount[t]]
<1>1. /\ part \in Parts /\ n < Len(list)
      /\ from' = [from EXCEPT ![t][part] = Append(from[t][part], list[n + 1])]
      /\ UNCHANGED <<heap, own, pc, kind, mount>>
  BY DEF Name, Shared
<1>2. /\ list \in Seq(Graphs) /\ from[t] \in [Parts -> Seq(Graphs)] /\ from[t][part] \in Seq(Graphs)
      /\ n \in Nat /\ Len(list) \in Nat
  BY <1>1 DEF IInv, Types
<1>3. list[n + 1] \in Graphs
  <2>1. n + 1 \in 1 .. Len(list)
    BY <1>1, <1>2
  <2>. QED
    BY <1>2, <2>1
<1>4. Append(from[t][part], list[n + 1]) \in Seq(Graphs)
  BY <1>2, <1>3
<1>5. /\ from' \in [Threads -> [Parts -> Seq(Graphs)]]
      /\ from'[t][part] = Append(from[t][part], list[n + 1])
      /\ \A p \in Parts : p # part => from'[t][p] = from[t][p]
      /\ \A u \in Threads : u # t => from'[u] = from[u]
  BY <1>1, <1>2, <1>4 DEF IInv, Types
<1>6. Types'
  BY <1>1, <1>5 DEF IInv, Types
<1>7. Begun(t, part)'
  <2>1. Begun(t, part)
    BY <1>1 DEF IInv, Reads
  <2>2. Len(from'[t][part]) = n + 1 /\ from'[t][part][n + 1] = list[n + 1]
        /\ \A i \in 1 .. n : from'[t][part][i] = from[t][part][i]
    BY <1>2, <1>3, <1>5
  <2>. QED
    BY <1>1, <1>2, <2>1, <2>2 DEF Begun
<1>8. ASSUME NEW p \in Parts, p # part, Right(t, p) PROVE Right(t, p)'
  BY <1>1, <1>5, <1>8 DEF Right
<1>9. Reads(t)'
  <2>1. Reads(t)
    BY DEF IInv
  <2>2. Unwritten(t)'
    BY <1>1, <1>5, <2>1 DEF Reads, Unwritten, Parts
  <2>3. Written(t)'
    BY <1>1, <1>8, <2>1 DEF Reads, Written, Parts
  <2>4. Extended(t)'
    BY <1>1, <2>1 DEF Reads, Extended
  <2>. QED
    BY <1>1, <1>7, <2>2, <2>3, <2>4 DEF Reads
<1>10. ASSUME NEW u \in Threads, u # t PROVE Reads(u)'
  BY <1>1, <1>5, <1>10, IdleReads
<1>. QED
  BY <1>1, <1>6, <1>9, <1>10 DEF IInv, Whole

\* A part that was read to the end of the list, as long as it is now, names what a
\* list holds.
LEMMA ReadIsRight ==
  ASSUME IInv, NEW t \in Threads, pc[t] \in Parts,
         Len(from[t][pc[t]]) >= Len(Shared(t))
  PROVE  Right(t, pc[t])
<1> DEFINE names == from[t][pc[t]]
           list  == heap[mount[t]]
<1>1. mount[t] \in DOMAIN heap /\ list \in Seq(Graphs) /\ names \in Seq(Graphs)
  BY DEF IInv, Types
<1>2. Len(names) = Len(list) /\ \A i \in 1 .. Len(names) : names[i] = list[i]
  BY <1>1 DEF IInv, Reads, Begun, Shared
<1>3. Elems(names) = Elems(list)
  BY <1>1, <1>2 DEF Elems
<1>4. Whole(mount[t]) /\ Extended(t)
  BY <1>1 DEF IInv, Reads
<1>5. pc[t] \notin {"idle", "extend"}
  BY DEF Parts
<1>. QED
  BY <1>3, <1>4, <1>5 DEF Right, Whole, Extended, Units

LEMMA NamedReads == ASSUME IInv, NEW t \in Threads, Named(t) PROVE IInv'
<1>1. PICK s \in {"inner", "ask where", "ask count"} :
        /\ pc' = [pc EXCEPT ![t] = s]
        /\ \/ pc[t] = "outer" /\ s = "inner"
           \/ pc[t] = "inner" /\ s = "ask where"
           \/ pc[t] = "count" /\ s = "ask count"
  BY DEF Named, Goto
<1>2. UNCHANGED <<heap, own, kind, mount, from>> /\ pc[t] \in Parts
      /\ Len(from[t][pc[t]]) >= Len(Shared(t))
  BY DEF Named
<1>3. Right(t, pc[t])
  BY <1>2, ReadIsRight
<1>4. /\ pc'[t] = s /\ \A u \in Threads : u # t => pc'[u] = pc[u]
      /\ Types'
  BY <1>1, <1>2 DEF IInv, Types, Steps
<1>5. Reads(t)'
  <2>1. Reads(t)
    BY DEF IInv
  <2>2. ASSUME NEW p \in Parts PROVE Right(t, p)' <=> Right(t, p)
    BY <1>2 DEF Right
  <2>3. Written(t)'
    BY <1>1, <1>3, <1>4, <2>1, <2>2 DEF Reads, Written, Parts
  <2>4. Unwritten(t)'
    BY <1>1, <1>2, <1>4, <2>1 DEF Reads, Unwritten
  <2>5. Extended(t)'
    BY <1>1, <1>2, <1>4, <2>1 DEF Reads, Extended
  <2>6. s = "inner" => Begun(t, "inner")'
    <3>1. ASSUME s = "inner" PROVE from[t]["inner"] = <<>>
      BY <1>1, <2>1, <3>1 DEF Reads, Unwritten
    <3>2. s = "inner" => Begun(t, "inner")
      BY <3>1, NothingBegun
    <3>. QED
      BY <1>2, <3>2 DEF Begun
  <2>. QED
    BY <1>4, <2>3, <2>4, <2>5, <2>6 DEF Reads, Parts
<1>6. ASSUME NEW u \in Threads, u # t PROVE Reads(u)'
  BY <1>2, <1>4, <1>6, IdleReads
<1>. QED
  BY <1>2, <1>4, <1>5, <1>6 DEF IInv, Whole

\* A thread that has its rows goes on with the count, and one that has its count
\* with the rows.
LEMMA NextQueryReads ==
  ASSUME IInv, NEW t \in Threads, NEW s, Goto(t, s),
         \/ pc[t] = "ask where" /\ s = "count" /\ kind[t].counts = "last"
         \/ pc[t] = "ask count" /\ s = "outer" /\ kind[t].counts = "first",
         UNCHANGED <<heap, own, kind, mount, from>>
  PROVE  IInv'
<1>1. /\ pc'[t] = s /\ \A u \in Threads : u # t => pc'[u] = pc[u]
      /\ Types'
  BY DEF Goto, IInv, Types, Steps
<1>2. Reads(t)'
  <2>1. Reads(t)
    BY DEF IInv
  <2>2. Written(t)' /\ Unwritten(t)' /\ Extended(t)'
    BY <1>1, <2>1 DEF Reads, Written, Unwritten, Extended
  <2>3. s \in Parts /\ from[t][s] = <<>>
    BY <2>1 DEF Reads, Unwritten, Parts
  <2>4. Begun(t, s)'
    <3>1. Begun(t, s)
      BY <2>3, NothingBegun
    <3>. QED
      BY <3>1 DEF Begun
  <2>. QED
    BY <1>1, <2>2, <2>4 DEF Reads
<1>3. ASSUME NEW u \in Threads, u # t PROVE Reads(u)'
  BY <1>1, <1>3, IdleReads
<1>. QED
  BY <1>1, <1>2, <1>3 DEF IInv, Whole

LEMMA QueryReads ==
  ASSUME IInv, NEW t \in Threads, AskWhere(t) \/ AskCount(t) \/ CallFails(t)
  PROVE  IInv'
<1>1. UNCHANGED <<heap, own>>
  BY DEF AskWhere, AskCount, CallFails
<1>2. kind[t].counts \in {"first", "last"}
  BY DEF IInv, Types
<1>3. CASE End(t)
  BY <1>1, <1>3, EndReads
<1>4. CASE pc[t] = "ask where" /\ Goto(t, "count") /\ kind[t].counts # "first"
           /\ UNCHANGED <<kind, mount, from>>
  BY <1>1, <1>2, <1>4, NextQueryReads
<1>5. CASE pc[t] = "ask count" /\ Goto(t, "outer") /\ kind[t].counts # "last"
           /\ UNCHANGED <<kind, mount, from>>
  BY <1>1, <1>2, <1>5, NextQueryReads
<1>6. CASE AskWhere(t)
  <2>1. CASE kind[t].skip = None
    BY <1>3, <1>6, <2>1 DEF AskWhere, Answer
  <2>2. CASE kind[t].skip # None /\ Page(t, kind[t].skip) = <<>>
    BY <1>3, <1>6, <2>2 DEF AskWhere, Fail
  <2>3. CASE kind[t].skip # None /\ Page(t, kind[t].skip) # <<>>
    <3>1. CASE kind[t].counts = "first"
      BY <1>3, <1>6, <2>3, <3>1 DEF AskWhere, Answer
    <3>2. CASE kind[t].counts # "first"
      BY <1>4, <1>6, <2>3, <3>2 DEF AskWhere
    <3>. QED
      BY <3>1, <3>2
  <2>. QED
    BY <2>1, <2>2, <2>3
<1>7. CASE AskCount(t)
  <2>1. CASE kind[t].counts = "last"
    BY <1>3, <1>7, <2>1 DEF AskCount, Answer
  <2>2. CASE kind[t].counts # "last" /\ CountOf(t) = 0
    BY <1>3, <1>7, <2>2 DEF AskCount, Fail
  <2>3. CASE kind[t].counts # "last" /\ CountOf(t) # 0
    BY <1>5, <1>7, <2>3 DEF AskCount
  <2>. QED
    BY <2>1, <2>2, <2>3
<1>8. CASE CallFails(t)
  BY <1>3, <1>8 DEF CallFails, Fail
<1>. QED
  BY <1>6, <1>7, <1>8

\* A new mount takes nothing from those that requests are still at.
LEMMA RebuildReads == ASSUME IInv, Rebuild PROVE IInv'
<1>1. PICK l \in Lists : heap' = Append(heap, l) /\ own' = Append(own, l)
  BY DEF Rebuild
<1>2. UNCHANGED <<pc, kind, mount, from>>
  BY DEF Rebuild, thread
<1>3. l \in Seq(Graphs)
  BY ListTypes
<1>4. /\ heap' \in Seq(Seq(Graphs)) /\ own' \in Seq(Lists)
      /\ Len(heap') = Len(heap) + 1 /\ Len(own') = Len(heap')
      /\ heap'[Len(heap')] = l /\ own'[Len(heap')] = l
      /\ \A m \in DOMAIN heap : m \in DOMAIN heap' /\ heap'[m] = heap[m] /\ own'[m] = own[m]
      /\ \A m \in DOMAIN heap' : m \in DOMAIN heap \/ m = Len(heap')
  BY <1>1, <1>3 DEF IInv, Types
<1>5. Types'
  <2>1. heap' # <<>>
    BY <1>4 DEF IInv, Types
  <2>2. mount' \in [Threads -> DOMAIN heap']
    BY <1>2, <1>4 DEF IInv, Types
  <2>. QED
    BY <1>2, <1>4, <2>1, <2>2 DEF IInv, Types
<1>6. ASSUME NEW m \in DOMAIN heap' PROVE Whole(m)'
  BY <1>4 DEF IInv, Whole
<1>7. ASSUME NEW t \in Threads PROVE Reads(t)'
  <2>1. mount[t] \in DOMAIN heap
    BY DEF IInv, Types
  <2>. QED
    BY <1>2, <1>4, <2>1, IdleReads
<1>. QED
  BY <1>5, <1>6, <1>7 DEF IInv

LEMMA StepKeepsIInv == IInv /\ [Next]_vars => IInv'
<1> SUFFICES ASSUME IInv, [Next]_vars PROVE IInv'
  OBVIOUS
<1>1. ASSUME NEW t \in Threads, Other(t) PROVE IInv'
  <2>1. PICK u \in BOOLEAN : Accept(t, [units |-> u, skip |-> None, counts |-> "last"])
    BY <1>1 DEF Other
  <2>. QED
    BY <2>1, AcceptReads
<1>2. ASSUME NEW t \in Threads, Follow(t) PROVE IInv'
  <2>1. PICK c \in {"first", "last"} :
          Accept(t, [units |-> client.units, skip |-> client.skip, counts |-> c])
    BY <1>2 DEF Follow
  <2>. QED
    BY <2>1, AcceptReads
<1>3. CASE UNCHANGED vars
  <2>1. UNCHANGED <<heap, own, pc, kind, mount, from>>
    BY <1>3 DEF vars, thread
  <2>2. ASSUME NEW t \in Threads PROVE Reads(t)'
    BY <2>1, IdleReads
  <2>. QED
    BY <2>1, <2>2 DEF IInv, Types, Whole
<1>. QED
  BY <1>1, <1>2, <1>3, ExtendReads, NameReads, NamedReads, QueryReads, RebuildReads
     DEF Next, Handle

\* NamesOwnGraphs (query_handlers.py:99, base_query_handler.py:302-307): whoever
\* extends the list that all requests of a mount share, and however often, while
\* others go through it, each query names the pilot's graphs, and both vocabularies
\* or none; both, where units are read.
THEOREM QueriesNameOwnGraphs == Spec => []NamesOwnGraphs
<1>1. IInv => NamesOwnGraphs
  BY DEF IInv, Reads, Written, NamesOwnGraphs
<1>. QED
  BY InitIInv, StepKeepsIInv, <1>1, PTL DEF Spec

-----------------------------------------------------------------------------
(* What is held of a sequence                                              *)

\* Induction, for sets of numbers.
LEMMA AllNumbers ==
  ASSUME NEW S \in SUBSET Nat, 0 \in S, \A n \in S : n + 1 \in S
  PROVE  S = Nat
<1>. DEFINE Less == OpToRel(<, Nat)
<1>1. IsWellFoundedOn(Less, Nat)
  BY NatLessThanWellFounded
<1>2. ASSUME NEW m \in Nat, NEW n \in Nat, m < n
      PROVE  <<m, n>> \in Less
  <2>1. <<m, n>> \in Nat \X Nat /\ <<m, n>>[1] = m /\ <<m, n>>[2] = n
    OBVIOUS
  <2>. QED
    BY <1>2, <2>1 DEF OpToRel
<1>. HIDE DEF Less
<1>. SUFFICES ASSUME Nat \ S # {} PROVE FALSE
  OBVIOUS
<1>3. PICK n \in Nat \ S : \A m \in Nat \ S : ~(<<m, n>> \in Less)
  BY <1>1, WFMin
<1>4. n - 1 \in Nat /\ n - 1 < n
  BY <1>3
<1>5. n - 1 \in S
  BY <1>2, <1>3, <1>4
<1>6. (n - 1) + 1 \in S
  BY <1>5
<1>. QED
  BY <1>3, <1>6

\* The equation of Among.
Gathers(items, held, f, D) ==
  f = [k \in D |-> IF k = 0 THEN <<>>
                   ELSE IF items[k] \in held THEN Append(f[k - 1], items[k])
                   ELSE f[k - 1]]

\* It has a solution.
LEMMA GathersExists ==
  ASSUME NEW items, NEW held, NEW len \in Nat
  PROVE  \E f : Gathers(items, held, f, 0 .. len)
<1>. DEFINE S == {n \in Nat : \E f : Gathers(items, held, f, 0 .. n)}
<1>1. 0 \in S
  <2>. DEFINE f == [k \in 0 .. 0 |-> <<>>]
  <2>1. Gathers(items, held, f, 0 .. 0)
    BY DEF Gathers
  <2>. QED
    BY <2>1
<1>2. ASSUME NEW n \in S
      PROVE  n + 1 \in S
  <2>1. PICK g : Gathers(items, held, g, 0 .. n)
    OBVIOUS
  <2>2. n \in Nat
    OBVIOUS
  <2>. DEFINE body(f, k) == IF k = 0 THEN <<>>
                            ELSE IF items[k] \in held THEN Append(f[k - 1], items[k])
                            ELSE f[k - 1]
              h == [k \in 0 .. n + 1 |-> IF k <= n THEN g[k] ELSE body(g, k)]
  <2>3. \A k \in 0 .. n : g[k] = body(g, k)
    BY <2>1 DEF Gathers
  <2>4. \A k \in 0 .. n + 1 : body(h, k) = body(g, k)
    BY <2>2
  <2>5. \A k \in 0 .. n + 1 : h[k] = body(h, k)
    <3>. HIDE DEF body
    <3>. QED
      BY <2>2, <2>3, <2>4
  <2>6. h = [k \in 0 .. n + 1 |-> h[k]]
    OBVIOUS
  <2>7. h = [k \in 0 .. n + 1 |-> body(h, k)]
    <3>. HIDE DEF h, body
    <3>. QED
      BY <2>5, <2>6
  <2>8. Gathers(items, held, h, 0 .. n + 1)
    <3>. HIDE DEF h
    <3>. QED
      BY <2>7 DEF Gathers
  <2>. QED
    BY <2>2, <2>8
<1>3. S = Nat
  <2>1. S \in SUBSET Nat
    OBVIOUS
  <2>. HIDE DEF S
  <2>. QED
    BY <1>1, <1>2, <2>1, AllNumbers
<1>. QED
  BY <1>3

\* Element by element, a held one is appended.
Steppingly(items, held, f) ==
  /\ f[0] = <<>>
  /\ \A k \in 1 .. Len(items) :
       f[k] = IF items[k] \in held THEN Append(f[k - 1], items[k]) ELSE f[k - 1]

LEMMA AmongSteps ==
  ASSUME NEW items, Len(items) \in Nat, NEW held
  PROVE  \E f : Steppingly(items, held, f) /\ Among(items, held) = f[Len(items)]
<1>1. \E f : Gathers(items, held, f, 0 .. Len(items))
  BY GathersExists
<1>. DEFINE upTo == CHOOSE f : Gathers(items, held, f, 0 .. Len(items))
<1>2. Gathers(items, held, upTo, 0 .. Len(items))
  BY <1>1
<1>3. Among(items, held) = upTo[Len(items)]
  BY DEF Among, Gathers
<1>. HIDE DEF upTo
<1>4. /\ 0 \in 0 .. Len(items)
      /\ \A k \in 1 .. Len(items) : k \in 0 .. Len(items) /\ k # 0
  OBVIOUS
<1>5. Steppingly(items, held, upTo)
  BY <1>2, <1>4 DEF Steppingly, Gathers
<1>. QED
  BY <1>3, <1>5

\* Where all is held, nothing is left out.
LEMMA AmongAll ==
  ASSUME NEW T, NEW items \in Seq(T), NEW held, \A k \in 1 .. Len(items) : items[k] \in held
  PROVE  Among(items, held) = items
<1>0. Len(items) \in Nat /\ \A k \in 1 .. Len(items) : items[k] \in T
  OBVIOUS
<1>1. PICK f : Steppingly(items, held, f) /\ Among(items, held) = f[Len(items)]
  BY <1>0, AmongSteps
<1>. DEFINE S == {n \in Nat : n <= Len(items) =>
                    /\ f[n] \in Seq(T) /\ Len(f[n]) = n
                    /\ \A i \in 1 .. n : f[n][i] = items[i]}
<1>2. 0 \in S
  <2>1. f[0] = <<>>
    BY <1>1 DEF Steppingly
  <2>2. f[0] \in Seq(T) /\ Len(f[0]) = 0
    BY <2>1
  <2>. QED
    BY <2>2
<1>3. ASSUME NEW n \in S
      PROVE  n + 1 \in S
  <2>. SUFFICES ASSUME n + 1 <= Len(items)
                PROVE  /\ f[n + 1] \in Seq(T) /\ Len(f[n + 1]) = n + 1
                       /\ \A i \in 1 .. n + 1 : f[n + 1][i] = items[i]
    OBVIOUS
  <2>1. n \in Nat /\ n <= Len(items) /\ n + 1 \in 1 .. Len(items) /\ (n + 1) - 1 = n
    BY <1>0
  <2>2. f[n] \in Seq(T) /\ Len(f[n]) = n /\ \A i \in 1 .. n : f[n][i] = items[i]
    BY <2>1
  <2>3. f[n + 1] = Append(f[n], items[n + 1])
    BY <1>1, <2>1 DEF Steppingly
  <2>4. items[n + 1] \in T
    BY <1>0, <2>1
  <2>. HIDE DEF S
  <2>. QED
    BY <2>1, <2>2, <2>3, <2>4
<1>4. S = Nat
  <2>1. S \in SUBSET Nat
    OBVIOUS
  <2>. HIDE DEF S
  <2>. QED
    BY <1>2, <1>3, <2>1, AllNumbers
<1>5. /\ f[Len(items)] \in Seq(T) /\ Len(f[Len(items)]) = Len(items)
      /\ \A i \in 1 .. Len(items) : f[Len(items)][i] = items[i]
  BY <1>0, <1>4
<1>. HIDE DEF S
<1>. QED
  BY <1>1, <1>5, SeqEqual

\* Of a sequence without repetitions, as many as are held.
LEMMA AmongCounts ==
  ASSUME NEW T, NEW items \in Seq(T), NEW held \in SUBSET Elems(items),
         \A i, j \in DOMAIN items : items[i] = items[j] => i = j
  PROVE  /\ Among(items, held) \in Seq(held)
         /\ IsFiniteSet(held) /\ Len(Among(items, held)) = Cardinality(held)
<1>0. Len(items) \in Nat /\ DOMAIN items = 1 .. Len(items)
  OBVIOUS
<1>1. PICK f : Steppingly(items, held, f) /\ Among(items, held) = f[Len(items)]
  BY <1>0, AmongSteps
<1>. DEFINE first(n) == {items[i] : i \in 1 .. n} \cap held
            S == {n \in Nat : n <= Len(items) =>
                    f[n] \in Seq(held) /\ IsFiniteSet(first(n)) /\ Len(f[n]) = Cardinality(first(n))}
<1>2. 0 \in S
  <2>1. first(0) = {}
    OBVIOUS
  <2>2. f[0] = <<>>
    BY <1>1 DEF Steppingly
  <2>. HIDE DEF first
  <2>3. f[0] \in Seq(held) /\ Len(f[0]) = 0
    BY <2>2
  <2>4. IsFiniteSet(first(0)) /\ Cardinality(first(0)) = 0
    BY <2>1, FS_EmptySet
  <2>. QED
    BY <2>3, <2>4
<1>3. ASSUME NEW n \in S
      PROVE  n + 1 \in S
  <2>. SUFFICES ASSUME n + 1 <= Len(items)
                PROVE  /\ f[n + 1] \in Seq(held) /\ IsFiniteSet(first(n + 1))
                       /\ Len(f[n + 1]) = Cardinality(first(n + 1))
    OBVIOUS
  <2>1. n \in Nat /\ n <= Len(items) /\ n + 1 \in 1 .. Len(items) /\ (n + 1) - 1 = n
    BY <1>0
  <2>2. f[n] \in Seq(held) /\ IsFiniteSet(first(n)) /\ Len(f[n]) = Cardinality(first(n))
    BY <2>1
  <2>3. f[n + 1] = IF items[n + 1] \in held THEN Append(f[n], items[n + 1]) ELSE f[n]
    BY <1>1, <2>1 DEF Steppingly
  <2>4. 1 .. n + 1 = (1 .. n) \cup {n + 1}
    BY <2>1
  <2>5. CASE items[n + 1] \in held
    <3>1. first(n + 1) = first(n) \cup {items[n + 1]}
      BY <2>4, <2>5
    <3>2. items[n + 1] \notin first(n)
      <4>1. \A i \in 1 .. n : i \in DOMAIN items /\ i # n + 1
        BY <1>0, <2>1
      <4>. QED
        BY <1>0, <2>1, <4>1
    <3>3. Len(f[n]) \in Nat
      BY <2>2
    <3>. HIDE DEF first, S
    <3>4. IsFiniteSet(first(n + 1)) /\ Cardinality(first(n + 1)) = Cardinality(first(n)) + 1
      BY <2>2, <3>1, <3>2, FS_AddElement
    <3>5. f[n + 1] \in Seq(held) /\ Len(f[n + 1]) = Len(f[n]) + 1
      BY <2>2, <2>3, <2>5
    <3>. QED
      BY <2>2, <3>4, <3>5
  <2>6. CASE items[n + 1] \notin held
    <3>1. first(n + 1) = first(n)
      BY <2>4, <2>6
    <3>. HIDE DEF first, S
    <3>. QED
      BY <2>2, <2>3, <2>6, <3>1
  <2>. QED
    BY <2>5, <2>6
<1>4. S = Nat
  <2>1. S \in SUBSET Nat
    OBVIOUS
  <2>. HIDE DEF S
  <2>. QED
    BY <1>2, <1>3, <2>1, AllNumbers
<1>5. first(Len(items)) = held
  <2>1. Elems(items) = {items[i] : i \in 1 .. Len(items)}
    BY <1>0 DEF Elems
  <2>. QED
    BY <2>1
<1>6. f[Len(items)] \in Seq(held) /\ IsFiniteSet(first(Len(items)))
      /\ Len(f[Len(items)]) = Cardinality(first(Len(items)))
  <2>1. Len(items) \in S
    BY <1>0, <1>4
  <2>. HIDE DEF first
  <2>. QED
    BY <1>0, <2>1
<1>. HIDE DEF S, first
<1>. QED
  BY <1>1, <1>5, <1>6

-----------------------------------------------------------------------------
(* Pages and counts                                                        *)

\* The items of a pilot with this list of graphs, and a page of them.
All(list) == ItemsOf(Elems(list))

Cut(list, skip) == SubSeq(All(list), skip + 1, Lesser(skip + Top, Len(All(list))))

LEMMA ItemsAssumed ==
  /\ Items \in Seq(Elems(Items))
  /\ \A i, j \in DOMAIN Items : Items[i] = Items[j] => i = j
  /\ Holds \in [Graphs -> SUBSET Elems(Items)]
  /\ \A g \in Units : Holds[g] = {}
  /\ Top \in Nat \ {0} /\ Skips \subseteq Nat /\ None \notin Nat /\ None \notin Lists
BY ConstantsAssumption DEF ConstantsAssumption, Units

\* The vocabularies add nothing to the items, and the count is the list's length.
LEMMA OwnItems ==
  ASSUME NEW list \in Lists, NEW graphs, graphs = Elems(list) \/ graphs = Elems(list) \cup Units
  PROVE  /\ HeldBy(graphs) = HeldBy(Elems(list)) /\ ItemsOf(graphs) = All(list)
         /\ All(list) \in Seq(HeldBy(graphs)) /\ All(list) \in Seq(Elems(Items))
         /\ Len(All(list)) \in Nat /\ Len(All(list)) = Cardinality(HeldBy(graphs))
<1>1. HeldBy(graphs) = HeldBy(Elems(list))
  BY ItemsAssumed DEF HeldBy
<1>2. ItemsOf(graphs) = All(list)
  BY <1>1 DEF ItemsOf, All
<1>3. Elems(list) \subseteq Graphs
  BY DEF Graphs
<1>4. HeldBy(Elems(list)) \in SUBSET Elems(Items)
  BY <1>3, ItemsAssumed DEF HeldBy
<1>5. /\ All(list) \in Seq(HeldBy(Elems(list)))
      /\ Len(All(list)) = Cardinality(HeldBy(Elems(list)))
  BY <1>4, ItemsAssumed, AmongCounts DEF All, ItemsOf
<1>6. All(list) \in Seq(Elems(Items)) /\ Len(All(list)) \in Nat
  BY <1>4, <1>5, SeqMonotonic
<1>. QED
  BY <1>1, <1>2, <1>5, <1>6

\* A page that is not empty ends within the list.
LEMMA CutSize ==
  ASSUME NEW list \in Lists, NEW skip \in Nat
  PROVE  /\ Cut(list, skip) \in Seq(Elems(Items))
         /\ \A k \in 1 .. Len(Cut(list, skip)) : Cut(list, skip)[k] \in HeldBy(Elems(list))
         /\ Cut(list, skip) # <<>> =>
              skip < Len(All(list)) /\ skip + Len(Cut(list, skip)) <= Len(All(list))
<1>. DEFINE all  == All(list)
            held == HeldBy(Elems(list))
            last == Lesser(skip + Top, Len(all))
<1>1. all \in Seq(held) /\ all \in Seq(Elems(Items)) /\ Len(all) \in Nat
  BY OwnItems
<1>2. last \in Nat /\ last <= Len(all) /\ (last >= skip + 1 => skip < Len(all))
  BY <1>1, ItemsAssumed DEF Lesser
<1>3. \A k \in skip + 1 .. last : k \in 1 .. Len(all)
  BY <1>1, <1>2
<1>4. \A k \in skip + 1 .. last : all[k] \in held /\ all[k] \in Elems(Items)
  BY <1>1, <1>3, ElementOfSeq
<1>. HIDE DEF all, held, last
<1>5. SubSeq(all, skip + 1, last) \in Seq(held) /\ SubSeq(all, skip + 1, last) \in Seq(Elems(Items))
      /\ Len(SubSeq(all, skip + 1, last)) =
           IF skip + 1 <= last THEN last - (skip + 1) + 1 ELSE 0
  <2>1. skip + 1 \in Int /\ last \in Int
    BY <1>2
  <2>. QED
    BY <1>4, <2>1, SubSeqProperties
<1>6. Cut(list, skip) = SubSeq(all, skip + 1, last)
  BY DEF Cut, all, last
<1>. DEFINE cut == SubSeq(all, skip + 1, last)
<1>7. \A k \in 1 .. Len(cut) : cut[k] \in held
  BY <1>5, ElementOfSeq
<1>8. cut # <<>> => Len(cut) # 0
  BY <1>5, EmptySeq
<1>9. cut # <<>> => skip < Len(all) /\ skip + Len(cut) <= Len(all)
  <2>1. cut # <<>> => skip + 1 <= last /\ Len(cut) = last - (skip + 1) + 1
    BY <1>5, <1>8
  <2>. HIDE DEF cut
  <2>. QED
    BY <1>1, <1>2, <2>1 DEF all
<1>. QED
  BY <1>5, <1>6, <1>7, <1>9 DEF all, held

\* The list a request was routed to is one that the pilot's row may have.
LEMMA OwnList == ASSUME IInv, NEW t \in Threads PROVE own[mount[t]] \in Lists
<1>1. mount[t] \in DOMAIN heap /\ heap \in Seq(Seq(Graphs)) /\ own \in Seq(Lists) /\ Len(own) = Len(heap)
  BY DEF IInv, Types
<1>2. mount[t] \in 1 .. Len(own)
  BY <1>1
<1>. QED
  BY <1>1, <1>2, ElementOfSeq

\* A query that names what it should has the page, or the count, of the own graphs.
LEMMA OwnPage ==
  ASSUME IInv, NEW t \in Threads, pc[t] = "ask where", NEW skip \in Nat
  PROVE  Page(t, skip) = Cut(own[mount[t]], skip)
<1>. DEFINE list == own[mount[t]]
<1>1. list \in Lists
  BY OwnList
<1>2. Right(t, "outer") /\ Right(t, "inner")
  BY DEF IInv, Reads, Written
<1>3. /\ \/ Elems(from[t]["inner"]) = Elems(list)
         \/ Elems(from[t]["inner"]) = Elems(list) \cup Units
      /\ \/ Elems(from[t]["outer"]) = Elems(list)
         \/ Elems(from[t]["outer"]) = Elems(list) \cup Units
  BY <1>2 DEF Right, Units
<1>. HIDE DEF list
<1>4. ItemsOf(Elems(from[t]["inner"])) = All(list)
  BY <1>1, <1>3, OwnItems
<1>5. HeldBy(Elems(from[t]["outer"])) = HeldBy(Elems(list))
  BY <1>1, <1>3, OwnItems
<1>6. Page(t, skip) = Among(Cut(list, skip), HeldBy(Elems(list)))
  BY <1>4, <1>5 DEF Page, Cut
<1>7. Among(Cut(list, skip), HeldBy(Elems(list))) = Cut(list, skip)
  BY <1>1, CutSize, AmongAll
<1>. QED
  BY <1>6, <1>7 DEF list

LEMMA OwnCount ==
  ASSUME IInv, NEW t \in Threads, pc[t] = "ask count"
  PROVE  CountOf(t) = Len(All(own[mount[t]]))
<1>. DEFINE list == own[mount[t]]
<1>1. list \in Lists
  BY OwnList
<1>2. Right(t, "count")
  BY DEF IInv, Reads, Written
<1>3. \/ Elems(from[t]["count"]) = Elems(list)
      \/ Elems(from[t]["count"]) = Elems(list) \cup Units
  BY <1>2 DEF Right, Units
<1>. HIDE DEF list
<1>4. Len(All(list)) = Cardinality(HeldBy(Elems(from[t]["count"])))
  BY <1>1, <1>3, OwnItems
<1>. QED
  BY <1>4 DEF CountOf, list

\* The next page goes on where the pages so far end.
LEMMA PagesJoin ==
  ASSUME NEW list \in Lists, NEW first \in Nat, NEW skip \in Nat, first <= skip,
         Cut(list, skip) # <<>>
  PROVE  SubSeq(All(list), first + 1, Lesser(skip, Len(All(list)))) \o Cut(list, skip)
           = SubSeq(All(list), first + 1, Lesser(skip + Top, Len(All(list))))
<1>. DEFINE all  == All(list)
            last == Lesser(skip + Top, Len(all))
<1>1. all \in Seq(Elems(Items)) /\ Len(all) \in Nat
  BY OwnItems
<1>2. skip < Len(all)
  BY CutSize
<1>3. Lesser(skip, Len(all)) = skip
  BY <1>1, <1>2 DEF Lesser
<1>4. last \in skip .. Len(all)
  BY <1>1, <1>2, ItemsAssumed DEF Lesser
<1>5. first + 1 \in 1 .. Len(all) + 1 /\ skip \in (first + 1) - 1 .. Len(all)
  BY <1>1, <1>2
<1>. HIDE DEF all, last
<1>6. SubSeq(all, first + 1, skip) \o SubSeq(all, skip + 1, last) = SubSeq(all, first + 1, last)
  BY <1>1, <1>4, <1>5, ConcatAdjacentSubSeq
<1>. QED
  BY <1>3, <1>6 DEF Cut, all, last

-----------------------------------------------------------------------------
(* What the client's request holds                                         *)

\* A request for a page is the client's: for the page it waits for, of the graphs
\* it was routed to; what came first of page and count is of those graphs.
Served(t) ==
  /\ kind[t].skip \in Nat \cup {None}
  /\ pc[t] = "idle" => kind[t].skip = None
  /\ kind[t].skip # None =>
       /\ client.at = "waits" /\ client.skip = kind[t].skip /\ client.graphs = own[mount[t]]
       /\ kind[t].counts = "first" /\ pc[t] \in {"outer", "inner", "ask where"} =>
            total[t] = Len(All(own[mount[t]]))
       /\ kind[t].counts = "last" /\ pc[t] \in {"count", "ask count"} =>
            rows[t] = Cut(own[mount[t]], kind[t].skip) /\ rows[t] # <<>>

\* No two requests are the client's.
One == \A t, u \in Threads : kind[t].skip # None /\ kind[u].skip # None => t = u

\* What the client has seen, of graphs that stayed the same, is the list's items
\* up to the next $skip.
Seen ==
  client.graphs # None /\ client.steady =>
    LET all == All(client.graphs)
    IN  /\ client.seen = SubSeq(all, client.first + 1, Lesser(client.skip, Len(all)))
        /\ client.at = "done" => client.skip >= Len(all)

Traverse ==
  /\ client \in Client /\ client.first <= client.skip
  /\ client.graphs = None => client.skip = client.first /\ client.seen = <<>>
  /\ Seen

Results == rows = [t \in Threads |-> rows[t]] /\ total = [t \in Threads |-> total[t]]

PInv == IInv /\ Results /\ (\A t \in Threads : Served(t)) /\ One /\ Traverse

LEMMA InitPInv == Init => PInv
<1>. SUFFICES ASSUME Init PROVE PInv
  OBVIOUS
<1>1. IInv
  BY InitIInv
<1>2. Results /\ One /\ \A t \in Threads : Served(t)
  BY DEF Init, Results, One, Served, NoKind
<1>3. PICK u \in BOOLEAN, k \in Skips :
        client = [at |-> "start", units |-> u, first |-> k, skip |-> k, seen |-> <<>>,
                  graphs |-> None, steady |-> TRUE]
  BY DEF Init
<1>4. k \in Nat
  BY ItemsAssumed
<1>5. <<>> \in Seq(Elems(Items))
  OBVIOUS
<1>6. Traverse
  BY <1>3, <1>4, <1>5 DEF Traverse, Seen, Client
<1>. QED
  BY <1>1, <1>2, <1>6 DEF PInv

\* A request that is not the client's, or that goes on with what it has.
LEMMA StillServed ==
  ASSUME NEW t \in Threads, Served(t),
         kind'[t] = kind[t], mount'[t] = mount[t], rows'[t] = rows[t], total'[t] = total[t],
         own'[mount[t]] = own[mount[t]], client' = client \/ kind[t].skip = None,
         \/ pc'[t] = pc[t]
         \/ pc'[t] \notin {"idle", "outer", "inner", "count", "ask where", "ask count"}
         \/ kind[t].skip = None
         \/ pc'[t] \in {"inner", "ask where"} /\ pc[t] \in {"outer", "inner"}
         \/ pc'[t] = "ask count" /\ pc[t] = "count"
         \/ pc'[t] = "count" /\ kind[t].counts = "first"
         \/ pc'[t] = "outer" /\ kind[t].counts = "last"
  PROVE  Served(t)'
BY DEF Served

\* The list of a mount is another's business only where it is made.
LEMMA ExtendServes == ASSUME PInv, NEW t \in Threads, Extend(t), IInv' PROVE PInv'
<1>1. /\ pc' = [pc EXCEPT ![t] = FirstPart(kind[t])] /\ pc[t] = "extend"
      /\ UNCHANGED <<own, kind, mount, rows, total, client>>
  BY DEF Extend, Goto
<1>2. pc'[t] = FirstPart(kind[t]) /\ \A u \in Threads : u # t => pc'[u] = pc[u]
  BY <1>1 DEF PInv, IInv, Types
<1>3. kind[t].counts \in {"first", "last"}
  BY DEF PInv, IInv, Types
<1>4. Served(t)'
  <2>1. Served(t)
    BY DEF PInv
  <2>2. CASE kind[t].skip = None
    BY <1>1, <2>1, <2>2, StillServed
  <2>3. CASE kind[t].skip # None /\ kind[t].counts = "first"
    BY <1>1, <1>2, <2>1, <2>3, StillServed DEF FirstPart
  <2>4. CASE kind[t].skip # None /\ kind[t].counts = "last"
    BY <1>1, <1>2, <2>1, <2>4, StillServed DEF FirstPart
  <2>. QED
    BY <1>3, <2>2, <2>3, <2>4
<1>5. ASSUME NEW u \in Threads, u # t PROVE Served(u)'
  BY <1>1, <1>2, <1>5, StillServed DEF PInv
<1>6. Results' /\ One' /\ Traverse'
  BY <1>1 DEF PInv, Results, One, Traverse, Seen
<1>. QED
  BY <1>4, <1>5, <1>6 DEF PInv

LEMMA ReadServes == ASSUME PInv, NEW t \in Threads, Name(t) \/ Named(t), IInv' PROVE PInv'
<1>1. UNCHANGED <<own, kind, mount, rows, total, client>>
  BY DEF Name, Named
<1>2. /\ \A u \in Threads : u # t => pc'[u] = pc[u]
      /\ \/ pc'[t] = pc[t]
         \/ pc'[t] \in {"inner", "ask where"} /\ pc[t] \in {"outer", "inner"}
         \/ pc'[t] = "ask count" /\ pc[t] = "count"
  BY DEF PInv, IInv, Types, Name, Named, Goto
<1>3. ASSUME NEW u \in Threads PROVE Served(u)'
  BY <1>1, <1>2, StillServed DEF PInv
<1>4. Results' /\ One' /\ Traverse'
  BY <1>1 DEF PInv, Results, One, Traverse, Seen
<1>. QED
  BY <1>3, <1>4 DEF PInv

LEMMA RebuildServes == ASSUME PInv, Rebuild, IInv' PROVE PInv'
<1>1. PICK l \in Lists : own' = Append(own, l)
  BY DEF Rebuild
<1>2. UNCHANGED <<pc, kind, mount, rows, total, client>>
  BY DEF Rebuild, thread
<1>3. own \in Seq(Lists) /\ Len(own) = Len(heap) /\ heap \in Seq(Seq(Graphs))
  BY DEF PInv, IInv, Types
<1>4. ASSUME NEW t \in Threads PROVE own'[mount[t]] = own[mount[t]]
  <2>1. mount[t] \in DOMAIN heap
    BY DEF PInv, IInv, Types
  <2>. QED
    BY <1>1, <1>3, <2>1
<1>5. ASSUME NEW u \in Threads PROVE Served(u)'
  BY <1>2, <1>4, StillServed DEF PInv
<1>6. Results' /\ One' /\ Traverse'
  BY <1>2 DEF PInv, Results, One, Traverse, Seen
<1>. QED
  BY <1>5, <1>6 DEF PInv

\* Others ask for no page.
LEMMA OtherServes == ASSUME PInv, NEW t \in Threads, Other(t), IInv' PROVE PInv'
<1>1. PICK u \in BOOLEAN : Accept(t, [units |-> u, skip |-> None, counts |-> "last"])
  BY DEF Other
<1>. DEFINE k == [units |-> u, skip |-> None, counts |-> "last"]
<1>2. /\ kind' = [kind EXCEPT ![t] = k] /\ pc[t] = "idle"
      /\ UNCHANGED <<own, rows, total, client>>
      /\ \A s \in Threads : s # t => pc'[s] = pc[s] /\ mount'[s] = mount[s]
  BY <1>1 DEF Accept, Goto, Other, PInv, IInv, Types
<1>3. kind'[t].skip = None /\ \A s \in Threads : s # t => kind'[s] = kind[s]
  BY <1>2 DEF PInv, IInv, Types
<1>4. Served(t)'
  BY <1>3 DEF Served
<1>5. ASSUME NEW s \in Threads, s # t PROVE Served(s)'
  BY <1>2, <1>3, <1>5, StillServed DEF PInv
<1>6. One'
  BY <1>3 DEF PInv, One
<1>7. Results' /\ Traverse'
  BY <1>2 DEF PInv, Results, Traverse, Seen
<1>. QED
  BY <1>4, <1>5, <1>6, <1>7 DEF PInv

\* The client asks on, of the graphs that are mounted now.
LEMMA FollowServes == ASSUME PInv, NEW t \in Threads, Follow(t), IInv' PROVE PInv'
<1>. DEFINE now == own[Len(own)]
<1>1. PICK c \in {"first", "last"} :
        Accept(t, [units |-> client.units, skip |-> client.skip, counts |-> c])
  BY DEF Follow
<1>. DEFINE k == [units |-> client.units, skip |-> client.skip, counts |-> c]
<1>2. /\ client.at \in {"start", "next"}
      /\ client' = [client EXCEPT !.at = "waits", !.graphs = now,
                                  !.steady = client.steady /\ client.graphs \in {None, now}]
  BY DEF Follow
<1>3. /\ kind' = [kind EXCEPT ![t] = k] /\ mount' = [mount EXCEPT ![t] = Len(heap)]
      /\ pc[t] = "idle" /\ pc' = [pc EXCEPT ![t] = IF k.units THEN "extend" ELSE FirstPart(k)]
      /\ UNCHANGED <<own, rows, total>>
  BY <1>1 DEF Accept, Goto
<1>4. /\ client \in Client /\ client.first <= client.skip
      /\ client.graphs = None => client.skip = client.first /\ client.seen = <<>>
      /\ client.skip \in Nat /\ client.first \in Nat
  BY DEF PInv, Traverse, Client
<1>5. /\ Len(heap) = Len(own) /\ now \in Lists
  <2>1. own \in Seq(Lists) /\ Len(own) = Len(heap) /\ heap \in Seq(Seq(Graphs)) /\ heap # <<>>
    BY DEF PInv, IInv, Types
  <2>2. Len(own) \in 1 .. Len(own)
    BY <2>1, EmptySeq
  <2>. QED
    BY <2>1, <2>2, ElementOfSeq
<1>. HIDE DEF now
<1>6. /\ client' \in Client /\ client'.at = "waits" /\ client'.graphs = now
      /\ client'.skip = client.skip /\ client'.first = client.first /\ client'.seen = client.seen
      /\ client'.steady = (client.steady /\ client.graphs \in {None, now})
  BY <1>2, <1>4, <1>5 DEF Client
<1>7. ASSUME NEW u \in Threads PROVE kind[u].skip = None
  BY <1>2 DEF PInv, Served
<1>8. /\ kind'[t] = k /\ mount'[t] = Len(own)
      /\ pc'[t] = IF k.units THEN "extend" ELSE FirstPart(k)
      /\ \A u \in Threads : u # t => kind'[u] = kind[u] /\ mount'[u] = mount[u] /\ pc'[u] = pc[u]
  BY <1>3, <1>5 DEF PInv, IInv, Types
<1>9. Served(t)'
  <2>1. kind'[t].skip = client.skip /\ kind'[t].counts = c /\ client.skip # None
    BY <1>4, <1>8, ItemsAssumed
  <2>2. pc'[t] \in {"extend", "count", "outer"}
        /\ (pc'[t] = "count" => c = "first") /\ (pc'[t] = "outer" => c = "last")
    BY <1>4, <1>8, ItemsAssumed DEF FirstPart
  <2>3. own'[mount'[t]] = now
    BY <1>3, <1>8 DEF now
  <2>. QED
    BY <1>4, <1>6, <2>1, <2>2, <2>3 DEF Served
<1>10. ASSUME NEW u \in Threads, u # t PROVE Served(u)'
  BY <1>3, <1>7, <1>8, <1>10, StillServed DEF PInv
<1>11. One'
  BY <1>7, <1>8 DEF One
<1>12. Seen'
  <2>. DEFINE all == All(now)
  <2>. SUFFICES ASSUME client.steady, client.graphs \in {None, now}
                PROVE  client.seen = SubSeq(all, client.first + 1, Lesser(client.skip, Len(all)))
    BY <1>6 DEF Seen
  <2>1. CASE client.graphs = now
    <3>1. now # None
      BY <1>5, ItemsAssumed
    <3>. QED
      BY <2>1, <3>1 DEF PInv, Traverse, Seen
  <2>2. CASE client.graphs = None
    <3>1. Len(all) \in Nat /\ all \in Seq(Elems(Items))
      BY <1>5, OwnItems
    <3>. HIDE DEF all
    <3>2. Lesser(client.first, Len(all)) < client.first + 1
      BY <1>4, <3>1 DEF Lesser
    <3>3. Lesser(client.first, Len(all)) \in Int /\ client.first + 1 \in Int
      BY <1>4, <3>1 DEF Lesser
    <3>4. SubSeq(all, client.first + 1, Lesser(client.first, Len(all))) = <<>>
      BY <3>1, <3>2, <3>3, SubSeqEmpty
    <3>. QED
      BY <1>4, <2>2, <3>4
  <2>. QED
    BY <2>1, <2>2
<1>13. Traverse'
  <2>1. now # None
    BY <1>5, ItemsAssumed
  <2>. QED
    BY <1>4, <1>6, <1>12, <2>1 DEF Traverse
<1>14. Results'
  BY <1>3 DEF PInv, Results
<1>. QED
  BY <1>9, <1>10, <1>11, <1>13, <1>14 DEF PInv

\* A request ends; if it was the client's, no other is.
LEMMA EndServes ==
  ASSUME PInv, NEW t \in Threads, End(t), UNCHANGED own, IInv', Traverse',
         client' = client \/ kind[t].skip # None
  PROVE  PInv'
<1>1. /\ pc' = [pc EXCEPT ![t] = "idle"] /\ kind' = [kind EXCEPT ![t] = NoKind]
      /\ mount' = [mount EXCEPT ![t] = 1]
      /\ rows' = [rows EXCEPT ![t] = <<>>] /\ total' = [total EXCEPT ![t] = 0]
  BY DEF End, Goto
<1>2. kind'[t].skip = None /\ \A u \in Threads : u # t => kind'[u] = kind[u]
  BY <1>1 DEF PInv, IInv, Types, NoKind
<1>3. \A u \in Threads : u # t =>
        /\ pc'[u] = pc[u] /\ mount'[u] = mount[u] /\ rows'[u] = rows[u] /\ total'[u] = total[u]
  BY <1>1 DEF PInv, IInv, Types, Results
<1>4. Served(t)'
  BY <1>2 DEF Served
<1>5. ASSUME NEW u \in Threads, u # t PROVE Served(u)'
  <2>1. client' = client \/ kind[u].skip = None
    BY <1>5 DEF PInv, One
  <2>. QED
    BY <1>2, <1>3, <1>5, <2>1, StillServed DEF PInv
<1>6. One'
  BY <1>2 DEF PInv, One
<1>7. Results'
  BY <1>1 DEF PInv, Results
<1>. QED
  BY <1>4, <1>5, <1>6, <1>7 DEF PInv

LEMMA FailServes ==
  ASSUME PInv, NEW t \in Threads, Fail(t), UNCHANGED own, IInv'
  PROVE  PInv'
<1>1. client' = IF kind[t].skip = None THEN client ELSE [client EXCEPT !.at = "broken"]
  BY DEF Fail
<1>2. Traverse'
  <2>1. CASE kind[t].skip = None
    BY <1>1, <2>1 DEF PInv, Traverse, Seen
  <2>2. CASE kind[t].skip # None
    <3>1. /\ client' \in Client /\ client'.at = "broken"
          /\ client'.first = client.first /\ client'.skip = client.skip
          /\ client'.seen = client.seen /\ client'.graphs = client.graphs
          /\ client'.steady = client.steady
      BY <1>1, <2>2 DEF PInv, Traverse, Client
    <3>. QED
      BY <3>1 DEF PInv, Traverse, Seen
  <2>. QED
    BY <2>1, <2>2
<1>. QED
  BY <1>1, <1>2, EndServes DEF Fail

\* A page is answered: it goes on where the pages so far end, and is the last one
\* where the list ends.
LEMMA AnswerServes ==
  ASSUME PInv, NEW t \in Threads, NEW found, NEW count, Answer(t, found, count),
         kind[t].skip # None =>
           /\ found = Cut(own[mount[t]], kind[t].skip) /\ found # <<>>
           /\ count = Len(All(own[mount[t]])),
         UNCHANGED own, IInv'
  PROVE  PInv'
<1>1. End(t)
  BY DEF Answer
<1>2. CASE kind[t].skip = None
  <2>1. client' = client
    BY <1>2 DEF Answer
  <2>2. Traverse'
    BY <2>1 DEF PInv, Traverse, Seen
  <2>. QED
    BY <1>1, <2>1, <2>2, EndServes
<1>3. CASE kind[t].skip # None
  <2>. DEFINE list == own[mount[t]]
              skip == kind[t].skip
              all  == All(list)
  <2>1. list \in Lists /\ skip \in Nat /\ Top \in Nat
    BY <1>3, OwnList, ItemsAssumed DEF PInv, Served
  <2>2. found = Cut(list, skip) /\ found # <<>> /\ count = Len(all)
    BY <1>3
  <2>3. client.skip = skip /\ client.graphs = list
    BY <1>3 DEF PInv, Served
  <2>4. /\ client \in Client /\ client.first \in Nat /\ client.first <= skip
        /\ client.seen \in Seq(Elems(Items))
    BY <2>3 DEF PInv, Traverse, Client
  <2>5. client' = [client EXCEPT !.at = IF HasNext(skip, count) THEN "next" ELSE "done",
                                 !.skip = skip + Top, !.seen = client.seen \o found]
    BY <1>3 DEF Answer
  <2>6. PInv /\ list # None
    BY <2>1, ItemsAssumed
  <2>. HIDE DEF list, skip, all
  <2>7. found \in Seq(Elems(Items))
    BY <2>1, <2>2, CutSize
  <2>8. client.seen \o found \in Seq(Elems(Items)) /\ skip + Top \in Nat
    BY <2>1, <2>4, <2>7
  <2>9. /\ client' \in Client /\ client'.at = (IF HasNext(skip, count) THEN "next" ELSE "done")
        /\ client'.skip = skip + Top /\ client'.first = client.first
        /\ client'.seen = client.seen \o found
        /\ client'.graphs = list /\ client'.steady = client.steady
    BY <2>3, <2>4, <2>5, <2>8 DEF Client
  <2>10. client.first <= skip + Top
    BY <2>1, <2>4
  <2>11. Len(all) \in Nat
    BY <2>1, OwnItems DEF all
  <2>12. client'.at = "done" => client'.skip >= Len(all)
    <3>1. client'.at = "done" => ~(skip + Top < count)
      BY <2>9 DEF HasNext
    <3>. QED
      BY <2>1, <2>2, <2>8, <2>9, <2>11, <3>1
  <2>13. ASSUME client.steady
         PROVE  client'.seen = SubSeq(all, client.first + 1, Lesser(skip + Top, Len(all)))
    <3>1. client.seen = SubSeq(all, client.first + 1, Lesser(skip, Len(all)))
      BY <2>3, <2>6, <2>13 DEF PInv, Traverse, Seen, all
    <3>2. client.seen \o Cut(list, skip)
            = SubSeq(all, client.first + 1, Lesser(skip + Top, Len(all)))
      BY <2>1, <2>2, <2>4, <3>1, PagesJoin DEF all
    <3>. QED
      BY <2>2, <2>9, <3>2
  <2>14. Seen'
    BY <2>9, <2>12, <2>13 DEF Seen, all
  <2>15. Traverse'
    BY <2>6, <2>9, <2>10, <2>14 DEF Traverse
  <2>. QED
    BY <1>1, <1>3, <2>15, EndServes
<1>. QED
  BY <1>2, <1>3

LEMMA AskWhereServes == ASSUME PInv, NEW t \in Threads, AskWhere(t), IInv' PROVE PInv'
<1>1. pc[t] = "ask where" /\ UNCHANGED own /\ IInv /\ Served(t)
  BY DEF AskWhere, PInv
<1>2. kind[t].counts \in {"first", "last"}
  BY DEF PInv, IInv, Types
<1>3. CASE kind[t].skip = None
  <2>1. Answer(t, <<>>, 0)
    BY <1>3 DEF AskWhere
  <2>. QED
    BY <1>1, <1>3, <2>1, AnswerServes
<1>4. CASE kind[t].skip # None
  <2>. DEFINE found == Page(t, kind[t].skip)
  <2>1. kind[t].skip \in Nat
    BY <1>1, <1>4 DEF Served
  <2>2. found = Cut(own[mount[t]], kind[t].skip)
    BY <1>1, <2>1, OwnPage
  <2>3. IF found = <<>> THEN Fail(t)
        ELSE IF kind[t].counts = "first" THEN Answer(t, found, total[t])
        ELSE /\ rows' = [rows EXCEPT ![t] = found] /\ Goto(t, "count")
             /\ UNCHANGED <<kind, mount, from, total, client>>
    BY <1>4 DEF AskWhere
  <2>. HIDE DEF found
  <2>4. CASE found = <<>>
    BY <1>1, <2>3, <2>4, FailServes
  <2>5. CASE found # <<>> /\ kind[t].counts = "first"
    <3>1. Answer(t, found, total[t])
      BY <2>3, <2>5
    <3>2. total[t] = Len(All(own[mount[t]]))
      BY <1>1, <1>4, <2>5 DEF Served
    <3>. QED
      BY <1>1, <2>2, <2>5, <3>1, <3>2, AnswerServes
  <2>6. CASE found # <<>> /\ kind[t].counts = "last"
    <3>1. /\ rows' = [rows EXCEPT ![t] = found] /\ pc' = [pc EXCEPT ![t] = "count"]
          /\ UNCHANGED <<kind, mount, total, client, own>>
      BY <1>1, <2>3, <2>6 DEF Goto
    <3>2. /\ rows'[t] = found /\ pc'[t] = "count"
          /\ \A u \in Threads : u # t => rows'[u] = rows[u] /\ pc'[u] = pc[u]
      BY <3>1 DEF PInv, IInv, Types, Results
    <3>3. Served(t)'
      BY <1>1, <2>2, <2>6, <3>1, <3>2 DEF Served
    <3>4. ASSUME NEW u \in Threads, u # t PROVE Served(u)'
      BY <3>1, <3>2, <3>4, StillServed DEF PInv
    <3>5. Results' /\ One' /\ Traverse'
      BY <3>1 DEF PInv, Results, One, Traverse, Seen
    <3>. QED
      BY <3>3, <3>4, <3>5 DEF PInv
  <2>. QED
    BY <1>2, <2>4, <2>5, <2>6
<1>. QED
  BY <1>3, <1>4

LEMMA AskCountServes == ASSUME PInv, NEW t \in Threads, AskCount(t), IInv' PROVE PInv'
<1>1. pc[t] = "ask count" /\ UNCHANGED own /\ IInv /\ Served(t)
  BY DEF AskCount, PInv
<1>2. kind[t].counts \in {"first", "last"}
  BY DEF PInv, IInv, Types
<1>. DEFINE count == CountOf(t)
<1>3. count = Len(All(own[mount[t]]))
  BY <1>1, OwnCount
<1>4. IF kind[t].counts = "last" THEN Answer(t, rows[t], count)
      ELSE IF count = 0 THEN Fail(t)
      ELSE /\ total' = [total EXCEPT ![t] = count] /\ Goto(t, "outer")
           /\ UNCHANGED <<kind, mount, from, rows, client>>
  BY DEF AskCount
<1>. HIDE DEF count
<1>5. CASE kind[t].counts = "last"
  <2>1. kind[t].skip # None => rows[t] = Cut(own[mount[t]], kind[t].skip) /\ rows[t] # <<>>
    BY <1>1, <1>5 DEF Served
  <2>. QED
    BY <1>1, <1>3, <1>4, <1>5, <2>1, AnswerServes
<1>6. CASE kind[t].counts = "first" /\ count = 0
  BY <1>1, <1>4, <1>6, FailServes
<1>7. CASE kind[t].counts = "first" /\ count # 0
  <2>1. /\ total' = [total EXCEPT ![t] = count] /\ pc' = [pc EXCEPT ![t] = "outer"]
        /\ UNCHANGED <<kind, mount, rows, client, own>>
    BY <1>1, <1>4, <1>7 DEF Goto
  <2>2. /\ total'[t] = count /\ pc'[t] = "outer"
        /\ \A u \in Threads : u # t => total'[u] = total[u] /\ pc'[u] = pc[u]
    BY <2>1 DEF PInv, IInv, Types, Results
  <2>3. Served(t)'
    BY <1>1, <1>3, <1>7, <2>1, <2>2 DEF Served
  <2>4. ASSUME NEW u \in Threads, u # t PROVE Served(u)'
    BY <2>1, <2>2, <2>4, StillServed DEF PInv
  <2>5. Results' /\ One' /\ Traverse'
    BY <2>1 DEF PInv, Results, One, Traverse, Seen
  <2>. QED
    BY <2>3, <2>4, <2>5 DEF PInv
<1>. QED
  BY <1>2, <1>5, <1>6, <1>7

LEMMA StepKeepsPInv == PInv /\ [Next]_vars => PInv'
<1>. SUFFICES ASSUME PInv, [Next]_vars PROVE PInv'
  OBVIOUS
<1>1. IInv'
  BY StepKeepsIInv DEF PInv
<1>2. ASSUME NEW t \in Threads, CallFails(t) PROVE PInv'
  BY <1>1, <1>2, FailServes DEF CallFails
<1>3. CASE UNCHANGED vars
  <2>1. UNCHANGED <<pc, kind, mount, rows, total, own, client>>
    BY <1>3 DEF vars, thread
  <2>2. ASSUME NEW t \in Threads PROVE Served(t)'
    BY <2>1, StillServed DEF PInv
  <2>3. Results' /\ One' /\ Traverse'
    BY <2>1 DEF PInv, Results, One, Traverse, Seen
  <2>. QED
    BY <1>1, <2>2, <2>3 DEF PInv
<1>. QED
  BY <1>1, <1>2, <1>3, OtherServes, FollowServes, ExtendServes, ReadServes, AskWhereServes,
     AskCountServes, RebuildServes DEF Next, Handle

\* PageFitsCount (base_query_handler.py:125-207): whatever order page and count are
\* asked in, and whoever extends the list or rebuilds the routes between the two,
\* the count reaches to the last item of the page it comes with.
THEOREM PagesFitCounts == Spec => []PageFitsCount
<1>1. PInv => PageFitsCount
  <2>. SUFFICES ASSUME PInv, NEW t \in Threads, kind[t].skip # None
                PROVE  /\ pc[t] = "ask where" /\ kind[t].counts = "first" =>
                            LET found == Page(t, kind[t].skip)
                            IN  found # <<>> => kind[t].skip + Len(found) <= total[t]
                       /\ pc[t] = "ask count" /\ kind[t].counts = "last" =>
                            kind[t].skip + Len(rows[t]) <= CountOf(t)
    BY DEF PageFitsCount
  <2>1. IInv /\ Served(t) /\ kind[t].skip \in Nat /\ own[mount[t]] \in Lists
    BY OwnList DEF PInv, Served
  <2>2. Cut(own[mount[t]], kind[t].skip) # <<>> =>
          kind[t].skip + Len(Cut(own[mount[t]], kind[t].skip)) <= Len(All(own[mount[t]]))
    BY <2>1, CutSize
  <2>3. ASSUME pc[t] = "ask where", kind[t].counts = "first", Page(t, kind[t].skip) # <<>>
        PROVE  kind[t].skip + Len(Page(t, kind[t].skip)) <= total[t]
    <3>1. Page(t, kind[t].skip) = Cut(own[mount[t]], kind[t].skip)
      BY <2>1, <2>3, OwnPage
    <3>2. total[t] = Len(All(own[mount[t]]))
      BY <2>1, <2>3 DEF Served
    <3>. QED
      BY <2>2, <2>3, <3>1, <3>2
  <2>4. ASSUME pc[t] = "ask count", kind[t].counts = "last"
        PROVE  kind[t].skip + Len(rows[t]) <= CountOf(t)
    <3>1. rows[t] = Cut(own[mount[t]], kind[t].skip) /\ rows[t] # <<>>
      BY <2>1, <2>4 DEF Served
    <3>2. CountOf(t) = Len(All(own[mount[t]]))
      BY <2>1, <2>4, OwnCount
    <3>. QED
      BY <2>2, <3>1, <3>2
  <2>. QED
    BY <2>3, <2>4
<1>. QED
  BY InitPInv, StepKeepsPInv, <1>1, PTL DEF Spec

\* TraversalComplete (base_query_handler.py:125-207, handler_mixins): a client that
\* follows nextLinks sees every item from its first $skip on once and in order, and
\* is told of the end where there are no more.
THEOREM TraversalsComplete == Spec => []TraversalComplete
<1>1. PInv => TraversalComplete
  BY DEF PInv, Traverse, Seen, TraversalComplete, All
<1>. QED
  BY InitPInv, StepKeepsPInv, <1>1, PTL DEF Spec
=============================================================================
