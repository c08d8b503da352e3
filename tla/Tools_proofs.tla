---------------------------- MODULE Tools_proofs ----------------------------
(***************************************************************************)
(* Proofs about the driver and the supervisor as MCTools runs them: for    *)
(* any arguments, blocks, calls, depth and number of requests, and any     *)
(* number of signals, at any line.  (IndexCommand has its own.)            *)
(***************************************************************************)
EXTENDS MCTools, FiniteSetTheorems, SequenceTheorems, WellFoundedInduction, TLAPS

-----------------------------------------------------------------------------
(* The supervisor: what its restarts are paid with                         *)

SupervisorTypes ==
  /\ at \in {"test", "unset", "popen", "assign", "wait", "decide", "keep", "reset", "exit",
            "crashed"}
  /\ keep \in BOOLEAN /\ restart \in BOOLEAN
  /\ child \in Seq({"running", "told", "ended"})
  /\ hups \in Nat

\* The loop has decided for another child.
Decided == at \in {"unset", "popen", "keep", "reset"} \/ (at = "test" /\ keep = TRUE)

\* A SIGHUP that the loop has not answered yet.
Asked == restart = TRUE /\ at \notin {"keep", "reset"}

\* What is under way is paid for, too: one child is free, the others go back to a
\* SIGHUP each.  That the loop keeps on is said anew for each child.
Paid ==
  /\ Len(child) <= hups + 1
  /\ Decided \/ Asked => Len(child) <= hups
  /\ Decided /\ Asked => Len(child) + 1 <= hups
  /\ at \in {"popen", "assign", "wait", "decide"} => keep = FALSE

SupervisorInv == SupervisorTypes /\ Paid

-----------------------------------------------------------------------------
LEMMA SupervisorStarts == Varnish!Init => SupervisorInv
<1> SUFFICES ASSUME Varnish!Init PROVE SupervisorInv
  OBVIOUS
<1>1. child \in Seq({"running", "told", "ended"}) /\ Len(child) = 0
  BY DEF Varnish!Init
<1>2. SupervisorTypes
  BY <1>1 DEF Varnish!Init, SupervisorTypes
<1>3. Paid
  BY <1>1 DEF Varnish!Init, Paid, Decided, Asked
<1>. QED
  BY <1>2, <1>3 DEF SupervisorInv

LEMMA LoopKeepsInv == SupervisorInv /\ Varnish!Loop => SupervisorInv'
<1> SUFFICES ASSUME SupervisorInv, Varnish!Loop PROVE SupervisorInv'
  OBVIOUS
<1> USE DEF SupervisorInv, SupervisorTypes, Paid, Decided, Asked, Varnish!ghosts
<1>1. CASE Varnish!Test
  BY <1>1 DEF Varnish!Test
<1>2. CASE Varnish!Unset
  BY <1>2 DEF Varnish!Unset
<1>3. CASE Varnish!Popen
  <2>1. child' \in Seq({"running", "told", "ended"}) /\ Len(child') = Len(child) + 1
    BY <1>3 DEF Varnish!Popen
  <2>. QED
    BY <1>3, <2>1 DEF Varnish!Popen
<1>4. CASE Varnish!Assign
  BY <1>4 DEF Varnish!Assign
<1>5. CASE Varnish!Wait
  BY <1>5 DEF Varnish!Wait
<1>6. CASE Varnish!Decide
  BY <1>6 DEF Varnish!Decide
<1>7. CASE Varnish!Keep
  BY <1>7 DEF Varnish!Keep
<1>8. CASE Varnish!Reset
  BY <1>8 DEF Varnish!Reset
<1>. QED
  BY <1>1, <1>2, <1>3, <1>4, <1>5, <1>6, <1>7, <1>8 DEF Varnish!Loop

\* What becomes of one child leaves their number.
LEMMA ChildChanges ==
  ASSUME NEW s \in Seq({"running", "told", "ended"}), NEW i \in DOMAIN s,
         NEW f \in {"running", "told", "ended"}
  PROVE  /\ [s EXCEPT ![i] = f] \in Seq({"running", "told", "ended"})
         /\ Len([s EXCEPT ![i] = f]) = Len(s)
OBVIOUS

LEMMA SignalKeepsInv == SupervisorInv /\ (Varnish!Hup \/ Varnish!Term) => SupervisorInv'
<1> SUFFICES ASSUME SupervisorInv, Varnish!Hup \/ Varnish!Term PROVE SupervisorInv'
  OBVIOUS
<1>1. /\ child' \in Seq({"running", "told", "ended"}) /\ Len(child') = Len(child)
      /\ at' = at \/ at' = "crashed"
      /\ UNCHANGED keep
  <2>1. CASE process = None
    BY <2>1 DEF Varnish!Hup, Varnish!Term, Varnish!Signal, Varnish!Tell, SupervisorInv, SupervisorTypes
  <2>2. CASE process # None
    <3>1. child' = [child EXCEPT ![process] = IF child[process] = "running" THEN "told"
                                                ELSE child[process]]
      BY <2>2 DEF Varnish!Hup, Varnish!Term, Varnish!Signal, Varnish!Tell
    <3>2. CASE process \in DOMAIN child
      <4>1. (IF child[process] = "running" THEN "told" ELSE child[process])
              \in {"running", "told", "ended"}
        BY <3>2 DEF SupervisorInv, SupervisorTypes
      <4>2. /\ child' \in Seq({"running", "told", "ended"}) /\ Len(child') = Len(child)
        BY <3>1, <3>2, <4>1, ChildChanges DEF SupervisorInv, SupervisorTypes
      <4>. QED
        BY <2>2, <4>2 DEF Varnish!Hup, Varnish!Term, Varnish!Signal, Varnish!Tell
    <3>3. CASE process \notin DOMAIN child
      <4>1. child' = child
        BY <3>1, <3>3 DEF SupervisorInv, SupervisorTypes
      <4>. QED
        BY <2>2, <4>1 DEF Varnish!Hup, Varnish!Term, Varnish!Signal, Varnish!Tell, SupervisorInv, SupervisorTypes
    <3>. QED
      BY <3>2, <3>3
  <2>. QED
    BY <2>1, <2>2
<1>2. SupervisorTypes'
  <2>1. hups' \in Nat /\ restart' \in BOOLEAN
    <3>1. hups \in Nat
      BY DEF SupervisorInv, SupervisorTypes
    <3>2. CASE Varnish!Hup
      BY <3>1, <3>2 DEF Varnish!Hup
    <3>3. CASE Varnish!Term
      BY <3>1, <3>3 DEF Varnish!Term
    <3>. QED
      BY <3>2, <3>3
  <2>2. at' \in {"test", "unset", "popen", "assign", "wait", "decide", "keep", "reset",
                 "exit", "crashed"}
    BY <1>1 DEF SupervisorInv, SupervisorTypes
  <2>. QED
    BY <1>1, <2>1, <2>2 DEF SupervisorInv, SupervisorTypes
<1>3. Decided' => Decided
  BY <1>1 DEF Decided
<1>4. CASE Varnish!Hup
  <2>1. hups' = hups + 1 /\ hups \in Nat /\ Len(child) \in Nat
    BY <1>4 DEF Varnish!Hup, SupervisorInv, SupervisorTypes
  <2>. QED
    BY <1>1, <1>2, <1>3, <2>1 DEF SupervisorInv, Paid
<1>5. CASE Varnish!Term
  <2>1. ~Asked' /\ hups' = hups
    BY <1>5 DEF Varnish!Term, Asked
  <2>. QED
    BY <1>1, <1>2, <1>3, <2>1 DEF SupervisorInv, Paid
<1>. QED
  BY <1>4, <1>5

LEMMA EndKeepsInv ==
  ASSUME SupervisorInv, NEW i \in DOMAIN child, Varnish!ChildEnds(i) \/ Varnish!ChildQuits(i)
  PROVE  SupervisorInv'
<1>1. child' = [child EXCEPT ![i] = "ended"] /\ UNCHANGED <<at, keep, restart, hups>>
  BY DEF Varnish!ChildEnds, Varnish!ChildQuits, Varnish!loop, Varnish!ghosts
<1>2. child' \in Seq({"running", "told", "ended"}) /\ Len(child') = Len(child)
  BY <1>1, ChildChanges DEF SupervisorInv, SupervisorTypes
<1>. QED
  BY <1>1, <1>2 DEF SupervisorInv, SupervisorTypes, Paid, Decided, Asked

LEMMA SupervisorSteps == SupervisorInv /\ [Varnish!Next]_(Varnish!supervisorVars) => SupervisorInv'
<1> SUFFICES ASSUME SupervisorInv, [Varnish!Next]_(Varnish!supervisorVars) PROVE SupervisorInv'
  OBVIOUS
<1>1. CASE UNCHANGED Varnish!supervisorVars
  BY <1>1 DEF Varnish!supervisorVars, Varnish!loop, Varnish!ghosts, SupervisorInv,
              SupervisorTypes, Paid, Decided, Asked
<1>. QED
  BY <1>1, LoopKeepsInv, SignalKeepsInv, EndKeepsInv DEF Varnish!Next

-----------------------------------------------------------------------------
(* The driver: what a sequence of blocks makes of a setting                *)

\* What the blocks b make of the value of a key, and the equation of that.
Made(value, key, b) ==
  LET upTo[k \in 0 .. Len(b)] ==
        IF k = 0 THEN value
        ELSE IF b[k].key = key THEN Driver!Switched(b[k].by, b[k].value, upTo[k - 1])
        ELSE upTo[k - 1]
  IN  upTo[Len(b)]

AfterOne(x, key, value) ==
  IF x.key = key THEN Driver!Switched(x.by, x.value, value) ELSE value

Switching(value, key, b, f, len) ==
  f = [k \in 0 .. len |-> IF k = 0 THEN value
                          ELSE IF b[k].key = key
                                 THEN Driver!Switched(b[k].by, b[k].value, f[k - 1])
                          ELSE f[k - 1]]

\* Induction, for sets of numbers.
LEMMA AllNumbers ==
  ASSUME NEW S \in SUBSET Nat, 0 \in S, \A n \in S : n + 1 \in S
  PROVE  S = Nat
<1>. DEFINE Less == OpToRel(<, Nat)
<1>1. IsWellFoundedOn(Less, Nat)
  BY NatLessThanWellFounded
<1>2. ASSUME NEW m \in Nat, NEW n \in Nat, m < n
      PROVE  <<m, n>> \in Less
  <2>1. <<m, n>> \in Nat \X Nat /\ <<m, n>>[1] = m /\ <<m, n>>[2] = n
    OBVIOUS
  <2>. QED
    BY <1>2, <2>1 DEF OpToRel
<1>. HIDE DEF Less
<1>. SUFFICES ASSUME Nat \ S # {} PROVE FALSE
  OBVIOUS
<1>3. PICK n \in Nat \ S : \A m \in Nat \ S : ~(<<m, n>> \in Less)
  BY <1>1, WFMin
<1>4. n - 1 \in Nat /\ n - 1 < n
  BY <1>3
<1>5. n - 1 \in S
  BY <1>2, <1>3, <1>4
<1>6. (n - 1) + 1 \in S
  BY <1>5
<1>. QED
  BY <1>3, <1>6

LEMMA SwitchingExists ==
  ASSUME NEW value, NEW key, NEW b, NEW len \in Nat
  PROVE  \E f : Switching(value, key, b, f, len)
<1>. DEFINE S == {n \in Nat : \E f : Switching(value, key, b, f, n)}
<1>1. 0 \in S
  <2>. DEFINE f == [k \in 0 .. 0 |-> value]
  <2>1. Switching(value, key, b, f, 0)
    BY DEF Switching
  <2>. QED
    BY <2>1
<1>2. ASSUME NEW n \in S
      PROVE  n + 1 \in S
  <2>1. PICK g : Switching(value, key, b, g, n)
    OBVIOUS
  <2>2. n \in Nat
    OBVIOUS
  <2>. DEFINE body(f, k) == IF k = 0 THEN value
                            ELSE IF b[k].key = key
                                   THEN Driver!Switched(b[k].by, b[k].value, f[k - 1])
                            ELSE f[k - 1]
              h == [k \in 0 .. n + 1 |-> IF k <= n THEN g[k] ELSE body(g, k)]
  <2>3. \A k \in 0 .. n : g[k] = body(g, k)
    BY <2>1 DEF Switching
  <2>4. \A k \in 0 .. n + 1 : body(h, k) = body(g, k)
    BY <2>2
  <2>5. \A k \in 0 .. n + 1 : h[k] = body(h, k)
    <3>. HIDE DEF body
    <3>. QED
      BY <2>2, <2>3, <2>4
  <2>6. h = [k \in 0 .. n + 1 |-> h[k]]
    OBVIOUS
  <2>7. h = [k \in 0 .. n + 1 |-> body(h, k)]
    <3>. HIDE DEF h, body
    <3>. QED
      BY <2>5, <2>6
  <2>8. Switching(value, key, b, h, n + 1)
    <3>. HIDE DEF h
    <3>. QED
      BY <2>7 DEF Switching
  <2>. QED
    BY <2>2, <2>8
<1>3. S = Nat
  <2>1. S \in SUBSET Nat
    OBVIOUS
  <2>. HIDE DEF S
  <2>. QED
    BY <1>1, <1>2, <2>1, AllNumbers
<1>. QED
  BY <1>3

\* Block by block.
BlockByBlock(value, key, b, f) ==
  f[0] = value /\ \A k \in 1 .. Len(b) : f[k] = AfterOne(b[k], key, f[k - 1])

LEMMA MadeByBlocks ==
  ASSUME NEW value, NEW key, NEW b, Len(b) \in Nat
  PROVE  \E f : BlockByBlock(value, key, b, f) /\ Made(value, key, b) = f[Len(b)]
<1>1. \E f : Switching(value, key, b, f, Len(b))
  BY SwitchingExists
<1>. DEFINE upTo == CHOOSE f : Switching(value, key, b, f, Len(b))
<1>2. Switching(value, key, b, upTo, Len(b))
  BY <1>1
<1>3. Made(value, key, b) = upTo[Len(b)]
  BY DEF Made, Switching
<1>. HIDE DEF upTo
<1>4. /\ 0 \in 0 .. Len(b)
      /\ \A k \in 1 .. Len(b) : k \in 0 .. Len(b) /\ k # 0
  OBVIOUS
<1>5. BlockByBlock(value, key, b, upTo)
  BY <1>2, <1>4 DEF BlockByBlock, Switching, AfterOne
<1>. QED
  BY <1>3, <1>5

\* No blocks leave a value as it is.
LEMMA MadeByNone ==
  ASSUME NEW value, NEW key
  PROVE  Made(value, key, <<>>) = value
<1>1. Len(<<>>) = 0
  OBVIOUS
<1>. QED
  BY <1>1, MadeByBlocks DEF BlockByBlock

\* A sequence but for its last element.
LEMMA Fronts ==
  ASSUME NEW S, NEW b \in Seq(S), b # <<>>
  PROVE  /\ Len(b) \in Nat /\ Len(b) # 0 /\ b[Len(b)] \in S
         /\ SubSeq(b, 1, Len(b) - 1) \in Seq(S) /\ Len(SubSeq(b, 1, Len(b) - 1)) = Len(b) - 1
         /\ \A i \in 1 .. Len(b) - 1 : SubSeq(b, 1, Len(b) - 1)[i] = b[i]
         /\ Append(SubSeq(b, 1, Len(b) - 1), b[Len(b)]) = b
<1>1. Len(b) \in Nat /\ Len(b) # 0
  BY EmptySeq
<1>. DEFINE n == Len(b) - 1
            a == SubSeq(b, 1, n)
<1>2. /\ 1 \in Int /\ n \in Nat /\ n \in Int /\ Len(b) = n + 1 /\ Len(b) \in 1 .. Len(b)
      /\ \A i \in 1 .. n : i \in 1 .. Len(b)
  BY <1>1
<1>3. (\A i \in 1 .. n : b[i] \in S) /\ b[Len(b)] \in S
  BY <1>2, ElementOfSeq
<1>. HIDE DEF n
<1>4. /\ a \in Seq(S) /\ Len(a) = IF 1 <= n THEN n - 1 + 1 ELSE 0
      /\ \A i \in 1 .. n - 1 + 1 : a[i] = b[1 + i - 1]
  BY <1>2, <1>3, SubSeqProperties
<1>5. Len(a) = n /\ \A i \in 1 .. n : a[i] = b[i]
  <2>. HIDE DEF a
  <2>. QED
    BY <1>2, <1>4
<1>6. Append(a, b[Len(b)]) = b
  <2>. DEFINE c == Append(a, b[Len(b)])
  <2>. HIDE DEF a
  <2>1. c \in Seq(S) /\ Len(c) = Len(b) /\ c[n + 1] = b[Len(b)] /\ \A i \in 1 .. n : c[i] = a[i]
    BY <1>2, <1>3, <1>4, <1>5
  <2>. HIDE DEF c
  <2>2. \A i \in 1 .. Len(b) : i \in 1 .. n \/ i = n + 1
    BY <1>2
  <2>3. \A i \in 1 .. Len(c) : c[i] = b[i]
    BY <1>2, <1>5, <2>1, <2>2
  <2>4. c = b
    BY <2>1, <2>3, SeqEqual
  <2>. QED
    BY <2>4 DEF c
<1>. QED
  BY <1>1, <1>3, <1>4, <1>5, <1>6 DEF n

\* The innermost block has the last word.
LEMMA MadeByInner ==
  ASSUME NEW S, NEW b \in Seq(S), b # <<>>, NEW value, NEW key
  PROVE  Made(value, key, b)
           = AfterOne(b[Len(b)], key, Made(value, key, SubSeq(b, 1, Len(b) - 1)))
<1>. DEFINE a == SubSeq(b, 1, Len(b) - 1)
<1>1. Len(b) \in Nat /\ Len(b) # 0
  BY Fronts
<1>2. a \in Seq(S) /\ Len(a) = Len(b) - 1 /\ \A i \in 1 .. Len(b) - 1 : a[i] = b[i]
  BY Fronts
<1>. HIDE DEF a
<1>3. PICK f : BlockByBlock(value, key, a, f) /\ Made(value, key, a) = f[Len(a)]
  BY <1>1, <1>2, MadeByBlocks
<1>4. PICK g : BlockByBlock(value, key, b, g) /\ Made(value, key, b) = g[Len(b)]
  BY <1>1, MadeByBlocks
<1>. DEFINE T == {n \in Nat : n <= Len(a) => f[n] = g[n]}
<1>5. 0 \in T
  BY <1>3, <1>4 DEF BlockByBlock
<1>6. ASSUME NEW n \in T
      PROVE  n + 1 \in T
  <2>. SUFFICES ASSUME n + 1 <= Len(a) PROVE f[n + 1] = g[n + 1]
    OBVIOUS
  <2>1. n \in Nat /\ n + 1 \in 1 .. Len(a) /\ n + 1 \in 1 .. Len(b) /\ (n + 1) - 1 = n
    BY <1>1, <1>2
  <2>2. f[n] = g[n]
    BY <1>1, <1>2, <2>1
  <2>. QED
    BY <1>2, <1>3, <1>4, <2>1, <2>2 DEF BlockByBlock
<1>7. T = Nat
  <2>1. T \in SUBSET Nat
    OBVIOUS
  <2>. HIDE DEF T
  <2>. QED
    BY <1>5, <1>6, <2>1, AllNumbers
<1>8. f[Len(a)] = g[Len(b) - 1]
  BY <1>1, <1>2, <1>7
<1>9. g[Len(b)] = AfterOne(b[Len(b)], key, g[Len(b) - 1])
  BY <1>1, <1>4 DEF BlockByBlock
<1>. QED
  BY <1>3, <1>4, <1>8, <1>9 DEF a

\* A block that is opened has the last word from then on.
LEMMA MadeByOpened ==
  ASSUME NEW S, NEW b \in Seq(S), NEW x, NEW value, NEW key
  PROVE  Made(value, key, Append(b, x)) = AfterOne(x, key, Made(value, key, b))
<1>. DEFINE c == Append(b, x)
<1>1. b \in Seq(S \cup {x}) /\ Len(b) \in Nat
  BY SeqMonotonic
<1>2. c \in Seq(S \cup {x}) /\ Len(c) = Len(b) + 1 /\ c[Len(b) + 1] = x /\ c # <<>>
      /\ SubSeq(c, 1, Len(b)) = b
  BY <1>1
<1>. HIDE DEF c
<1>3. Made(value, key, c) = AfterOne(c[Len(c)], key, Made(value, key, SubSeq(c, 1, Len(c) - 1)))
  BY <1>2, MadeByInner
<1>4. Len(c) - 1 = Len(b)
  BY <1>1, <1>2
<1>. QED
  BY <1>2, <1>3, <1>4 DEF c

-----------------------------------------------------------------------------
(* The driver: its settings and its last response                          *)

\* What the open blocks make of the driver is what they say.
LEMMA InForceIsMade ==
  ASSUME NEW key, NEW b
  PROVE  Driver!InForce(key, b) = Made(made[key], key, b)
BY DEF Driver!InForce, Made

\* The configuration has its keys, and the blocks are of them.
DriverTypes ==
  /\ config = [k \in Driver!Keys |-> config[k]]
  /\ \E S : blocks \in Seq(S)
  /\ \A i \in 1 .. Len(blocks) : blocks[i].key \in Driver!Keys

\* The blocks outside the i-th.
Outside(i) == SubSeq(blocks, 1, i - 1)

\* A block that was opened clean puts back what the blocks outside it say.  One that
\* was not is inside an exception's trace: its key is still astray, and no block
\* inside it is clean.
Restores ==
  \A i \in 1 .. Len(blocks) :
    LET b == blocks[i]
    IN  IF b.clean THEN b.old = Made(made[b.key], b.key, Outside(i))
        ELSE /\ b.key \in astray
             /\ \A j \in i .. Len(blocks) : blocks[j].key = b.key => ~blocks[j].clean

Settled ==
  \A key \in Driver!Keys \ astray : config[key] = Made(made[key], key, blocks)

\* The last response is that of the latest request.
Latest == last # None => last.number = request.number /\ last.url = request.url

DriverInv == DriverTypes /\ Restores /\ Settled /\ Latest

LEMMA DriverStarts == Driver!Init => DriverInv
<1>. SUFFICES ASSUME Driver!Init PROVE DriverInv
  OBVIOUS
<1>1. /\ blocks = <<>> /\ made = config /\ last = None
      /\ \E a \in Arguments : config = Driver!Configured(a)
  BY DEF Driver!Init
<1>2. Len(blocks) = 0
  BY <1>1
<1>3. config = [k \in Driver!Keys |-> config[k]]
  BY <1>1 DEF Driver!Configured, Driver!Keys
<1>4. \E S : blocks \in Seq(S)
  <2>1. blocks \in Seq({})
    BY <1>1
  <2>. QED
    BY <2>1
<1>5. Settled
  BY <1>1, MadeByNone DEF Settled
<1>. QED
  BY <1>1, <1>2, <1>3, <1>4, <1>5 DEF DriverInv, DriverTypes, Restores, Latest

LEMMA SwitchKeys == ASSUME NEW s \in Switches PROVE Driver!KeyOf(s.by) \in Driver!Keys
BY ToolsAssumption DEF ToolsAssumption, Driver!DriverConstants

\* What is appended to a sequence changes nothing before it.
LEMMA AppendedBefore ==
  ASSUME NEW S, NEW b \in Seq(S), NEW x \in S, NEW i \in 1 .. Len(b) + 1
  PROVE  SubSeq(Append(b, x), 1, i - 1) = SubSeq(b, 1, i - 1)
<1>1. Len(b) \in Nat /\ Append(b, x) \in Seq(S) /\ Len(Append(b, x)) = Len(b) + 1
      /\ \A k \in 1 .. Len(b) : Append(b, x)[k] = b[k]
  OBVIOUS
<1>2. i - 1 \in Int /\ 1 \in Int /\ \A k \in 1 .. i - 1 : k \in 1 .. Len(b) /\ 1 + k - 1 = k
  BY <1>1
<1>3. \A k \in 1 .. i - 1 : b[k] \in S /\ Append(b, x)[k] \in S
  BY <1>1, <1>2, ElementOfSeq
<1>. DEFINE c == Append(b, x)
            n == i - 1
<1>. HIDE DEF c, n
<1>4. /\ SubSeq(b, 1, n) \in Seq(S) /\ SubSeq(c, 1, n) \in Seq(S)
      /\ Len(SubSeq(b, 1, n)) = Len(SubSeq(c, 1, n))
      /\ Len(SubSeq(b, 1, n)) = IF 1 <= n THEN n - 1 + 1 ELSE 0
      /\ \A k \in 1 .. n - 1 + 1 : SubSeq(b, 1, n)[k] = b[1 + k - 1]
      /\ \A k \in 1 .. n - 1 + 1 : SubSeq(c, 1, n)[k] = c[1 + k - 1]
  BY <1>1, <1>2, <1>3, SubSeqProperties DEF c, n
<1>5. n \in Int
  BY <1>2 DEF n
<1>6. \A k \in 1 .. Len(SubSeq(b, 1, n)) : SubSeq(b, 1, n)[k] = SubSeq(c, 1, n)[k]
  BY <1>1, <1>2, <1>4, <1>5 DEF c, n
<1>7. SubSeq(b, 1, n) = SubSeq(c, 1, n)
  BY <1>4, <1>6, SeqEqual
<1>. QED
  BY <1>7 DEF c, n

\* What no step but those of the blocks touches.
LEMMA RestIsKept ==
  ASSUME DriverInv, UNCHANGED <<config, blocks, made, astray>>
  PROVE  DriverTypes' /\ Restores' /\ Settled'
BY DEF DriverInv, DriverTypes, Restores, Settled, Outside

LEMMA OpenKeeps == ASSUME DriverInv, NEW s \in Switches, Driver!Open(s) PROVE DriverInv'
<1>. DEFINE key == Driver!KeyOf(s.by)
            old == config[key]
            new == [key |-> key, by |-> s.by, value |-> s.value, old |-> old,
                    clean |-> key \notin astray]
<1>1. UNCHANGED <<last, request, made, astray>> /\ key \in Driver!Keys
  BY SwitchKeys DEF Driver!Open
<1>2. Latest'
  BY <1>1 DEF DriverInv, Latest
<1>3. CASE UNCHANGED <<config, blocks>>
  BY <1>1, <1>2, <1>3, RestIsKept DEF DriverInv
<1>4. CASE /\ config' = [config EXCEPT ![key] = Driver!Switched(s.by, s.value, old)]
           /\ blocks' = Append(blocks, new)
  <2>1. PICK S : blocks \in Seq(S)
    BY DEF DriverInv, DriverTypes
  <2>2. /\ blocks' \in Seq(S \cup {new}) /\ Len(blocks) \in Nat /\ Len(blocks') = Len(blocks) + 1
        /\ \A i \in 1 .. Len(blocks) : blocks'[i] = blocks[i]
        /\ blocks'[Len(blocks) + 1] = new
    <3>1. blocks \in Seq(S \cup {new})
      BY <2>1, SeqMonotonic
    <3>. HIDE DEF new
    <3>. QED
      BY <1>4, <2>1, <3>1
  <2>3. \A i \in 1 .. Len(blocks) + 1 : SubSeq(blocks', 1, i - 1) = SubSeq(blocks, 1, i - 1)
    <3>. HIDE DEF new
    <3>1. blocks \in Seq(S \cup {new})
      BY <2>1, SeqMonotonic
    <3>. QED
      BY <1>4, <2>2, <3>1, AppendedBefore
  <2>4. SubSeq(blocks, 1, Len(blocks)) = blocks
    BY <2>1, SubSeqFull
  <2>5. /\ config' = [k \in Driver!Keys |-> config'[k]]
        /\ config'[key] = Driver!Switched(s.by, s.value, old)
        /\ \A k \in Driver!Keys : k # key => config'[k] = config[k]
    BY <1>1, <1>4 DEF DriverInv, DriverTypes
  <2>6. new.key = key /\ new.by = s.by /\ new.value = s.value /\ new.old = old
        /\ (new.clean <=> key \notin astray)
    OBVIOUS
  <2>. HIDE DEF new, key, old
  <2>7. DriverTypes'
    BY <1>1, <2>2, <2>5, <2>6 DEF DriverInv, DriverTypes
  <2>8. Settled'
    <3>. SUFFICES ASSUME NEW k \in Driver!Keys \ astray
                  PROVE  config'[k] = Made(made[k], k, blocks')
      BY <1>1 DEF Settled
    <3>1. config[k] = Made(made[k], k, blocks)
      BY DEF DriverInv, Settled
    <3>2. Made(made[k], k, blocks') = AfterOne(new, k, Made(made[k], k, blocks))
      BY <1>4, <2>1, MadeByOpened
    <3>. QED
      BY <2>5, <2>6, <3>1, <3>2 DEF AfterOne, old
  <2>9. Restores'
    <3>. SUFFICES ASSUME NEW i \in 1 .. Len(blocks) + 1
                  PROVE  LET b == blocks'[i]
                         IN  IF b.clean THEN b.old = Made(made[b.key], b.key, SubSeq(blocks, 1, i - 1))
                             ELSE /\ b.key \in astray
                                  /\ \A j \in i .. Len(blocks) + 1 :
                                       blocks'[j].key = b.key => ~blocks'[j].clean
      BY <1>1, <2>2, <2>3 DEF Restores, Outside
    <3>1. CASE i = Len(blocks) + 1
      <4>1. blocks'[i] = new /\ SubSeq(blocks, 1, i - 1) = blocks
        BY <2>2, <2>4, <3>1
      <4>2. CASE key \notin astray
        <5>1. config[key] = Made(made[key], key, blocks)
          BY <1>1, <4>2 DEF DriverInv, Settled
        <5>. QED
          BY <2>6, <4>1, <4>2, <5>1 DEF old
      <4>3. CASE key \in astray
        <5>1. \A j \in i .. Len(blocks) + 1 : j = i
          BY <2>2, <3>1
        <5>. QED
          BY <2>6, <4>1, <4>3, <5>1
      <4>. QED
        BY <4>2, <4>3
    <3>2. CASE i \in 1 .. Len(blocks)
      <4>1. blocks'[i] = blocks[i]
        BY <2>2, <3>2
      <4>2. CASE blocks[i].clean
        BY <3>2, <4>1, <4>2 DEF DriverInv, Restores, Outside
      <4>3. CASE ~blocks[i].clean
        <5>1. /\ blocks[i].key \in astray
              /\ \A j \in i .. Len(blocks) : blocks[j].key = blocks[i].key => ~blocks[j].clean
          BY <3>2, <4>3 DEF DriverInv, Restores
        <5>2. ASSUME NEW j \in i .. Len(blocks) + 1, blocks'[j].key = blocks[i].key
              PROVE  ~blocks'[j].clean
          <6>1. CASE j = Len(blocks) + 1
            BY <2>2, <2>6, <5>1, <5>2, <6>1
          <6>2. CASE j # Len(blocks) + 1
            <7>1. j \in i .. Len(blocks) /\ j \in 1 .. Len(blocks)
              BY <2>2, <3>2, <6>2
            <7>. QED
              BY <2>2, <5>1, <5>2, <7>1
          <6>. QED
            BY <6>1, <6>2
        <5>. QED
          BY <4>1, <4>3, <5>1, <5>2
      <4>. QED
        BY <4>2, <4>3
    <3>3. i = Len(blocks) + 1 \/ i \in 1 .. Len(blocks)
      BY <2>2
    <3>. QED
      BY <3>1, <3>2, <3>3
  <2>. QED
    BY <1>2, <2>7, <2>8, <2>9 DEF DriverInv
<1>. QED
  BY <1>3, <1>4 DEF Driver!Open

\* A block is left, in one way or the other.
LEMMA BlockLeft ==
  ASSUME DriverInv, blocks # <<>>, blocks' = Driver!Front(blocks)
  PROVE  /\ Len(blocks) \in 1 .. Len(blocks)
         /\ \E S : blocks' \in Seq(S)
         /\ Len(blocks') = Len(blocks) - 1 /\ blocks' = Outside(Len(blocks))
         /\ \A i \in 1 .. Len(blocks') :
              /\ i \in 1 .. Len(blocks)
              /\ blocks'[i] = blocks[i]
              /\ SubSeq(blocks', 1, i - 1) = SubSeq(blocks, 1, i - 1)
         /\ \A value, key : Made(value, key, blocks)
                              = AfterOne(blocks[Len(blocks)], key, Made(value, key, blocks'))
<1>1. PICK S : blocks \in Seq(S)
  BY DEF DriverInv, DriverTypes
<1>. DEFINE a == SubSeq(blocks, 1, Len(blocks) - 1)
<1>2. /\ Len(blocks) \in Nat /\ Len(blocks) # 0 /\ blocks[Len(blocks)] \in S
      /\ a \in Seq(S) /\ Len(a) = Len(blocks) - 1
      /\ \A i \in 1 .. Len(blocks) - 1 : a[i] = blocks[i]
      /\ Append(a, blocks[Len(blocks)]) = blocks
  BY <1>1, Fronts
<1>3. blocks' = a
  BY DEF Driver!Front
<1>4. \A value, key : Made(value, key, blocks)
                        = AfterOne(blocks[Len(blocks)], key, Made(value, key, a))
  BY <1>1, MadeByInner
<1>5. a = Outside(Len(blocks))
  BY DEF Outside
<1>. HIDE DEF a
<1>6. \A i \in 1 .. Len(a) : i \in 1 .. Len(a) + 1 /\ i \in 1 .. Len(blocks)
  BY <1>2
<1>7. \A i \in 1 .. Len(a) : SubSeq(a, 1, i - 1) = SubSeq(blocks, 1, i - 1)
  BY <1>2, <1>6, AppendedBefore
<1>. QED
  BY <1>2, <1>3, <1>4, <1>5, <1>6, <1>7

LEMMA CloseKeeps == ASSUME DriverInv, Driver!Close PROVE DriverInv'
<1>. DEFINE n == Len(blocks)
            b == blocks[n]
<1>1. /\ blocks # <<>> /\ blocks' = Driver!Front(blocks)
      /\ config' = [config EXCEPT ![b.key] = b.old]
      /\ astray' = IF b.clean THEN astray \ {b.key} ELSE astray
      /\ UNCHANGED <<last, request, made>>
  BY DEF Driver!Close, Driver!Last
<1>2. /\ n \in 1 .. n /\ Len(blocks') = n - 1 /\ blocks' = Outside(n)
      /\ \E S : blocks' \in Seq(S)
      /\ \A i \in 1 .. Len(blocks') :
           i \in 1 .. n /\ blocks'[i] = blocks[i]
           /\ SubSeq(blocks', 1, i - 1) = SubSeq(blocks, 1, i - 1)
      /\ \A value, key : Made(value, key, blocks) = AfterOne(b, key, Made(value, key, blocks'))
  BY <1>1, BlockLeft
<1>3. b.key \in Driver!Keys
  BY <1>2 DEF DriverInv, DriverTypes
<1>4. /\ config' = [k \in Driver!Keys |-> config'[k]]
      /\ config'[b.key] = b.old
      /\ \A k \in Driver!Keys : k # b.key => config'[k] = config[k]
  BY <1>1, <1>3 DEF DriverInv, DriverTypes
<1>5. DriverTypes'
  BY <1>2, <1>4 DEF DriverInv, DriverTypes
<1>6. IF b.clean THEN b.old = Made(made[b.key], b.key, blocks')
      ELSE b.key \in astray
  BY <1>2 DEF DriverInv, Restores
<1>7. Restores'
  <2>. SUFFICES ASSUME NEW i \in 1 .. Len(blocks')
                PROVE  LET c == blocks[i]
                       IN  IF c.clean THEN c.old = Made(made[c.key], c.key, SubSeq(blocks, 1, i - 1))
                           ELSE /\ c.key \in astray'
                                /\ \A j \in i .. Len(blocks') :
                                     blocks'[j].key = c.key => ~blocks'[j].clean
    BY <1>1, <1>2 DEF Restores, Outside
  <2>1. i \in 1 .. n /\ n \in i .. n /\ \A j \in i .. Len(blocks') : j \in i .. n /\ j \in 1 .. Len(blocks')
    BY <1>2
  <2>2. CASE blocks[i].clean
    BY <2>1, <2>2 DEF DriverInv, Restores, Outside
  <2>3. CASE ~blocks[i].clean
    <3>1. /\ blocks[i].key \in astray
          /\ \A j \in i .. n : blocks[j].key = blocks[i].key => ~blocks[j].clean
      BY <2>1, <2>3 DEF DriverInv, Restores
    <3>2. b.clean => blocks[i].key # b.key
      BY <2>1, <3>1
    <3>3. blocks[i].key \in astray'
      BY <1>1, <3>1, <3>2
    <3>. QED
      BY <1>2, <2>1, <2>3, <3>1, <3>3
  <2>. QED
    BY <2>2, <2>3
<1>8. Settled'
  <2>. SUFFICES ASSUME NEW key \in Driver!Keys, key \notin astray'
                PROVE  config'[key] = Made(made[key], key, blocks')
    BY <1>1 DEF Settled
  <2>1. CASE key = b.key
    <3>1. b.clean
      BY <1>1, <1>6, <2>1
    <3>. QED
      BY <1>4, <1>6, <2>1, <3>1
  <2>2. CASE key # b.key
    <3>1. key \notin astray
      BY <1>1, <2>2
    <3>2. config[key] = Made(made[key], key, blocks)
      BY <3>1 DEF DriverInv, Settled
    <3>. QED
      BY <1>2, <1>4, <2>2, <3>2 DEF AfterOne
  <2>. QED
    BY <2>1, <2>2
<1>9. Latest'
  BY <1>1 DEF DriverInv, Latest
<1>. QED
  BY <1>5, <1>7, <1>8, <1>9 DEF DriverInv

LEMMA LeaveKeeps == ASSUME DriverInv, Driver!LeaveRaising PROVE DriverInv'
<1>. DEFINE n == Len(blocks)
            b == blocks[n]
<1>1. /\ blocks # <<>> /\ blocks' = Driver!Front(blocks)
      /\ astray' = astray \cup {b.key}
      /\ UNCHANGED <<config, last, request, made>>
  BY DEF Driver!LeaveRaising, Driver!Last
<1>2. /\ n \in 1 .. n /\ Len(blocks') = n - 1
      /\ \E S : blocks' \in Seq(S)
      /\ \A i \in 1 .. Len(blocks') :
           i \in 1 .. n /\ blocks'[i] = blocks[i]
           /\ SubSeq(blocks', 1, i - 1) = SubSeq(blocks, 1, i - 1)
      /\ \A value, key : Made(value, key, blocks) = AfterOne(b, key, Made(value, key, blocks'))
  BY <1>1, BlockLeft
<1>3. DriverTypes'
  BY <1>1, <1>2 DEF DriverInv, DriverTypes
<1>4. Restores'
  <2>. SUFFICES ASSUME NEW i \in 1 .. Len(blocks')
                PROVE  LET c == blocks[i]
                       IN  IF c.clean THEN c.old = Made(made[c.key], c.key, SubSeq(blocks, 1, i - 1))
                           ELSE /\ c.key \in astray'
                                /\ \A j \in i .. Len(blocks') :
                                     blocks'[j].key = c.key => ~blocks'[j].clean
    <3>1. made' = made
      BY <1>1
    <3>. QED
      BY <1>2, <3>1 DEF Restores, Outside
  <2>1. i \in 1 .. n /\ \A j \in i .. Len(blocks') : j \in i .. n /\ j \in 1 .. Len(blocks')
    BY <1>2
  <2>2. CASE blocks[i].clean
    BY <2>1, <2>2 DEF DriverInv, Restores, Outside
  <2>3. CASE ~blocks[i].clean
    <3>1. /\ blocks[i].key \in astray'
          /\ \A j \in i .. n : blocks[j].key = blocks[i].key => ~blocks[j].clean
      BY <1>1, <2>1, <2>3 DEF DriverInv, Restores
    <3>. QED
      BY <1>2, <2>1, <2>3, <3>1
  <2>. QED
    BY <2>2, <2>3
<1>5. Settled'
  <2>. SUFFICES ASSUME NEW key \in Driver!Keys, key \notin astray'
                PROVE  config[key] = Made(made[key], key, blocks')
    BY <1>1 DEF Settled
  <2>1. key # b.key /\ config[key] = Made(made[key], key, blocks)
    BY <1>1 DEF DriverInv, Settled
  <2>. QED
    BY <1>2, <2>1 DEF AfterOne
<1>6. Latest'
  BY <1>1 DEF DriverInv, Latest
<1>. QED
  BY <1>3, <1>4, <1>5, <1>6 DEF DriverInv

LEMMA SendKeeps == ASSUME DriverInv, NEW c \in Calls, Driver!Send(c) PROVE DriverInv'
<1>1. UNCHANGED <<config, blocks, made, astray>>
  BY DEF Driver!Send
<1>2. Latest'
  <2>1. CASE Driver!RefuseEarly(c)
    BY <2>1 DEF Driver!RefuseEarly, DriverInv, Latest
  <2>2. CASE Driver!RefuseLate(c)
    BY <2>2 DEF Driver!RefuseLate, Latest
  <2>3. CASE Driver!SendInVain(c)
    BY <2>3 DEF Driver!SendInVain, Latest
  <2>4. CASE Driver!SendAnswered(c)
    <3>1. last' = [url |-> Driver!Url, number |-> sent + 1]
      BY <2>4 DEF Driver!SendAnswered
    <3>2. request'.url = Driver!Url /\ request'.number = sent + 1
      BY <2>4 DEF Driver!SendAnswered, Driver!Requested
    <3>. QED
      BY <3>1, <3>2 DEF Latest
  <2>. QED
    BY <2>1, <2>2, <2>3, <2>4 DEF Driver!Send
<1>. QED
  BY <1>1, <1>2, RestIsKept DEF DriverInv

LEMMA DriverSteps == DriverInv /\ [Driver!Next]_(Driver!driverVars) => DriverInv'
<1>. SUFFICES ASSUME DriverInv, [Driver!Next]_(Driver!driverVars) PROVE DriverInv'
  OBVIOUS
<1>1. CASE UNCHANGED Driver!driverVars \/ Driver!Raise \/ Driver!Catch
  <2>1. UNCHANGED <<config, blocks, made, astray, last, request>>
    BY <1>1 DEF Driver!driverVars, Driver!Raise, Driver!Catch
  <2>2. Latest'
    BY <2>1 DEF DriverInv, Latest
  <2>. QED
    BY <2>1, <2>2, RestIsKept DEF DriverInv
<1>. QED
  BY <1>1, OpenKeeps, CloseKeeps, LeaveKeeps, SendKeeps DEF Driver!Next

-----------------------------------------------------------------------------
(* The driver: its headers                                                 *)

\* A header is set without touching the others.
LEMMA WithOthers ==
  ASSUME NEW h, NEW name, NEW value, NEW other, other # name
  PROVE  /\ other \in DOMAIN Driver!With(h, name, value) <=> other \in DOMAIN h
         /\ other \in DOMAIN h => Driver!With(h, name, value)[other] = h[other]
BY DEF Driver!With

\* The Referer of a request whose call gives none is the settings', or the last
\* response's.
LEMMA RefererOfRequest ==
  ASSUME NEW c, "Referer" \notin DOMAIN c.headers
  PROVE  \/ Driver!Requested(c).referer = Driver!OwnReferer
         \/ c.referrer /\ last # None /\ Driver!Requested(c).referer = last.url
<1>. DEFINE configured == Driver!With(config.headers, "Referer", config.referer)
            referred   == IF c.referrer /\ last # None
                            THEN Driver!With(configured, "Referer", last.url) ELSE configured
            named1     == Driver!With(referred, "Origin", config.origin)
            named2     == Driver!With(named1, "Authorization", config.authorization)
            named      == Driver!With(named2, "Host", Driver!EffectiveDomain)
            RefererIn(h) == IF "Referer" \in DOMAIN h THEN h["Referer"] ELSE None
<1>1. RefererIn(configured) = Driver!OwnReferer
  BY DEF Driver!OwnReferer
<1>2. \/ referred = configured
      \/ c.referrer /\ last # None /\ RefererIn(referred) = last.url
  <2>. HIDE DEF configured
  <2>1. CASE c.referrer /\ last # None /\ last.url # None
    <3>1. referred = Driver!With(configured, "Referer", last.url)
      BY <2>1
    <3>2. "Referer" \in DOMAIN referred /\ referred["Referer"] = last.url
      BY <2>1, <3>1 DEF Driver!With
    <3>. QED
      BY <2>1, <3>2
  <2>2. CASE ~(c.referrer /\ last # None /\ last.url # None)
    BY <2>2 DEF Driver!With
  <2>. QED
    BY <2>1, <2>2
<1>. HIDE DEF configured, referred
<1>3. RefererIn(named1) = RefererIn(referred)
  BY WithOthers
<1>. HIDE DEF named1
<1>4. RefererIn(named2) = RefererIn(named1)
  BY WithOthers
<1>. HIDE DEF named2
<1>5. RefererIn(named) = RefererIn(named2)
  BY WithOthers
<1>6. Driver!HeadersOf(c) = Driver!Over(named, c.headers)
  BY DEF Driver!HeadersOf, named2, named1, referred, configured
<1>. HIDE DEF named
<1>7. RefererIn(Driver!Over(named, c.headers)) = RefererIn(named)
  BY DEF Driver!Over
<1>8. Driver!Requested(c).referer = RefererIn(Driver!HeadersOf(c))
  BY DEF Driver!Requested
<1>. QED
  BY <1>1, <1>2, <1>3, <1>4, <1>5, <1>6, <1>7, <1>8

\* What the step of a request shows.
LEMMA RefererStep ==
  ASSUME DriverInv, [Driver!Next]_(Driver!driverVars),
         request' # request, ~request'.given, request'.referer # Driver!OwnReferer
  PROVE  last # None /\ last.number = request.number /\ request'.referer = request.url
<1>1. PICK c \in Calls : Driver!Send(c)
  <2>1. ~UNCHANGED Driver!driverVars
    BY DEF Driver!driverVars
  <2>. QED
    BY <2>1 DEF Driver!Next, Driver!Open, Driver!Close, Driver!Raise, Driver!LeaveRaising,
                Driver!Catch
<1>2. request' = Driver!Requested(c)
  BY <1>1 DEF Driver!Send, Driver!RefuseEarly, Driver!RefuseLate, Driver!SendInVain,
              Driver!SendAnswered
<1>3. "Referer" \notin DOMAIN c.headers
  BY <1>2 DEF Driver!Requested
<1>4. last # None /\ request'.referer = last.url
  BY <1>2, <1>3, RefererOfRequest
<1>. QED
  BY <1>4 DEF DriverInv, Latest

-----------------------------------------------------------------------------
\* The tools beside each other behave each as by itself: one is at work, and the
\* others stay as at first.
THEOREM ToolsAreTheirSpecs == FairSpec => Driver!Spec /\ Spec /\ Varnish!Spec
<1>1. ToolsInit => Driver!Init /\ Init /\ Varnish!Init
  BY DEF ToolsInit
<1>2. [ToolsNext]_<<tool, driverVars, commandVars, supervisorVars>>
        => /\ [Driver!Next]_(Driver!driverVars)
           /\ [Next]_commandVars
           /\ [Varnish!Next]_(Varnish!supervisorVars)
  BY DEF ToolsNext, driverVars, supervisorVars, Driver!driverVars, Varnish!supervisorVars,
         Varnish!loop, Varnish!ghosts
<1>. QED
  BY <1>1, <1>2, PTL DEF FairSpec, Driver!Spec, Spec, Varnish!Spec

\* BlocksInForce (drivers/base.py:372-377): whatever blocks a test opens, ends or
\* leaves by exceptions, and in whatever order, every setting that none of them left
\* astray is what the blocks now open say.
THEOREM BlocksStayInForce == FairSpec => []BlocksInForce
<1>1. DriverInv => BlocksInForce
  BY InForceIsMade DEF DriverInv, Settled, BlocksInForce, Driver!BlocksInForce
<1>. QED
  BY <1>1, DriverStarts, DriverSteps, ToolsAreTheirSpecs, PTL DEF Driver!Spec

\* RefererOfLatest (drivers/base.py:313-314, 328): a Referer that neither call nor
\* settings gave is the URL of the request just before, and only if it was answered.
THEOREM ReferersAreLatest == FairSpec => RefererOfLatest
<1>1. DriverInv /\ [Driver!Next]_(Driver!driverVars)
        => [ request' # request /\ ~request'.given /\ request'.referer # Driver!OwnReferer
               => last # None /\ last.number = request.number
                  /\ request'.referer = request.url ]_(Driver!driverVars)
  BY RefererStep
<1>. QED
  BY <1>1, DriverStarts, DriverSteps, ToolsAreTheirSpecs, PTL
     DEF Driver!Spec, RefererOfLatest, Driver!RefererOfLatest

\* RestartsAreAsked (handler.py:15-19, 39-42): a child after the first was always
\* asked for by a SIGHUP of its own, whatever signals came, and at whatever line.
THEOREM RestartsStayAsked == FairSpec => []RestartsAreAsked
<1>1. SupervisorInv => RestartsAreAsked
  BY DEF SupervisorInv, SupervisorTypes, Paid, Decided, Asked, RestartsAreAsked,
         Varnish!RestartsAreAsked
<1>. QED
  BY <1>1, SupervisorStarts, SupervisorSteps, ToolsAreTheirSpecs, PTL DEF Varnish!Spec
=============================================================================
