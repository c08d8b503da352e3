----------------------- MODULE ServiceArguments_proofs -----------------------
(***************************************************************************)
(* Proofs about ServiceArguments: for any services, environments, hosts    *)
(* and limits.                                                             *)
(*                                                                         *)
(* The state of a start is the invariant Grounded: types, and services     *)
(* that are resolved one after the other, each in its own environment.     *)
(* Settled says that the values kept so far are those that the reference   *)
(* gives through no more references than there are values, so that any     *)
(* order of resolving ends with the same; Rendered follows the templates,  *)
(* Connections the hosts.  Steps come in few kinds (Kinds), so that each   *)
(* invariant is checked against these and not against every action.        *)
(***************************************************************************)
EXTENDS ServiceArguments, FiniteSetTheorems, SequenceTheorems, WellFoundedInduction, TLAPS

-----------------------------------------------------------------------------
(* Induction: an interval's smallest element that is not as it should be.  *)

\* A set of natural numbers has a smallest one.
LEMMA Smallest ==
  ASSUME NEW S \in SUBSET Nat, S # {}
  PROVE  \E n \in S : \A m \in S : n <= m
<1>. DEFINE Less == OpToRel(<, Nat)
<1>1. IsWellFoundedOn(Less, Nat)
  BY NatLessThanWellFounded
<1>2. ASSUME NEW m \in Nat, NEW n \in Nat, m < n
      PROVE  <<m, n>> \in Less
  <2>1. <<m, n>> \in Nat \X Nat /\ <<m, n>>[1] = m /\ <<m, n>>[2] = n
    OBVIOUS
  <2>. QED
    BY <1>2, <2>1 DEF OpToRel
<1>. HIDE DEF Less
<1>3. PICK n \in S : \A m \in S : ~(<<m, n>> \in Less)
  BY <1>1, WFMin
<1>4. \A m \in S : ~(m < n)
  BY <1>2, <1>3
<1>. QED
  BY <1>3, <1>4

\* A bounded set of natural numbers has a greatest one.
LEMMA Greatest ==
  ASSUME NEW S \in SUBSET Nat, S # {}, NEW b \in Nat, \A n \in S : n <= b
  PROVE  \E n \in S : \A m \in S : m <= n
<1>. DEFINE D == {d \in Nat : b - d \in S}
<1>1. D # {}
  <2>1. PICK n \in S : TRUE
    OBVIOUS
  <2>2. b - n \in D
    BY <2>1
  <2>. QED
    BY <2>2
<1>2. PICK d \in D : \A e \in D : d <= e
  BY <1>1, Smallest
<1>3. \A m \in S : b - m \in D
  OBVIOUS
<1>. QED
  BY <1>2, <1>3

-----------------------------------------------------------------------------
(* What the arguments are worth                                            *)

\* The equation of Through.
Follows(s, given, w, D) ==
  w = [d \in D |->
        [n \in Names |-> IF d > 0 /\ Refers(s, given, n)
                         THEN w[d - 1][SchemeOf(s, n).default.name]
                         ELSE OwnWorth(s, given, n)]]

\* It has a solution, however far the references are followed.
LEMMA ThroughExists ==
  ASSUME NEW s, NEW given, NEW k \in Nat
  PROVE  \E w : Follows(s, given, w, 0 .. k)
<1>. DEFINE Without == {m \in Nat : ~\E w : Follows(s, given, w, 0 .. m)}
<1>1. 0 \notin Without
  <2>. DEFINE w == [d \in 0 .. 0 |-> [n \in Names |-> OwnWorth(s, given, n)]]
  <2>1. Follows(s, given, w, 0 .. 0)
    BY DEF Follows
  <2>. QED
    BY <2>1
<1>2. ASSUME NEW m \in Nat, m \notin Without
      PROVE  m + 1 \notin Without
  <2>1. PICK g : Follows(s, given, g, 0 .. m)
    BY <1>2
  <2>. DEFINE body(f, d) == [n \in Names |->
                               IF d > 0 /\ Refers(s, given, n)
                               THEN f[d - 1][SchemeOf(s, n).default.name]
                               ELSE OwnWorth(s, given, n)]
              h == [d \in 0 .. m + 1 |-> IF d <= m THEN g[d] ELSE body(g, d)]
  <2>2. \A d \in 0 .. m : g[d] = body(g, d)
    BY <2>1 DEF Follows
  <2>3. \A d \in 0 .. m + 1 : body(h, d) = body(g, d)
    OBVIOUS
  <2>4. \A d \in 0 .. m + 1 : h[d] = body(h, d)
    <3>. HIDE DEF body
    <3>. QED
      BY <2>2, <2>3
  <2>5. h = [d \in 0 .. m + 1 |-> h[d]]
    OBVIOUS
  <2>6. h = [d \in 0 .. m + 1 |-> body(h, d)]
    <3>. HIDE DEF h, body
    <3>. QED
      BY <2>4, <2>5
  <2>7. Follows(s, given, h, 0 .. m + 1)
    <3>. HIDE DEF h
    <3>. QED
      BY <2>6 DEF Follows
  <2>. QED
    BY <2>7
<1>3. Without = {}
  <2>. SUFFICES ASSUME Without # {} PROVE FALSE
    OBVIOUS
  <2>1. PICK m \in Without : \A o \in Without : m <= o
    BY Smallest
  <2>2. m # 0 /\ m - 1 \in Nat /\ m - 1 \notin Without
    <3>1. m \in Nat /\ m # 0
      BY <1>1, <2>1
    <3>2. m - 1 \in Nat /\ ~(m <= m - 1)
      BY <3>1
    <3>. QED
      BY <2>1, <3>1, <3>2
  <2>3. (m - 1) + 1 \notin Without
    BY <1>2, <2>2
  <2>. QED
    BY <2>1, <2>3
<1>. QED
  BY <1>3

LEMMA ThroughFollows ==
  ASSUME NEW s, NEW given
  PROVE  Follows(s, given, Through(s, given), 0 .. Cardinality(Names))
<1>1. Cardinality(Names) \in Nat
  BY ConstantsAssumption, FS_CardinalityType DEF ConstantsAssumption
<1>2. \E w : Follows(s, given, w, 0 .. Cardinality(Names))
  BY <1>1, ThroughExists
<1>3. Through(s, given) = CHOOSE w : Follows(s, given, w, 0 .. Cardinality(Names))
  BY DEF Through, Follows
<1>. QED
  BY <1>2, <1>3

-----------------------------------------------------------------------------
(* Types                                                                   *)

\* A text that is taken gives a value of its type.
LEMMA PrimitiveHasType ==
  ASSUME NEW type, NEW text, ParsePrimitive(type, text) # Bad
  PROVE  IsPrimitive(type, ParsePrimitive(type, text))
<1>1. CASE type = "str"
  BY <1>1 DEF ParsePrimitive, IsPrimitive
<1>2. CASE type = "int"
  <2>1. ParsePrimitive(type, text) = IF OneWord(text) /\ text[1][1] \in DOMAIN Number
                                     THEN <<"int", Number[text[1][1]]>> ELSE Bad
    BY <1>2 DEF ParsePrimitive
  <2>2. text[1][1] \in DOMAIN Number => Number[text[1][1]] \in Nat
    BY WordsAssumption DEF WordsAssumption
  <2>. QED
    BY <1>2, <2>1, <2>2 DEF IsPrimitive
<1>3. CASE type \in {"bool", "wait"}
  <2>1. ParsePrimitive(type, text) \in {<<"bool", TRUE>>, <<"bool", FALSE>>, Bad}
    BY <1>3 DEF ParsePrimitive
  <2>2. ASSUME NEW b \in BOOLEAN
        PROVE  IsPrimitive(type, <<"bool", b>>)
    BY <1>3 DEF IsPrimitive
  <2>3. IsPrimitive(type, <<"bool", TRUE>>) /\ IsPrimitive(type, <<"bool", FALSE>>)
    BY <2>2
  <2>. QED
    BY <2>1, <2>3
<1>4. CASE type \notin {"str", "int", "bool", "wait"}
  BY <1>4 DEF ParsePrimitive
<1>. QED
  BY <1>1, <1>2, <1>3, <1>4

LEMMA PartsHaveTypes ==
  ASSUME NEW types, NEW text, ParseParts(types, text) # Bad
  PROVE  \E values : /\ ParseParts(types, text) = <<"parts", values>>
                     /\ DOMAIN values = DOMAIN text
                     /\ \A i \in DOMAIN text : IsPrimitive(types[i], values[i])
<1>. DEFINE values == [i \in DOMAIN text |-> ParsePrimitive(types[i], <<text[i]>>)]
<1>1. ParseParts(types, text) = <<"parts", values>> /\ \A i \in DOMAIN values : values[i] # Bad
  BY DEF ParseParts
<1>2. \A i \in DOMAIN text : IsPrimitive(types[i], values[i])
  BY <1>1, PrimitiveHasType
<1>. QED
  BY <1>1, <1>2

LEMMA ListHasType ==
  ASSUME NEW scheme, scheme.type = "list", NEW text, ParseList(scheme.of, text) # Bad
  PROVE  HasType(scheme, ParseList(scheme.of, text))
<1>1. CASE text = <<<<"">>>>
  <2>1. ParseList(scheme.of, text) = <<"list", <<>>>>
    BY <1>1 DEF ParseList
  <2>2. DOMAIN <<>> = {}
    OBVIOUS
  <2>. QED
    BY <2>1, <2>2 DEF HasType
<1>2. CASE text # <<<<"">>>>
  <2>. DEFINE types == [i \in DOMAIN text |-> scheme.of[1]]
              parsed == ParseParts(types, text)
  <2>1. parsed # Bad /\ ParseList(scheme.of, text) = <<"list", parsed[2]>>
    BY <1>2 DEF ParseList
  <2>2. PICK values : /\ parsed = <<"parts", values>> /\ DOMAIN values = DOMAIN text
                      /\ \A i \in DOMAIN text : IsPrimitive(types[i], values[i])
    BY <2>1, PartsHaveTypes
  <2>3. \A i \in DOMAIN values : IsPrimitive(scheme.of[1], values[i])
    BY <2>2
  <2>4. ParseList(scheme.of, text) = <<"list", values>>
    BY <2>1, <2>2
  <2>. QED
    BY <2>3, <2>4 DEF HasType
<1>. QED
  BY <1>1, <1>2

LEMMA TupleHasType ==
  ASSUME NEW scheme, scheme.type = "tuple", IsList(scheme.of), NEW text \in Text,
         ParseTuple(scheme.of, text) # Bad
  PROVE  HasType(scheme, ParseTuple(scheme.of, text))
<1>. DEFINE parsed == ParseParts(scheme.of, text)
<1>1. Len(text) = Len(scheme.of) /\ parsed # Bad
      /\ ParseTuple(scheme.of, text) = <<"tuple", parsed[2]>>
  BY DEF ParseTuple
<1>2. DOMAIN text = DOMAIN scheme.of
  <2>1. DOMAIN text = 1 .. Len(text)
    BY DEF Text
  <2>. QED
    BY <1>1, <2>1 DEF IsList
<1>3. PICK values : /\ parsed = <<"parts", values>> /\ DOMAIN values = DOMAIN text
                    /\ \A i \in DOMAIN text : IsPrimitive(scheme.of[i], values[i])
  BY <1>1, PartsHaveTypes
<1>4. ParseTuple(scheme.of, text) = <<"tuple", values>>
  BY <1>1, <1>3
<1>. QED
  BY <1>2, <1>3, <1>4 DEF HasType

LEMMA DictHasType ==
  ASSUME NEW scheme, scheme.type = "dict", NEW text \in Text, ParseDict(scheme.of, text) # Bad
  PROVE  HasType(scheme, ParseDict(scheme.of, text))
<1>. DEFINE of == scheme.of
            key(i) == ParsePrimitive(of[1], <<<<Head(text[i])>>>>)
            val(i) == ParsePrimitive(of[2], <<Tail(text[i])>>)
            keys   == {key(i) : i \in DOMAIN text}
            last(k) == CHOOSE i \in DOMAIN text :
                         key(i) = k /\ \A j \in i + 1 .. Len(text) : key(j) # k
            pairs == {<<k, val(last(k))>> : k \in keys}
<1>1. /\ \A i \in DOMAIN text : key(i) # Bad /\ val(i) # Bad
      /\ ParseDict(scheme.of, text) = <<"dict", pairs>>
  BY DEF ParseDict
<1>2. \A i \in DOMAIN text : IsPrimitive(of[1], key(i)) /\ IsPrimitive(of[2], val(i))
  BY <1>1, PrimitiveHasType
<1>3. DOMAIN text = 1 .. Len(text) /\ Len(text) \in Nat
  BY DEF Text
<1>. HIDE DEF of, key, val
<1>4. ASSUME NEW k \in keys
      PROVE  last(k) \in DOMAIN text
  <2>. DEFINE S == {i \in DOMAIN text : key(i) = k}
  <2>1. S \in SUBSET Nat /\ S # {} /\ \A i \in S : i <= Len(text)
    BY <1>3
  <2>2. PICK i \in S : \A j \in S : j <= i
    BY <1>3, <2>1, Greatest
  <2>3. \A j \in i + 1 .. Len(text) : key(j) # k
    BY <1>3, <2>2
  <2>4. \E j \in DOMAIN text : key(j) = k /\ \A l \in j + 1 .. Len(text) : key(l) # k
    BY <2>2, <2>3
  <2>. QED
    BY <2>4
<1>5. \A k \in keys : IsPrimitive(of[1], k) /\ IsPrimitive(of[2], val(last(k)))
  <2>. HIDE DEF last
  <2>. QED
    BY <1>2, <1>4
<1>. HIDE DEF keys, last
<1>6. /\ \A p \in pairs : IsPrimitive(of[1], p[1]) /\ IsPrimitive(of[2], p[2])
      /\ \A p, q \in pairs : p[1] = q[1] => p = q
  BY <1>5
<1>7. <<"dict", pairs>>[1] = "dict" /\ <<"dict", pairs>>[2] = pairs
  OBVIOUS
<1>. HIDE DEF pairs
<1>. QED
  BY <1>1, <1>6, <1>7 DEF HasType, of

\* Whatever text is taken for a scheme gives a value that the scheme announces.
LEMMA ParseHasType ==
  ASSUME NEW scheme, scheme.type = "tuple" => IsList(scheme.of), NEW text \in Text,
         Parse(scheme, text) # Bad
  PROVE  HasType(scheme, Parse(scheme, text))
<1>1. CASE scheme.type = "list"
  BY <1>1, ListHasType DEF Parse
<1>2. CASE scheme.type = "tuple"
  BY <1>2, TupleHasType DEF Parse
<1>3. CASE scheme.type = "dict"
  BY <1>3, DictHasType DEF Parse
<1>4. CASE scheme.type \notin {"list", "tuple", "dict"}
  BY <1>4, PrimitiveHasType DEF Parse, HasType
<1>. QED
  BY <1>1, <1>2, <1>3, <1>4

\* A declaration that is taken has the types of its elements in a list.
LEMMA TupleOfList ==
  ASSUME NEW spec, IsSpec(spec), Normalize(spec) # Refused, Normalize(spec).type = "tuple"
  PROVE  IsList(Normalize(spec).of)
<1>1. CASE spec.form \notin {"list", "tuple"}
  <2>1. Normalize(spec) = NormalizeFlat(spec)
    BY <1>1 DEF Normalize
  <2>2. CASE spec.form = "scheme"
    BY <2>1, <2>2 DEF NormalizeFlat, IsSpec
  <2>3. CASE spec.form # "scheme"
    <3>1. Normalize(spec).of = <<>>
      BY <2>1, <2>3 DEF NormalizeFlat, Scheme
    <3>. QED
      BY <3>1 DEF IsList
  <2>. QED
    BY <2>2, <2>3
<1>2. CASE spec.form \in {"list", "tuple"}
  <2>. DEFINE schemes == [i \in DOMAIN spec.items |-> NormalizeFlat(spec.items[i])]
              n == Len(spec.items)
  <2>1. DOMAIN schemes = 1 .. n /\ n \in Nat
    BY <1>2 DEF IsSpec, IsList
  <2>2. CASE spec.form = "list"
    <3>1. Normalize(spec) = NormalizeList(schemes)
      BY <2>2 DEF Normalize
    <3>. HIDE DEF schemes
    <3>2. Normalize(spec).type = "list"
      BY <3>1 DEF NormalizeList, Scheme
    <3>. QED
      BY <3>2
  <2>3. CASE spec.form = "tuple"
    <3>1. Normalize(spec) = NormalizeTuple(schemes)
      BY <2>3 DEF Normalize
    <3>. HIDE DEF schemes
    <3>2. Normalize(spec).of = [i \in DOMAIN schemes |-> schemes[i].type]
      BY <3>1 DEF NormalizeTuple, Scheme
    <3>3. Normalize(spec).of \in [1 .. n -> {schemes[i].type : i \in DOMAIN schemes}]
      BY <2>1, <3>2
    <3>4. Normalize(spec).of \in Seq({schemes[i].type : i \in DOMAIN schemes})
      BY <2>1, <3>3, SeqDef
    <3>. QED
      BY <3>4 DEF IsList
  <2>. QED
    BY <1>2, <2>2, <2>3
<1>. QED
  BY <1>1, <1>2

-----------------------------------------------------------------------------
(* The state of a start                                                    *)

Working == {"resolve", "wait", "last wait", "initialize", "render", "ended"}

\* The argument whose host is waited for.
Waiting ==
  /\ stack # <<>> /\ Resolving \in Args(Here) /\ Raw(Resolving) # None
  /\ SchemeOf(Here, Resolving).type = "wait"
  /\ Parse(SchemeOf(Here, Resolving), Raw(Resolving)) = <<"bool", TRUE>>
  /\ memo[at][Here.host[Resolving]] # None

\* Services are resolved one after the other, in the environment of their turn, and
\* only when all declarations were taken.
InContext ==
  /\ \A i \in DOMAIN services : i > at \/ pc = "declare" =>
       \A n \in Names : memo[i][n] = None
  /\ pc \in {"declare", "resolve", "wait"} => base[at] = environ
  /\ pc \in Working => \A i \in DOMAIN services : Declarable(i)
  /\ pc = "wait" => Waiting

LEMMA SetupType ==
  ASSUME NEW setup \in Setups
  PROVE  /\ Len(setup) \in Nat \ {0} /\ DOMAIN setup = 1 .. Len(setup)
         /\ \A i \in DOMAIN setup : Service(setup[i])
BY ConstantsAssumption DEF ConstantsAssumption, IsList

LEMMA HereType ==
  ASSUME services \in Setups, at \in DOMAIN services
  PROVE  /\ Here.args \in Seq(Names) /\ Len(Here.args) \in Nat
         /\ Here.targets \in Seq(Targets) /\ Len(Here.targets) \in Nat
         /\ Args(Here) \subseteq Names
         /\ DOMAIN Here.host = {n \in Args(Here) : SchemeOf(Here, n).type = "wait"}
         /\ \A n \in DOMAIN Here.host : Here.host[n] \in Names
         /\ \A n \in Args(Here) : SchemeOf(Here, n) # Refused
                                  /\ SchemeOf(Here, n).default.kind = "ref" =>
                                    SchemeOf(Here, n).default.name \in Names
<1>1. Service(Here)
  BY SetupType DEF Here
<1>2. Here.args \in Seq(Names) /\ Here.targets \in Seq(Targets)
  BY <1>1 DEF Service
<1>3. Args(Here) \subseteq Names
  BY <1>2 DEF Args
<1>. QED
  BY <1>1, <1>2, <1>3 DEF Service

LEMMA Bounds ==
  /\ Patience \in Nat /\ MaxDepth \in Nat \ {0}
  /\ MaxStarts \in Nat /\ MaxFlips \in Nat /\ MaxFaults \in Nat
BY ConstantsAssumption DEF ConstantsAssumption

\* What Keep does.
LEMMA KeepEffect ==
  ASSUME TypeOK, stack # <<>>, NEW value, Keep(value)
  PROVE  /\ Resolving \in Names
         /\ stack' \in Seq(Names) /\ Len(stack') <= MaxDepth
         /\ DOMAIN memo' = DOMAIN services
         /\ \A i \in DOMAIN services : DOMAIN memo'[i] = Names
         /\ \A i \in DOMAIN services : \A n \in Names :
              memo'[i][n] = IF i = at /\ n = Resolving THEN value ELSE memo[i][n]
         /\ pc' = "resolve"
         /\ UNCHANGED <<at, next, environ, left, outputs, base, faults>>
<1>0. stack \in Seq(Names) /\ Len(stack) <= MaxDepth
  BY DEF TypeOK
<1>1. stack \in Seq(Names) /\ Len(stack) \in Nat \ {0} /\ Len(stack) <= MaxDepth
  BY <1>0
<1>2. Resolving \in Names
  BY <1>1 DEF Resolving
<1>3. stack' = SubSeq(stack, 1, Len(stack) - 1)
  BY DEF Keep
<1>4. stack' \in Seq(Names) /\ Len(stack') = Len(stack) - 1
  <2>. DEFINE k == Len(stack) - 1
              rest == SubSeq(stack, 1, k)
  <2>1. k \in Nat /\ \A j \in 1 .. k : stack[j] \in Names
    BY <1>1
  <2>. HIDE DEF k
  <2>2. rest \in Seq(Names) /\ Len(rest) = IF 1 <= k THEN k - 1 + 1 ELSE 0
    BY <2>1, SubSeqProperties
  <2>. HIDE DEF rest
  <2>3. rest \in Seq(Names) /\ Len(rest) = k
    BY <2>1, <2>2
  <2>4. stack' = rest
    BY <1>3 DEF rest, k
  <2>. QED
    BY <2>3, <2>4 DEF k
<1>5. memo' = [memo EXCEPT ![at][Resolving] = value]
  BY DEF Keep
<1>6. /\ at \in DOMAIN memo /\ DOMAIN memo = DOMAIN services
      /\ \A i \in DOMAIN memo : DOMAIN memo[i] = Names
  BY DEF TypeOK
<1>7. /\ DOMAIN memo' = DOMAIN services
      /\ \A i \in DOMAIN services : DOMAIN memo'[i] = Names
      /\ \A i \in DOMAIN services : \A n \in Names :
           memo'[i][n] = IF i = at /\ n = Resolving THEN value ELSE memo[i][n]
  BY <1>2, <1>5, <1>6
<1>. QED
  BY <1>1, <1>2, <1>4, <1>7, Bounds DEF Keep

\* What a start may keep for an argument: what it is worth by itself, or what is
\* kept for the argument that it refers to.
Earned(value) ==
  LET n == Resolving
      m == SchemeOf(Here, n).default.name
  IN  /\ n \in Args(Here) /\ value # Bad
      /\ \/ ~Refers(Here, AllGiven(at), n) /\ value = OwnWorth(Here, AllGiven(at), n)
         \/ Refers(Here, AllGiven(at), n) /\ m \in Args(Here) /\ memo[at][m] # None
              /\ value = memo[at][m]

\* Only a host that has answered lets a wait that is set be kept.
Connected(value) ==
  Given(at, Resolving) # None /\ value = <<"bool", TRUE>> /\ Resolving \in DOMAIN Here.host =>
    /\ memo[at][Here.host[Resolving]] # None
    /\ HostIn[memo[at][Here.host[Resolving]]] \in answered'

Keeps ==
  /\ pc \in {"resolve", "wait"} /\ stack # <<>>
  /\ answered' \subseteq Hosts /\ answered \subseteq answered'
  /\ \E value : Keep(value) /\ Earned(value) /\ Connected(value)

\* The given values of the service at hand are those the environment still has.
LEMMA GivenIsRaw ==
  ASSUME TypeOK, InContext, pc \in {"resolve", "wait"}, NEW n \in Names
  PROVE  Given(at, n) = Raw(n) /\ AllGiven(at)[n] = Raw(n)
<1>1. base[at] = environ
  BY DEF InContext
<1>. QED
  BY <1>1 DEF Given, AllGiven, Raw

\* Asking fails or leaves all but the stack as it is.
Asks ==
  /\ UNCHANGED <<pc, at, next, environ, memo, left, outputs, base, answered, faults>>
  /\ stack' \in Seq(Names) /\ Len(stack') <= MaxDepth

LEMMA AskForAsks ==
  ASSUME TypeOK, NEW n \in Names, AskFor(n)
  PROVE  Asks \/ Fail
<1>0. stack \in Seq(Names) /\ Len(stack) <= MaxDepth
  BY DEF TypeOK
<1>1. stack \in Seq(Names) /\ Len(stack) \in Nat /\ Len(stack) <= MaxDepth
  BY <1>0
<1>2. CASE Len(stack) = MaxDepth
  BY <1>2 DEF AskFor
<1>3. CASE Len(stack) # MaxDepth
  <2>1. stack' = Append(stack, n)
    BY <1>3 DEF AskFor
  <2>2. stack' \in Seq(Names) /\ Len(stack') = Len(stack) + 1
    BY <1>1, <2>1
  <2>. QED
    BY <1>1, <1>3, <2>2, Bounds DEF AskFor, Asks
<1>. QED
  BY <1>2, <1>3

\* FromText keeps what it should, asks, waits or fails.
LEMMA FromTextParts ==
  ASSUME TypeOK, InContext, FromText
  PROVE  \/ Keeps \/ Asks \/ Fail
         \/ /\ pc' = "wait" /\ left' = Patience
            /\ UNCHANGED <<at, next, stack, environ, memo, outputs, base, answered, faults>>
            /\ Waiting
<1>. DEFINE n == Resolving
            scheme == SchemeOf(Here, n)
            value == Parse(scheme, Raw(n))
<1>1. pc = "resolve" /\ stack # <<>> /\ n \in Args(Here) /\ Raw(n) # None
  BY DEF FromText
<1>2. n \in Names
  BY <1>1, HereType DEF TypeOK
<1>3. Given(at, n) = Raw(n) /\ AllGiven(at)[n] = Raw(n)
  BY <1>1, <1>2, GivenIsRaw
<1>4. ~Refers(Here, AllGiven(at), n) /\ OwnWorth(Here, AllGiven(at), n) = value
  BY <1>1, <1>3 DEF Refers, OwnWorth
<1>. HIDE DEF n
<1>5. CASE value = <<"bool", TRUE>> /\ scheme.type = "wait" /\ AskHost
  <2>1. n \in DOMAIN Here.host /\ Here.host[n] \in Names
    BY <1>1, <1>5, HereType DEF TypeOK
  <2>2. CASE Here.host[n] \notin Args(Here) \/ ~Resolved(Here.host[n])
    <3>1. AskFor(Here.host[n])
      BY <1>5, <2>2 DEF AskHost, n
    <3>. QED
      BY <2>1, <3>1, AskForAsks
  <2>3. CASE ~(Here.host[n] \notin Args(Here) \/ ~Resolved(Here.host[n]))
    <3>1. memo[at][Here.host[n]] # None
      BY <2>3 DEF Resolved
    <3>2. Waiting
      BY <1>1, <1>5, <3>1 DEF Waiting, n
    <3>. QED
      BY <1>5, <2>3, <3>2 DEF AskHost, n
  <2>. QED
    BY <2>2, <2>3
<1>6. CASE /\ value # Bad /\ ~(value = <<"bool", TRUE>> /\ scheme.type = "wait")
           /\ Keep(value) /\ UNCHANGED answered
  <2>1. Earned(value)
    BY <1>1, <1>4, <1>6 DEF Earned, n
  <2>2. Connected(value)
    BY <1>6, HereType DEF Connected, TypeOK, n
  <2>. QED
    BY <1>1, <1>6, <2>1, <2>2 DEF Keeps, TypeOK
<1>7. CASE Fail
  BY <1>7
<1>8. \/ value = Bad /\ Fail
      \/ value = <<"bool", TRUE>> /\ scheme.type = "wait" /\ AskHost
      \/ value # Bad /\ ~(value = <<"bool", TRUE>> /\ scheme.type = "wait")
         /\ Keep(value) /\ UNCHANGED answered
  BY DEF FromText, n
<1>. QED
  BY <1>5, <1>6, <1>7, <1>8

LEMMA FromDefaultParts ==
  ASSUME TypeOK, InContext, FromDefault
  PROVE  Keeps \/ Asks \/ Fail
<1>. DEFINE n == Resolving
            scheme == SchemeOf(Here, n)
            value == OwnDefault(scheme)
<1>1. pc = "resolve" /\ stack # <<>> /\ n \in Args(Here) /\ Raw(n) = None
  BY DEF FromDefault
<1>2. n \in Names
  BY <1>1, HereType DEF TypeOK
<1>3. Given(at, n) = None /\ AllGiven(at)[n] = None
  BY <1>1, <1>2, GivenIsRaw
<1>4. \A v : Connected(v)
  BY <1>3 DEF Connected, n
<1>. HIDE DEF n
<1>5. CASE scheme.default.kind = "ref"
  <2>1. scheme # Refused
    <3>1. Declarable(at)
      BY <1>1 DEF InContext, Working, TypeOK
    <3>. QED
      BY <1>1, <3>1 DEF Declarable, Here
  <2>2. scheme.default.name \in Names
    BY <1>1, <1>5, <2>1, HereType DEF TypeOK
  <2>3. CASE scheme.default.name \in Args(Here) /\ Resolved(scheme.default.name)
    <3>. DEFINE v == memo[at][scheme.default.name]
    <3>1. Keep(v) /\ UNCHANGED answered
      BY <1>5, <2>3 DEF FromDefault, n
    <3>2. Refers(Here, AllGiven(at), n)
      BY <1>1, <1>3, <1>5 DEF Refers
    <3>3. v # None /\ v # Bad
      BY <2>2, <2>3 DEF Resolved, TypeOK
    <3>4. Earned(v)
      BY <1>1, <2>3, <3>2, <3>3 DEF Earned, n
    <3>. QED
      BY <1>1, <1>4, <3>1, <3>4 DEF Keeps, TypeOK
  <2>4. CASE ~(scheme.default.name \in Args(Here) /\ Resolved(scheme.default.name))
    <3>1. AskFor(scheme.default.name)
      BY <1>5, <2>4 DEF FromDefault, n
    <3>. QED
      BY <2>2, <3>1, AskForAsks
  <2>. QED
    BY <2>3, <2>4
<1>6. CASE scheme.default.kind # "ref"
  <2>1. Fail \/ (value # Bad /\ Keep(value) /\ UNCHANGED answered)
    BY <1>6 DEF FromDefault, n
  <2>2. ~Refers(Here, AllGiven(at), n) /\ OwnWorth(Here, AllGiven(at), n) = value
    BY <1>1, <1>3, <1>6 DEF Refers, OwnWorth
  <2>3. value # Bad => Earned(value)
    BY <1>1, <2>2 DEF Earned, n
  <2>. QED
    BY <1>1, <1>4, <2>1, <2>3 DEF Keeps, TypeOK
<1>. QED
  BY <1>5, <1>6

LEMMA TryParts ==
  ASSUME TypeOK, InContext, Try
  PROVE  \/ Keeps \/ Fail
         \/ /\ left' \in 0 .. Patience
            /\ UNCHANGED <<pc, at, next, stack, environ, memo, outputs, base, answered, faults>>
<1>. DEFINE n == Resolving
            h == HostIn[memo[at][Here.host[n]]]
            value == <<"bool", TRUE>>
<1>1. pc = "wait" /\ Waiting
  BY DEF Try, InContext
<1>2. n \in Args(Here) /\ Raw(n) # None /\ SchemeOf(Here, n).type = "wait" /\ stack # <<>>
      /\ memo[at][Here.host[n]] # None /\ Parse(SchemeOf(Here, n), Raw(n)) = value
  BY <1>1 DEF Waiting
<1>3. n \in Names
  BY <1>2, HereType DEF TypeOK
<1>4. Given(at, n) = Raw(n) /\ AllGiven(at)[n] = Raw(n)
  BY <1>1, <1>3, GivenIsRaw
<1>5. ~Refers(Here, AllGiven(at), n) /\ OwnWorth(Here, AllGiven(at), n) = value
  BY <1>2, <1>4 DEF Refers, OwnWorth
<1>6. value # Bad
  BY DEF Bad
<1>. HIDE DEF n, value
<1>7. CASE left # 0 /\ h \in open /\ Keep(value) /\ answered' = answered \cup {h}
  <2>1. Earned(value)
    BY <1>2, <1>5, <1>6 DEF Earned, n
  <2>2. Connected(value)
    BY <1>2, <1>7 DEF Connected, n
  <2>. QED
    BY <1>1, <1>2, <1>7, <2>1, <2>2 DEF Keeps, TypeOK
<1>8. CASE left # 0 /\ left' = left - 1
           /\ UNCHANGED <<pc, at, next, stack, environ, memo, outputs, base, answered, faults>>
  <2>1. left \in 0 .. Patience
    BY DEF TypeOK
  <2>2. left' \in 0 .. Patience
    BY <1>8, <2>1, Bounds
  <2>. QED
    BY <1>8, <2>2
<1>9. \/ Fail
      \/ left # 0 /\ h \in open /\ Keep(value) /\ answered' = answered \cup {h}
      \/ left # 0 /\ left' = left - 1
         /\ UNCHANGED <<pc, at, next, stack, environ, memo, outputs, base, answered, faults>>
  BY DEF Try, n, value
<1>. QED
  BY <1>7, <1>8, <1>9

-----------------------------------------------------------------------------
(* The kinds of steps                                                      *)

static == <<services, files, open, starts, flips>>

Stages == {"off", "declare", "resolve", "wait", "initialize", "render", "last wait",
           "ended", "failed"}

\* After the arguments, and the last wait.
AfterArguments == {"initialize", "render", "ended"}

\* A step that stays with the service and keeps no value.
Moves ==
  /\ UNCHANGED <<static, at, memo, base>>
  /\ pc' \in Stages
  /\ next' \in 1 .. Len(Here.args) + Len(Here.targets) + 1
  /\ stack' \in Seq(Names) /\ Len(stack') <= MaxDepth
  /\ environ' \in Values /\ left' \in 0 .. Patience /\ answered' \subseteq Hosts
  /\ answered \subseteq answered'
  /\ DOMAIN outputs' = Targets /\ faults' \in 0 .. MaxFaults
  /\ pc' \in {"declare", "resolve", "wait"} =>
       environ' = environ /\ pc \in {"declare", "resolve", "wait"}
  /\ pc' = "declare" => pc = "declare"
  /\ pc' \in Working => pc \in Working \/ \A i \in DOMAIN services : Declarable(i)
  /\ pc' = "wait" => Waiting /\ stack' = stack

\* How it gets to the templates and to the end.
Course ==
  /\ pc' \in Working => pc \in Working \cup {"declare"}
  /\ Render \/ (UNCHANGED outputs /\ (pc' = "render" => next' = 1))
  /\ pc' \in AfterArguments => pc \in {"initialize", "render"} \/ Here.wait = None \/ LastWait
  /\ pc' = "ended" => pc = "render" /\ next > Len(Here.targets) /\ at = Len(services)

\* A step that goes on to the next service.
Advances ==
  /\ pc = "render" /\ next > Len(Here.targets) /\ at # Len(services)
  /\ pc' = "resolve" /\ at' = at + 1 /\ next' = 1
  /\ base' = [base EXCEPT ![at + 1] = environ]
  /\ UNCHANGED <<static, stack, environ, memo, left, outputs, answered, faults>>

\* Places of arguments and templates.
LEMMA Places ==
  ASSUME NEW a \in Nat, NEW b \in Nat
  PROVE  /\ 1 \in 1 .. a + b + 1
         /\ \A k \in 1 .. a + b + 1 : k <= a \/ k <= b => k + 1 \in 1 .. a + b + 1
OBVIOUS

LEMMA FailMoves ==
  ASSUME TypeOK, Fail, UNCHANGED static
  PROVE  Moves
BY DEF TypeOK, Fail, Moves, Stages, Working, static

LEMMA AskMoves ==
  ASSUME TypeOK, Asks, pc = "resolve", UNCHANGED static
  PROVE  Moves
BY DEF TypeOK, Asks, Moves, Stages, Working, static

LEMMA DeclareMoves ==
  ASSUME TypeOK, Declare, UNCHANGED static
  PROVE  Moves
<1>1. CASE Fail
  BY <1>1, FailMoves
<1>2. CASE ~Fail
  BY <1>2 DEF TypeOK, Declare, Moves, Stages, Working, static
<1>. QED
  BY <1>1, <1>2

LEMMA NextArgumentMoves ==
  ASSUME TypeOK, NextArgument, UNCHANGED static
  PROVE  Moves
<1>1. Here.args \in Seq(Names) /\ Len(Here.args) \in Nat /\ Len(Here.targets) \in Nat
  BY HereType DEF TypeOK
<1>2. next \in 1 .. Len(Here.args)
  BY <1>1 DEF TypeOK, NextArgument
<1>3. Here.args[next] \in Names
  BY <1>1, <1>2
<1>4. stack' \in Seq(Names) /\ Len(stack') <= MaxDepth
  <2>1. <<Here.args[next]>> \in Seq(Names) /\ Len(<<Here.args[next]>>) = 1
    BY <1>3
  <2>2. stack \in Seq(Names) /\ Len(stack) <= MaxDepth
    BY DEF TypeOK
  <2>3. 1 <= MaxDepth
    BY Bounds
  <2>4. stack' = <<Here.args[next]>> \/ stack' = stack
    BY DEF NextArgument
  <2>5. CASE stack' = <<Here.args[next]>>
    BY <2>1, <2>3, <2>5
  <2>6. CASE stack' = stack
    BY <2>2, <2>6
  <2>. QED
    BY <2>4, <2>5, <2>6
<1>5. next' \in 1 .. Len(Here.args) + Len(Here.targets) + 1
  <2>1. next' = next \/ next' = next + 1
    BY DEF NextArgument
  <2>2. Len(Here.args) \in Nat /\ Len(Here.targets) \in Nat
    BY <1>1
  <2>3. next \in 1 .. Len(Here.args) + Len(Here.targets) + 1
    BY DEF TypeOK
  <2>. QED
    <3>1. next <= Len(Here.args)
      BY <1>2, <2>2
    <3>2. next + 1 \in 1 .. Len(Here.args) + Len(Here.targets) + 1
      BY <2>2, <2>3, <3>1, Places
    <3>. QED
      BY <2>1, <2>3, <3>2
<1>6. /\ UNCHANGED <<pc, at, environ, memo, left, outputs, base, answered, faults>>
      /\ pc = "resolve"
  BY DEF NextArgument
<1>. QED
  BY <1>4, <1>5, <1>6 DEF TypeOK, Moves, Stages, Working, static

LEMMA ArgumentsDoneMoves ==
  ASSUME TypeOK, ArgumentsDone, UNCHANGED static
  PROVE  Moves
<1>1. left' \in 0 .. Patience
  <2>1. left' = 0 \/ left' = Patience
    BY DEF ArgumentsDone
  <2>2. Patience \in Nat
    BY Bounds
  <2>. QED
    BY <2>1, <2>2
<1>2. /\ UNCHANGED <<at, next, stack, environ, memo, outputs, base, answered, faults>>
      /\ pc = "resolve" /\ pc' \in {"initialize", "last wait"}
  BY DEF ArgumentsDone
<1>. QED
  BY <1>1, <1>2 DEF TypeOK, Moves, Stages, Working, static

LEMMA WaitMoves ==
  ASSUME TypeOK, pc = "resolve", pc' = "wait", left' = Patience, Waiting,
         UNCHANGED <<at, next, stack, environ, memo, outputs, base, answered, faults>>,
         UNCHANGED static
  PROVE  Moves
<1>1. left' \in 0 .. Patience
  BY Bounds
<1>. QED
  BY <1>1 DEF TypeOK, Moves, Stages, Working, static

LEMMA TryMoves ==
  ASSUME TypeOK, InContext, pc = "wait", left' \in 0 .. Patience,
         UNCHANGED <<pc, at, next, stack, environ, memo, outputs, base, answered, faults>>,
         UNCHANGED static
  PROVE  Moves
BY DEF TypeOK, InContext, Moves, Stages, Working, static

LEMMA LastWaitMoves ==
  ASSUME TypeOK, LastWait, UNCHANGED static
  PROVE  Moves
<1>. DEFINE h == memo[at][Here.wait.host]
<1>1. left \in 0 .. Patience /\ pc = "last wait" /\ answered \subseteq Hosts
  BY DEF TypeOK, LastWait
<1>2. h \in DOMAIN HostIn => HostIn[h] \in Hosts
  BY ConstantsAssumption DEF ConstantsAssumption
<1>. HIDE DEF h
<1>3. CASE Fail
  BY <1>3, FailMoves
<1>4. ASSUME pc' = "initialize", answered' \subseteq Hosts, answered \subseteq answered',
             UNCHANGED <<at, next, stack, environ, memo, left, outputs, base, faults>>
      PROVE  Moves
  BY <1>1, <1>4 DEF TypeOK, Moves, Stages, Working, static
<1>5. CASE left # 0 /\ left' = left - 1
           /\ UNCHANGED <<pc, at, next, stack, environ, memo, outputs, base, answered, faults>>
  <2>1. left \in 0 .. Patience /\ left # 0 /\ left' = left - 1
    BY <1>1, <1>5
  <2>2. Patience \in Nat
    BY Bounds
  <2>3. left' \in 0 .. Patience
    BY <2>1, <2>2
  <2>. QED
    BY <1>1, <1>5, <2>3 DEF TypeOK, Moves, Stages, Working, static
<1>6. CASE memo[at][Here.wait.flag] # <<"bool", TRUE>>
  BY <1>1, <1>4, <1>6 DEF LastWait
<1>7. CASE memo[at][Here.wait.flag] = <<"bool", TRUE>> /\ (left = 0 \/ h \notin DOMAIN HostIn)
  BY <1>3, <1>7 DEF LastWait, h
<1>8. CASE /\ memo[at][Here.wait.flag] = <<"bool", TRUE>>
           /\ ~(left = 0 \/ h \notin DOMAIN HostIn) /\ HostIn[h] \in open
  <2>1. /\ pc' = "initialize" /\ answered' = answered \cup {HostIn[h]}
        /\ UNCHANGED <<at, next, stack, environ, memo, left, outputs, base, faults>>
    BY <1>8 DEF LastWait, h
  <2>2. answered' \subseteq Hosts /\ answered \subseteq answered'
    BY <1>1, <1>2, <1>8, <2>1
  <2>. QED
    BY <1>4, <2>1, <2>2
<1>9. CASE /\ memo[at][Here.wait.flag] = <<"bool", TRUE>>
           /\ ~(left = 0 \/ h \notin DOMAIN HostIn) /\ HostIn[h] \notin open
  BY <1>5, <1>9 DEF LastWait, h
<1>. QED
  BY <1>6, <1>7, <1>8, <1>9

LEMMA InitializeMoves ==
  ASSUME TypeOK, Initialize, UNCHANGED static
  PROVE  Moves
<1>1. environ' \in Values /\ faults' \in 0 .. MaxFaults
  <2>1. CASE UNCHANGED <<environ, faults>>
    BY <2>1 DEF TypeOK
  <2>2. CASE faults < MaxFaults /\ faults' = faults + 1 /\ \E e \in Environs : environ' = e.environ
    <3>1. environ' \in Values
      BY <2>2, ConstantsAssumption DEF ConstantsAssumption
    <3>2. faults \in 0 .. MaxFaults /\ MaxFaults \in Nat
      BY Bounds DEF TypeOK
    <3>3. faults' \in 0 .. MaxFaults
      BY <2>2, <3>2
    <3>. QED
      BY <3>1, <3>3
  <2>. QED
    BY <2>1, <2>2 DEF Initialize
<1>2. 1 \in 1 .. Len(Here.args) + Len(Here.targets) + 1
  <2>1. Len(Here.args) \in Nat /\ Len(Here.targets) \in Nat
    BY HereType DEF TypeOK
  <2>. QED
    BY <2>1, Places
<1>. QED
  BY <1>1, <1>2 DEF TypeOK, Initialize, Moves, Stages, Working, static

LEMMA RenderMoves ==
  ASSUME TypeOK, Render, UNCHANGED static
  PROVE  Moves
<1>1. next' \in 1 .. Len(Here.args) + Len(Here.targets) + 1
  <2>1. Len(Here.args) \in Nat /\ Len(Here.targets) \in Nat
    BY HereType DEF TypeOK
  <2>2. next \in 1 .. Len(Here.args) + Len(Here.targets) + 1
    BY DEF TypeOK
  <2>3. next <= Len(Here.targets) /\ next' = next + 1
    BY DEF Render
  <2>. QED
    BY <2>1, <2>2, <2>3, Places
<1>2. DOMAIN outputs' = Targets
  BY DEF TypeOK, Render
<1>. QED
  BY <1>1, <1>2 DEF TypeOK, Render, Moves, Stages, Working, static

LEMMA RenderFailsMoves ==
  ASSUME TypeOK, RenderFails, UNCHANGED static
  PROVE  Moves
<1>1. faults' \in 0 .. MaxFaults
  BY Bounds DEF TypeOK, RenderFails
<1>. QED
  BY <1>1 DEF TypeOK, RenderFails, Moves, Stages, Working, static

LEMMA NextServiceMoves ==
  ASSUME TypeOK, NextService, UNCHANGED static
  PROVE  Moves \/ Advances
<1>1. CASE at = Len(services)
  BY <1>1 DEF TypeOK, NextService, Moves, Stages, Working, static
<1>2. CASE at # Len(services)
  BY <1>2 DEF NextService, Advances
<1>. QED
  BY <1>1, <1>2

\* Every step is of one of these kinds.
LEMMA Kinds ==
  ASSUME TypeOK, InContext, Next
  PROVE  \/ Start \/ Moves \/ Advances
         \/ Keeps /\ UNCHANGED static
         \/ \E h \in Hosts : Flip(h)
<1>1. CASE Start
  BY <1>1
<1>2. CASE RenderFails /\ UNCHANGED static
  BY <1>2, RenderFailsMoves
<1>3. CASE \E h \in Hosts : Flip(h)
  BY <1>3
<1>4. CASE Step
  <2>1. UNCHANGED static
    BY <1>4 DEF Step, static
  <2>2. CASE FromText
    BY <2>1, <2>2, FromTextParts, AskMoves, FailMoves, WaitMoves DEF FromText
  <2>3. CASE FromDefault
    BY <2>1, <2>3, FromDefaultParts, AskMoves, FailMoves DEF FromDefault
  <2>4. CASE Unknown
    BY <2>1, <2>4, FailMoves DEF Unknown
  <2>5. CASE Try
    BY <2>1, <2>5, TryParts, FailMoves, TryMoves DEF Try
  <2>. QED
    BY <1>4, <2>1, <2>2, <2>3, <2>4, <2>5, DeclareMoves, NextArgumentMoves, ArgumentsDoneMoves,
       LastWaitMoves, InitializeMoves, RenderMoves, NextServiceMoves DEF Step
<1>. QED
  BY <1>1, <1>2, <1>3, <1>4 DEF Next, static
\* Whatever resolves an argument stays with the arguments, or fails.
LEMMA ResolvingCourse ==
  ASSUME FromText \/ FromDefault \/ Unknown \/ Try
  PROVE  Course
<1>1. pc \in {"resolve", "wait"}
  BY DEF FromText, FromDefault, Unknown, Try
<1>2. ASSUME NEW n, AskFor(n)
      PROVE  pc' \in {pc, "failed"} /\ UNCHANGED outputs
  BY <1>2 DEF AskFor, Fail
<1>3. AskHost => pc' \in {pc, "wait", "failed"} /\ UNCHANGED outputs
  <2>. SUFFICES ASSUME AskHost PROVE pc' \in {pc, "wait", "failed"} /\ UNCHANGED outputs
    OBVIOUS
  <2>. QED
    BY <1>2 DEF AskHost, Fail
<1>4. ASSUME NEW value, Keep(value)
      PROVE  pc' = "resolve" /\ UNCHANGED outputs
  BY <1>4 DEF Keep
<1>5. pc' \in {"resolve", "wait", "failed"} /\ UNCHANGED outputs
  <2>1. CASE FromText
    BY <1>1, <1>3, <1>4, <2>1 DEF FromText, Fail
  <2>2. CASE FromDefault
    BY <1>1, <1>2, <1>4, <2>2 DEF FromDefault, Fail
  <2>3. CASE Unknown
    BY <2>3 DEF Unknown, Fail
  <2>4. CASE Try
    BY <1>1, <1>4, <2>4 DEF Try, Fail
  <2>. QED
    BY <2>1, <2>2, <2>3, <2>4
<1>. QED
  BY <1>1, <1>5 DEF Course, Working, AfterArguments

LEMMA Courses ==
  ASSUME Step \/ RenderFails
  PROVE  Course
<1>1. CASE RenderFails
  BY <1>1 DEF RenderFails, Course, Working, AfterArguments
<1>2. CASE Declare
  BY <1>2 DEF Declare, Fail, Course, Working, AfterArguments
<1>3. CASE NextArgument
  BY <1>3 DEF NextArgument, Course, Working, AfterArguments
<1>4. CASE ArgumentsDone
  BY <1>4 DEF ArgumentsDone, Course, Working, AfterArguments
<1>5. CASE LastWait
  <2>1. UNCHANGED outputs /\ pc = "last wait" /\ pc' \in {"initialize", "failed", "last wait"}
    BY <1>5 DEF LastWait, Fail
  <2>. QED
    BY <1>5, <2>1 DEF Course, Working, AfterArguments
<1>6. CASE Initialize
  BY <1>6 DEF Initialize, Course, Working, AfterArguments
<1>7. CASE Render
  <2>1. pc = "render" /\ pc' = "render"
    BY <1>7 DEF Render
  <2>2. pc' # "ended" /\ pc \in Working /\ pc \in {"initialize", "render"}
    BY <2>1 DEF Working
  <2>. QED
    BY <1>7, <2>2 DEF Course
<1>8. CASE NextService
  BY <1>8 DEF NextService, Course, Working, AfterArguments
<1>. QED
  BY <1>1, <1>2, <1>3, <1>4, <1>5, <1>6, <1>7, <1>8, ResolvingCourse DEF Step

-----------------------------------------------------------------------------
(* Type correctness                                                        *)

LEMMA UnresolvedType ==
  Unresolved \in Values
BY DEF Unresolved, Values

LEMMA InitTyped ==
  ASSUME Init
  PROVE  TypeOK /\ InContext
<1>1. services \in Setups /\ at = 1 /\ next = 1 /\ pc = "off"
  BY DEF Init
<1>2. at \in DOMAIN services
  BY <1>1, SetupType
<1>3. next \in 1 .. Len(Here.args) + Len(Here.targets) + 1
  <2>1. Len(Here.args) \in Nat /\ Len(Here.targets) \in Nat
    BY <1>1, <1>2, HereType
  <2>. QED
    BY <1>1, <2>1, Places
<1>4. stack \in Seq(Names) /\ Len(stack) <= MaxDepth
  <2>1. stack = <<>> /\ MaxDepth \in Nat
    BY Bounds DEF Init
  <2>. QED
    BY <2>1
<1>5. environ \in Values /\ files \in Values /\ base \in [DOMAIN services -> Values]
  BY UnresolvedType DEF Init
<1>6. None # Bad
  BY ConstantsAssumption DEF ConstantsAssumption
<1>7. /\ DOMAIN memo = DOMAIN services
      /\ \A i \in DOMAIN memo : DOMAIN memo[i] = Names
      /\ \A i \in DOMAIN memo : \A n \in Names : memo[i][n] = None
  BY DEF Init, Unresolved
<1>8. left \in 0 .. Patience /\ starts \in 0 .. MaxStarts /\ flips \in 0 .. MaxFlips
      /\ faults \in 0 .. MaxFaults
  <2>1. left = 0 /\ starts = 0 /\ flips = 0 /\ faults = 0
    BY DEF Init
  <2>. QED
    BY <2>1, Bounds
<1>9. open \subseteq Hosts /\ answered \subseteq Hosts /\ DOMAIN outputs = Targets
  BY DEF Init
<1>10. TypeOK
  BY <1>1, <1>2, <1>3, <1>4, <1>5, <1>6, <1>7, <1>8, <1>9 DEF TypeOK
<1>11. InContext
  BY <1>1, <1>7 DEF InContext, Working
<1>. QED
  BY <1>10, <1>11

LEMMA StartTyped ==
  ASSUME TypeOK, Start
  PROVE  TypeOK' /\ InContext'
<1>1. PICK e \in Environs : Fresh(services, e)
  BY DEF Start
<1>2. UNCHANGED <<services, open, outputs, flips, faults>> /\ starts < MaxStarts
      /\ starts' = starts + 1
  BY DEF Start
<1>3. services \in Setups /\ at' = 1 /\ next' = 1 /\ pc' = "declare"
  BY <1>1 DEF Fresh, TypeOK
<1>4. at' \in DOMAIN services'
  BY <1>2, <1>3, SetupType
<1>5. next' \in 1 .. Len(Here'.args) + Len(Here'.targets) + 1
  <2>1. Service(Here')
    BY <1>2, <1>3, <1>4, SetupType DEF Here
  <2>. DEFINE a == Len(Here'.args)
              b == Len(Here'.targets)
  <2>2. a \in Nat /\ b \in Nat
    BY <2>1 DEF Service
  <2>. HIDE DEF a, b
  <2>3. next' \in 1 .. a + b + 1
    BY <1>3, <2>2, Places
  <2>. QED
    BY <2>3 DEF a, b
<1>6. stack' \in Seq(Names) /\ Len(stack') <= MaxDepth
  <2>1. stack' = <<>> /\ MaxDepth \in Nat
    BY <1>1, Bounds DEF Fresh
  <2>. QED
    BY <2>1
<1>7. e.environ \in Values /\ e.files \in Values
  BY ConstantsAssumption DEF ConstantsAssumption
<1>8. environ' \in Values /\ files' \in Values /\ base' \in [DOMAIN services' -> Values]
  BY <1>1, <1>2, <1>7 DEF Fresh
<1>9. None # Bad
  BY ConstantsAssumption DEF ConstantsAssumption
<1>10. /\ DOMAIN memo' = DOMAIN services'
       /\ \A i \in DOMAIN memo' : DOMAIN memo'[i] = Names
       /\ \A i \in DOMAIN memo' : \A n \in Names : memo'[i][n] = None
  BY <1>1, <1>2 DEF Fresh, Unresolved
<1>11. left' \in 0 .. Patience
  <2>1. left' = 0
    BY <1>1 DEF Fresh
  <2>. QED
    BY <2>1, Bounds
<1>12. starts' \in 0 .. MaxStarts
  <2>1. starts \in 0 .. MaxStarts /\ MaxStarts \in Nat
    BY Bounds DEF TypeOK
  <2>. QED
    BY <1>2, <2>1
<1>13. open' \subseteq Hosts /\ answered' \subseteq Hosts /\ DOMAIN outputs' = Targets
  BY <1>1, <1>2 DEF Fresh, TypeOK
<1>14. flips' \in 0 .. MaxFlips /\ faults' \in 0 .. MaxFaults /\ services' \in Setups
  BY <1>2 DEF TypeOK
<1>15. TypeOK'
  BY <1>3, <1>4, <1>5, <1>6, <1>8, <1>9, <1>10, <1>11, <1>12, <1>13, <1>14 DEF TypeOK
<1>16. base'[1] = e.environ /\ environ' = e.environ
  BY <1>1, <1>2, <1>3, <1>4 DEF Fresh
<1>17. InContext'
  BY <1>3, <1>10, <1>16 DEF InContext, Working
<1>. QED
  BY <1>15, <1>17

LEMMA MovesTyped ==
  ASSUME TypeOK, InContext, Moves
  PROVE  TypeOK' /\ InContext'
<1>1. UNCHANGED <<services, files, open, starts, flips, at, memo, base>>
  BY DEF Moves, static
<1>2. Here' = Here
  BY <1>1 DEF Here
<1>3. TypeOK'
  BY <1>1, <1>2 DEF TypeOK, Moves, Stages
<1>4. \A i \in DOMAIN services' : i > at' \/ pc' = "declare" => \A n \in Names : memo'[i][n] = None
  BY <1>1 DEF InContext, Moves
<1>5. pc' \in {"declare", "resolve", "wait"} => base'[at'] = environ'
  BY <1>1 DEF InContext, Moves
<1>6. pc' \in Working => \A i \in DOMAIN services' : Declarable(i)'
  <2>1. ASSUME NEW i
        PROVE  Declarable(i)' = Declarable(i)
    BY <1>1 DEF Declarable, TargetTaken
  <2>2. pc' \in Working => \A i \in DOMAIN services : Declarable(i)
    BY DEF Moves, InContext
  <2>. QED
    BY <1>1, <2>1, <2>2
<1>7. pc' = "wait" => Waiting'
  <2>1. SUFFICES ASSUME pc' = "wait" PROVE Waiting'
    OBVIOUS
  <2>2. Waiting /\ stack' = stack /\ environ' = environ
    BY <2>1 DEF Moves
  <2>. QED
    BY <1>1, <1>2, <2>2 DEF Waiting, Resolving, Raw
<1>. QED
  BY <1>3, <1>4, <1>5, <1>6, <1>7 DEF InContext

LEMMA AdvancesTyped ==
  ASSUME TypeOK, InContext, Advances
  PROVE  TypeOK' /\ InContext'
<1>1. UNCHANGED <<services, files, open, starts, flips, stack, environ, memo, left, outputs,
                  answered, faults>>
  BY DEF Advances, static
<1>2. at' \in DOMAIN services /\ at' = at + 1 /\ at \in DOMAIN services /\ at \in Nat
      /\ DOMAIN services \subseteq Nat
  <2>1. services \in Setups /\ at \in DOMAIN services /\ at' = at + 1 /\ at # Len(services)
    BY DEF TypeOK, Advances
  <2>2. DOMAIN services = 1 .. Len(services) /\ Len(services) \in Nat
    BY <2>1, SetupType
  <2>. QED
    BY <2>1, <2>2
<1>3. next' \in 1 .. Len(Here'.args) + Len(Here'.targets) + 1
  <2>1. Service(Here')
    BY <1>1, <1>2, SetupType DEF Here, TypeOK
  <2>. DEFINE a == Len(Here'.args)
              b == Len(Here'.targets)
  <2>2. a \in Nat /\ b \in Nat
    BY <2>1 DEF Service
  <2>3. next' = 1
    BY DEF Advances
  <2>. HIDE DEF a, b
  <2>4. next' \in 1 .. a + b + 1
    BY <2>2, <2>3, Places
  <2>. QED
    BY <2>4 DEF a, b
<1>4. base' \in [DOMAIN services' -> Values] /\ base'[at'] = environ'
  <2>1. base \in [DOMAIN services -> Values] /\ environ \in Values
    BY DEF TypeOK
  <2>2. base' = [base EXCEPT ![at + 1] = environ]
    BY DEF Advances
  <2>. QED
    BY <1>1, <1>2, <2>1, <2>2
<1>5. \A n \in Names : memo'[at'][n] = None
  BY <1>1, <1>2 DEF InContext
<1>6. pc' = "resolve" /\ pc = "render"
  BY DEF Advances
<1>7. TypeOK'
  BY <1>1, <1>2, <1>3, <1>4, <1>5, <1>6 DEF TypeOK
<1>8. \A i \in DOMAIN services' : i > at' \/ pc' = "declare" => \A n \in Names : memo'[i][n] = None
  <2>1. \A i \in DOMAIN services : i > at' => i > at
    BY <1>2
  <2>. QED
    BY <1>1, <1>6, <2>1 DEF InContext
<1>9. \A i \in DOMAIN services' : Declarable(i)'
  <2>1. ASSUME NEW i
        PROVE  Declarable(i)' = Declarable(i)
    BY <1>1 DEF Declarable, TargetTaken
  <2>. QED
    BY <1>1, <1>6, <2>1 DEF InContext, Working
<1>. QED
  BY <1>4, <1>6, <1>7, <1>8, <1>9 DEF InContext

LEMMA KeepsTyped ==
  ASSUME TypeOK, InContext, Keeps, UNCHANGED static
  PROVE  TypeOK' /\ InContext'
<1>1. PICK value : Keep(value) /\ Earned(value) /\ Connected(value)
  BY DEF Keeps
<1>2. /\ Resolving \in Names
      /\ stack' \in Seq(Names) /\ Len(stack') <= MaxDepth
      /\ DOMAIN memo' = DOMAIN services
      /\ \A i \in DOMAIN services : DOMAIN memo'[i] = Names
      /\ \A i \in DOMAIN services : \A n \in Names :
           memo'[i][n] = IF i = at /\ n = Resolving THEN value ELSE memo[i][n]
      /\ pc' = "resolve"
      /\ UNCHANGED <<at, next, environ, left, outputs, base, faults>>
  BY <1>1, KeepEffect DEF Keeps
<1>3. UNCHANGED <<services, files, open, starts, flips>> /\ Here' = Here
  BY <1>2 DEF static, Here
<1>4. value # Bad /\ Resolving \in Args(Here) /\ answered' \subseteq Hosts
      /\ pc \in {"resolve", "wait"}
  BY <1>1 DEF Earned, Keeps
<1>5. \A i \in DOMAIN memo' : DOMAIN memo'[i] = Names /\ \A n \in Names : memo'[i][n] # Bad
  BY <1>2, <1>4 DEF TypeOK
<1>6. \A n \in Names \ Args(Here) : memo'[at][n] = None
  BY <1>2, <1>4 DEF TypeOK
<1>7. TypeOK'
  BY <1>2, <1>3, <1>4, <1>5, <1>6 DEF TypeOK
<1>8. \A i \in DOMAIN services' : i > at' \/ pc' = "declare" => \A n \in Names : memo'[i][n] = None
  <2>0. services \in Setups /\ at \in DOMAIN services
    BY DEF TypeOK
  <2>1. at \in Nat
    BY <2>0, SetupType
  <2>2. \A i \in DOMAIN services : i > at => i # at
    BY <2>1
  <2>. QED
    BY <1>2, <1>3, <2>2 DEF InContext
<1>9. \A i \in DOMAIN services' : Declarable(i)'
  <2>1. ASSUME NEW i
        PROVE  Declarable(i)' = Declarable(i)
    BY <1>3 DEF Declarable, TargetTaken
  <2>. QED
    BY <1>3, <1>4, <2>1 DEF InContext, Working
<1>10. base'[at'] = environ'
  BY <1>2, <1>4 DEF InContext
<1>. QED
  BY <1>2, <1>7, <1>8, <1>9, <1>10 DEF InContext

\* InContext is not about ports, outputs or counters.
LEMMA ContextSame ==
  ASSUME InContext, UNCHANGED <<services, pc, at, stack, environ, files, memo, base>>
  PROVE  InContext'
<1>1. Here' = Here
  BY DEF Here
<1>2. Waiting' = Waiting
  BY <1>1 DEF Waiting, Resolving, Raw
<1>3. ASSUME NEW i
      PROVE  Declarable(i)' = Declarable(i)
  BY DEF Declarable, TargetTaken
<1>. QED
  BY <1>1, <1>2, <1>3 DEF InContext

LEMMA FlipTyped ==
  ASSUME TypeOK, InContext, NEW h \in Hosts, Flip(h)
  PROVE  TypeOK' /\ InContext'
<1>1. UNCHANGED <<services, pc, at, next, stack, environ, files, memo, left, outputs,
                  base, answered, starts, faults>>
  BY DEF Flip
<1>2. Here' = Here
  BY <1>1 DEF Here
<1>3. flips' \in 0 .. MaxFlips
  <2>1. flips \in 0 .. MaxFlips /\ MaxFlips \in Nat
    BY Bounds DEF TypeOK
  <2>. QED
    BY <2>1 DEF Flip
<1>4. open' \subseteq Hosts
  BY DEF Flip, TypeOK
<1>5. TypeOK'
  BY <1>1, <1>2, <1>3, <1>4 DEF TypeOK
<1>6. InContext'
  BY <1>1, ContextSame
<1>. QED
  BY <1>5, <1>6

LEMMA TypedStays ==
  ASSUME TypeOK, InContext, [Next]_vars
  PROVE  TypeOK' /\ InContext'
<1>1. CASE Next
  BY <1>1, Kinds, StartTyped, MovesTyped, AdvancesTyped, KeepsTyped, FlipTyped
<1>2. CASE UNCHANGED vars
  <2>1. UNCHANGED <<services, pc, at, next, stack, environ, files, memo, left, open, outputs,
                    base, answered, starts, flips, faults>>
    BY <1>2 DEF vars, counts
  <2>2. Here' = Here
    BY <2>1 DEF Here
  <2>3. TypeOK'
    BY <2>1, <2>2 DEF TypeOK
  <2>4. InContext'
    BY <2>1, ContextSame
  <2>. QED
    BY <2>3, <2>4
<1>. QED
  BY <1>1, <1>2

Grounded == TypeOK /\ InContext

LEMMA Invariance ==
  Spec => []Grounded
<1>1. Init => Grounded
  BY InitTyped DEF Grounded
<1>2. Grounded /\ [Next]_vars => Grounded'
  BY TypedStays DEF Grounded
<1>. QED
  BY <1>1, <1>2, PTL DEF Spec

\* Every variable keeps its type.
THEOREM TypeCorrect ==
  Spec => []TypeOK
<1>1. Grounded => TypeOK
  BY DEF Grounded
<1>. QED
  BY <1>1, Invariance, PTL

-----------------------------------------------------------------------------
(* Values                                                                  *)

Depth == Cardinality(Names)

\* The arguments that have a value.
Having(values) == {n \in Names : values[n] # None}

\* Each value is what its argument is worth, through no more references than there
\* are values.
Stands(s, given, values) ==
  \A n \in Having(values) : \A d \in 0 .. Depth :
    d + 1 >= Cardinality(Having(values)) => Through(s, given)[d][n] = values[n]

Settled ==
  \A i \in DOMAIN services :
    /\ Stands(services[i], AllGiven(i), memo[i])
    /\ \A n \in Having(memo[i]) \cap Args(services[i]) : SchemeOf(services[i], n) # Refused

LEMMA DepthType ==
  ASSUME NEW values
  PROVE  /\ Depth \in Nat
         /\ IsFiniteSet(Having(values)) /\ Cardinality(Having(values)) \in Nat
         /\ Cardinality(Having(values)) <= Depth
<1>1. IsFiniteSet(Names)
  BY ConstantsAssumption DEF ConstantsAssumption
<1>2. Having(values) \subseteq Names
  BY DEF Having
<1>3. IsFiniteSet(Having(values)) /\ Cardinality(Having(values)) <= Cardinality(Names)
  BY <1>1, <1>2, FS_Subset
<1>. QED
  BY <1>1, <1>3, FS_CardinalityType DEF Depth

\* What Through says of one argument.
LEMMA ThroughOwn ==
  ASSUME NEW s, NEW given, NEW n \in Names, NEW d \in 0 .. Depth,
         ~Refers(s, given, n)
  PROVE  Through(s, given)[d][n] = OwnWorth(s, given, n)
<1>1. Follows(s, given, Through(s, given), 0 .. Depth)
  BY ThroughFollows DEF Depth
<1>. QED
  BY <1>1 DEF Follows

LEMMA ThroughRefers ==
  ASSUME NEW s, NEW given, NEW n \in Names, NEW d \in 1 .. Depth,
         Refers(s, given, n)
  PROVE  Through(s, given)[d][n] = Through(s, given)[d - 1][SchemeOf(s, n).default.name]
<1>1. Follows(s, given, Through(s, given), 0 .. Depth)
  BY ThroughFollows DEF Depth
<1>2. Depth \in Nat
  BY DepthType
<1>3. d \in 0 .. Depth /\ d > 0
  BY <1>2
<1>. QED
  BY <1>1, <1>3 DEF Follows

\* A value that is earned again is the one that is there.
LEMMA Again ==
  ASSUME NEW s, NEW given, NEW values, Stands(s, given, values),
         NEW n \in Having(values), NEW m, NEW value,
         \/ ~Refers(s, given, n) /\ value = OwnWorth(s, given, n)
         \/ /\ Refers(s, given, n) /\ m = SchemeOf(s, n).default.name
            /\ m \in Having(values) /\ value = values[m]
  PROVE  value = values[n]
<1>. DEFINE w == Through(s, given)
            c == Cardinality(Having(values))
<1>1. Depth \in Nat /\ IsFiniteSet(Having(values)) /\ c \in Nat /\ c <= Depth
  BY DepthType
<1>2. \A x \in Having(values) : \A d \in 0 .. Depth : d + 1 >= c => w[d][x] = values[x]
  BY DEF Stands
<1>3. c > 0
  <2>1. c = 0 <=> Having(values) = {}
    BY <1>1, FS_EmptySet
  <2>. QED
    BY <1>1, <2>1
<1>4. n \in Names
  BY DEF Having
<1>5. Depth \in 1 .. Depth /\ Depth \in 0 .. Depth /\ Depth + 1 >= c
      /\ Depth - 1 \in 0 .. Depth /\ (Depth - 1) + 1 >= c
  BY <1>1, <1>3
<1>6. w[Depth][n] = values[n]
  BY <1>2, <1>5
<1>7. CASE ~Refers(s, given, n)
  BY <1>4, <1>5, <1>6, <1>7, ThroughOwn
<1>8. CASE Refers(s, given, n)
  <2>1. w[Depth][n] = w[Depth - 1][m]
    BY <1>4, <1>5, <1>8, ThroughRefers
  <2>2. w[Depth - 1][m] = values[m]
    BY <1>2, <1>5, <1>8
  <2>. QED
    BY <1>6, <1>8, <2>1, <2>2
<1>. QED
  BY <1>7, <1>8

\* One more value that was earned leaves all values standing.
LEMMA OneMoreStands ==
  ASSUME NEW s, NEW given, NEW values, Stands(s, given, values),
         NEW n \in Names, NEW m, NEW value,
         \/ ~Refers(s, given, n) /\ value = OwnWorth(s, given, n)
         \/ /\ Refers(s, given, n) /\ m = SchemeOf(s, n).default.name
            /\ m \in Having(values) /\ value = values[m],
         NEW after, \A x \in Names : after[x] = IF x = n THEN value ELSE values[x]
  PROVE  Stands(s, given, after)
<1>. DEFINE w == Through(s, given)
            c == Cardinality(Having(values))
<1>1. Depth \in Nat /\ IsFiniteSet(Having(values)) /\ c \in Nat /\ c <= Depth
  BY DepthType
<1>2. \A x \in Having(values) : \A d \in 0 .. Depth : d + 1 >= c => w[d][x] = values[x]
  BY DEF Stands
<1>3. \A x \in Having(values) : c > 0
  <2>1. c = 0 <=> Having(values) = {}
    BY <1>1, FS_EmptySet
  <2>. QED
    BY <1>1, <2>1
<1>4. ASSUME NEW d \in 0 .. Depth, d >= c
      PROVE  w[d][n] = value
  <2>1. CASE ~Refers(s, given, n)
    BY <2>1, ThroughOwn
  <2>2. CASE Refers(s, given, n)
    <3>1. m \in Having(values) /\ m = SchemeOf(s, n).default.name /\ value = values[m]
      BY <2>2
    <3>2. d \in 1 .. Depth /\ d - 1 \in 0 .. Depth /\ (d - 1) + 1 >= c
      BY <1>1, <1>3, <1>4, <3>1
    <3>3. w[d][n] = w[d - 1][m]
      BY <2>2, <3>1, <3>2, ThroughRefers
    <3>4. w[d - 1][m] = values[m]
      BY <1>2, <3>1, <3>2
    <3>. QED
      BY <3>1, <3>3, <3>4
  <2>. QED
    BY <2>1, <2>2
<1>. HIDE DEF w, c
<1>5. CASE n \in Having(values)
  <2>2. values[n] = value
    BY <1>5, Again
  <2>3. \A x \in Names : after[x] = values[x]
    BY <2>2
  <2>4. Having(after) = Having(values)
    BY <2>3 DEF Having
  <2>. QED
    BY <2>3, <2>4 DEF Stands, Having
<1>6. CASE n \notin Having(values) /\ value = None
  <2>1. \A x \in Names : after[x] = values[x]
    BY <1>6 DEF Having
  <2>2. Having(after) = Having(values)
    BY <2>1 DEF Having
  <2>. QED
    BY <2>1, <2>2 DEF Stands, Having
<1>7. CASE n \notin Having(values) /\ value # None
  <2>1. Having(after) = Having(values) \cup {n}
    BY <1>7 DEF Having
  <2>2. Cardinality(Having(after)) = c + 1
    BY <1>1, <1>7, <2>1, FS_AddElement DEF c
  <2>3. ASSUME NEW x \in Having(after), NEW d \in 0 .. Depth, d + 1 >= c + 1
        PROVE  w[d][x] = after[x]
    <3>1. d >= c /\ d + 1 >= c
      BY <1>1, <2>3
    <3>2. CASE x = n
      BY <1>4, <3>1, <3>2
    <3>3. CASE x # n
      <4>1. x \in Having(values) /\ x \in Names
        BY <2>1, <3>3 DEF Having
      <4>. QED
        BY <1>2, <3>1, <3>3, <4>1
    <3>. QED
      BY <3>2, <3>3
  <2>. QED
    BY <2>2, <2>3 DEF Stands, w
<1>. QED
  BY <1>5, <1>6, <1>7

\* A service without values.
LEMMA NoneStand ==
  ASSUME NEW s, NEW given, NEW values, \A n \in Names : values[n] = None
  PROVE  Stands(s, given, values) /\ Having(values) = {}
BY DEF Stands, Having

LEMMA InitSettled ==
  ASSUME Init
  PROVE  Settled
<1>1. \A i \in DOMAIN services : \A n \in Names : memo[i][n] = None
  BY DEF Init, Unresolved
<1>. QED
  BY <1>1, NoneStand DEF Settled

LEMMA KeepsSettled ==
  ASSUME Grounded, Settled, Keeps, UNCHANGED static
  PROVE  Settled'
<1>1. PICK value : Keep(value) /\ Earned(value) /\ Connected(value)
  BY DEF Keeps
<1>2. /\ Resolving \in Names
      /\ \A i \in DOMAIN services : \A n \in Names :
           memo'[i][n] = IF i = at /\ n = Resolving THEN value ELSE memo[i][n]
      /\ UNCHANGED <<at, base>>
  BY <1>1, KeepEffect DEF Keeps, Grounded
<1>3. UNCHANGED <<services, files>>
  BY DEF static
<1>4. at \in DOMAIN services
  BY DEF Grounded, TypeOK
<1>5. \A i : AllGiven(i)' = AllGiven(i)
  BY <1>2, <1>3 DEF AllGiven, Given
<1>6. ASSUME NEW i \in DOMAIN services, i # at
      PROVE  /\ Stands(services[i], AllGiven(i), memo'[i])
             /\ Having(memo'[i]) = Having(memo[i])
  <2>1. \A n \in Names : memo'[i][n] = memo[i][n]
    BY <1>2, <1>6
  <2>2. Having(memo'[i]) = Having(memo[i])
    BY <2>1 DEF Having
  <2>3. Stands(services[i], AllGiven(i), memo[i])
    BY DEF Settled
  <2>. QED
    BY <2>1, <2>2, <2>3 DEF Stands, Having
<1>7. Stands(Here, AllGiven(at), memo'[at])
  <2>. DEFINE n == Resolving
              m == SchemeOf(Here, n).default.name
  <2>1. Stands(Here, AllGiven(at), memo[at])
    BY <1>4 DEF Settled, Here
  <2>2. \/ ~Refers(Here, AllGiven(at), n) /\ value = OwnWorth(Here, AllGiven(at), n)
        \/ /\ Refers(Here, AllGiven(at), n)
           /\ m \in Having(memo[at]) /\ value = memo[at][m]
    <3>1. Args(Here) \subseteq Names
      BY HereType DEF Grounded, TypeOK
    <3>. QED
      BY <1>1, <3>1 DEF Earned, Having
  <2>3. \A x \in Names : memo'[at][x] = IF x = n THEN value ELSE memo[at][x]
    BY <1>2, <1>4
  <2>. HIDE DEF n, m
  <2>4. n \in Names /\ m = SchemeOf(Here, n).default.name
    BY <1>2 DEF n, m
  <2>. QED
    BY <2>1, <2>2, <2>3, <2>4, OneMoreStands
<1>8. \A n \in Args(Here) : SchemeOf(Here, n) # Refused
  BY <1>4 DEF Grounded, InContext, Keeps, Working, Declarable, Here
<1>9. ASSUME NEW i \in DOMAIN services
      PROVE  /\ Stands(services[i], AllGiven(i), memo'[i])
             /\ \A n \in Having(memo'[i]) \cap Args(services[i]) :
                  SchemeOf(services[i], n) # Refused
  <2>1. CASE i = at
    BY <1>7, <1>8, <2>1 DEF Here
  <2>2. CASE i # at
    BY <1>6, <2>2 DEF Settled
  <2>. QED
    BY <2>1, <2>2
<1>. QED
  BY <1>3, <1>5, <1>9 DEF Settled

LEMMA StepSettled ==
  ASSUME Grounded, Settled, [Next]_vars
  PROVE  Settled'
<1>1. ASSUME UNCHANGED <<services, files, memo, base>>
      PROVE  Settled'
  <2>1. \A i : AllGiven(i)' = AllGiven(i)
    BY <1>1 DEF AllGiven, Given
  <2>. QED
    BY <1>1, <2>1 DEF Settled
<1>2. CASE Start
  <2>1. PICK e \in Environs : Fresh(services, e)
    BY <1>2 DEF Start
  <2>2. services' = services /\ memo' = [i \in DOMAIN services |-> Unresolved]
    BY <1>2, <2>1 DEF Start, Fresh
  <2>3. \A i \in DOMAIN services' : \A n \in Names : memo'[i][n] = None
    BY <2>2 DEF Unresolved
  <2>. QED
    BY <2>3, NoneStand DEF Settled
<1>3. CASE Moves
  BY <1>1, <1>3 DEF Moves, static
<1>4. CASE Advances
  <2>1. UNCHANGED <<services, files, memo>> /\ base' = [base EXCEPT ![at + 1] = environ]
    BY <1>4 DEF Advances, static
  <2>2. base \in [DOMAIN services -> Values] /\ at \in Nat /\ InContext
    <3>1. services \in Setups /\ at \in DOMAIN services
      BY DEF Grounded, TypeOK
    <3>2. at \in Nat
      BY <3>1, SetupType
    <3>. QED
      BY <3>2 DEF Grounded, TypeOK
  <2>3. ASSUME NEW i \in DOMAIN services
        PROVE  /\ Stands(services[i], AllGiven(i)', memo[i])
               /\ \A n \in Having(memo[i]) \cap Args(services[i]) :
                    SchemeOf(services[i], n) # Refused
    <3>1. CASE i = at + 1
      <4>1. i > at
        BY <2>2, <3>1
      <4>2. \A n \in Names : memo[i][n] = None
        BY <2>2, <4>1 DEF InContext
      <4>. QED
        BY <4>2, NoneStand
    <3>2. CASE i # at + 1
      <4>1. base'[i] = base[i]
        BY <2>1, <2>2, <3>2
      <4>2. AllGiven(i)' = AllGiven(i)
        BY <2>1, <4>1 DEF AllGiven, Given
      <4>. QED
        BY <4>2 DEF Settled
    <3>. QED
      BY <3>1, <3>2
  <2>. QED
    BY <2>1, <2>3 DEF Settled
<1>5. CASE Keeps /\ UNCHANGED static
  BY <1>5, KeepsSettled
<1>6. CASE \E h \in Hosts : Flip(h)
  BY <1>1, <1>6 DEF Flip
<1>7. CASE UNCHANGED vars
  BY <1>1, <1>7 DEF vars
<1>. QED
  BY <1>2, <1>3, <1>4, <1>5, <1>6, <1>7, Kinds DEF Grounded

LEMMA SettledAlways ==
  Spec => []Settled
BY InitSettled, StepSettled, Invariance, PTL DEF Spec

\* What is kept is what the reference says, whatever the order in which it was
\* resolved and asked for (get_result, _result_context).
THEOREM KeptIsWorth ==
  Spec => []MatchesReference
<1>1. ASSUME Settled
      PROVE  MatchesReference
  <2>1. ASSUME NEW i \in DOMAIN services, NEW n \in Names, memo[i][n] # None
        PROVE  memo[i][n] = Worth(i)[n]
    <3>1. Stands(services[i], AllGiven(i), memo[i]) /\ n \in Having(memo[i])
      BY <1>1, <2>1 DEF Settled, Having
    <3>2. Depth \in 0 .. Depth /\ Depth + 1 >= Cardinality(Having(memo[i]))
      BY DepthType
    <3>. QED
      BY <3>1, <3>2 DEF Stands, Worth, Depth
  <2>. QED
    BY <2>1 DEF MatchesReference
<1>. QED
  BY <1>1, SettledAlways, PTL

\* An argument that is set is kept with a value of the type it is declared with.
THEOREM KeptHasType ==
  Spec => []GivenHasType
<1>1. ASSUME Grounded, Settled
      PROVE  GivenHasType
  <2>1. ASSUME NEW i \in DOMAIN services, NEW n \in Args(services[i]),
               memo[i][n] # None, Given(i, n) # None
        PROVE  HasType(SchemeOf(services[i], n), memo[i][n])
    <3>. DEFINE s == services[i]
                scheme == SchemeOf(s, n)
    <3>1. Service(s)
      <4>1. services \in Setups
        BY <1>1 DEF Grounded, TypeOK
      <4>. QED
        BY <4>1, SetupType
    <3>2. n \in Names /\ IsSpec(s.specs[n])
      <4>1. s.args \in Seq(Names)
        BY <3>1 DEF Service
      <4>. QED
        BY <3>1, <4>1 DEF Service, Args
    <3>3. n \in Having(memo[i])
      BY <2>1, <3>2 DEF Having
    <3>4. scheme # Refused /\ Stands(s, AllGiven(i), memo[i])
      BY <1>1, <3>3 DEF Settled
    <3>5. AllGiven(i)[n] = Given(i, n)
      BY <3>2 DEF AllGiven
    <3>6. Depth \in 0 .. Depth /\ Depth + 1 >= Cardinality(Having(memo[i]))
      BY DepthType
    <3>7. memo[i][n] = Through(s, AllGiven(i))[Depth][n]
      BY <3>3, <3>4, <3>6 DEF Stands
    <3>8. ~Refers(s, AllGiven(i), n)
      BY <2>1, <3>5 DEF Refers
    <3>9. memo[i][n] = OwnWorth(s, AllGiven(i), n)
      BY <3>2, <3>6, <3>7, <3>8, ThroughOwn
    <3>10. memo[i][n] = Parse(scheme, Given(i, n))
      BY <2>1, <3>5, <3>8, <3>9 DEF OwnWorth
    <3>11. memo[i][n] # Bad
      BY <1>1, <3>2 DEF Grounded, TypeOK
    <3>12. Given(i, n) \in Text
      <4>1. base[i] \in Values /\ files \in Values
        BY <1>1 DEF Grounded, TypeOK
      <4>. QED
        BY <2>1, <3>2, <4>1 DEF Given, Values
    <3>13. scheme.type = "tuple" => IsList(scheme.of)
      BY <3>2, <3>4, TupleOfList DEF SchemeOf
    <3>. HIDE DEF s, scheme
    <3>14. HasType(scheme, Parse(scheme, Given(i, n)))
      BY <3>10, <3>11, <3>12, <3>13, ParseHasType
    <3>. QED
      BY <3>10, <3>14 DEF s, scheme
  <2>. QED
    BY <2>1 DEF GivenHasType
<1>. QED
  BY <1>1, Invariance, SettledAlways, PTL

-----------------------------------------------------------------------------
(* Outputs                                                                 *)

\* Template k of service i is written by this start, with the values of its service.
Written(i, k) ==
  outputs[services[i].targets[k]] = [service |-> i, values |-> memo[i], start |-> starts]

Whole(i) == \A k \in DOMAIN services[i].targets : Written(i, k)

\* Services before the one at hand are written, and of this one the templates
\* before the next.
Rendered ==
  /\ pc = "declare" => at = 1
  /\ pc \in Working => \A i \in DOMAIN services : i < at => Whole(i)
  /\ pc = "render" => \A k \in DOMAIN Here.targets : k < next => Written(at, k)
  /\ pc = "ended" => \A i \in DOMAIN services : Whole(i)

LEMMA AtType ==
  ASSUME TypeOK
  PROVE  /\ services \in Setups /\ at \in DOMAIN services /\ at \in Nat
         /\ DOMAIN services = 1 .. Len(services) /\ Len(services) \in Nat \ {0}
<1>1. services \in Setups /\ at \in DOMAIN services
  BY DEF TypeOK
<1>2. DOMAIN services = 1 .. Len(services) /\ Len(services) \in Nat \ {0}
  BY <1>1, SetupType
<1>. QED
  BY <1>1, <1>2

\* No template of the service at hand has the target of one of a service before.
LEMMA TargetsApart ==
  ASSUME TypeOK, Declarable(at), NEW i \in DOMAIN services, i < at,
         NEW k \in DOMAIN services[i].targets, NEW x \in DOMAIN Here.targets
  PROVE  services[i].targets[k] # Here.targets[x]
<1>1. i \in 1 .. at - 1
  BY AtType
<1>. QED
  BY <1>1 DEF Declarable, TargetTaken, Here

LEMMA RenderWrites ==
  ASSUME Grounded, Rendered, Render, UNCHANGED static
  PROVE  Rendered'
<1>1. TypeOK /\ pc = "render" /\ pc' = "render" /\ next' = next + 1 /\ next <= Len(Here.targets)
      /\ next \in Nat
  <2>1. TypeOK
    BY DEF Grounded
  <2>2. next \in Nat
    <3>1. next \in 1 .. Len(Here.args) + Len(Here.targets) + 1
      BY <2>1 DEF TypeOK
    <3>. QED
      BY <3>1
  <2>. QED
    BY <2>1, <2>2 DEF Render
<1>2. UNCHANGED <<services, at, memo, starts>> /\ Here' = Here
  BY DEF Render, static, Here
<1>3. Declarable(at) /\ at \in DOMAIN services
  BY <1>1, AtType DEF Grounded, InContext, Working
<1>4. DOMAIN Here.targets = 1 .. Len(Here.targets) /\ next \in DOMAIN Here.targets
      /\ Here.targets[next] \in Targets /\ Len(Here.targets) \in Nat
  <2>1. Here.targets \in Seq(Targets) /\ 1 <= next
    <3>1. Here.targets \in Seq(Targets)
      BY <1>1, HereType DEF TypeOK
    <3>2. next \in 1 .. Len(Here.args) + Len(Here.targets) + 1
      BY <1>1 DEF TypeOK
    <3>. QED
      BY <3>1, <3>2
  <2>2. next \in 1 .. Len(Here.targets)
    BY <1>1, <2>1
  <2>. QED
    BY <2>1, <2>2
<1>5. \A t : t # Here.targets[next] => outputs'[t] = outputs[t]
  <2>1. outputs' = [outputs EXCEPT ![Here.targets[next]] =
                     [service |-> at, values |-> memo[at], start |-> starts]]
    BY DEF Render
  <2>2. DOMAIN outputs' = DOMAIN outputs
    BY <2>1
  <2>. QED
    BY <2>1
<1>6. outputs'[Here.targets[next]] = [service |-> at, values |-> memo[at], start |-> starts]
  BY <1>1, <1>4 DEF Render, TypeOK
<1>7. ASSUME NEW i \in DOMAIN services, i < at
      PROVE  Whole(i)'
  <2>1. Whole(i)
    BY <1>1, <1>7 DEF Rendered, Working
  <2>2. \A k \in DOMAIN services[i].targets : services[i].targets[k] # Here.targets[next]
    BY <1>1, <1>3, <1>4, <1>7, TargetsApart
  <2>. QED
    BY <1>2, <1>5, <2>1, <2>2 DEF Whole, Written
<1>8. ASSUME NEW k \in DOMAIN Here.targets, k < next'
      PROVE  Written(at, k)'
  <2>1. services[at].targets[k] = Here.targets[k]
    BY DEF Here
  <2>2. CASE Here.targets[k] = Here.targets[next]
    BY <1>2, <1>6, <2>1, <2>2 DEF Written
  <2>3. CASE Here.targets[k] # Here.targets[next]
    <3>1. k < next
      <4>1. k # next /\ k \in Nat
        BY <1>4, <2>3
      <4>. QED
        BY <1>1, <1>8, <4>1
    <3>2. Written(at, k)
      BY <1>1, <3>1 DEF Rendered
    <3>. QED
      BY <1>2, <1>5, <2>1, <2>3, <3>2 DEF Written
  <2>. QED
    BY <2>2, <2>3
<1>. QED
  BY <1>1, <1>2, <1>7, <1>8 DEF Rendered

LEMMA StepRendered ==
  ASSUME Grounded, Rendered, [Next]_vars
  PROVE  Rendered'
<1>1. TypeOK /\ InContext /\ at \in Nat /\ at \in DOMAIN services
      /\ DOMAIN services = 1 .. Len(services) /\ Len(services) \in Nat
  BY AtType DEF Grounded
<1>2. CASE Start
  BY <1>2 DEF Start, Fresh, Rendered, Working
<1>3. ASSUME Moves, Course
      PROVE  Rendered'
  <2>1. UNCHANGED <<services, at, memo, starts>> /\ Here' = Here
    BY <1>3 DEF Moves, static, Here
  <2>2. CASE Render
    BY <1>3, <2>2, RenderWrites DEF Moves
  <2>3. CASE UNCHANGED outputs /\ (pc' = "render" => next' = 1)
    <3>1. \A i : Whole(i)' = Whole(i)
      BY <2>1, <2>3 DEF Whole, Written
    <3>2. pc' = "declare" => at' = 1
      BY <1>3, <2>1 DEF Moves, Rendered
    <3>3. pc' \in Working => \A i \in DOMAIN services : i < at => Whole(i)
      <4>1. CASE pc \in Working
        BY <4>1 DEF Rendered
      <4>2. CASE pc = "declare"
        <5>1. at = 1
          BY <4>2 DEF Rendered
        <5>2. \A i \in DOMAIN services : ~(i < at)
          BY <1>1, <5>1
        <5>. QED
          BY <5>2
      <4>. QED
        BY <1>3, <4>1, <4>2 DEF Course
    <3>4. pc' = "render" => \A k \in DOMAIN Here.targets : ~(k < next')
      <4>1. Here.targets \in Seq(Targets)
        BY <1>1, HereType DEF TypeOK
      <4>2. \A k \in DOMAIN Here.targets : ~(k < 1)
        BY <4>1
      <4>. QED
        BY <2>3, <4>2
    <3>5. pc' = "ended" => \A i \in DOMAIN services : Whole(i)
      <4>1. SUFFICES ASSUME pc' = "ended", NEW i \in DOMAIN services PROVE Whole(i)
        OBVIOUS
      <4>2. pc = "render" /\ next > Len(Here.targets) /\ at = Len(services)
        BY <1>3, <4>1 DEF Course
      <4>3. CASE i < at
        BY <4>2, <4>3 DEF Rendered, Working
      <4>4. CASE i = at
        <5>1. Here.targets \in Seq(Targets) /\ next \in Nat
          <6>1. Here.targets \in Seq(Targets)
            BY <1>1, HereType DEF TypeOK
          <6>2. next \in 1 .. Len(Here.args) + Len(Here.targets) + 1
            BY <1>1 DEF TypeOK
          <6>. QED
            BY <6>1, <6>2
        <5>2. \A k \in DOMAIN Here.targets : k < next
          BY <4>2, <5>1
        <5>. QED
          BY <4>2, <4>4, <5>2 DEF Rendered, Whole, Here
      <4>. QED
        BY <1>1, <4>2, <4>3, <4>4
    <3>. QED
      BY <2>1, <3>1, <3>2, <3>3, <3>4, <3>5 DEF Rendered
  <2>. QED
    BY <1>3, <2>2, <2>3 DEF Course
<1>4. CASE Advances
  <2>1. UNCHANGED <<services, memo, starts, outputs>> /\ at' = at + 1 /\ pc' = "resolve"
        /\ pc = "render" /\ next > Len(Here.targets)
    BY <1>4 DEF Advances, static
  <2>2. Here.targets \in Seq(Targets) /\ next \in Nat
    <3>1. Here.targets \in Seq(Targets)
      BY <1>1, HereType DEF TypeOK
    <3>2. next \in 1 .. Len(Here.args) + Len(Here.targets) + 1
      BY <1>1 DEF TypeOK
    <3>. QED
      BY <3>1, <3>2
  <2>3. \A k \in DOMAIN Here.targets : k < next
    BY <2>1, <2>2
  <2>4. Whole(at)
    BY <2>1, <2>3 DEF Rendered, Whole, Here
  <2>5. \A i \in DOMAIN services : i < at' => Whole(i)
    <3>1. \A i \in DOMAIN services : i < at' => i < at \/ i = at
      BY <1>1, <2>1
    <3>. QED
      BY <2>1, <2>4, <3>1 DEF Rendered, Working
  <2>6. \A i : Whole(i)' = Whole(i)
    BY <2>1 DEF Whole, Written
  <2>. QED
    BY <2>1, <2>5, <2>6 DEF Rendered
<1>5. CASE Keeps /\ UNCHANGED static
  <2>1. PICK value : Keep(value)
    BY <1>5 DEF Keeps
  <2>2. UNCHANGED <<services, at, starts, outputs>> /\ pc' = "resolve" /\ pc \in {"resolve", "wait"}
    BY <1>5, <2>1 DEF Keep, Keeps, static
  <2>3. \A i : i # at => memo'[i] = memo[i]
    BY <2>1 DEF Keep
  <2>4. \A i \in DOMAIN services : i < at => i # at /\ Whole(i)
    <3>1. pc \in Working
      BY <2>2 DEF Working
    <3>2. \A i \in DOMAIN services : i < at => i # at
      BY <1>1
    <3>. QED
      BY <3>1, <3>2 DEF Rendered
  <2>5. \A i \in DOMAIN services : i < at => Whole(i)'
    BY <2>2, <2>3, <2>4 DEF Whole, Written
  <2>. QED
    BY <2>2, <2>5 DEF Rendered
<1>6. ASSUME UNCHANGED <<services, pc, at, next, memo, outputs, starts>>
      PROVE  Rendered'
  <2>1. Here' = Here
    BY <1>6 DEF Here
  <2>2. \A i : Whole(i)' = Whole(i)
    BY <1>6 DEF Whole, Written
  <2>3. \A i, k : Written(i, k)' = Written(i, k)
    BY <1>6 DEF Written
  <2>. QED
    BY <1>6, <2>1, <2>2, <2>3 DEF Rendered
<1>7. CASE \E h \in Hosts : Flip(h)
  BY <1>6, <1>7 DEF Flip
<1>8. CASE UNCHANGED vars
  BY <1>6, <1>8 DEF vars, counts
<1>9. CASE Step \/ (RenderFails /\ UNCHANGED <<services, files, open, starts, flips>>)
  <2>1. Course
    BY <1>9, Courses
  <2>2. Next
    BY <1>9 DEF Next
  <2>. QED
    BY <1>1, <1>2, <1>3, <1>4, <1>5, <1>7, <2>1, <2>2, Kinds
<1>. QED
  BY <1>2, <1>7, <1>8, <1>9 DEF Next

\* A start that ends well leaves nothing of earlier ones (Render, NextService).
THEOREM EndedWell ==
  Spec => []EndedIsCurrent
<1>1. Init => Rendered
  BY DEF Init, Rendered, Working
<1>2. Grounded /\ Rendered /\ [Next]_vars => Rendered'
  BY StepRendered
<1>3. Rendered => EndedIsCurrent
  BY DEF Rendered, Whole, Written, EndedIsCurrent
<1>. QED
  BY <1>1, <1>2, <1>3, Invariance, PTL DEF Spec
-----------------------------------------------------------------------------
(* Hosts                                                                   *)

\* A wait of an argument that is set, and kept as done, has had its answer.
Answered(n) ==
  memo[at][n] = <<"bool", TRUE>> /\ Given(at, n) # None =>
    /\ memo[at][Here.host[n]] # None
    /\ HostIn[memo[at][Here.host[n]]] \in answered

Connections ==
  /\ \A n \in DOMAIN Here.host : Answered(n)
  /\ Here.wait # None /\ pc \in AfterArguments /\ memo[at][Here.wait.flag] = <<"bool", TRUE>> =>
       HostIn[memo[at][Here.wait.host]] \in answered

LEMMA HostArguments ==
  ASSUME services \in Setups, at \in DOMAIN services, NEW n \in DOMAIN Here.host
  PROVE  n \in Names /\ n \in Args(Here) /\ Here.host[n] \in Names
BY HereType

\* Without values, and before the last wait, nothing is asked for.
LEMMA NoConnections ==
  ASSUME services \in Setups, at \in DOMAIN services, pc \notin AfterArguments,
         \A n \in Names : memo[at][n] = None
  PROVE  Connections
<1>1. None # <<"bool", TRUE>>
  BY ConstantsAssumption DEF ConstantsAssumption
<1>. QED
  BY <1>1, HostArguments DEF Connections, Answered

LEMMA NoConnectionsNext ==
  ASSUME services' \in Setups, at' \in DOMAIN services', pc' \notin AfterArguments,
         \A n \in Names : memo'[at'][n] = None
  PROVE  Connections'
<1>1. None # <<"bool", TRUE>>
  BY ConstantsAssumption DEF ConstantsAssumption
<1>2. Service(Here')
  BY SetupType DEF Here
<1>3. ASSUME NEW n \in DOMAIN Here'.host
      PROVE  n \in Names
  <2>1. n \in Args(Here') /\ Here'.args \in Seq(Names)
    BY <1>2 DEF Service
  <2>. QED
    BY <2>1 DEF Args
<1>. QED
  BY <1>1, <1>3 DEF Connections, Answered

\* What is kept stays.
LEMMA KeptStays ==
  ASSUME Grounded, Settled, NEW value, stack # <<>>, Keep(value), Earned(value),
         NEW n \in Names, memo[at][n] # None
  PROVE  memo'[at][n] = memo[at][n]
<1>. DEFINE r == Resolving
            m == SchemeOf(Here, r).default.name
<1>1. at \in DOMAIN services /\ memo'[at][n] = IF n = r THEN value ELSE memo[at][n]
  BY KeepEffect DEF Grounded, TypeOK
<1>2. CASE n # r
  BY <1>1, <1>2
<1>3. CASE n = r
  <2>1. Stands(Here, AllGiven(at), memo[at]) /\ r \in Having(memo[at])
    BY <1>1, <1>3 DEF Settled, Here, Having
  <2>2. \/ ~Refers(Here, AllGiven(at), r) /\ value = OwnWorth(Here, AllGiven(at), r)
        \/ /\ Refers(Here, AllGiven(at), r)
           /\ m \in Having(memo[at]) /\ value = memo[at][m]
    <3>1. Args(Here) \subseteq Names
      BY HereType DEF Grounded, TypeOK
    <3>. QED
      BY <3>1 DEF Earned, Having
  <2>3. m = SchemeOf(Here, r).default.name
    OBVIOUS
  <2>. HIDE DEF r, m
  <2>4. value = memo[at][r]
    <3>1. CASE ~Refers(Here, AllGiven(at), r) /\ value = OwnWorth(Here, AllGiven(at), r)
      BY <2>1, <3>1, Again
    <3>2. CASE /\ Refers(Here, AllGiven(at), r)
               /\ m \in Having(memo[at]) /\ value = memo[at][m]
      BY <2>1, <2>3, <3>2, Again
    <3>. QED
      BY <2>2, <3>1, <3>2
  <2>. QED
    BY <1>1, <1>3, <2>4
<1>. QED
  BY <1>2, <1>3

LEMMA KeepsConnections ==
  ASSUME Grounded, Settled, Connections, Keeps, UNCHANGED static
  PROVE  Connections'
<1>1. PICK value : Keep(value) /\ Earned(value) /\ Connected(value)
  BY DEF Keeps
<1>2. services \in Setups /\ at \in DOMAIN services /\ stack # <<>>
  BY DEF Grounded, TypeOK, Keeps
<1>3. /\ UNCHANGED <<at, base>> /\ pc' = "resolve"
      /\ \A n \in Names : memo'[at][n] = IF n = Resolving THEN value ELSE memo[at][n]
  BY <1>1, <1>2, KeepEffect DEF Grounded
<1>4. UNCHANGED <<services, files>> /\ Here' = Here /\ answered \subseteq answered'
  BY <1>3 DEF static, Here, Keeps
<1>5. \A n \in Names : memo[at][n] # None => memo'[at][n] = memo[at][n]
  BY <1>1, <1>2, KeptStays
<1>6. ASSUME NEW n \in DOMAIN Here.host, memo'[at][n] = <<"bool", TRUE>>, Given(at, n) # None
      PROVE  /\ memo'[at][Here.host[n]] # None
             /\ HostIn[memo'[at][Here.host[n]]] \in answered'
  <2>1. n \in Names /\ Here.host[n] \in Names
    BY <1>2, HostArguments
  <2>2. /\ memo[at][Here.host[n]] # None
        /\ HostIn[memo[at][Here.host[n]]] \in answered'
    <3>1. CASE n = Resolving
      <4>1. value = <<"bool", TRUE>>
        BY <1>3, <1>6, <2>1, <3>1
      <4>. QED
        BY <1>1, <1>6, <3>1, <4>1 DEF Connected
    <3>2. CASE n # Resolving
      <4>1. memo[at][n] = <<"bool", TRUE>>
        BY <1>3, <1>6, <2>1, <3>2
      <4>. QED
        BY <1>4, <1>6, <4>1 DEF Connections, Answered
    <3>. QED
      BY <3>1, <3>2
  <2>. QED
    BY <1>5, <2>1, <2>2
<1>7. \A n : Given(at, n)' = Given(at, n)
  BY <1>3, <1>4 DEF Given
<1>8. \A n \in DOMAIN Here.host : Answered(n)'
  BY <1>3, <1>4, <1>6, <1>7 DEF Answered
<1>. QED
  BY <1>3, <1>4, <1>8 DEF Connections, AfterArguments

\* The last wait ends with a connection, or without the flag.
LEMMA LastConnection ==
  ASSUME LastWait, pc' \in AfterArguments, memo[at][Here.wait.flag] = <<"bool", TRUE>>
  PROVE  HostIn[memo[at][Here.wait.host]] \in answered'
<1>. DEFINE h == memo[at][Here.wait.host]
<1>1. pc = "last wait"
  BY DEF LastWait
<1>2. ~Fail
  BY DEF Fail, AfterArguments
<1>3. pc' # pc
  BY <1>1 DEF AfterArguments
<1>4. answered' = answered \cup {HostIn[h]}
  BY <1>2, <1>3 DEF LastWait
<1>. QED
  BY <1>4

LEMMA StepConnections ==
  ASSUME Grounded, Settled, Connections, [Next]_vars
  PROVE  Connections'
<1>1. TypeOK /\ InContext /\ at \in Nat /\ services \in Setups /\ at \in DOMAIN services
  BY AtType DEF Grounded
<1>2. ASSUME UNCHANGED <<services, at, memo, base, files>>, answered \subseteq answered'
      PROVE  /\ Here' = Here /\ \A n : Given(at, n)' = Given(at, n)
             /\ \A n \in DOMAIN Here.host : Answered(n)'
  <2>1. Here' = Here
    BY <1>2 DEF Here
  <2>2. \A n : Given(at, n)' = Given(at, n)
    BY <1>2 DEF Given
  <2>. QED
    BY <1>2, <2>1, <2>2 DEF Connections, Answered
<1>3. CASE Start
  <2>1. PICK e \in Environs : Fresh(services, e)
    BY <1>3 DEF Start
  <2>2. TypeOK'
    BY <1>1, <1>3, StartTyped
  <2>3. \A n \in Names : memo'[at'][n] = None
    BY <1>3, <2>1, <2>2 DEF Start, Fresh, Unresolved, TypeOK
  <2>4. services' \in Setups /\ at' \in DOMAIN services' /\ pc' \notin AfterArguments
    BY <2>1, <2>2 DEF TypeOK, Fresh, AfterArguments
  <2>. QED
    BY <2>3, <2>4, NoConnectionsNext
<1>4. ASSUME Moves, Course
      PROVE  Connections'
  <2>1. UNCHANGED <<services, at, memo, base, files>> /\ answered \subseteq answered'
    BY <1>4 DEF Moves, static
  <2>2. Here' = Here /\ \A n \in DOMAIN Here.host : Answered(n)'
    BY <1>2, <2>1
  <2>3. ASSUME Here.wait # None, pc' \in AfterArguments, memo[at][Here.wait.flag] = <<"bool", TRUE>>
        PROVE  HostIn[memo[at][Here.wait.host]] \in answered'
    <3>1. CASE pc \in {"initialize", "render"}
      BY <2>1, <2>3, <3>1 DEF Connections, AfterArguments
    <3>2. CASE LastWait
      BY <2>3, <3>2, LastConnection
    <3>. QED
      BY <1>4, <2>3, <3>1, <3>2 DEF Course
  <2>. QED
    BY <2>1, <2>2, <2>3 DEF Connections
<1>5. CASE Advances
  <2>1. TypeOK'
    BY <1>1, <1>5, AdvancesTyped
  <2>2. UNCHANGED <<services, memo>> /\ at' = at + 1 /\ pc' = "resolve"
    BY <1>5 DEF Advances, static
  <2>3. services' \in Setups /\ at' \in DOMAIN services' /\ at' > at
    <3>1. services' \in Setups /\ at' \in DOMAIN services'
      BY <2>1 DEF TypeOK
    <3>2. at' > at
      BY <1>1, <2>2
    <3>. QED
      BY <3>1, <3>2
  <2>4. \A n \in Names : memo'[at'][n] = None
    BY <1>1, <2>2, <2>3 DEF InContext
  <2>. QED
    BY <2>2, <2>3, <2>4, NoConnectionsNext DEF AfterArguments
<1>6. CASE Keeps /\ UNCHANGED static
  BY <1>6, KeepsConnections
<1>7. ASSUME UNCHANGED <<services, pc, at, memo, base, files, answered>>
      PROVE  Connections'
  <2>1. Here' = Here /\ \A n \in DOMAIN Here.host : Answered(n)'
    BY <1>2, <1>7
  <2>. QED
    BY <1>7, <2>1 DEF Connections
<1>8. CASE \E h \in Hosts : Flip(h)
  BY <1>7, <1>8 DEF Flip
<1>9. CASE UNCHANGED vars
  BY <1>7, <1>9 DEF vars
<1>10. CASE Step \/ (RenderFails /\ UNCHANGED <<services, files, open, starts, flips>>)
  <2>1. Course
    BY <1>10, Courses
  <2>2. Next
    BY <1>10 DEF Next
  <2>. QED
    BY <1>1, <1>3, <1>4, <1>5, <1>6, <1>8, <2>1, <2>2, Kinds
<1>. QED
  BY <1>3, <1>8, <1>9, <1>10 DEF Next

\* Whoever sets a WaitForPort, or the flag of the settings, goes on only after a
\* connection (wait_for_port).
THEOREM HostsAnswered ==
  Spec => []WaitedForHost
<1>1. ASSUME Init
      PROVE  Connections
  <2>1. TypeOK
    BY <1>1, InitTyped
  <2>2. \A n \in Names : memo[at][n] = None
    BY <1>1, <2>1 DEF Init, Unresolved, TypeOK
  <2>3. services \in Setups /\ at \in DOMAIN services /\ pc \notin AfterArguments
    BY <1>1, <2>1 DEF Init, TypeOK, AfterArguments
  <2>. QED
    BY <2>2, <2>3, NoConnections
<1>2. Grounded /\ Settled /\ Connections /\ [Next]_vars => Connections'
  BY StepConnections
<1>3. Connections => WaitedForHost
  BY DEF Connections, Answered, WaitedForHost, AfterArguments
<1>. QED
  BY <1>1, <1>2, <1>3, Invariance, SettledAlways, PTL DEF Spec
=============================================================================
