--------------------------- MODULE ArgumentTypes ---------------------------
(***************************************************************************)
(* The types of service-arguments: what a declaration in a Group means     *)
(* (TypeScheme.normalize, TypeScheme.__init__) and what a text from the    *)
(* environment means for it (_parse_decoded of each type).                 *)
(*                                                                         *)
(* Abstractions: a text is a sequence of parts, what split(',') gives, and *)
(* a part a sequence of words, what split(':') gives.  Of the primitive    *)
(* types there are str, int and bool (float and Path differ from them by   *)
(* name only), lists and tuples are of primitives, and an error, whatever  *)
(* its exception, is Bad.  encoding='base64' and the Url types, which only *)
(* take a text apart, are left out.                                        *)
(***************************************************************************)
EXTENDS Naturals, Sequences, FiniteSets

CONSTANTS
  Words,
  Number,  \* the words that int() takes, with their values
  Truths,  \* Bool.TRUE_STRINGS
  Lies     \* Bool.FALSE_STRINGS

ASSUME WordsAssumption ==
  /\ DOMAIN Number \subseteq Words /\ \A w \in DOMAIN Number : Number[w] \in Nat
  /\ Truths \subseteq Words /\ Lies \subseteq Words /\ Truths \cap Lies = {}
  /\ "" \in Words \ (DOMAIN Number \cup Truths \cup Lies)

\* Values carry their type, so that TLC can compare any two.
Bad     == <<"bad">>
Nothing == <<"none">>

\* ... and a declaration that is refused (ImproperlySpecifiedArguments, assert).
Refused == [type |-> "refused"]

\* split() never gives nothing.
Text == Seq(Seq(Words) \ {<<>>}) \ {<<>>}

OneWord(text) == Len(text) = 1 /\ Len(text[1]) = 1

-----------------------------------------------------------------------------
(* Texts                                                                   *)

ParsePrimitive(type, text) ==
  CASE type = "str" -> <<"str", text>>
    [] type = "int" /\ OneWord(text) /\ text[1][1] \in DOMAIN Number ->
         <<"int", Number[text[1][1]]>>
    [] type \in {"bool", "wait"} /\ OneWord(text) /\ text[1][1] \in Truths -> <<"bool", TRUE>>
    [] type \in {"bool", "wait"} /\ OneWord(text) /\ text[1][1] \in Lies -> <<"bool", FALSE>>
    [] OTHER -> Bad

\* Each part of a text by the type at its place: Bad when one of them is.
ParseParts(types, text) ==
  LET values == [i \in DOMAIN text |-> ParsePrimitive(types[i], <<text[i]>>)]
  IN  IF \E i \in DOMAIN values : values[i] = Bad THEN Bad ELSE <<"parts", values>>

\* The empty text is the empty list; else every part is an element.
ParseList(of, text) ==
  IF text = <<<<"">>>> THEN <<"list", <<>>>>
  ELSE LET parsed == ParseParts([i \in DOMAIN text |-> of[1]], text)
       IN  IF parsed = Bad THEN Bad ELSE <<"list", parsed[2]>>

\* Variant: the elements are paired with their types, whatever their number.
ParseTupleZipped(of, text) ==
  LET n == IF Len(text) < Len(of) THEN Len(text) ELSE Len(of)
      parsed == ParseParts(of, SubSeq(text, 1, n))
  IN  IF parsed = Bad THEN Bad ELSE <<"tuple", parsed[2]>>

\* As many parts as types.
ParseTuple(of, text) ==
  IF Len(text) # Len(of) THEN Bad
  ELSE LET parsed == ParseParts(of, text)
       IN  IF parsed = Bad THEN Bad ELSE <<"tuple", parsed[2]>>

\* key:value, where the value may have more colons; a key given twice keeps the
\* last value.
ParseDict(of, text) ==
  LET key(i) == ParsePrimitive(of[1], <<<<Head(text[i])>>>>)
      val(i) == ParsePrimitive(of[2], <<Tail(text[i])>>)
      keys   == {key(i) : i \in DOMAIN text}
      last(k) == CHOOSE i \in DOMAIN text :
                   key(i) = k /\ \A j \in i + 1 .. Len(text) : key(j) # k
  IN  IF \E i \in DOMAIN text : Len(text[i]) = 1 THEN Bad
      ELSE IF \E i \in DOMAIN text : Bad \in {key(i), val(i)} THEN Bad
      ELSE <<"dict", {<<k, val(last(k))>> : k \in keys}>>

Parse(scheme, text) ==
  CASE scheme.type = "list"  -> ParseList(scheme.of, text)
    [] scheme.type = "tuple" -> ParseTuple(scheme.of, text)
    [] scheme.type = "dict"  -> ParseDict(scheme.of, text)
    [] OTHER -> ParsePrimitive(scheme.type, text)

-----------------------------------------------------------------------------
(* Declarations                                                            *)

Empty == [kind |-> "empty"]
Typed(value) == [kind |-> "typed", value |-> value]

\* TypeScheme.__init__: a str is a text to be parsed, None is None, an explicit
\* typed, raw or ref is kept, and any other object is taken as it is.
DefaultFor(given) ==
  CASE given.kind = "text" -> [kind |-> "raw", text |-> given.text]
    [] given.kind = "object" -> Typed(given.value)
    [] OTHER -> given

Scheme(type, of, given) == [type |-> type, of |-> of, default |-> DefaultFor(given)]

\* get_default without a provider: a ref has none to ask.
OwnDefault(scheme) ==
  CASE scheme.default.kind = "typed" -> scheme.default.value
    [] scheme.default.kind = "none"  -> Nothing
    [] scheme.default.kind = "raw"   -> Parse(scheme, scheme.default.text)
    [] OTHER -> Bad

IsList(x) == Len(x) \in Nat /\ DOMAIN x = 1 .. Len(x)

\* What a Group may declare: schemes and displays have their parts in lists.
IsSpec(spec) ==
  /\ spec.form = "scheme" => IsList(spec.scheme.of)
  /\ spec.form \in {"list", "tuple"} => IsList(spec.items)

\* normalize: None, a scheme, a class, a literal.  bool, though its literals are
\* taken (as ints), is not among the classes.
NormalizeFlat(spec) ==
  CASE spec.form = "nothing" -> Scheme("str", <<>>, Empty)
    [] spec.form = "scheme"  -> spec.scheme
    [] spec.form = "class" /\ spec.type \in {"str", "int"} -> Scheme(spec.type, <<>>, Empty)
    [] spec.form = "literal" -> Scheme(spec.value[1], <<>>, Typed(spec.value))
    [] OTHER -> Refused

\* [x]: a list of x's, with what x has as default for its only element; []: of
\* str; [x, y, ...]: all of one type, and all with defaults.
NormalizeList(schemes) ==
  LET defaults == [i \in DOMAIN schemes |-> OwnDefault(schemes[i])]
  IN  IF schemes = <<>> THEN Scheme("list", <<"str">>, Typed(<<"list", <<>>>>))
      ELSE IF Len(schemes) = 1 /\ schemes[1].default = Empty
           THEN Scheme("list", <<schemes[1].type>>, Typed(<<"list", <<>>>>))
      ELSE IF \E i \in DOMAIN schemes :
                \/ defaults[i] = Bad
                \/ schemes[i].type # schemes[1].type
           THEN Refused
      ELSE Scheme("list", <<schemes[1].type>>, Typed(<<"list", defaults>>))

\* (x, y, ...): all with defaults.
NormalizeTuple(schemes) ==
  LET defaults == [i \in DOMAIN schemes |-> OwnDefault(schemes[i])]
  IN  IF schemes = <<>> \/ \E i \in DOMAIN schemes : defaults[i] = Bad THEN Refused
      ELSE Scheme("tuple", [i \in DOMAIN schemes |-> schemes[i].type],
                  Typed(<<"tuple", defaults>>))

Normalize(spec) ==
  IF spec.form \notin {"list", "tuple"} THEN NormalizeFlat(spec)
  ELSE LET schemes == [i \in DOMAIN spec.items |-> NormalizeFlat(spec.items[i])]
       IN  IF \E i \in DOMAIN schemes : schemes[i] = Refused THEN Refused
           ELSE IF spec.form = "list" THEN NormalizeList(schemes)
           ELSE NormalizeTuple(schemes)

-----------------------------------------------------------------------------
IsPrimitive(type, value) ==
  CASE type = "int" -> value[1] = "int" /\ value[2] \in Nat
    [] type \in {"bool", "wait"} -> value[1] = "bool" /\ value[2] \in BOOLEAN
    [] OTHER -> value[1] = "str"

\* The value is one that a declaration of this scheme announces.
HasType(scheme, value) ==
  CASE scheme.type = "list" ->
         /\ value[1] = "list"
         /\ \A i \in DOMAIN value[2] : IsPrimitive(scheme.of[1], value[2][i])
    [] scheme.type = "tuple" ->
         /\ value[1] = "tuple" /\ DOMAIN value[2] = DOMAIN scheme.of
         /\ \A i \in DOMAIN value[2] : IsPrimitive(scheme.of[i], value[2][i])
    [] scheme.type = "dict" ->
         /\ value[1] = "dict"
         /\ \A p \in value[2] : IsPrimitive(scheme.of[1], p[1]) /\ IsPrimitive(scheme.of[2], p[2])
         /\ \A p, q \in value[2] : p[1] = q[1] => p = q
    [] OTHER -> IsPrimitive(scheme.type, value)
=============================================================================
