------------------------- MODULE MCServiceArguments -------------------------
\* Instances of ServiceArguments for TLC.
EXTENDS ServiceArguments, TLC

CONSTANTS db

SomeWords  == {"", "7", "07", "on", "no", "a", "db"}
SomeNumber == "7" :> 7 @@ "07" :> 7
SomeTruths == {"on"}
SomeLies   == {"no"}

T(w) == <<<<w>>>>

\* Literals, classes and types as authors declare them.
Int(n)   == [form |-> "literal", value |-> <<"int", n>>]
Is(s)    == [form |-> "scheme", scheme |-> s]
RefTo(n) == [kind |-> "ref", name |-> n]

\* A service with a reference, a tuple, a dict and a wait; one with references in
\* a circle, to be broken by setting one; one with the target of another.
First ==
  [args |-> <<"A", "B", "D", "H", "P", "W">>,
   specs |-> "A" :> Int(7) @@ "B" :> Is(Scheme("str", <<>>, RefTo("A")))
          @@ "D" :> Is(Scheme("dict", <<"str", "int">>, [kind |-> "object", value |-> <<"dict", {}>>]))
          @@ "H" :> Is(Scheme("str", <<>>, [kind |-> "text", text |-> T("db")]))
          @@ "P" :> [form |-> "tuple", items |-> <<Int(7), Int(7)>>]
          @@ "W" :> Is(Scheme("wait", <<>>, [kind |-> "object", value |-> <<"bool", FALSE>>])),
   host |-> "W" :> "H", targets |-> <<"x", "y">>, wait |-> None]

Second ==
  [args |-> <<"A", "B">>,
   specs |-> "A" :> Is(Scheme("str", <<>>, RefTo("B"))) @@ "B" :> Is(Scheme("str", <<>>, RefTo("A"))),
   host |-> <<>>, targets |-> <<"z">>, wait |-> None]

Third ==
  [args |-> <<"A", "L">>,
   specs |-> "A" :> [form |-> "class", type |-> "int"]
          @@ "L" :> [form |-> "list", items |-> <<Int(7)>>],
   host |-> <<>>, targets |-> <<"y">>, wait |-> None]

\* main/settings.py: no templates, a wait at the end.
Settings ==
  [args |-> <<"H", "W">>,
   specs |-> "H" :> [form |-> "literal", value |-> <<"str", T("db")>>]
          @@ "W" :> [form |-> "literal", value |-> <<"bool", FALSE>>],
   host |-> <<>>, targets |-> <<>>, wait |-> [flag |-> "W", host |-> "H"]]

\* Declarations that are refused: a class that is none, a name given twice.
BoolClass == [Settings EXCEPT !.specs["W"] = [form |-> "class", type |-> "bool"]]
Twice     == [Third EXCEPT !.args = <<"A", "L", "A">>]
\* A wait whose default is a text; references to no argument.
TextWait == [First EXCEPT !.specs["W"] = Is(Scheme("wait", <<>>, [kind |-> "text", text |-> T("on")]))]
NoSuch   == [First EXCEPT !.specs["B"] = Is(Scheme("str", <<>>, RefTo("L"))), !.host["W"] = "L"]

SomeSetups == {<<First, Second>>, <<First, Third>>, <<Third>>, <<Settings>>, <<BoolClass>>,
               <<Twice>>, <<TextWait>>, <<NoSuch>>}

SomeNames == {"A", "B", "D", "H", "L", "P", "W"}
Unset     == [n \in SomeNames |-> None]

Env(e) == [environ |-> e @@ Unset, files |-> Unset]

SomeEnvirons ==
  {Env(<<>>),
   Env("A" :> T("07") @@ "W" :> T("on")),
   [environ |-> "W" :> T("no") @@ "B" :> T("a") @@ Unset,
    files   |-> "B" :> T("7") @@ "A" :> T("7") @@ "W" :> T("on") @@ Unset],
   Env("A" :> T("7") @@ "P" :> <<<<"7">>>> @@ "D" :> <<<<"a", "7">>, <<"a", "07">>>>),
   Env("A" :> T("7") @@ "P" :> <<<<"7">>, <<"07">>>> @@ "D" :> <<<<"a">>>> @@ "L" :> T("")),
   Env("A" :> T("7") @@ "L" :> <<<<"7">>, <<"a">>>> @@ "H" :> T("a") @@ "W" :> T("on"))}

SomeHostIn == <<"str", T("db")>> :> db
=============================================================================
