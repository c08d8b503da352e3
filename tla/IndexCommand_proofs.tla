------------------------ MODULE IndexCommand_proofs ------------------------
(***************************************************************************)
(* Proofs about IndexCommand: for any number of commands at once, whatever *)
(* their options, records and failed calls.                                *)
(***************************************************************************)
EXTENDS IndexCommand, TLAPS

Fills == {"populate", "rebuild"}

Active(c) == step[c] \notin {"idle", "refresh", "ok", "error"}

\* What is left of a handler: one part, or the rest of a rebuild.
Rest(s) ==
  \/ s = <<>> \/ s = <<s[1]>>
  \/ s = <<"create", "populate">> \/ s = <<"delete", "create", "populate">>

\* A command is where its first part says, and one that fills the index has the
\* filling still to do.
Placed(c) ==
  /\ step[c] \in Steps
  /\ Rest(todo[c])
  /\ Active(c) => todo[c] # <<>>
  /\ step[c] \in {"ask", "delete"} => todo[c][1] = "delete"
  /\ step[c] \in {"exists", "drop", "create"} => todo[c][1] = "create"
  /\ step[c] \in {"check", "add", "single"} => todo[c][1] \notin {"delete", "create"}
  /\ step[c] = "single" => todo[c][1] # "populate"
  /\ Active(c) /\ Action(options[c]) \in Fills =>
       todo[c] \in {<<"populate">>, <<"create", "populate">>, <<"delete", "create", "populate">>}
  /\ Active(c) /\ Action(options[c]) = "populate" => todo[c] = <<"populate">>

\* An unforced command removes nothing before it asked, and then one index.
Asked(c) ==
  /\ deleted[c] \in Nat
  /\ step[c] \in {"idle", "ask"} => ~answered[c]
  /\ ~options[c].force =>
       /\ deleted[c] <= 1
       /\ deleted[c] = 1 => answered[c]
       /\ step[c] \in {"idle", "ask", "delete"} => deleted[c] = 0
       /\ step[c] = "delete" => answered[c]
       /\ step[c] # "drop"

\* A command that should have filled the index by now did.
Filled(c) ==
  /\ step[c] \in {"refresh", "ok"}
  /\ ~options[c].quiet
  /\ Action(options[c]) \in Fills
  /\ answered[c] \/ options[c].force \/ Action(options[c]) = "populate"
  => added[c]

Functions ==
  /\ step = [c \in Commands |-> step[c]]
  /\ todo = [c \in Commands |-> todo[c]]
  /\ answered = [c \in Commands |-> answered[c]]
  /\ deleted = [c \in Commands |-> deleted[c]]
  /\ added = [c \in Commands |-> added[c]]

IInv == Functions /\ \A c \in Commands : Placed(c) /\ Asked(c) /\ Filled(c)

-----------------------------------------------------------------------------
LEMMA Tuples ==
  /\ Tail(<<"create", "populate">>) = <<"populate">>
  /\ Tail(<<"delete", "create", "populate">>) = <<"create", "populate">>
  /\ <<"populate">> # <<>> /\ <<"populate">>[1] = "populate"
  /\ <<"create", "populate">> # <<>> /\ <<"create", "populate">>[1] = "create"
OBVIOUS

LEMMA InitIInv == Init => IInv
<1> SUFFICES ASSUME Init PROVE IInv
  OBVIOUS
<1>1. Functions
  BY DEF Init, Functions
<1>2. ASSUME NEW c \in Commands PROVE Placed(c) /\ Asked(c) /\ Filled(c)
  BY DEF Init, Placed, Asked, Filled, Active, Rest, Steps
<1>. QED
  BY <1>1, <1>2 DEF IInv

\* What a handler goes on with after its first part.
LEMMA AfterFirst ==
  ASSUME NEW c \in Commands, Placed(c), Active(c)
  PROVE  /\ Rest(Tail(todo[c]))
         /\ After(c) \in {"refresh", "exists", "check"}
         /\ After(c) = "exists" => Tail(todo[c]) = <<"create", "populate">>
         /\ After(c) = "check"  => Tail(todo[c]) = <<"populate">>
         /\ After(c) = "refresh" => todo[c] = <<todo[c][1]>>
         /\ Action(options[c]) = "populate" => After(c) = "refresh"
<1>1. CASE todo[c] = <<todo[c][1]>>
  <2>1. Tail(todo[c]) = <<>> /\ Len(todo[c]) = 1
    <3>1. PICK part : part = todo[c][1]
      OBVIOUS
    <3>2. Tail(<<part>>) = <<>> /\ Len(<<part>>) = 1
      OBVIOUS
    <3>. QED
      BY <1>1, <3>1, <3>2
  <2>. QED
    BY <1>1, <2>1 DEF After, Rest
<1>2. CASE todo[c] = <<"create", "populate">>
  <2>1. Tail(todo[c]) = <<"populate">>
    BY <1>2, Tuples
  <2>2. Len(todo[c]) = 2 /\ todo[c][2] = "populate"
    BY <1>2
  <2>4. todo[c] # <<"populate">>
    BY <1>2, Tuples
  <2>3. Rest(<<"populate">>)
    BY DEF Rest
  <2>. QED
    BY <1>2, <2>1, <2>2, <2>3, <2>4 DEF After, First, Placed
<1>3. CASE todo[c] = <<"delete", "create", "populate">>
  <2>1. /\ Tail(todo[c]) = <<"create", "populate">> /\ Len(todo[c]) = 3 /\ todo[c][2] = "create"
        /\ todo[c] # <<"populate">>
    BY <1>3
  <2>. QED
    BY <1>3, <2>1 DEF After, First, Rest, Placed
<1>. QED
  BY <1>1, <1>2, <1>3 DEF Placed, Rest

\* The other commands stay as they are.
LEMMA OthersKeep ==
  ASSUME IInv, NEW c \in Commands, NEW d \in Commands, c # d, Step(c)
  PROVE  Placed(d)' /\ Asked(d)' /\ Filled(d)'
<1>1. /\ step'[d] = step[d] /\ todo'[d] = todo[d] /\ answered'[d] = answered[d]
      /\ deleted'[d] = deleted[d] /\ added'[d] = added[d] /\ options' = options
  BY DEF Step, Begin, Ask, Delete, Exists, Drop, Create, Check, Add, Single, Gone, CallFails,
         Refresh, Goto, Proceed, Return, Warn, Failed, Removed, IInv, Functions
<1>. QED
  BY <1>1 DEF IInv, Placed, Asked, Filled, Active

\* A handler that goes on, or ends here, is in its place again.
LEMMA ProceedPlaces ==
  ASSUME IInv, NEW c \in Commands, Active(c), Proceed(c), options' = options
  PROVE  /\ step'[c] \in {"refresh", "exists", "check"}
         /\ step'[c] = "refresh" => todo[c] = <<todo[c][1]>>
         /\ Placed(c)'
         /\ step' = [d \in Commands |-> step'[d]] /\ todo' = [d \in Commands |-> todo'[d]]
<1>1. /\ step' = [step EXCEPT ![c] = After(c)] /\ todo' = [todo EXCEPT ![c] = Tail(todo[c])]
  BY DEF Proceed, Goto
<1>2. /\ step'[c] = After(c) /\ todo'[c] = Tail(todo[c])
      /\ step' = [d \in Commands |-> step'[d]] /\ todo' = [d \in Commands |-> todo'[d]]
  BY <1>1 DEF IInv, Functions
<1>3. Placed(c)
  BY DEF IInv
<1>4. /\ Rest(Tail(todo[c]))
      /\ After(c) \in {"refresh", "exists", "check"}
      /\ After(c) = "exists" => Tail(todo[c]) = <<"create", "populate">>
      /\ After(c) = "check"  => Tail(todo[c]) = <<"populate">>
      /\ After(c) = "refresh" => todo[c] = <<todo[c][1]>>
      /\ Action(options[c]) = "populate" => After(c) = "refresh"
  BY <1>3, AfterFirst
<1>5. Placed(c)'
  <2>1. CASE After(c) = "refresh"
    BY <1>2, <1>4, <2>1 DEF Placed, Active, Steps
  <2>2. CASE After(c) = "exists"
    <3>1. todo'[c] = <<"create", "populate">> /\ todo'[c][1] = "create" /\ todo'[c] # <<>>
      BY <1>2, <1>4, <2>2, Tuples
    <3>. QED
      BY <1>2, <1>4, <2>2, <3>1 DEF Placed, Active, Steps
  <2>3. CASE After(c) = "check"
    <3>1. todo'[c] = <<"populate">> /\ todo'[c][1] = "populate" /\ todo'[c] # <<>>
      BY <1>2, <1>4, <2>3, Tuples
    <3>. QED
      BY <1>2, <1>4, <2>3, <3>1 DEF Placed, Active, Steps
  <2>. QED
    BY <1>4, <2>1, <2>2, <2>3
<1>. QED
  BY <1>2, <1>4, <1>5

LEMMA ReturnPlaces ==
  ASSUME IInv, NEW c \in Commands, Return(c), options' = options
  PROVE  /\ step'[c] = "refresh" /\ Placed(c)'
         /\ step' = [d \in Commands |-> step'[d]] /\ todo' = [d \in Commands |-> todo'[d]]
<1>1. /\ step'[c] = "refresh" /\ todo'[c] = <<>>
      /\ step' = [d \in Commands |-> step'[d]] /\ todo' = [d \in Commands |-> todo'[d]]
  BY DEF Return, Goto, IInv, Functions
<1>. QED
  BY <1>1 DEF Placed, Active, Steps, Rest

\* ... and so is one that goes to another step of the same part.
LEMMA GotoPlaces ==
  ASSUME IInv, NEW c \in Commands, NEW s, Goto(c, s), UNCHANGED <<todo, options>>
  PROVE  /\ step'[c] = s /\ todo'[c] = todo[c]
         /\ s = "error" => Placed(c)'
         /\ step' = [d \in Commands |-> step'[d]] /\ todo' = [d \in Commands |-> todo'[d]]
<1>1. /\ step'[c] = s /\ todo'[c] = todo[c]
      /\ step' = [d \in Commands |-> step'[d]] /\ todo' = [d \in Commands |-> todo'[d]]
  BY DEF Goto, IInv, Functions
<1>. QED
  BY <1>1 DEF IInv, Placed, Active, Steps, Rest

\* A call that fails, and a part that has nothing to do, leave the rest alone.
LEMMA FailedKeeps ==
  ASSUME IInv, NEW c \in Commands, Active(c), Failed(c),
         UNCHANGED <<options, answered, deleted, added>>
  PROVE  Functions' /\ Placed(c)' /\ Asked(c)' /\ Filled(c)'
<1>1. CASE options[c].quiet
  <2>1. Return(c)
    BY <1>1 DEF Failed
  <2>. QED
    BY <1>1, <2>1, ReturnPlaces DEF IInv, Functions, Asked, Filled
<1>2. CASE ~options[c].quiet
  <2>1. Goto(c, "error") /\ UNCHANGED todo
    BY <1>2 DEF Failed
  <2>. QED
    BY <1>2, <2>1, GotoPlaces DEF IInv, Functions, Asked, Filled
<1>. QED
  BY <1>1, <1>2

LEMMA WarnKeeps ==
  ASSUME IInv, NEW c \in Commands, Active(c), Warn(c),
         UNCHANGED <<options, answered, deleted, added>>
  PROVE  Functions' /\ Placed(c)' /\ Asked(c)' /\ Filled(c)'
<1>1. CASE options[c].quiet
  <2>1. Proceed(c)
    BY <1>1 DEF Warn
  <2>. QED
    BY <1>1, <2>1, ProceedPlaces DEF IInv, Functions, Asked, Filled
<1>2. CASE ~options[c].quiet
  <2>1. Goto(c, "error") /\ UNCHANGED todo
    BY <1>2 DEF Warn
  <2>. QED
    BY <1>2, <2>1, GotoPlaces DEF IInv, Functions, Asked, Filled
<1>. QED
  BY <1>1, <1>2

-----------------------------------------------------------------------------
(* Each step                                                               *)

LEMMA BeginKeeps ==
  ASSUME IInv, NEW c \in Commands, Begin(c)
  PROVE  Functions' /\ Placed(c)' /\ Asked(c)' /\ Filled(c)'
<1>1. CASE Action(options[c]) = None
  <2>1. Goto(c, "error") /\ UNCHANGED <<todo, options, answered, deleted, added>>
    BY <1>1 DEF Begin
  <2>. QED
    BY <2>1, GotoPlaces DEF IInv, Functions, Asked, Filled
<1>2. CASE Action(options[c]) # None
  <2> DEFINE parts == Parts(Action(options[c]))
  <2>1. /\ todo' = [todo EXCEPT ![c] = parts]
        /\ step' = [step EXCEPT ![c] = First(parts[1])]
        /\ UNCHANGED <<options, answered, deleted, added>>
    BY <1>2 DEF Begin, Goto
  <2>2. /\ todo'[c] = parts /\ step'[c] = First(parts[1])
        /\ step' = [d \in Commands |-> step'[d]] /\ todo' = [d \in Commands |-> todo'[d]]
    BY <2>1 DEF IInv, Functions
  <2>3. /\ Rest(parts) /\ parts # <<>>
        /\ Action(options[c]) = "rebuild" => parts = <<"delete", "create", "populate">>
        /\ Action(options[c]) = "populate" => parts = <<"populate">>
        /\ First(parts[1]) \in {"ask", "exists", "check"}
        /\ First(parts[1]) = "ask" => parts[1] = "delete"
        /\ First(parts[1]) = "exists" => parts[1] = "create"
        /\ First(parts[1]) = "check" => parts[1] \notin {"delete", "create"}
    <3>1. CASE Action(options[c]) = "rebuild"
      BY <3>1 DEF Parts, First, Rest
    <3>2. CASE Action(options[c]) # "rebuild"
      BY <3>2 DEF Parts, First, Rest
    <3>. QED
      BY <3>1, <3>2
  <2>4. Placed(c)'
    BY <2>1, <2>2, <2>3 DEF Placed, Active, Steps, Fills
  <2>5. Asked(c)' /\ Filled(c)'
    BY <2>1, <2>2, <2>3 DEF IInv, Asked, Filled, Begin, At
  <2>. QED
    BY <2>1, <2>2, <2>4, <2>5 DEF IInv, Functions
<1>. QED
  BY <1>1, <1>2

\* A part goes on to another of its own steps.
LEMMA SamePart ==
  ASSUME IInv, NEW c \in Commands, Active(c), NEW s, Goto(c, s), UNCHANGED <<todo, options>>,
         \/ s \in {"ask", "delete"} /\ todo[c][1] = "delete"
         \/ s \in {"exists", "drop", "create"} /\ todo[c][1] = "create"
         \/ s = "add" /\ todo[c][1] = "populate"
         \/ s = "single" /\ todo[c][1] = "single"
  PROVE  Placed(c)'
BY GotoPlaces DEF IInv, Placed, Active, Steps

LEMMA AskKeeps ==
  ASSUME IInv, NEW c \in Commands, Ask(c)
  PROVE  Functions' /\ Placed(c)' /\ Asked(c)' /\ Filled(c)'
<1>1. Active(c) /\ todo[c][1] = "delete"
  BY DEF Ask, At, Active, IInv, Placed
<1>2. UNCHANGED <<options, deleted, added>>
  BY DEF Ask
<1>3. CASE options[c].force /\ Goto(c, "delete") /\ UNCHANGED <<todo, answered>>
  BY <1>1, <1>2, <1>3, GotoPlaces, SamePart DEF IInv, Functions, Asked, Filled
<1>4. CASE /\ ~options[c].force /\ Goto(c, "delete") /\ UNCHANGED todo
           /\ answered' = [answered EXCEPT ![c] = TRUE]
  <2>1. answered'[c] /\ answered' = [d \in Commands |-> answered'[d]]
    BY <1>4 DEF IInv, Functions
  <2>2. deleted[c] = 0
    BY <1>4 DEF Ask, At, IInv, Asked
  <2>. QED
    BY <1>1, <1>2, <1>4, <2>1, <2>2, GotoPlaces, SamePart DEF IInv, Functions, Asked, Filled
<1>5. CASE ~options[c].force /\ Return(c) /\ UNCHANGED answered
  <2>1. ~answered[c] /\ deleted[c] = 0 /\ Action(options[c]) # "populate"
    <3>1. <<"populate">>[1] = "populate"
      OBVIOUS
    <3>. QED
      BY <1>1, <1>5, <3>1 DEF Ask, At, IInv, Asked, Placed
  <2>. QED
    BY <1>2, <1>5, <2>1, ReturnPlaces DEF IInv, Functions, Asked, Filled
<1>. QED
  BY <1>3, <1>4, <1>5 DEF Ask

LEMMA RemovedCounts ==
  ASSUME IInv, NEW c \in Commands, Removed(c)
  PROVE  /\ deleted'[c] \in {deleted[c], deleted[c] + 1}
         /\ deleted' = [d \in Commands |-> deleted'[d]]
BY DEF Removed, IInv, Functions

LEMMA DeleteKeeps ==
  ASSUME IInv, NEW c \in Commands, Delete(c)
  PROVE  Functions' /\ Placed(c)' /\ Asked(c)' /\ Filled(c)'
<1>1. /\ Active(c) /\ todo[c][1] = "delete"
      /\ Removed(c) /\ Proceed(c) /\ UNCHANGED <<options, answered, added>>
  BY DEF Delete, At, Active, IInv, Placed
<1>2. /\ step'[c] \in {"refresh", "exists", "check"}
      /\ step'[c] = "refresh" => todo[c] = <<"delete">>
      /\ Placed(c)'
      /\ step' = [d \in Commands |-> step'[d]] /\ todo' = [d \in Commands |-> todo'[d]]
  BY <1>1, ProceedPlaces
<1>3. Asked(c)'
  <2>1. deleted[c] \in Nat /\ (~options[c].force => deleted[c] = 0 /\ answered[c])
    BY DEF Delete, At, IInv, Asked
  <2>. QED
    BY <1>1, <1>2, <2>1, RemovedCounts DEF Asked
<1>4. Filled(c)'
  <2>1. <<"delete">>[1] = "delete" /\ <<"populate">>[1] = "populate" /\ Len(<<"delete">>) = 1
        /\ Len(<<"create", "populate">>) = 2 /\ Len(<<"delete", "create", "populate">>) = 3
    OBVIOUS
  <2>2. step'[c] = "refresh" => Action(options[c]) \notin Fills
    <3>1. ASSUME todo[c] = <<"delete">> PROVE Action(options[c]) \notin Fills
      BY <1>1, <3>1, <2>1 DEF IInv, Placed
    <3>. QED
      BY <1>2, <3>1
  <2>. QED
    BY <1>1, <1>2, <2>2 DEF Filled
<1>. QED
  BY <1>1, <1>2, <1>3, <1>4, RemovedCounts DEF IInv, Functions

\* A create that is done, or not needed, is not the last part of what fills.
LEMMA CreatedKeeps ==
  ASSUME IInv, NEW c \in Commands, todo[c][1] = "create", Active(c), Proceed(c),
         UNCHANGED <<options, answered, deleted, added>>
  PROVE  Functions' /\ Placed(c)' /\ Asked(c)' /\ Filled(c)'
<1>1. /\ step'[c] \in {"refresh", "exists", "check"}
      /\ step'[c] = "refresh" => todo[c] = <<"create">>
      /\ Placed(c)'
      /\ step' = [d \in Commands |-> step'[d]] /\ todo' = [d \in Commands |-> todo'[d]]
  BY ProceedPlaces
<1>2. ASSUME todo[c] = <<"create">> PROVE Action(options[c]) \notin Fills
  <2>1. <<"populate">>[1] = "populate" /\ Len(<<"create">>) = 1
        /\ Len(<<"create", "populate">>) = 2 /\ Len(<<"delete", "create", "populate">>) = 3
    OBVIOUS
  <2>. QED
    BY <1>2, <2>1 DEF IInv, Placed
<1>. QED
  BY <1>1, <1>2 DEF IInv, Functions, Asked, Filled

LEMMA ExistsKeeps ==
  ASSUME IInv, NEW c \in Commands, Exists(c)
  PROVE  Functions' /\ Placed(c)' /\ Asked(c)' /\ Filled(c)'
<1>1. /\ Active(c) /\ todo[c][1] = "create"
      /\ UNCHANGED <<options, answered, deleted, added>>
  BY DEF Exists, At, Active, IInv, Placed
<1>2. CASE Goto(c, "create") /\ UNCHANGED todo
  BY <1>1, <1>2, GotoPlaces, SamePart DEF IInv, Functions, Asked, Filled
<1>3. CASE options[c].force /\ Goto(c, "drop") /\ UNCHANGED todo
  BY <1>1, <1>3, GotoPlaces, SamePart DEF IInv, Functions, Asked, Filled
<1>4. CASE Proceed(c)
  BY <1>1, <1>4, CreatedKeeps
<1>5. CASE Warn(c)
  BY <1>1, <1>5, WarnKeeps
<1>. QED
  BY <1>2, <1>3, <1>4, <1>5 DEF Exists

LEMMA DropKeeps ==
  ASSUME IInv, NEW c \in Commands, Drop(c)
  PROVE  Functions' /\ Placed(c)' /\ Asked(c)' /\ Filled(c)'
<1>1. /\ Active(c) /\ todo[c][1] = "create" /\ options[c].force
      /\ UNCHANGED <<options, answered, added>>
  BY DEF Drop, At, Active, IInv, Placed, Asked
<1>2. CASE Failed(c) /\ UNCHANGED deleted
  BY <1>1, <1>2, FailedKeeps
<1>3. CASE Removed(c) /\ Goto(c, "create") /\ UNCHANGED todo
  BY <1>1, <1>3, GotoPlaces, SamePart, RemovedCounts DEF IInv, Functions, Asked, Filled
<1>. QED
  BY <1>2, <1>3 DEF Drop

LEMMA CreateKeeps ==
  ASSUME IInv, NEW c \in Commands, Create(c)
  PROVE  Functions' /\ Placed(c)' /\ Asked(c)' /\ Filled(c)'
<1>1. /\ Active(c) /\ todo[c][1] = "create"
      /\ UNCHANGED <<options, answered, deleted, added>>
  BY DEF Create, At, Active, IInv, Placed
<1>. QED
  BY <1>1, CreatedKeeps, FailedKeeps DEF Create

LEMMA CheckKeeps ==
  ASSUME IInv, NEW c \in Commands, Check(c)
  PROVE  Functions' /\ Placed(c)' /\ Asked(c)' /\ Filled(c)'
<1>1. /\ Active(c) /\ todo[c][1] \notin {"delete", "create"}
      /\ UNCHANGED <<options, answered, deleted, added>>
  BY DEF Check, At, Active, IInv, Placed
<1>2. CASE Warn(c)
  BY <1>1, <1>2, WarnKeeps
<1>3. CASE todo[c][1] = "populate" /\ Goto(c, "add") /\ UNCHANGED todo
  BY <1>1, <1>3, GotoPlaces, SamePart DEF IInv, Functions, Asked, Filled
<1>4. CASE todo[c][1] = "single" /\ Goto(c, "single") /\ UNCHANGED todo
  BY <1>1, <1>4, GotoPlaces, SamePart DEF IInv, Functions, Asked, Filled
<1>5. CASE todo[c][1] \notin {"populate", "single"} /\ Proceed(c)
  <2>1. Action(options[c]) \notin Fills
    <3>1. /\ <<"populate">>[1] = "populate" /\ <<"create", "populate">>[1] = "create"
          /\ <<"delete", "create", "populate">>[1] = "delete"
      OBVIOUS
    <3>. QED
      BY <1>1, <1>5, <3>1 DEF IInv, Placed
  <2>. QED
    BY <1>1, <1>5, <2>1, ProceedPlaces DEF IInv, Functions, Asked, Filled
<1>. QED
  BY <1>2, <1>3, <1>4, <1>5 DEF Check

LEMMA AddKeeps ==
  ASSUME IInv, NEW c \in Commands, Add(c)
  PROVE  Functions' /\ Placed(c)' /\ Asked(c)' /\ Filled(c)'
<1>1. /\ Active(c) /\ UNCHANGED <<options, answered, deleted>>
  BY DEF Add, At, Active
<1>2. CASE UNCHANGED <<step, todo, added>>
  BY <1>1, <1>2 DEF IInv, Functions, Placed, Asked, Filled, Active
<1>3. CASE Proceed(c) /\ added' = [added EXCEPT ![c] = TRUE]
  <2>1. added'[c] /\ added' = [d \in Commands |-> added'[d]]
    BY <1>3 DEF IInv, Functions
  <2>. QED
    BY <1>1, <1>3, <2>1, ProceedPlaces DEF IInv, Functions, Asked, Filled
<1>. QED
  BY <1>2, <1>3 DEF Add

LEMMA SingleKeeps ==
  ASSUME IInv, NEW c \in Commands, Single(c)
  PROVE  Functions' /\ Placed(c)' /\ Asked(c)' /\ Filled(c)'
<1>1. /\ Active(c) /\ todo[c][1] \notin {"delete", "create", "populate"} /\ Proceed(c)
      /\ UNCHANGED <<options, answered, deleted, added>>
  BY DEF Single, At, Active, IInv, Placed
<1>2. Action(options[c]) \notin Fills
  <2>1. /\ <<"populate">>[1] = "populate" /\ <<"create", "populate">>[1] = "create"
        /\ <<"delete", "create", "populate">>[1] = "delete"
    OBVIOUS
  <2>. QED
    BY <1>1, <2>1 DEF IInv, Placed
<1>. QED
  BY <1>1, <1>2, ProceedPlaces DEF IInv, Functions, Asked, Filled

LEMMA RefreshKeeps ==
  ASSUME IInv, NEW c \in Commands, Refresh(c)
  PROVE  Functions' /\ Placed(c)' /\ Asked(c)' /\ Filled(c)'
<1>1. PICK s \in {"error", "ok"} : Goto(c, s)
  BY DEF Refresh
<1>2. /\ step'[c] = s /\ todo'[c] = todo[c] /\ step[c] = "refresh"
      /\ step' = [d \in Commands |-> step'[d]] /\ todo' = [d \in Commands |-> todo'[d]]
      /\ UNCHANGED <<todo, options, answered, deleted, added>>
  BY <1>1, GotoPlaces DEF Refresh, At
<1>. QED
  BY <1>2 DEF IInv, Functions, Placed, Asked, Filled, Active, Steps

LEMMA StepKeepsIInv ==
  ASSUME IInv, NEW c \in Commands, Step(c)
  PROVE  IInv'
<1>1. Functions' /\ Placed(c)' /\ Asked(c)' /\ Filled(c)'
  <2>1. CASE Gone(c) \/ CallFails(c)
    <3>1. Active(c) /\ Failed(c) /\ UNCHANGED <<options, answered, deleted, added>>
      BY <2>1 DEF Gone, CallFails, Active
    <3>. QED
      BY <3>1, FailedKeeps
  <2>. QED
    BY <2>1, BeginKeeps, AskKeeps, DeleteKeeps, ExistsKeeps, DropKeeps, CreateKeeps, CheckKeeps,
       AddKeeps, SingleKeeps, RefreshKeeps DEF Step
<1>. QED
  BY <1>1, OthersKeep DEF IInv

THEOREM Invariance == Spec => []IInv
<1>1. IInv /\ [Next]_commandVars => IInv'
  <2> SUFFICES ASSUME IInv, [Next]_commandVars PROVE IInv'
    OBVIOUS
  <2>1. CASE UNCHANGED commandVars
    BY <2>1 DEF commandVars, IInv, Functions, Placed, Asked, Filled, Active
  <2>. QED
    BY <2>1, StepKeepsIInv DEF Next
<1>. QED
  BY InitIInv, <1>1, PTL DEF Spec

\* DeletedOnRequest (_private.py:86-102): whatever other commands delete or create
\* meanwhile, a command that was not forced removes one index at most, and only
\* after its user said so.
THEOREM DeletionsAreAsked == Spec => []DeletedOnRequest
<1>1. IInv => DeletedOnRequest
  BY DEF IInv, Asked, DeletedOnRequest
<1>. QED
  BY Invariance, <1>1, PTL

\* EndedIsDone (_private.py:57-102, 112-129): no order of commands and failures lets
\* a command end well without having filled the index it should fill.
THEOREM EndsAreDone == Spec => []EndedIsDone
<1>1. IInv => EndedIsDone
  BY DEF IInv, Filled, Fills, EndedIsDone
<1>. QED
  BY Invariance, <1>1, PTL
=============================================================================
