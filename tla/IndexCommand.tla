---------------------------- MODULE IndexCommand ----------------------------
(***************************************************************************)
(* The management commands of an index (BaseIndexCommand), two of which    *)
(* may run at once against one Elasticsearch index.                        *)
(*                                                                         *)
(* A command is one action of those of the source, or `rebuild`, which is  *)
(* delete, create and populate after each other, each with checks of its   *)
(* own.  Every call to Elasticsearch is a step: between the check that an  *)
(* index exists and what is done because of it another command may run.    *)
(* The index and its indexer are what a subclass would give (none is in    *)
(* the repository): populate adds all records one by one; a call may fail. *)
(***************************************************************************)
EXTENDS Naturals, Sequences

CONSTANTS
  Commands,  \* processes, each runs one command
  Options,   \* the options that a command may be called with, see Option
  Records,   \* records of the data source
  None,
  MaxErrors  \* bound: calls of Elasticsearch that fail

Actions == {"single", "populate", "create", "delete", "rebuild", "status"}

\* action: of the last of the options that name one, None without; single: the
\* option of that name was given.
Option(o) ==
  /\ o.action \in (Actions \ {"single"}) \cup {None}
  /\ \A flag \in {"single", "force", "quiet", "ignore_existing", "refresh"} : o[flag] \in BOOLEAN

CommandConstants ==
  /\ \A o \in Options : Option(o)
  /\ None \notin Actions /\ \A contents \in SUBSET Records : None # contents
  /\ MaxErrors \in Nat

VARIABLES
  index,    \* None, or the set of records in it
  step,     \* of each command
  options,
  todo,     \* the parts of the handler that are left
  left,     \* records that populate has not added yet
  answered, \* ghost: the user said that the index may be deleted
  deleted,  \* ghost: indexes each command removed
  added,    \* ghost: each command populated an index, to the last record
  errors    \* the bound's counter

commandVars == <<index, step, options, todo, left, answered, deleted, added, errors>>

Steps == {"idle", "next", "ask", "delete", "exists", "drop", "create", "check", "add",
          "single", "refresh", "ok", "error"}

Init ==
  /\ index \in {None, {}}
  /\ step = [c \in Commands |-> "idle"]
  /\ options \in [Commands -> Options]
  /\ todo = [c \in Commands |-> <<>>]
  /\ left = [c \in Commands |-> {}]
  /\ answered = [c \in Commands |-> FALSE]
  /\ deleted = [c \in Commands |-> 0]
  /\ added = [c \in Commands |-> FALSE]
  /\ errors = 0

Goto(c, s) == step' = [step EXCEPT ![c] = s]

At(c, s) == step[c] = s

\* get_action: --single goes before the others.
Action(o) == IF o.single THEN "single" ELSE o.action

\* What a handler is made of, in order.
Parts(action) ==
  IF action = "rebuild" THEN <<"delete", "create", "populate">> ELSE <<action>>

First(part) ==
  CASE part = "delete" -> "ask"
    [] part = "create" -> "exists"
    [] OTHER -> "check"

\* The handler goes on with its next part, or ends.
After(c) == IF Len(todo[c]) = 1 THEN "refresh" ELSE First(todo[c][2])

Proceed(c) ==
  /\ Goto(c, After(c))
  /\ todo' = [todo EXCEPT ![c] = Tail(@)]

\* The handler ends here, all its parts.
Return(c) ==
  /\ Goto(c, "refresh")
  /\ todo' = [todo EXCEPT ![c] = <<>>]

\* _error: a warning when quiet, after which the part ends; else a CommandError.
Warn(c) == IF options[c].quiet THEN Proceed(c) ELSE Goto(c, "error") /\ UNCHANGED todo

\* Variant: the failure is written, and the command ends well.
FailedSilently(c) == Return(c)

\* handle: the exception of a call.  The parts that are left are not run.
Failed(c) == IF options[c].quiet THEN Return(c) ELSE Goto(c, "error") /\ UNCHANGED todo

\* handle, get_action.  No action is no handler.
Begin(c) ==
  /\ At(c, "idle")
  /\ IF Action(options[c]) = None
       THEN Goto(c, "error") /\ UNCHANGED todo
       ELSE /\ todo' = [todo EXCEPT ![c] = Parts(Action(options[c]))]
            /\ Goto(c, First(Parts(Action(options[c]))[1]))
  /\ UNCHANGED <<index, options, left, answered, deleted, added, errors>>

\* delete asks, unless forced; refused, it says so to rebuild, which ends too.
Ask(c) ==
  /\ At(c, "ask")
  /\ \/ options[c].force /\ Goto(c, "delete") /\ UNCHANGED <<todo, answered>>
     \/ /\ ~options[c].force
        /\ answered' = [answered EXCEPT ![c] = TRUE]
        /\ Goto(c, "delete")
        /\ UNCHANGED todo
     \/ ~options[c].force /\ Return(c) /\ UNCHANGED answered
  /\ UNCHANGED <<index, options, left, deleted, added, errors>>

Removed(c) ==
  /\ index' = None
  /\ deleted' = [deleted EXCEPT ![c] = IF index = None THEN @ ELSE @ + 1]

\* index.delete(ignore=404): no index is none to delete.
Delete(c) ==
  /\ At(c, "delete")
  /\ Removed(c)
  /\ Proceed(c)
  /\ UNCHANGED <<options, left, answered, added, errors>>

\* Variant: an index that exists is deleted to be created anew, forced or not.
ExistsDropped(c) ==
  /\ At(c, "exists")
  /\ IF index = None THEN Goto(c, "create") ELSE Goto(c, "drop")
  /\ UNCHANGED <<index, options, todo, left, answered, deleted, added, errors>>

\* create: whether there is an index, and what is done about it.
Exists(c) ==
  /\ At(c, "exists")
  /\ IF index = None THEN Goto(c, "create") /\ UNCHANGED todo
     ELSE IF options[c].force THEN Goto(c, "drop") /\ UNCHANGED todo
     ELSE IF options[c].ignore_existing THEN Proceed(c)
     ELSE Warn(c)
  /\ UNCHANGED <<index, options, left, answered, deleted, added, errors>>

\* index.delete() of create, which fails when another command was first.
Drop(c) ==
  /\ At(c, "drop")
  /\ IF index = None THEN Failed(c) /\ UNCHANGED <<index, deleted>>
     ELSE Removed(c) /\ Goto(c, "create") /\ UNCHANGED todo
  /\ UNCHANGED <<options, left, answered, added, errors>>

\* index.create(), which fails when another command was first.
Create(c) ==
  /\ At(c, "create")
  /\ IF index = None THEN index' = {} /\ Proceed(c) ELSE Failed(c) /\ UNCHANGED index
  /\ UNCHANGED <<options, left, answered, deleted, added, errors>>

\* _index_exists of single, populate and status; status only reads.
Check(c) ==
  /\ At(c, "check")
  /\ IF index = None THEN Warn(c) /\ UNCHANGED left
     ELSE /\ CASE todo[c][1] = "populate" -> Goto(c, "add") /\ UNCHANGED todo
               [] todo[c][1] = "single"   -> Goto(c, "single") /\ UNCHANGED todo
               [] OTHER                   -> Proceed(c)
          /\ left' = [left EXCEPT ![c] = Records]
  /\ UNCHANGED <<index, options, answered, deleted, added, errors>>

\* The indexer adds one more record, or has added them all.
Add(c) ==
  /\ At(c, "add") /\ index # None
  /\ \/ \E r \in left[c] :
          /\ index' = index \cup {r}
          /\ left' = [left EXCEPT ![c] = @ \ {r}]
          /\ UNCHANGED <<step, todo, added>>
     \/ /\ left[c] = {}
        /\ added' = [added EXCEPT ![c] = TRUE]
        /\ Proceed(c)
        /\ UNCHANGED <<index, left>>
  /\ UNCHANGED <<options, answered, deleted, errors>>

Single(c) ==
  /\ At(c, "single") /\ index # None
  /\ \E r \in Records : index' = index \cup {r}
  /\ Proceed(c)
  /\ UNCHANGED <<options, left, answered, deleted, added, errors>>

\* The index is gone that was there before; status counts right after its check.
Gone(c) ==
  /\ step[c] \in {"add", "single"} /\ index = None
  /\ Failed(c)
  /\ UNCHANGED <<index, options, left, answered, deleted, added, errors>>

\* A call fails otherwise: Elasticsearch is down.
CallFails(c) ==
  /\ step[c] \in {"delete", "exists", "drop", "create", "check", "add", "single"}
  /\ errors < MaxErrors
  /\ errors' = errors + 1
  /\ Failed(c)
  /\ UNCHANGED <<index, options, left, answered, deleted, added>>

\* index.refresh() fails without an index, outside of the try.
Refresh(c) ==
  /\ At(c, "refresh")
  /\ Goto(c, IF options[c].refresh /\ index = None THEN "error" ELSE "ok")
  /\ UNCHANGED <<index, options, todo, left, answered, deleted, added, errors>>

Step(c) ==
  \/ Begin(c) \/ Ask(c) \/ Delete(c) \/ Exists(c) \/ Drop(c) \/ Create(c) \/ Check(c)
  \/ Add(c) \/ Single(c) \/ Gone(c) \/ CallFails(c) \/ Refresh(c)

Next == \E c \in Commands : Step(c)

Spec == Init /\ [][Next]_commandVars

-----------------------------------------------------------------------------
TypeOK ==
  /\ index = None \/ index \subseteq Records
  /\ step \in [Commands -> Steps]
  /\ options \in [Commands -> Options]
  /\ \A c \in Commands : step[c] \notin {"idle", "refresh", "ok", "error"} =>
       todo[c] # <<>> /\ \A i \in DOMAIN todo[c] : todo[c][i] \in Actions
  /\ left \in [Commands -> SUBSET Records]
  /\ {answered, added} \subseteq [Commands -> BOOLEAN]
  /\ deleted \in [Commands -> 0 .. 2]
  /\ errors \in 0 .. MaxErrors

\* An index is removed by a command that was forced to, or whose user said so once
\* for each index: what another command creates meanwhile is not removed with it
\* (_private.py:86-102).
DeletedOnRequest ==
  \A c \in Commands : deleted[c] > (IF answered[c] THEN 1 ELSE 0) => options[c].force

\* A command that should fill the index, and ends without an error, filled it to the
\* last record, unless it was quiet or its user refused (_private.py:57-102, 112-129).
EndedIsDone ==
  \A c \in Commands :
    /\ step[c] = "ok" /\ ~options[c].quiet
    /\ Action(options[c]) \in {"populate", "rebuild"}
    /\ answered[c] \/ options[c].force \/ Action(options[c]) = "populate"
    => added[c]
=============================================================================
