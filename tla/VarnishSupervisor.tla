-------------------------- MODULE VarnishSupervisor --------------------------
(***************************************************************************)
(* docker/varnish/handler.py: a loop that keeps a service running as its   *)
(* child: SIGHUP restarts it, SIGTERM and SIGINT are passed on and end it. *)
(*                                                                         *)
(* A signal may come between any two steps of the loop; its handler runs   *)
(* to its end there.  (A handler that interrupts another does the same as  *)
(* the two after each other: the flag is the last one's, and both signals  *)
(* are sent to the child.)  Abstraction: SIGINT is as SIGTERM; the child   *)
(* ends on either, or by itself.                                           *)
(***************************************************************************)
EXTENDS Naturals, Sequences

CONSTANTS
  None,
  MaxSignals, \* bound: signals
  MaxEnds     \* bound: children that end by themselves

SupervisorConstants == {MaxSignals, MaxEnds} \subseteq Nat

VARIABLES
  at,        \* the next statement of the supervisor
  keep, restart,
  process,   \* the child the variable names, None before the first
  child,     \* of the children so far: running, told to end, or ended
  stopping,  \* ghost: a stop came while the loop waited for the child, and no
             \* SIGHUP since
  reloading, \* ghost: a SIGHUP came while it waited, no stop since, nor a start
  hups,      \* ghost: how many SIGHUPs came
  signals, ends  \* the bounds' counters

loop   == <<at, keep, restart, process>>
ghosts == <<stopping, reloading, hups>>
supervisorVars == <<loop, child, ghosts, signals, ends>>

Init ==
  /\ at = "test" /\ keep = TRUE /\ restart = FALSE
  /\ process = None /\ child = <<>>
  /\ stopping = FALSE /\ reloading = FALSE /\ hups = 0
  /\ signals = 0 /\ ends = 0

-----------------------------------------------------------------------------
\* The statements of the loop.
Test ==
  /\ at = "test"
  /\ at' = IF keep THEN "unset" ELSE "exit"
  /\ UNCHANGED <<keep, restart, process, child, ghosts, signals, ends>>

Unset ==
  /\ at = "unset"
  /\ keep' = FALSE
  /\ at' = "popen"
  /\ UNCHANGED <<restart, process, child, ghosts, signals, ends>>

\* Popen: the child runs before the variable names it.
Popen ==
  /\ at = "popen"
  /\ child' = Append(child, "running")
  /\ at' = "assign"
  /\ reloading' = FALSE
  /\ UNCHANGED <<keep, restart, process, stopping, hups, signals, ends>>

Assign ==
  /\ at = "assign"
  /\ process' = Len(child)
  /\ at' = "wait"
  /\ UNCHANGED <<keep, restart, child, ghosts, signals, ends>>

Wait ==
  /\ at = "wait" /\ child[process] = "ended"
  /\ at' = "decide"
  /\ UNCHANGED <<keep, restart, process, child, ghosts, signals, ends>>

Decide ==
  /\ at = "decide"
  /\ at' = IF restart THEN "keep" ELSE "test"
  /\ UNCHANGED <<keep, restart, process, child, ghosts, signals, ends>>

Keep ==
  /\ at = "keep"
  /\ keep' = TRUE
  /\ at' = "reset"
  /\ UNCHANGED <<restart, process, child, ghosts, signals, ends>>

\* Variant: the flag stays set.
ResetNot ==
  /\ at = "reset"
  /\ at' = "test"
  /\ UNCHANGED <<keep, restart, process, child, ghosts, signals, ends>>

Reset ==
  /\ at = "reset"
  /\ restart' = FALSE
  /\ at' = "test"
  /\ UNCHANGED <<keep, process, child, ghosts, signals, ends>>

-----------------------------------------------------------------------------
Alive == at \notin {"exit", "crashed"}

\* process.send_signal: no child has been named yet, and the handler raises where the
\* loop is; the named one has ended, and nothing is sent; or it is told.
Tell ==
  /\ at' = IF process = None THEN "crashed" ELSE at
  /\ child' = IF process = None THEN child
              ELSE [child EXCEPT ![process] = IF @ = "running" THEN "told" ELSE @]

Signal ==
  /\ Alive /\ signals < MaxSignals
  /\ signals' = signals + 1
  /\ Tell
  /\ UNCHANGED <<keep, process, ends>>

\* Variant: a SIGHUP is passed on like the others.
HupPropagated ==
  /\ Signal
  /\ restart' = FALSE
  /\ stopping' = FALSE
  /\ reloading' = (reloading \/ at = "wait")
  /\ hups' = hups + 1

\* hup_handler
Hup ==
  /\ Signal
  /\ restart' = TRUE
  /\ stopping' = FALSE
  /\ reloading' = (reloading \/ at = "wait")
  /\ hups' = hups + 1

\* Variant: a restart that was scheduled before stays so.
TermKeeping ==
  /\ Signal
  /\ stopping' = (stopping \/ at = "wait")
  /\ reloading' = FALSE
  /\ UNCHANGED <<restart, hups>>

\* propagate_handler
Term ==
  /\ Signal
  /\ restart' = FALSE
  /\ stopping' = (stopping \/ at = "wait")
  /\ reloading' = FALSE
  /\ UNCHANGED hups

\* The child ends as it was told.
ChildEnds(i) ==
  /\ child[i] = "told"
  /\ child' = [child EXCEPT ![i] = "ended"]
  /\ UNCHANGED <<loop, ghosts, signals, ends>>

\* The child ends by itself.
ChildQuits(i) ==
  /\ child[i] = "running" /\ ends < MaxEnds
  /\ child' = [child EXCEPT ![i] = "ended"]
  /\ ends' = ends + 1
  /\ UNCHANGED <<loop, ghosts, signals>>

Loop == Test \/ Unset \/ Popen \/ Assign \/ Wait \/ Decide \/ Keep \/ Reset

Next ==
  \/ Loop
  \/ Hup
  \/ Term
  \/ \E i \in DOMAIN child : ChildEnds(i) \/ ChildQuits(i)

Spec == Init /\ [][Next]_supervisorVars

\* The loop runs, and a child that was told to end does.
Fairness ==
  /\ WF_supervisorVars(Loop)
  /\ WF_supervisorVars(\E i \in DOMAIN child : ChildEnds(i))

-----------------------------------------------------------------------------
TypeOK ==
  /\ at \in {"test", "unset", "popen", "assign", "wait", "decide", "keep", "reset", "exit",
            "crashed"}
  /\ {keep, restart, stopping, reloading} \subseteq BOOLEAN
  /\ child \in Seq({"running", "told", "ended"})
  /\ process \in {None} \cup DOMAIN child
  /\ at \in {"wait", "decide", "keep", "reset"} => process = Len(child)
  /\ hups <= signals /\ signals \in 0 .. MaxSignals /\ ends \in 0 .. MaxEnds

\* Each restart goes back to a SIGHUP of its own: none answers two restarts, and none
\* follows a crash of the service alone (handler.py:15-19, 39-42).
RestartsAreAsked == Len(child) <= hups + 1

\* A stop that comes while the supervisor waits for its service ends both, even when
\* a restart was under way, unless a SIGHUP follows (handler.py:22-26).
StopEnds == stopping ~> (at = "exit" \/ ~stopping)

\* A SIGHUP that comes while the supervisor waits for its service starts a new one,
\* unless a stop follows (handler.py:15-19).
ReloadStarts == reloading ~> ~reloading
=============================================================================
