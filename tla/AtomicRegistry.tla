--------------------------- MODULE AtomicRegistry ---------------------------
(***************************************************************************)
(* What the registry of pilots promises to those who use it: a write and   *)
(* its effect on the routes are one step.  What is served is what is in    *)
(* the table, or, after a fault, a part of that until the next write or    *)
(* restart; never a pilot that was changed or deleted.                     *)
(***************************************************************************)
VARIABLES
  rows,     \* the pilots there are
  served,   \* the pilots that are served
  degraded  \* a fault has cut short what is served

vars == <<rows, served, degraded>>

Init ==
  /\ \A r, s \in rows : r.id = s.id => r = s
  /\ served = rows
  /\ degraded = FALSE

\* Everything is served as it is now.
Restored == served' = rows' /\ degraded' = FALSE

Insert ==
  \E new \in rows' :
    /\ \A r \in rows : r.id # new.id
    /\ rows' = rows \cup {new}

Delete == \E old \in rows : rows' = rows \ {old}

Change ==
  \E old \in rows : \E new \in rows' :
    /\ new.id = old.id
    /\ rows' = (rows \ {old}) \cup {new}

Write == (Insert \/ Delete \/ Change) /\ Restored

\* A restart, or a write that changes nothing.
Repair == UNCHANGED rows /\ Restored

Fault == UNCHANGED rows /\ served' \subseteq rows /\ degraded' = TRUE

Next == Write \/ Repair \/ Fault

Spec == Init /\ [][Next]_vars
=============================================================================
