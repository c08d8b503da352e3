------------------------ MODULE PilotRegistry_proofs ------------------------
(***************************************************************************)
(* Proofs about PilotRegistry, for any number of threads, names, graphs    *)
(* lists and connections.                                                  *)
(***************************************************************************)
EXTENDS PilotRegistry, TLAPS

(* What a thread's step says of its locals: Commit and Probe read them. *)
Sessions ==
  /\ pc[Main] \in {"idle", "clear", "include", "read", "mount"}
  /\ \A w \in Workers :
       /\ pc[w] # "idle" => req[w] \in Request
       /\ pc[w] = "probe" => req[w].op = "cache" /\ loaded[w] \in Row
       /\ pc[w] = "commit" /\ loaded[w] = NoRow => req[w].op \in {"create", "update"}
       /\ pc[w] = "commit" /\ loaded[w] # NoRow => req[w].op # "create"

\* The parts of a request.
LEMMA RequestFields ==
  ASSUME NEW r \in Request
  PROVE  /\ r.op \in {"create", "update", "cache", "delete"}
         /\ Key(r) \in Names
         /\ r.op \in {"create", "update"} => r.name \in Names /\ r.data \in Data
BY DEF Request, Key

\* An edited row is a row with the same id.
LEMMA EditedRow ==
  ASSUME TypeOK, Sessions, NEW w \in Workers, pc[w] = "commit",
         ~Inserts(w), req[w].op # "delete", NEW r \in Row
  PROVE  Edited(w, r) \in Row /\ Edited(w, r).id = r.id
<1>1. req[w] \in Request
  BY DEF Sessions
<1>2. req[w].op \in {"update", "cache"}
  BY <1>1, RequestFields DEF Inserts, Sessions
<1>3. req[w].op = "update" => req[w].name \in Names /\ req[w].data \in Data
  BY <1>1, RequestFields
<1>4. probed[w] \in Codes
  BY DEF TypeOK
<1>. QED
  BY <1>2, <1>3, <1>4 DEF Edited, Row, Codes

\* A flush leaves rows in the table.
LEMMA FlushedRows ==
  ASSUME TypeOK, Sessions, NEW w \in Workers, pc[w] = "commit"
  PROVE  Flushed(w) \subseteq Row
<1>1. CASE Inserts(w)
  <2>1. req[w].name \in Names /\ req[w].data \in Data
    BY <1>1, RequestFields DEF Sessions, Inserts
  <2>2. [id |-> lastId + 1, name |-> req[w].name, data |-> req[w].data,
         code |-> NoCode] \in Row
    BY <2>1 DEF TypeOK, Row, Codes
  <2>. QED
    BY <1>1, <2>2 DEF Flushed, TypeOK
<1>2. CASE ~Inserts(w)
  BY <1>2, EditedRow DEF Flushed, TypeOK
<1>. QED
  BY <1>1, <1>2

-----------------------------------------------------------------------------
\* The initial states are well typed.
LEMMA InitTypeOK == Init => TypeOK /\ Sessions
<1> SUFFICES ASSUME Init PROVE TypeOK /\ Sessions
  OBVIOUS
<1>1. table \subseteq Row /\ lastId \in Nat
  BY DEF Init, Row
<1>2. past \subseteq Nat \X Data
  BY <1>1 DEF Init, Row, Codes
<1>3. held = {} /\ outage = FALSE /\ crossed = FALSE /\ migrated \in BOOLEAN
  BY DEF Init, Fresh
<1>8. routes \in Seq(Row \cup {Admin})
  BY DEF Init, Fresh
<1>4. pc \in [Threads -> Steps] /\ todo \in [Threads -> SUBSET Row]
  BY DEF Init, Fresh, Steps, Threads
<1>5. /\ req \in [Workers -> Request \cup {NoRequest}]
      /\ loaded \in [Workers -> Row \cup {NoRow}]
      /\ probed \in [Workers -> Codes]
  BY DEF Init, Fresh, Codes
<1>6. writes \in 0 .. MaxWrites /\ faults \in 0 .. MaxFaults
  BY ConstantsAssumption DEF Init, ConstantsAssumption
<1>7. Sessions
  BY ConstantsAssumption DEF Init, Fresh, Sessions, Threads, ConstantsAssumption
<1>. QED
  BY <1>1, <1>2, <1>3, <1>4, <1>5, <1>6, <1>7, <1>8 DEF TypeOK

\* Leave resets the locals of a worker: the part of every action that ends a
\* request.
LEMMA LeaveTypes ==
  ASSUME TypeOK, Sessions, NEW w \in Workers, Leave(w)
  PROVE  /\ pc' \in [Threads -> Steps]
         /\ req' \in [Workers -> Request \cup {NoRequest}]
         /\ loaded' \in [Workers -> Row \cup {NoRow}]
         /\ probed' \in [Workers -> Codes]
         /\ todo' \in [Threads -> SUBSET Row]
         /\ held' \subseteq Workers
         /\ Sessions'
<1>1. w # Main /\ w \in Threads
  BY ConstantsAssumption DEF ConstantsAssumption, Threads
<1>2. /\ pc' = [pc EXCEPT ![w] = "idle"]
      /\ req' = [req EXCEPT ![w] = NoRequest]
      /\ loaded' = [loaded EXCEPT ![w] = NoRow]
      /\ probed' = [probed EXCEPT ![w] = NoCode]
      /\ todo' = [todo EXCEPT ![w] = {}]
      /\ held' = held \ {w}
  BY DEF Leave, Goto
<1>3. pc' \in [Threads -> Steps] /\ todo' \in [Threads -> SUBSET Row]
  BY <1>1, <1>2 DEF TypeOK, Steps
<1>4. Sessions'
  BY <1>1, <1>2 DEF TypeOK, Sessions, Threads
<1>. QED
  BY <1>2, <1>3, <1>4 DEF TypeOK, Codes

\* Raise is the part of PoolTimeout and ReadFails that ends a rebuild.
LEMMA RaiseTypes ==
  ASSUME TypeOK, Sessions, NEW t \in Threads, Raise(t), faults' \in 0 .. MaxFaults
  PROVE  TypeOK' /\ Sessions'
<1>1. CASE t = Main
  <2>1. /\ pc' = [pc EXCEPT ![Main] = "clear"] /\ routes' = <<>> /\ outage' = TRUE
        /\ UNCHANGED <<locals, held, table, lastId, migrated, crossed, past, writes>>
    BY <1>1 DEF Raise, Goto
  <2>2. routes' \in Seq(Row \cup {Admin})
    BY <2>1
  <2>3. pc' \in [Threads -> Steps]
    BY <2>1 DEF TypeOK, Steps
  <2>4. Sessions'
    BY <2>1, ConstantsAssumption DEF TypeOK, Sessions, Threads, locals, ConstantsAssumption
  <2>. QED
    BY <2>1, <2>2, <2>3, <2>4 DEF TypeOK, locals
<1>2. CASE t # Main
  <2>1. t \in Workers
    BY <1>2 DEF Threads
  <2>2. Leave(t) /\ outage' = TRUE /\ UNCHANGED <<routes, table, lastId, migrated, crossed, past, writes>>
    BY <1>2 DEF Raise
  <2>. QED
    BY <2>1, <2>2, LeaveTypes DEF TypeOK
<1>. QED
  BY <1>1, <1>2

\* Every step keeps the types, and what the locals of a thread say of its step.
LEMMA NextTypeOK == TypeOK /\ Sessions /\ [Next]_vars => TypeOK' /\ Sessions'
<1> SUFFICES ASSUME TypeOK, Sessions, [Next]_vars
             PROVE  TypeOK' /\ Sessions'
  OBVIOUS
<1> USE DEF locals, ghosts, counts
<1>0. Main \notin Workers /\ Workers \subseteq Threads /\ Main \in Threads
      /\ NoRow \notin Row
  BY ConstantsAssumption DEF ConstantsAssumption, Threads
<1>1. ASSUME NEW w \in Workers, NEW r \in Request, Accept(w, r)
      PROVE  TypeOK' /\ Sessions'
  <2>1. writes' \in 0 .. MaxWrites
    BY <1>1, ConstantsAssumption DEF Accept, TypeOK, ConstantsAssumption
  <2>2. Sessions'
    BY <1>0, <1>1 DEF Accept, Goto, TypeOK, Sessions
  <2>. QED
    BY <1>0, <1>1, <2>1, <2>2 DEF Accept, Goto, TypeOK, Steps
<1>2. ASSUME NEW w \in Workers, Query(w)
      PROVE  TypeOK' /\ Sessions'
  <2>1. CASE Leave(w)
    BY <1>2, <2>1, LeaveTypes DEF Query, TypeOK
  <2>2. CASE ~Leave(w)
    <3>1. PICK row :
            /\ row \in Row \cup {NoRow}
            /\ loaded' = [loaded EXCEPT ![w] = row]
            /\ \/ req[w].op = "create" /\ row = NoRow
               \/ req[w].op = "update"
               \/ req[w].op \in {"cache", "delete"} /\ row # NoRow
      <4> DEFINE hits == {r \in table : r.name = Key(req[w])}
                 row  == IF hits = {} THEN NoRow ELSE CHOOSE r \in hits : TRUE
      <4>1. row \in Row \cup {NoRow}
        BY DEF TypeOK
      <4>2. /\ loaded' = [loaded EXCEPT ![w] = row]
            /\ \/ req[w].op = "create" /\ row = NoRow
               \/ req[w].op = "update"
               \/ req[w].op \in {"cache", "delete"} /\ row # NoRow
        BY <1>2, <2>2 DEF Query
      <4>. QED
        BY <4>1, <4>2
    <3>2. /\ held' = held \cup {w}
          /\ pc' = [pc EXCEPT ![w] = IF req[w].op = "cache" THEN "probe" ELSE "commit"]
          /\ UNCHANGED <<req, probed, todo, table, lastId, migrated, routes, ghosts, counts>>
          /\ pc[w] = "query"
      BY <1>2, <2>2 DEF Query, Goto
    <3>3. Sessions'
      BY <1>0, <3>1, <3>2 DEF TypeOK, Sessions
    <3>4. pc' \in [Threads -> Steps]
      BY <1>0, <3>2 DEF TypeOK, Steps
    <3>. QED
      BY <3>1, <3>2, <3>3, <3>4 DEF TypeOK
  <2>. QED
    BY <2>1, <2>2
<1>3. ASSUME NEW w \in Workers, Probe(w)
      PROVE  TypeOK' /\ Sessions'
  <2>1. loaded[w] \in Row /\ loaded[w] # NoRow
    BY <1>0, <1>3 DEF Probe, Sessions
  <2>2. probed' \in [Workers -> Codes]
    BY <1>3, <2>1 DEF Probe, TypeOK, Row, Codes
  <2>3. Sessions'
    BY <1>0, <1>3, <2>1 DEF Probe, Goto, TypeOK, Sessions
  <2>. QED
    BY <1>0, <1>3, <2>2, <2>3 DEF Probe, Goto, TypeOK, Steps
<1>4. ASSUME NEW w \in Workers, ProbeFails(w)
      PROVE  TypeOK' /\ Sessions'
  <2>1. faults' \in 0 .. MaxFaults
    BY <1>4, ConstantsAssumption DEF ProbeFails, TypeOK, ConstantsAssumption
  <2>. QED
    BY <1>4, <2>1, LeaveTypes DEF ProbeFails, TypeOK
<1>5. ASSUME NEW w \in Workers, Commit(w)
      PROVE  TypeOK' /\ Sessions'
  <2>1. table' \subseteq Row
    BY <1>5, FlushedRows DEF Commit
  <2>2. past' \subseteq Nat \X Data
    BY <1>5, <2>1 DEF Commit, TypeOK, Row
  <2>3. lastId' \in Nat
    BY <1>5 DEF Commit, TypeOK
  <2>4. Sessions'
    BY <1>0, <1>5 DEF Commit, Goto, TypeOK, Sessions
  <2>. QED
    BY <1>0, <1>5, <2>1, <2>2, <2>3, <2>4 DEF Commit, Goto, TypeOK, Steps
<1>6. ASSUME NEW w \in Workers, CommitFails(w)
      PROVE  TypeOK' /\ Sessions'
  BY <1>6, LeaveTypes DEF CommitFails, TypeOK
<1>7. ASSUME NEW t \in Threads, Clear(t)
      PROVE  TypeOK' /\ Sessions'
  <2>1. routes' \in Seq(Row \cup {Admin})
    BY <1>7 DEF Clear
  <2>2. Sessions'
    BY <1>0, <1>7 DEF Clear, Goto, TypeOK, Sessions
  <2>. QED
    BY <1>7, <2>1, <2>2 DEF Clear, Goto, TypeOK, Steps
<1>8. ASSUME NEW t \in Threads, Include(t)
      PROVE  TypeOK' /\ Sessions'
  <2>1. routes' \in Seq(Row \cup {Admin})
    BY <1>8 DEF Include, TypeOK
  <2>2. Sessions'
    BY <1>0, <1>8 DEF Include, Goto, TypeOK, Sessions
  <2>. QED
    BY <1>8, <2>1, <2>2 DEF Include, Goto, TypeOK, Steps
<1>9. ASSUME NEW t \in Threads, Read(t)
      PROVE  TypeOK' /\ Sessions'
  <2>1. todo' \in [Threads -> SUBSET Row]
    BY <1>9 DEF Read, TypeOK
  <2>2. Sessions'
    BY <1>0, <1>9 DEF Read, Goto, TypeOK, Sessions
  <2>. QED
    BY <1>9, <2>1, <2>2 DEF Read, Goto, TypeOK, Steps
<1>10. ASSUME NEW t \in Threads, Mount(t)
       PROVE  TypeOK' /\ Sessions'
  <2>1. PICK row \in todo[t] : routes' = Append(routes, row)
                              /\ todo' = [todo EXCEPT ![t] = @ \ {row}]
    BY <1>10 DEF Mount
  <2>2. row \in Row
    BY <2>1 DEF TypeOK
  <2>3. routes' \in Seq(Row \cup {Admin})
    BY <2>1, <2>2 DEF TypeOK
  <2>4. todo' \in [Threads -> SUBSET Row]
    BY <2>1 DEF TypeOK
  <2>. QED
    BY <1>10, <2>3, <2>4 DEF Mount, TypeOK, Sessions
<1>11. ASSUME NEW t \in Threads, Finish(t)
       PROVE  TypeOK' /\ Sessions'
  <2>1. CASE t = Main
    BY <1>0, <1>11, <2>1 DEF Finish, Goto, TypeOK, Sessions, Steps
  <2>2. CASE t # Main /\ req[t].op \in {"create", "update"}
    <3>1. t \in Workers
      BY <2>2 DEF Threads
    <3>. QED
      BY <1>0, <1>11, <2>2, <3>1 DEF Finish, Goto, TypeOK, Sessions, Steps
  <2>3. CASE t # Main /\ req[t].op \notin {"create", "update"}
    <3>1. t \in Workers /\ Leave(t)
      BY <1>11, <2>3 DEF Finish, Threads
    <3>. QED
      BY <1>11, <3>1, LeaveTypes DEF Finish, TypeOK
  <2>. QED
    BY <2>1, <2>2, <2>3
<1>12. ASSUME NEW w \in Workers, Refresh(w)
       PROVE  TypeOK' /\ Sessions'
  BY <1>12, LeaveTypes DEF Refresh, TypeOK
<1>13. ASSUME NEW t \in Threads, PoolTimeout(t)
       PROVE  TypeOK' /\ Sessions'
  <2>1. CASE Raise(t) /\ UNCHANGED faults
    BY <2>1, RaiseTypes DEF TypeOK
  <2>2. CASE ~(Raise(t) /\ UNCHANGED faults)
    <3>1. /\ pc[t] \in {"query", "refresh"} /\ Leave(t)
          /\ UNCHANGED <<table, lastId, migrated, routes, ghosts, counts>>
      BY <1>13, <2>2 DEF PoolTimeout
    <3>2. t \in Workers
      BY <3>1 DEF Sessions, Threads
    <3>. QED
      BY <3>1, <3>2, LeaveTypes DEF TypeOK
  <2>. QED
    BY <2>1, <2>2
<1>14. ASSUME NEW t \in Threads, ReadFails(t)
       PROVE  TypeOK' /\ Sessions'
  <2>1. faults' \in 0 .. MaxFaults
    BY <1>14, ConstantsAssumption DEF ReadFails, TypeOK, ConstantsAssumption
  <2>. QED
    BY <1>14, <2>1, RaiseTypes DEF ReadFails
<1>15. CASE Restart
  <2>1. faults' \in 0 .. MaxFaults
    BY <1>15, ConstantsAssumption DEF Restart, TypeOK, ConstantsAssumption
  <2>2. routes' \in Seq(Row \cup {Admin}) /\ held' = {}
    BY <1>15 DEF Restart, Fresh
  <2>3. pc' \in [Threads -> Steps] /\ todo' \in [Threads -> SUBSET Row]
    BY <1>15 DEF Restart, Fresh, Steps
  <2>4. /\ req' \in [Workers -> Request \cup {NoRequest}]
        /\ loaded' \in [Workers -> Row \cup {NoRow}]
        /\ probed' \in [Workers -> Codes]
    BY <1>15 DEF Restart, Fresh, Codes
  <2>5. Sessions'
    BY <1>0, <1>15 DEF Restart, Fresh, Sessions
  <2>. QED
    BY <1>15, <2>1, <2>2, <2>3, <2>4, <2>5 DEF Restart, TypeOK
<1>16. CASE Migrate
  BY <1>16 DEF Migrate, TypeOK, Sessions
<1>17. CASE UNCHANGED vars
  BY <1>17 DEF vars, TypeOK, Sessions
<1>. QED
  BY <1>1, <1>2, <1>3, <1>4, <1>5, <1>6, <1>7, <1>8, <1>9, <1>10, <1>11, <1>12,
     <1>13, <1>14, <1>15, <1>16, <1>17
     DEF Next, Handle, Rebuild

\* Every variable keeps its type, and every thread's locals fit its step: the
\* registry's handlers never act on a row or a request they do not have.
THEOREM TypeCorrect == Spec => [](TypeOK /\ Sessions)
<1>1. Init => TypeOK /\ Sessions
  BY InitTypeOK
<1>2. TypeOK /\ Sessions /\ [Next]_vars => TypeOK' /\ Sessions'
  BY NextTypeOK
<1>. QED
  BY <1>1, <1>2, PTL DEF Spec

-----------------------------------------------------------------------------
(* The table: only a commit writes it.                                     *)

\* No other step than Commit changes the table.
LEMMA OnlyCommitWrites ==
  [Next]_vars => \/ \E w \in Workers : Commit(w)
                 \/ UNCHANGED <<table, lastId, past>>
BY DEF Next, vars, Handle, Rebuild, Accept, Query, Probe, ProbeFails, CommitFails,
       Clear, Include, Read, Mount, Finish, Refresh, Raise, PoolTimeout, ReadFails,
       Restart, Migrate, ghosts

DistinctRows ==
  /\ \A r, s \in table : r.id = s.id => r = s
  /\ \A r \in table : r.id <= lastId

\* A flush leaves distinct ids, and gives a new row a new one.
LEMMA CommitDistinct ==
  ASSUME TypeOK, Sessions, DistinctRows, NEW w \in Workers, Commit(w)
  PROVE  DistinctRows'
<1>1. table' = Flushed(w) /\ pc[w] = "commit"
      /\ lastId' = IF Inserts(w) THEN lastId + 1 ELSE lastId
  BY DEF Commit
<1>2. table \subseteq Row /\ lastId \in Nat
  BY DEF TypeOK
<1>3. /\ \A r, s \in table' : r.id = s.id => r = s
      /\ \A r \in table' : r.id <= lastId'
  <2>1. CASE Inserts(w)
    <3> DEFINE new == [id |-> lastId + 1, name |-> req[w].name,
                       data |-> req[w].data, code |-> NoCode]
    <3>1. table' = table \cup {new} /\ new.id = lastId + 1
      BY <1>1, <2>1 DEF Flushed
    <3> HIDE DEF new
    <3>2. \A r \in table : r.id \in Nat /\ r.id <= lastId
      BY <1>2 DEF DistinctRows, Row
    <3>. QED
      BY <1>1, <1>2, <2>1, <3>1, <3>2 DEF DistinctRows
  <2>2. CASE ~Inserts(w) /\ req[w].op = "delete"
    BY <1>1, <2>2 DEF Flushed, DistinctRows
  <2>3. CASE ~Inserts(w) /\ req[w].op # "delete"
    <3>1. table' = {IF SameRow(w, r) THEN Edited(w, r) ELSE r : r \in table}
      BY <1>1, <2>3 DEF Flushed
    <3>2. \A r \in table : Edited(w, r).id = r.id
      BY <1>1, <1>2, <2>3, EditedRow
    <3>. QED
      BY <1>1, <2>3, <3>1, <3>2 DEF DistinctRows
  <2>. QED
    BY <2>1, <2>2, <2>3
<1>. QED
  BY <1>3 DEF DistinctRows

\* Ids are never given twice.
LEMMA RowsStayDistinct == Spec => []DistinctRows
<1>1. Init => DistinctRows
  BY DEF Init, DistinctRows
<1>2. TypeOK /\ Sessions /\ DistinctRows /\ [Next]_vars => DistinctRows'
  BY CommitDistinct, OnlyCommitWrites DEF DistinctRows
<1>. QED
  BY <1>1, <1>2, TypeCorrect, PTL DEF Spec

-----------------------------------------------------------------------------
(* The route table: what the rebuilds still owe it.                        *)

Promised(r) ==
  \E t \in Threads : \/ pc[t] \in {"clear", "include", "read"}
                     \/ pc[t] = "mount" /\ r \in todo[t]

Delivered == outage \/ \A r \in table : Promised(r) \/ Mounted(r)

AdminDelivered ==
  \/ \E t \in Threads : pc[t] \in {"clear", "include"}
  \/ Mounted(Admin)

\* Adding an entry loses none.
LEMMA AppendKeeps ==
  ASSUME routes \in Seq(Row \cup {Admin}), NEW y \in Row \cup {Admin},
         routes' = Append(routes, y)
  PROVE  /\ Mounted(y)'
         /\ \A x : Mounted(x) => Mounted(x)'
<1>1. /\ DOMAIN routes = 1 .. Len(routes) /\ Len(routes) \in Nat
      /\ DOMAIN routes' = 1 .. Len(routes) + 1
      /\ routes'[Len(routes) + 1] = y
      /\ \A i \in 1 .. Len(routes) : routes'[i] = routes[i]
  OBVIOUS
<1>. QED
  BY <1>1 DEF Mounted

\* A thread that is not rebuilding owes nothing, so its steps break no promise.
LEMMA OthersKeepPromises ==
  ASSUME TypeOK, Sessions, NEW w \in Workers, ~Rebuilding(w),
         \A t \in Threads \ {w} : pc'[t] = pc[t] /\ todo'[t] = todo[t],
         UNCHANGED <<routes, table, outage>>
  PROVE  /\ Delivered => Delivered'
         /\ AdminDelivered => AdminDelivered'
BY DEF Delivered, AdminDelivered, Promised, Mounted, Rebuilding, Threads

\* A rebuild that raises keeps both promises: it marks the outage, or starts over.
LEMMA RaiseDelivers ==
  ASSUME TypeOK, Sessions, NEW t \in Threads, Raise(t), pc[t] = "read"
  PROVE  /\ Delivered'
         /\ AdminDelivered => AdminDelivered'
<1>1. Delivered'
  BY DEF Raise, Delivered
<1>2. CASE t = Main
  BY <1>1, <1>2 DEF Raise, Goto, AdminDelivered, TypeOK
<1>3. CASE t # Main
  <2>1. Leave(t) /\ routes' = routes
    BY <1>3 DEF Raise
  <2>2. \A u \in Threads \ {t} : pc'[u] = pc[u]
    BY <2>1 DEF Leave, Goto, TypeOK
  <2>3. AdminDelivered => AdminDelivered'
    BY <2>1, <2>2 DEF AdminDelivered, Mounted
  <2>. QED
    BY <1>1, <2>3
<1>. QED
  BY <1>2, <1>3

\* Every step keeps Delivered and AdminDelivered.
LEMMA NextDelivers ==
  TypeOK /\ Sessions /\ Delivered /\ AdminDelivered /\ [Next]_vars
    => Delivered' /\ AdminDelivered'
<1> SUFFICES ASSUME TypeOK, Sessions, Delivered, AdminDelivered, [Next]_vars
             PROVE  Delivered' /\ AdminDelivered'
  OBVIOUS
<1> USE DEF locals, ghosts, counts
<1>0. Workers \subseteq Threads /\ Main \in Threads
  BY DEF Threads
<1>1. ASSUME NEW w \in Workers, NEW r \in Request, Accept(w, r)
      PROVE  Delivered' /\ AdminDelivered'
  BY <1>1, OthersKeepPromises DEF Accept, Goto, Rebuilding, TypeOK
<1>2. ASSUME NEW w \in Workers,
             Query(w) \/ Probe(w) \/ ProbeFails(w) \/ CommitFails(w) \/ Refresh(w)
      PROVE  Delivered' /\ AdminDelivered'
  <2>1. ~Rebuilding(w) /\ UNCHANGED <<routes, table, outage>>
    BY <1>2 DEF Query, Probe, ProbeFails, CommitFails, Refresh, Rebuilding
  <2>2. \A t \in Threads \ {w} : pc'[t] = pc[t] /\ todo'[t] = todo[t]
    BY <1>2 DEF Query, Probe, ProbeFails, CommitFails, Refresh, Leave, Goto, TypeOK
  <2>. QED
    BY <2>1, <2>2, OthersKeepPromises
<1>3. ASSUME NEW w \in Workers, Commit(w)
      PROVE  Delivered' /\ AdminDelivered'
  <2>1. w \in Threads /\ pc'[w] = "clear"
    BY <1>0, <1>3 DEF Commit, Goto, TypeOK
  <2>. QED
    BY <2>1 DEF Delivered, Promised, AdminDelivered
<1>4. ASSUME NEW t \in Threads, Clear(t)
      PROVE  Delivered' /\ AdminDelivered'
  <2>1. pc'[t] = "include"
    BY <1>4 DEF Clear, Goto, TypeOK
  <2>. QED
    BY <2>1 DEF Delivered, Promised, AdminDelivered
<1>5. ASSUME NEW t \in Threads, Include(t)
      PROVE  Delivered' /\ AdminDelivered'
  <2>1. pc'[t] = "read" /\ Mounted(Admin)'
    BY <1>5, AppendKeeps DEF Include, Goto, TypeOK
  <2>. QED
    BY <2>1 DEF Delivered, Promised, AdminDelivered
<1>6. ASSUME NEW t \in Threads, Read(t)
      PROVE  Delivered' /\ AdminDelivered'
  <2>1. /\ pc'[t] = "mount" /\ todo'[t] = IF migrated THEN table ELSE {}
        /\ table' = table /\ routes' = routes /\ outage' = (outage \/ ~migrated)
        /\ \A u \in Threads \ {t} : pc'[u] = pc[u]
    BY <1>6 DEF Read, Goto, TypeOK
  <2>2. Delivered'
    <3>1. CASE migrated
      BY <2>1, <3>1 DEF Delivered, Promised
    <3>2. CASE ~migrated
      BY <2>1, <3>2 DEF Delivered
    <3>. QED
      BY <3>1, <3>2
  <2>3. AdminDelivered'
    BY <1>6, <2>1 DEF Read, AdminDelivered, Mounted
  <2>. QED
    BY <2>2, <2>3
<1>7. ASSUME NEW t \in Threads, Mount(t)
      PROVE  Delivered' /\ AdminDelivered'
  <2>1. PICK row \in todo[t] : routes' = Append(routes, row)
                              /\ todo' = [todo EXCEPT ![t] = @ \ {row}]
    BY <1>7 DEF Mount
  <2>2. row \in Row
    BY <2>1 DEF TypeOK
  <2>3. Mounted(row)' /\ \A x : Mounted(x) => Mounted(x)'
    BY <2>1, <2>2, AppendKeeps DEF TypeOK
  <2>4. UNCHANGED <<pc, table, outage>>
    BY <1>7 DEF Mount
  <2>5. \A r \in table : Promised(r) => Promised(r)' \/ Mounted(r)'
    BY <2>1, <2>3, <2>4 DEF Promised, TypeOK
  <2>6. \A r \in table : Promised(r) \/ Mounted(r) => Promised(r)' \/ Mounted(r)'
    BY <2>3, <2>5
  <2>7. Delivered'
    BY <2>4, <2>6 DEF Delivered
  <2>8. AdminDelivered'
    BY <2>3, <2>4 DEF AdminDelivered
  <2>. QED
    BY <2>7, <2>8
<1>8. ASSUME NEW t \in Threads, Finish(t)
      PROVE  Delivered' /\ AdminDelivered'
  <2>1. /\ pc[t] = "mount" /\ todo[t] = {} /\ UNCHANGED <<routes, table, outage>>
        /\ \A u \in Threads \ {t} : pc'[u] = pc[u] /\ todo'[u] = todo[u]
    BY <1>8 DEF Finish, Leave, Goto, TypeOK
  <2>2. \A r : Promised(r) => Promised(r)'
    BY <2>1 DEF Promised
  <2>. QED
    BY <2>1, <2>2 DEF Delivered, AdminDelivered, Mounted
<1>9. ASSUME NEW t \in Threads, PoolTimeout(t)
      PROVE  Delivered' /\ AdminDelivered'
  <2>1. CASE pc[t] = "read" /\ Raise(t)
    BY <2>1, RaiseDelivers
  <2>2. CASE ~(pc[t] = "read" /\ Raise(t))
    <3>1. /\ pc[t] \in {"query", "refresh"} /\ Leave(t)
          /\ UNCHANGED <<table, lastId, migrated, routes, ghosts, counts>>
      BY <1>9, <2>2 DEF PoolTimeout
    <3>2. t \in Workers
      BY <3>1 DEF Sessions, Threads
    <3>3. \A u \in Threads \ {t} : pc'[u] = pc[u] /\ todo'[u] = todo[u]
      BY <3>1 DEF Leave, Goto, TypeOK
    <3>. QED
      BY <3>1, <3>2, <3>3, OthersKeepPromises DEF Rebuilding
  <2>. QED
    BY <2>1, <2>2
<1>10. ASSUME NEW t \in Threads, ReadFails(t)
       PROVE  Delivered' /\ AdminDelivered'
  BY <1>10, RaiseDelivers DEF ReadFails
<1>11. CASE Restart
  <2>1. pc'[Main] = "clear"
    BY <1>0, <1>11 DEF Restart, Fresh
  <2>. QED
    BY <1>0, <2>1 DEF Delivered, Promised, AdminDelivered
<1>12. CASE Migrate
  BY <1>12 DEF Migrate, Delivered, Promised, AdminDelivered, Mounted
<1>13. CASE UNCHANGED vars
  BY <1>13 DEF vars, Delivered, Promised, AdminDelivered, Mounted
<1>. QED
  BY <1>1, <1>2, <1>3, <1>4, <1>5, <1>6, <1>7, <1>8, <1>9, <1>10, <1>11, <1>12, <1>13
     DEF Next, Handle, Rebuild

\* The obligations a rebuild takes on are never dropped: a row of the table is
\* mounted as it is now, or a thread is on its way to do so, or a rebuild has
\* stopped short; and the same for the admin router, whatever happened.
THEOREM RebuildsDeliver == Spec => [](Delivered /\ AdminDelivered)
<1>1. Init => Delivered /\ AdminDelivered
  BY DEF Init, Fresh, Delivered, Promised, AdminDelivered, Threads
<1>2. TypeOK /\ Sessions /\ Delivered /\ AdminDelivered /\ [Next]_vars
        => Delivered' /\ AdminDelivered'
  BY NextDelivers
<1>. QED
  BY <1>1, <1>2, TypeCorrect, PTL DEF Spec

\* However rebuilds interleave, once they are over every pilot is mounted in
\* its current version, unless one of them stopped short.
THEOREM NoPilotIsLost == Spec => []NoLostPilot
<1>1. Delivered /\ AdminDelivered => NoLostPilot
  BY DEF Delivered, Promised, NoLostPilot, AtRest, Rebuilding
<1>. QED
  BY <1>1, RebuildsDeliver, PTL

\* Once the rebuilds are over the admin endpoints are mounted, even after
\* rebuilds that raised.
THEOREM AdminStaysReachable == Spec => []AdminReachable
<1>1. Delivered /\ AdminDelivered => AdminReachable
  BY DEF AdminDelivered, AdminReachable, AtRest, Rebuilding
<1>. QED
  BY <1>1, RebuildsDeliver, PTL

-----------------------------------------------------------------------------
(* Connections.                                                            *)

\* Leave both resets the worker's step and gives its connection back.
LEMMA LeaveReturns ==
  ASSUME TypeOK, ConnectionsReturned, NEW w \in Workers, Leave(w)
  PROVE  ConnectionsReturned'
BY DEF Leave, Goto, TypeOK, ConnectionsReturned, Rebuilding, Threads

\* A session holds a connection from its first SELECT to the end of commit() and
\* at no other time, on every path, those that raise included.
THEOREM ConnectionsAreReturned == Spec => []ConnectionsReturned
<1>1. Init => ConnectionsReturned
  BY ConstantsAssumption
     DEF Init, Fresh, ConnectionsReturned, Rebuilding, Threads, ConstantsAssumption
<1>2. TypeOK /\ Sessions /\ ConnectionsReturned /\ [Next]_vars => ConnectionsReturned'
  <2> SUFFICES ASSUME TypeOK, Sessions, ConnectionsReturned, [Next]_vars
               PROVE  ConnectionsReturned'
    OBVIOUS
  <2> USE DEF locals, ghosts, counts
  <2>0. Main \notin Workers /\ Workers \subseteq Threads
    BY ConstantsAssumption DEF ConstantsAssumption, Threads
  <2>1. ASSUME NEW w \in Workers, NEW r \in Request, Accept(w, r)
        PROVE  ConnectionsReturned'
    BY <2>0, <2>1 DEF Accept, Goto, TypeOK, ConnectionsReturned, Rebuilding
  <2>2. ASSUME NEW w \in Workers, Query(w) \/ ProbeFails(w) \/ CommitFails(w) \/ Refresh(w)
        PROVE  ConnectionsReturned'
    <3>1. CASE Leave(w)
      BY <3>1, LeaveReturns
    <3>2. CASE ~Leave(w)
      <4>1. held' = held \cup {w}
            /\ pc' = [pc EXCEPT ![w] = IF req[w].op = "cache" THEN "probe" ELSE "commit"]
        BY <2>2, <3>2 DEF Query, ProbeFails, CommitFails, Refresh, Goto
      <4>. QED
        BY <2>0, <4>1 DEF TypeOK, ConnectionsReturned, Rebuilding
    <3>. QED
      BY <3>1, <3>2
  <2>3. ASSUME NEW w \in Workers, Probe(w) \/ Commit(w)
        PROVE  ConnectionsReturned'
    BY <2>0, <2>3 DEF Probe, Commit, Goto, TypeOK, ConnectionsReturned, Rebuilding
  <2>4. ASSUME NEW t \in Threads, Clear(t) \/ Include(t) \/ Read(t) \/ Mount(t)
        PROVE  ConnectionsReturned'
    BY <2>0, <2>4
       DEF Clear, Include, Read, Mount, Goto, TypeOK, ConnectionsReturned, Rebuilding
  <2>5. ASSUME NEW t \in Threads, Finish(t)
        PROVE  ConnectionsReturned'
    <3>1. CASE t = Main
      BY <2>0, <2>5, <3>1 DEF Finish, Goto, TypeOK, ConnectionsReturned, Rebuilding
    <3>2. CASE t # Main
      <4>1. t \in Workers
        BY <3>2 DEF Threads
      <4>2. \/ Leave(t)
            \/ pc' = [pc EXCEPT ![t] = "refresh"] /\ held' = held \ {t}
        BY <2>5, <3>2 DEF Finish, Goto
      <4>. QED
        BY <2>0, <4>1, <4>2, LeaveReturns DEF TypeOK, ConnectionsReturned, Rebuilding
    <3>. QED
      BY <3>1, <3>2
  <2>6. ASSUME NEW t \in Threads, PoolTimeout(t) \/ ReadFails(t)
        PROVE  ConnectionsReturned'
    <3>1. CASE t = Main
      <4>1. pc' = [pc EXCEPT ![Main] = "clear"] /\ held' = held
        BY <2>6, <3>1 DEF PoolTimeout, ReadFails, Raise, Goto, Sessions
      <4>. QED
        BY <2>0, <4>1 DEF TypeOK, ConnectionsReturned, Rebuilding
    <3>2. CASE t # Main
      <4>1. t \in Workers /\ Leave(t)
        BY <2>6, <3>2 DEF PoolTimeout, ReadFails, Raise, Threads
      <4>. QED
        BY <4>1, LeaveReturns
    <3>. QED
      BY <3>1, <3>2
  <2>7. CASE Restart
    BY <2>0, <2>7 DEF Restart, Fresh, ConnectionsReturned, Rebuilding
  <2>8. CASE Migrate \/ UNCHANGED vars
    BY <2>8 DEF Migrate, vars, ConnectionsReturned, Rebuilding
  <2>. QED
    BY <2>1, <2>2, <2>3, <2>4, <2>5, <2>6, <2>7, <2>8 DEF Next, Handle, Rebuild
<1>. QED
  BY <1>1, <1>2, TypeCorrect, PTL DEF Spec

-----------------------------------------------------------------------------
(* Where a cached code comes from.                                         *)

\* What a row, a loaded row and a probed code were computed from is recorded.
Provenance ==
  /\ \A r \in table : <<r.id, r.data>> \in past
  /\ NoForeignCode
  /\ \A w \in Workers :
       /\ pc[w] \in {"probe", "commit"} /\ loaded[w] # NoRow =>
            <<loaded[w].id, loaded[w].data>> \in past
       /\ pc[w] = "commit" /\ req[w].op = "cache" =>
            <<loaded[w].id, probed[w]>> \in past

\* A commit writes a code only beside the id it was probed for.
LEMMA CommitProvenance ==
  ASSUME TypeOK, Sessions, Provenance, NEW w \in Workers, Commit(w)
  PROVE  Provenance'
<1>1. /\ pc[w] = "commit" /\ table' = Flushed(w)
      /\ past' = past \cup {<<r.id, r.data>> : r \in table'}
      /\ pc' = [pc EXCEPT ![w] = "clear"] /\ UNCHANGED locals
  BY DEF Commit, Goto
<1>2. \A r \in table' : <<r.id, r.data>> \in past'
  BY <1>1
<1>3. \A r \in table' : r.code # NoCode => <<r.id, r.code>> \in past
  <2>1. CASE Inserts(w)
    BY <1>1, <2>1 DEF Flushed, Provenance, NoForeignCode
  <2>2. CASE ~Inserts(w) /\ req[w].op = "delete"
    BY <1>1, <2>2 DEF Flushed, Provenance, NoForeignCode
  <2>3. CASE ~Inserts(w) /\ req[w].op # "delete"
    <3>1. table' = {IF SameRow(w, r) THEN Edited(w, r) ELSE r : r \in table}
      BY <1>1, <2>3 DEF Flushed
    <3>2. req[w].op \in {"update", "cache"}
      BY <1>1, <2>3, RequestFields DEF Sessions, Inserts
    <3>3. ASSUME NEW r \in table, SameRow(w, r), Edited(w, r).code # NoCode
          PROVE  <<Edited(w, r).id, Edited(w, r).code>> \in past
      <4>1. r \in Row /\ Edited(w, r).id = r.id
        BY <1>1, <2>3, EditedRow DEF TypeOK
      <4>2. CASE req[w].op = "update"
        <5>1. Edited(w, r).code = r.code
          BY <4>1, <4>2 DEF Edited, Row
        <5>. QED
          BY <3>3, <4>1, <5>1 DEF Provenance, NoForeignCode
      <4>3. CASE req[w].op = "cache"
        <5>1. Edited(w, r).code \in {r.code, probed[w]}
          BY <4>1, <4>3 DEF Edited, Row
        <5>. QED
          BY <1>1, <3>3, <4>1, <4>3, <5>1 DEF Provenance, NoForeignCode, SameRow
      <4>. QED
        BY <3>2, <4>2, <4>3
    <3>. QED
      BY <3>1, <3>3 DEF Provenance, NoForeignCode
  <2>. QED
    BY <2>1, <2>2, <2>3
<1>. QED
  BY <1>1, <1>2, <1>3 DEF Provenance, NoForeignCode, locals, TypeOK

\* Every step keeps Provenance.
LEMMA NextProvenance ==
  TypeOK /\ Sessions /\ Provenance /\ [Next]_vars => Provenance'
<1> SUFFICES ASSUME TypeOK, Sessions, Provenance, [Next]_vars
             PROVE  Provenance'
  OBVIOUS
<1> USE DEF locals, ghosts, counts
<1>0. Main \notin Workers /\ Workers \subseteq Threads
  BY ConstantsAssumption DEF ConstantsAssumption, Threads
<1>1. ASSUME NEW w \in Workers, Commit(w)
      PROVE  Provenance'
  BY <1>1, CommitProvenance
<1>2. ASSUME NEW w \in Workers, Query(w)
      PROVE  Provenance'
  <2>1. PICK row \in table \cup {NoRow} :
          \/ Leave(w)
          \/ /\ loaded' = [loaded EXCEPT ![w] = row]
             /\ pc' = [pc EXCEPT ![w] = IF req[w].op = "cache" THEN "probe" ELSE "commit"]
             /\ UNCHANGED <<req, probed>>
    <3> DEFINE hits == {r \in table : r.name = Key(req[w])}
               row  == IF hits = {} THEN NoRow ELSE CHOOSE r \in hits : TRUE
    <3>1. row \in table \cup {NoRow}
      OBVIOUS
    <3>2. \/ Leave(w)
          \/ /\ loaded' = [loaded EXCEPT ![w] = row]
             /\ pc' = [pc EXCEPT ![w] = IF req[w].op = "cache" THEN "probe" ELSE "commit"]
             /\ UNCHANGED <<req, probed>>
      BY <1>2 DEF Query, Goto
    <3>. QED
      BY <3>1, <3>2
  <2>2. UNCHANGED <<table, past>>
    BY <1>2 DEF Query
  <2>. QED
    BY <1>0, <2>1, <2>2 DEF Leave, Goto, TypeOK, Provenance, NoForeignCode
<1>3. ASSUME NEW w \in Workers, Probe(w)
      PROVE  Provenance'
  <2>1. loaded[w] # NoRow
    BY <1>3, ConstantsAssumption DEF Probe, Sessions, ConstantsAssumption
  <2>. QED
    BY <1>0, <1>3, <2>1 DEF Probe, Goto, TypeOK, Provenance, NoForeignCode
<1>4. CASE UNCHANGED <<table, past>> /\ \A w \in Workers :
             \/ pc'[w] \notin {"probe", "commit"}
             \/ /\ pc'[w] = pc[w] /\ loaded'[w] = loaded[w]
                /\ req'[w] = req[w] /\ probed'[w] = probed[w]
  BY <1>4 DEF Provenance, NoForeignCode
<1>5. ASSUME NEW t \in Threads,
             \/ Clear(t) \/ Include(t) \/ Read(t) \/ Mount(t) \/ Finish(t)
             \/ PoolTimeout(t) \/ ReadFails(t)
      PROVE  Provenance'
  BY <1>0, <1>4, <1>5
     DEF Clear, Include, Read, Mount, Finish, PoolTimeout, ReadFails, Raise, Leave,
         Goto, TypeOK
<1>6. ASSUME NEW w \in Workers, ProbeFails(w) \/ CommitFails(w) \/ Refresh(w)
      PROVE  Provenance'
  BY <1>0, <1>4, <1>6 DEF ProbeFails, CommitFails, Refresh, Leave, Goto, TypeOK
<1>7. ASSUME NEW w \in Workers, NEW r \in Request, Accept(w, r)
      PROVE  Provenance'
  BY <1>0, <1>4, <1>7 DEF Accept, Goto, TypeOK
<1>8. CASE Restart
  BY <1>0, <1>4, <1>8 DEF Restart, Fresh, Threads
<1>9. CASE Migrate \/ UNCHANGED vars
  BY <1>4, <1>9 DEF Migrate, vars
<1>. QED
  BY <1>1, <1>2, <1>3, <1>5, <1>6, <1>7, <1>8, <1>9 DEF Next, Handle, Rebuild

\* A cached code always describes data its own row has had, even when the pilot
\* is deleted and created again under the same name while cache_pilot probes.
THEOREM CodeIsNeverForeign == Spec => []NoForeignCode
<1>1. Init => Provenance
  BY ConstantsAssumption
     DEF Init, Fresh, Provenance, NoForeignCode, Threads, ConstantsAssumption
<1>2. TypeOK /\ Sessions /\ Provenance /\ [Next]_vars => Provenance'
  BY NextProvenance
<1>3. Provenance => NoForeignCode
  BY DEF Provenance
<1>. QED
  BY <1>1, <1>2, <1>3, TypeCorrect, PTL DEF Spec

-----------------------------------------------------------------------------
(* Rebuilds that nothing disturbs.                                         *)

MountedRows == {routes[i] : i \in Mounts}

MountedOnce == \A i, j \in Mounts : routes[i] = routes[j] => i = j

\* What a rebuild has done so far, when it had the list for itself.
Filled(t) ==
  /\ pc[t] = "include" => routes = <<>>
  /\ pc[t] = "read" => routes = <<Admin>>
  /\ pc[t] = "mount" =>
       /\ MountedOnce /\ MountedRows \cap todo[t] = {}
       /\ MountedRows \cup todo[t] \subseteq table
       /\ outage \/ table \subseteq MountedRows \cup todo[t]

\* While main.py is imported no request runs.
Importing == pc[Main] # "idle" => Filled(Main) /\ \A w \in Workers : pc[w] = "idle"

\* What one more entry adds to the mounts.
LEMMA AppendMounts ==
  ASSUME routes \in Seq(Row \cup {Admin}), NEW row \in Row, routes' = Append(routes, row)
  PROVE  /\ MountedRows' = MountedRows \cup {row}
         /\ MountedOnce /\ row \notin MountedRows => MountedOnce'
<1>1. /\ DOMAIN routes = 1 .. Len(routes) /\ Len(routes) \in Nat
      /\ DOMAIN routes' = 1 .. Len(routes) + 1
      /\ routes'[Len(routes) + 1] = row
      /\ \A i \in 1 .. Len(routes) : routes'[i] = routes[i]
  OBVIOUS
<1>2. row # Admin
  BY ConstantsAssumption DEF ConstantsAssumption
<1>3. Mounts' = Mounts \cup {Len(routes) + 1}
  BY <1>1, <1>2 DEF Mounts
<1>4. \A i \in Mounts : i \in 1 .. Len(routes) /\ routes'[i] = routes[i]
  BY <1>1 DEF Mounts
<1>5. MountedRows' = MountedRows \cup {row}
  BY <1>1, <1>3, <1>4 DEF MountedRows
<1>6. MountedOnce /\ row \notin MountedRows => MountedOnce'
  BY <1>1, <1>3, <1>4 DEF MountedOnce, MountedRows
<1>. QED
  BY <1>5, <1>6

\* A list without mounts.
LEMMA NoMounts ==
  ASSUME routes \in {<<>>, <<Admin>>}
  PROVE  MountedRows = {} /\ MountedOnce
<1>1. Mounts = {}
  BY DEF Mounts
<1>. QED
  BY <1>1 DEF MountedRows, MountedOnce

\* A rebuild that has the list for itself fills it.
LEMMA RebuildFills ==
  ASSUME TypeOK, NEW t \in Threads, Filled(t),
         Clear(t) \/ Include(t) \/ Read(t) \/ Mount(t)
  PROVE  Filled(t)'
<1>1. CASE Clear(t)
  BY <1>1 DEF Clear, Goto, TypeOK, Filled
<1>2. CASE Include(t)
  BY <1>2 DEF Include, Goto, TypeOK, Filled
<1>3. CASE Read(t)
  <2>1. /\ pc'[t] = "mount" /\ todo'[t] = IF migrated THEN table ELSE {}
        /\ outage' = (outage \/ ~migrated) /\ UNCHANGED <<routes, table>> /\ pc[t] = "read"
    BY <1>3 DEF Read, Goto, TypeOK
  <2>2. MountedRows' = {} /\ MountedOnce'
    <3>1. routes' = <<Admin>>
      BY <2>1 DEF Filled
    <3>. QED
      BY <3>1, NoMounts DEF MountedRows, MountedOnce, Mounts
  <2>. QED
    BY <2>1, <2>2 DEF Filled
<1>4. CASE Mount(t)
  <2>1. PICK row \in todo[t] : routes' = Append(routes, row)
                              /\ todo' = [todo EXCEPT ![t] = @ \ {row}]
    BY <1>4 DEF Mount
  <2>2. pc[t] = "mount" /\ UNCHANGED <<pc, table, outage>>
    BY <1>4 DEF Mount, ghosts
  <2>3. row \in Row /\ todo'[t] = todo[t] \ {row}
    BY <2>1 DEF TypeOK
  <2>4. row \notin MountedRows
    BY <2>1, <2>2 DEF Filled
  <2>5. MountedRows' = MountedRows \cup {row} /\ (MountedOnce => MountedOnce')
    BY <2>1, <2>3, <2>4, AppendMounts DEF TypeOK
  <2>. QED
    BY <2>1, <2>2, <2>3, <2>4, <2>5 DEF Filled
<1>. QED
  BY <1>1, <1>2, <1>3, <1>4

\* Nothing else touches what it has done.
LEMMA OthersLeaveFilled ==
  ASSUME NEW t \in Threads, UNCHANGED <<routes, table, outage, pc[t], todo[t]>>
  PROVE  Filled(t)' <=> Filled(t)
BY DEF Filled, MountedRows, MountedOnce, Mounts

\* Every step keeps Importing: no request is accepted before the import is over.
LEMMA NextImporting == TypeOK /\ Sessions /\ Importing /\ [Next]_vars => Importing'
<1> SUFFICES ASSUME TypeOK, Sessions, Importing, [Next]_vars PROVE Importing'
  OBVIOUS
<1> USE DEF locals, ghosts, counts
<1>0. Main \notin Workers /\ Workers \subseteq Threads /\ Main \in Threads
  BY ConstantsAssumption DEF ConstantsAssumption, Threads
<1>1. CASE Restart
  BY <1>0, <1>1 DEF Restart, Fresh, Importing, Filled
<1>2. CASE Migrate \/ UNCHANGED vars
  BY <1>0, <1>2, OthersLeaveFilled DEF Migrate, vars, Importing
<1>3. ASSUME NEW w \in Workers,
             \/ \E r \in Request : Accept(w, r)
             \/ Handle(w) \/ Probe(w) \/ ProbeFails(w) \/ Rebuild(w) \/ ReadFails(w)
      PROVE  Importing'
  <2>1. pc'[Main] = pc[Main]
    BY <1>0, <1>3
       DEF Accept, Handle, Query, Probe, Commit, CommitFails, Refresh, ProbeFails, Rebuild,
           Clear, Include, Read, Mount, Finish, PoolTimeout, ReadFails, Raise, Leave, Goto, TypeOK
  <2>2. pc[Main] = "idle"
    BY <1>3
       DEF Importing, Accept, Handle, Query, Probe, Commit, CommitFails, Refresh, ProbeFails,
           Rebuild, Clear, Include, Read, Mount, Finish, PoolTimeout, ReadFails
  <2>. QED
    BY <2>1, <2>2 DEF Importing
<1>4. CASE Clear(Main) \/ Include(Main) \/ Read(Main) \/ Mount(Main)
  <2>1. pc[Main] # "idle" /\ \A w \in Workers : pc'[w] = pc[w]
    BY <1>0, <1>4 DEF Clear, Include, Read, Mount, Goto, TypeOK
  <2>2. Filled(Main)'
    BY <1>0, <1>4, <2>1, RebuildFills DEF Importing
  <2>. QED
    BY <2>1, <2>2 DEF Importing
<1>5. CASE Finish(Main)
  BY <1>0, <1>5 DEF Finish, Goto, TypeOK, Importing
<1>6. CASE PoolTimeout(Main) \/ ReadFails(Main)
  <2>1. pc' = [pc EXCEPT ![Main] = "clear"] /\ pc[Main] # "idle"
    BY <1>6 DEF PoolTimeout, ReadFails, Raise, Goto, Sessions
  <2>2. pc'[Main] = "clear" /\ \A w \in Workers : pc'[w] = pc[w]
    BY <1>0, <2>1 DEF TypeOK
  <2>. QED
    BY <2>1, <2>2 DEF Importing, Filled
<1>. QED
  <2>1. ASSUME NEW t \in Threads, Rebuild(t) \/ ReadFails(t)
        PROVE  Importing'
    <3>1. CASE t = Main
      BY <1>4, <1>5, <1>6, <2>1, <3>1 DEF Rebuild
    <3>2. CASE t \in Workers
      BY <1>3, <2>1, <3>2
    <3>. QED
      BY <3>1, <3>2 DEF Threads
  <2>. QED
    BY <1>1, <1>2, <1>3, <2>1 DEF Next

\* The import always runs alone.
LEMMA ImportAlone == Spec => []Importing
<1>1. Init => Importing
  BY ConstantsAssumption DEF Init, Fresh, Importing, Filled, Threads, ConstantsAssumption
<1>2. TypeOK /\ Sessions /\ Importing /\ [Next]_vars => Importing'
  BY NextImporting
<1>. QED
  BY <1>1, <1>2, TypeCorrect, PTL DEF Spec

\* What a rebuild that ends leaves behind, when it had the list for itself.
LEMMA FilledMirrors ==
  ASSUME NEW t \in Threads, Filled(t), pc[t] = "mount", todo[t] = {}
  PROVE  MountedOnce /\ MountedRows \subseteq table /\ (outage \/ Mirrors)
BY DEF Filled, Mirrors, MountedOnce, MountedRows

\* BootMirrors (main.py:19-78): whatever an earlier process left, and however often
\* its own query failed, the import ends with one mount of each row as it is, or
\* knows that it stopped short.
THEOREM ImportMirrors == Spec => BootMirrors
<1>1. ASSUME TypeOK, Sessions, Importing, Next,
             pc[Main] = "mount", pc'[Main] = "idle", ~outage
      PROVE  Mirrors'
  <2>0. Main \notin Workers /\ Workers \subseteq Threads /\ Main \in Threads
    BY ConstantsAssumption DEF ConstantsAssumption, Threads
  <2>1. Finish(Main)
    BY <1>1, <2>0
       DEF Next, Importing, Accept, Handle, Query, Probe, Commit, CommitFails, Refresh, ProbeFails,
           Rebuild, Threads, Clear, Include, Read, Mount, Finish, PoolTimeout, ReadFails, Raise,
           Restart, Fresh, Migrate, Leave, Goto, TypeOK
  <2>2. Mirrors
    BY <1>1, <2>0, <2>1, FilledMirrors DEF Importing, Finish
  <2>3. UNCHANGED <<routes, table>>
    BY <2>1 DEF Finish
  <2>. QED
    BY <2>2, <2>3 DEF Mirrors, Mounts
<1>2. TypeOK /\ Sessions /\ Importing /\ [Next]_vars =>
        [pc[Main] = "mount" /\ pc'[Main] = "idle" /\ ~outage => Mirrors']_vars
  BY <1>1
<1>. QED
  BY <1>2, TypeCorrect, ImportAlone, PTL DEF Spec, BootMirrors

-----------------------------------------------------------------------------
(* Rebuilds that do not cross: any number of requests, but nobody was      *)
(* filling the list when it was last cleared.                              *)

\* One thread at most fills the list; and when nobody is about to clear it, that
\* thread has got as far as if it were alone, or has left a mirror of the table.
\* (A commit after its reading of the table is about to clear.)
Uncrossed ==
  ~crossed =>
    /\ \A t, u \in Threads : Filling(t) /\ Filling(u) => t = u
    /\ (\A t \in Threads : pc[t] # "clear") =>
         /\ \A t \in Threads : Filling(t) => Filled(t)
         /\ AtRest => outage \/ Mirrors

\* A step that leaves the list, the table and every rebuild as they are.
LEMMA AsideUncrossed ==
  ASSUME Uncrossed, UNCHANGED <<routes, table, outage, crossed>>,
         \A t \in Threads : /\ Rebuilding(t)' <=> Rebuilding(t)
                            /\ Rebuilding(t) => pc'[t] = pc[t] /\ todo'[t] = todo[t]
  PROVE  Uncrossed'
<1>1. \A t \in Threads : /\ Filling(t)' <=> Filling(t)
                         /\ pc'[t] = "clear" <=> pc[t] = "clear"
  BY DEF Rebuilding, Filling
<1>2. \A t \in Threads : Filling(t) /\ Filled(t) => Filled(t)'
  BY OthersLeaveFilled DEF Rebuilding, Filling
<1>3. AtRest' <=> AtRest
  BY DEF AtRest
<1>4. Mirrors' <=> Mirrors
  BY DEF Mirrors, Mounts
<1>. QED
  BY <1>1, <1>2, <1>3, <1>4 DEF Uncrossed

\* A thread that is about to clear the list owes everything.
LEMMA ClearOwes ==
  ASSUME Uncrossed, crossed' = crossed, NEW w \in Threads, pc'[w] = "clear",
         \A t \in Threads : Filling(t)' => Filling(t)
  PROVE  Uncrossed'
BY DEF Uncrossed

\* The thread that clears is the only one that fills, or they cross.
LEMMA ClearUncrossed ==
  ASSUME TypeOK, NEW t \in Threads, Clear(t)
  PROVE  Uncrossed'
<1>1. /\ routes' = <<>> /\ outage' = FALSE /\ pc' = [pc EXCEPT ![t] = "include"]
      /\ crossed' = \E u \in Threads \ {t} : Filling(u)
  BY DEF Clear, Goto
<1>2. pc'[t] = "include" /\ \A u \in Threads \ {t} : pc'[u] = pc[u]
  BY <1>1 DEF TypeOK
<1>3. ~crossed' => \A u \in Threads \ {t} : ~Filling(u)'
  BY <1>1, <1>2 DEF Filling
<1>4. Filled(t)'
  BY <1>1, <1>2 DEF Filled
<1>5. Filling(t)' /\ ~AtRest'
  BY <1>2 DEF Filling, AtRest, Rebuilding
<1>. QED
  BY <1>3, <1>4, <1>5 DEF Uncrossed

\* The one thread that fills goes on.
LEMMA FillUncrossed ==
  ASSUME TypeOK, Uncrossed, NEW t \in Threads, Include(t) \/ Read(t) \/ Mount(t)
  PROVE  Uncrossed'
<1>1. /\ Filling(t) /\ Filling(t)' /\ pc'[t] # "clear" /\ crossed' = crossed
      /\ \A u \in Threads \ {t} : pc'[u] = pc[u]
  BY DEF Include, Read, Mount, Goto, TypeOK, Filling, ghosts
<1>2. \A u \in Threads : Filling(u)' => Filling(u)
  BY <1>1 DEF Filling
<1>3. ~AtRest'
  BY <1>1 DEF Filling, AtRest, Rebuilding
<1>4. ASSUME ~crossed, \A u \in Threads : pc'[u] # "clear"
      PROVE  \A u \in Threads : Filling(u)' => Filled(u)'
  <2>1. \A u \in Threads : pc[u] # "clear"
    BY <1>1, <1>4 DEF Filling
  <2>2. Filled(t)
    BY <1>1, <1>4, <2>1 DEF Uncrossed
  <2>3. Filled(t)'
    BY <2>2, RebuildFills
  <2>4. \A u \in Threads : Filling(u)' => u = t
    BY <1>1, <1>2, <1>4 DEF Uncrossed
  <2>. QED
    BY <2>3, <2>4
<1>. QED
  BY <1>1, <1>2, <1>3, <1>4 DEF Uncrossed

\* It ends, with all its rows mounted.
LEMMA FinishUncrossed ==
  ASSUME TypeOK, Sessions, Uncrossed, NEW t \in Threads, Finish(t)
  PROVE  Uncrossed'
<1> USE DEF locals, ghosts, counts
<1>1. /\ Filling(t) /\ pc[t] = "mount" /\ todo[t] = {}
      /\ UNCHANGED <<routes, table, outage, crossed>>
  BY DEF Finish, Filling
<1>2. /\ pc'[t] \in {"idle", "refresh"}
      /\ \A u \in Threads \ {t} : pc'[u] = pc[u]
  BY DEF Finish, Leave, Goto, TypeOK
<1>3. ~Filling(t)' /\ \A u \in Threads : Filling(u)' => Filling(u)
  BY <1>2 DEF Filling
<1>4. ASSUME ~crossed, \A u \in Threads : pc'[u] # "clear"
      PROVE  (\A u \in Threads : ~Filling(u)') /\ (outage' \/ Mirrors')
  <2>1. \A u \in Threads : pc[u] # "clear"
    BY <1>1, <1>2, <1>4
  <2>2. Filled(t)
    BY <1>1, <1>4, <2>1 DEF Uncrossed
  <2>3. outage \/ Mirrors
    BY <1>1, <2>2, FilledMirrors
  <2>4. Mirrors' <=> Mirrors
    BY <1>1 DEF Mirrors, Mounts
  <2>5. \A u \in Threads : Filling(u) => u = t
    BY <1>1, <1>4 DEF Uncrossed
  <2>. QED
    BY <1>1, <1>3, <2>3, <2>4, <2>5
<1>. QED
  BY <1>1, <1>3, <1>4 DEF Uncrossed

\* Or breaks off, and the outage is known.
LEMMA RaiseUncrossed ==
  ASSUME TypeOK, Sessions, Uncrossed, NEW t \in Threads, pc[t] = "read", Raise(t)
  PROVE  Uncrossed'
<1>1. Filling(t) /\ outage' = TRUE /\ crossed' = crossed
  BY DEF Filling, Raise
<1>2. /\ pc'[t] \in {"idle", "clear"}
      /\ \A u \in Threads \ {t} : pc'[u] = pc[u]
  BY DEF Raise, Leave, Goto, TypeOK
<1>3. ~Filling(t)' /\ \A u \in Threads : Filling(u)' => Filling(u)
  BY <1>2 DEF Filling
<1>4. ~crossed => \A u \in Threads : ~Filling(u)'
  BY <1>1, <1>3 DEF Uncrossed
<1>. QED
  BY <1>1, <1>4 DEF Uncrossed

\* Every step keeps Uncrossed.
LEMMA NextUncrossed == TypeOK /\ Sessions /\ Uncrossed /\ [Next]_vars => Uncrossed'
<1> SUFFICES ASSUME TypeOK, Sessions, Uncrossed, [Next]_vars PROVE Uncrossed'
  OBVIOUS
<1> USE DEF locals, ghosts, counts
<1>0. Main \notin Workers /\ Workers \subseteq Threads /\ Main \in Threads
  BY ConstantsAssumption DEF ConstantsAssumption, Threads
<1>1. ASSUME NEW w \in Workers,
             \/ \E r \in Request : Accept(w, r)
             \/ Query(w) \/ Probe(w) \/ ProbeFails(w) \/ CommitFails(w) \/ Refresh(w)
      PROVE  Uncrossed'
  <2>1. UNCHANGED <<routes, table, outage, crossed>>
    BY <1>1 DEF Accept, Query, Probe, ProbeFails, CommitFails, Refresh
  <2>2. ~Rebuilding(w) /\ ~Rebuilding(w)'
    BY <1>0, <1>1
       DEF Accept, Query, Probe, ProbeFails, CommitFails, Refresh, Leave, Goto, TypeOK, Rebuilding
  <2>3. \A t \in Threads \ {w} : pc'[t] = pc[t] /\ todo'[t] = todo[t]
    BY <1>1 DEF Accept, Query, Probe, ProbeFails, CommitFails, Refresh, Leave, Goto, TypeOK
  <2>. QED
    BY <2>1, <2>2, <2>3, AsideUncrossed DEF Rebuilding
<1>2. ASSUME NEW w \in Workers, Commit(w)
      PROVE  Uncrossed'
  <2>1. pc'[w] = "clear" /\ crossed' = crossed /\ \A t \in Threads \ {w} : pc'[t] = pc[t]
    BY <1>0, <1>2 DEF Commit, Goto, TypeOK
  <2>2. \A t \in Threads : Filling(t)' => Filling(t)
    BY <2>1 DEF Filling
  <2>. QED
    BY <1>0, <2>1, <2>2, ClearOwes
<1>3. ASSUME NEW t \in Threads, Rebuild(t) \/ ReadFails(t)
      PROVE  Uncrossed'
  <2>1. CASE Clear(t)
    BY <2>1, ClearUncrossed
  <2>2. CASE Include(t) \/ Read(t) \/ Mount(t)
    BY <2>2, FillUncrossed
  <2>3. CASE Finish(t)
    BY <2>3, FinishUncrossed
  <2>4. CASE pc[t] = "read" /\ Raise(t)
    BY <2>4, RaiseUncrossed
  <2>5. CASE PoolTimeout(t) /\ pc[t] # "read"
    <3>1. /\ pc[t] \in {"query", "refresh"} /\ Leave(t)
          /\ UNCHANGED <<table, routes, outage, crossed>>
      BY <2>5 DEF PoolTimeout
    <3>2. ~Rebuilding(t) /\ ~Rebuilding(t)'
      BY <3>1 DEF Leave, Goto, TypeOK, Rebuilding
    <3>3. \A u \in Threads \ {t} : pc'[u] = pc[u] /\ todo'[u] = todo[u]
      BY <3>1 DEF Leave, Goto, TypeOK
    <3>. QED
      BY <3>1, <3>2, <3>3, AsideUncrossed DEF Rebuilding
  <2>. QED
    BY <1>3, <2>1, <2>2, <2>3, <2>4, <2>5 DEF Rebuild, ReadFails, PoolTimeout
<1>4. CASE Restart
  <2>1. crossed' = crossed /\ pc'[Main] = "clear" /\ \A w \in Workers : pc'[w] = "idle"
    BY <1>0, <1>4 DEF Restart, Fresh
  <2>2. \A t \in Threads : ~Filling(t)'
    BY <2>1 DEF Threads, Filling
  <2>. QED
    BY <1>0, <2>1, <2>2, ClearOwes
<1>5. CASE Migrate \/ UNCHANGED vars
  BY <1>5, AsideUncrossed DEF Migrate, vars, Rebuilding
<1>. QED
  BY <1>1, <1>2, <1>3, <1>4, <1>5 DEF Next, Handle

\* StaleOnlyIfCrossed (main.py:19-75): any number of requests may commit, one after
\* the other or while a rebuild is under way, and each rebuild read the table at any
\* time: if nobody else was filling the list when it was last cleared, the rebuild
\* that ends last leaves one mount of each row, as it is now, and no other.
THEOREM UncrossedRebuildsMirror == Spec => []StaleOnlyIfCrossed
<1>1. Init => Uncrossed
  <2> SUFFICES ASSUME Init PROVE Uncrossed
    OBVIOUS
  <2>1. pc[Main] = "clear" /\ Main \in Threads /\ \A t \in Threads : ~Filling(t)
    BY DEF Init, Fresh, Threads, Filling
  <2>. QED
    BY <2>1 DEF Uncrossed
<1>2. TypeOK /\ Sessions /\ Uncrossed /\ [Next]_vars => Uncrossed'
  BY NextUncrossed
<1>3. Uncrossed => StaleOnlyIfCrossed
  BY DEF Uncrossed, StaleOnlyIfCrossed, AtRest, Rebuilding
<1>. QED
  BY <1>1, <1>2, <1>3, TypeCorrect, PTL DEF Spec

-----------------------------------------------------------------------------
(* One request at a time.                                                  *)

SoleWorker == \A u, v \in Workers : u = v

\* Nobody clears or fills the list of another: what a rebuild leaves behind stays
\* until the next one.
Undisturbed ==
  /\ Importing
  /\ \A w \in Workers : Rebuilding(w) => Filled(w)
  /\ AtRest => /\ MountedOnce /\ MountedRows \subseteq table
               /\ outage \/ MountedRows = table

\* A step that touches neither the list nor the table, and of which no rebuild
\* begins or ends.
LEMMA AsideUndisturbed ==
  ASSUME Undisturbed, UNCHANGED <<routes, table, outage>>, Importing',
         \A t \in Threads : /\ Rebuilding(t)' <=> Rebuilding(t)
                            /\ Rebuilding(t) => pc'[t] = pc[t] /\ todo'[t] = todo[t]
  PROVE  Undisturbed'
<1>1. \A w \in Workers : Rebuilding(w)' => Filled(w)'
  BY DEF Undisturbed, Filled, MountedRows, MountedOnce, Mounts, Threads
<1>2. AtRest' <=> AtRest
  BY DEF AtRest
<1>. QED
  BY <1>1, <1>2 DEF Undisturbed, MountedRows, MountedOnce, Mounts

\* The worker that serves the only request runs alone.
LEMMA WorkerAlone ==
  ASSUME SoleWorker, TypeOK, Undisturbed, NEW w \in Workers, pc[w] # "idle"
  PROVE  /\ pc[Main] = "idle" /\ Main # w /\ Threads = {w, Main}
         /\ Workers = {w}
         /\ Rebuilding(w) => Filled(w)
BY ConstantsAssumption DEF ConstantsAssumption, SoleWorker, Undisturbed, Importing, Threads

\* A rebuild that raises leaves nothing mounted.
LEMMA RaiseUndisturbed ==
  ASSUME SoleWorker, TypeOK, Sessions, Undisturbed, Importing',
         NEW w \in Workers, pc[w] = "read", Raise(w)
  PROVE  Undisturbed'
<1>1. /\ pc[Main] = "idle" /\ Main # w /\ Threads = {w, Main} /\ Workers = {w} /\ Filled(w)
  BY WorkerAlone DEF Rebuilding
<1>2. /\ pc' = [pc EXCEPT ![w] = "idle"] /\ outage' = TRUE /\ UNCHANGED <<routes, table>>
  BY <1>1 DEF Raise, Leave, Goto
<1>3. pc'[w] = "idle" /\ pc'[Main] = "idle"
  BY <1>1, <1>2 DEF TypeOK
<1>4. MountedRows' = {} /\ MountedOnce'
  BY <1>1, <1>2, NoMounts DEF Filled, MountedRows, MountedOnce, Mounts
<1>. QED
  BY <1>1, <1>2, <1>3, <1>4 DEF Undisturbed, Rebuilding

\* Every step keeps Undisturbed.
LEMMA NextUndisturbed ==
  SoleWorker /\ TypeOK /\ Sessions /\ Undisturbed /\ [Next]_vars => Undisturbed'
<1> SUFFICES ASSUME SoleWorker, TypeOK, Sessions, Undisturbed, [Next]_vars PROVE Undisturbed'
  OBVIOUS
<1> USE DEF locals, ghosts, counts
<1>0. Main \notin Workers /\ Workers \subseteq Threads /\ Main \in Threads
  BY ConstantsAssumption DEF ConstantsAssumption, Threads
<1>1. Importing'
  BY NextImporting DEF Undisturbed
<1>2. ASSUME NEW w \in Workers,
             \/ \E r \in Request : Accept(w, r)
             \/ Query(w) \/ Probe(w) \/ ProbeFails(w) \/ CommitFails(w) \/ Refresh(w)
      PROVE  Undisturbed'
  <2>1. UNCHANGED <<routes, table, outage>>
    BY <1>2 DEF Accept, Query, Probe, ProbeFails, CommitFails, Refresh
  <2>2. ~Rebuilding(w) /\ ~Rebuilding(w)'
    BY <1>0, <1>2
       DEF Accept, Query, Probe, ProbeFails, CommitFails, Refresh, Leave, Goto, TypeOK, Rebuilding
  <2>3. \A t \in Threads \ {w} : pc'[t] = pc[t] /\ todo'[t] = todo[t]
    BY <1>2 DEF Accept, Query, Probe, ProbeFails, CommitFails, Refresh, Leave, Goto, TypeOK
  <2>. QED
    BY <1>1, <2>1, <2>2, <2>3, AsideUndisturbed DEF Rebuilding
<1>3. ASSUME NEW w \in Workers, Commit(w)
      PROVE  Undisturbed'
  <2>1. pc'[w] = "clear" /\ Workers = {w}
    BY <1>0, <1>3, WorkerAlone DEF Commit, Goto, TypeOK
  <2>. QED
    BY <1>0, <1>1, <2>1 DEF Undisturbed, Filled, AtRest, Rebuilding
<1>4. ASSUME NEW w \in Workers, Clear(w) \/ Include(w) \/ Read(w) \/ Mount(w)
      PROVE  Undisturbed'
  <2>1. Rebuilding(w) /\ pc[w] # "idle"
    BY <1>4 DEF Clear, Include, Read, Mount, Rebuilding
  <2>2. Workers = {w} /\ Filled(w)
    BY <2>1, WorkerAlone
  <2>3. Filled(w)'
    BY <1>0, <1>4, <2>2, RebuildFills
  <2>4. Rebuilding(w)'
    BY <1>0, <1>4 DEF Clear, Include, Read, Mount, Goto, TypeOK, Rebuilding
  <2>. QED
    BY <1>0, <1>1, <2>2, <2>3, <2>4 DEF Undisturbed, AtRest
<1>5. ASSUME NEW w \in Workers, Finish(w)
      PROVE  Undisturbed'
  <2>1. pc[w] = "mount" /\ todo[w] = {} /\ UNCHANGED <<routes, table, outage>>
    BY <1>5 DEF Finish
  <2>2. Workers = {w} /\ Filled(w)
    BY <2>1, WorkerAlone DEF Rebuilding
  <2>3. MountedOnce /\ MountedRows \subseteq table /\ (outage \/ MountedRows = table)
    BY <1>0, <2>1, <2>2 DEF Filled
  <2>4. ~Rebuilding(w)'
    BY <1>0, <1>5 DEF Finish, Leave, Goto, TypeOK, Rebuilding
  <2>. QED
    BY <1>0, <1>1, <2>1, <2>2, <2>3, <2>4
       DEF Undisturbed, AtRest, MountedOnce, MountedRows, Mounts
<1>6. ASSUME NEW w \in Workers, PoolTimeout(w) \/ ReadFails(w)
      PROVE  Undisturbed'
  <2>1. CASE pc[w] = "read" /\ Raise(w)
    BY <1>1, <2>1, RaiseUndisturbed
  <2>2. CASE ~(pc[w] = "read" /\ Raise(w))
    <3>1. /\ pc[w] \in {"query", "refresh"} /\ Leave(w) /\ UNCHANGED <<table, routes, outage>>
      BY <1>6, <2>2 DEF PoolTimeout, ReadFails
    <3>2. ~Rebuilding(w) /\ ~Rebuilding(w)'
      BY <1>0, <3>1 DEF Leave, Goto, TypeOK, Rebuilding
    <3>3. \A t \in Threads \ {w} : pc'[t] = pc[t] /\ todo'[t] = todo[t]
      BY <3>1 DEF Leave, Goto, TypeOK
    <3>. QED
      BY <1>1, <3>1, <3>2, <3>3, AsideUndisturbed DEF Rebuilding
  <2>. QED
    BY <2>1, <2>2
<1>7. ASSUME pc[Main] # "idle", \A w \in Workers : pc'[w] = pc[w], pc'[Main] # "idle",
             Sessions'
      PROVE  Undisturbed'
  <2>1. \A w \in Workers : ~Rebuilding(w)'
    BY <1>7 DEF Undisturbed, Importing, Rebuilding
  <2>2. Rebuilding(Main)'
    BY <1>7 DEF Sessions, Rebuilding
  <2>. QED
    BY <1>0, <1>1, <2>1, <2>2 DEF Undisturbed, AtRest
<1>8. CASE Rebuild(Main) \/ ReadFails(Main)
  <2>1. Sessions' /\ \A w \in Workers : pc[Main] # "idle" /\ pc'[w] = pc[w]
    BY <1>0, <1>8, NextTypeOK
       DEF Rebuild, Clear, Include, Read, Mount, Finish, PoolTimeout, ReadFails, Raise, Goto,
           TypeOK, Sessions
  <2>2. pc[Main] # "idle"
    BY <1>8 DEF Rebuild, Clear, Include, Read, Mount, Finish, PoolTimeout, ReadFails
  <2>3. CASE pc'[Main] # "idle"
    BY <1>7, <2>1, <2>2, <2>3
  <2>4. CASE pc'[Main] = "idle"
    <3>1. Finish(Main)
      BY <1>0, <1>8, <2>4
         DEF Rebuild, Clear, Include, Read, Mount, PoolTimeout, ReadFails, Raise, Goto,
             TypeOK, Sessions
    <3>2. pc[Main] = "mount" /\ todo[Main] = {} /\ UNCHANGED <<routes, table, outage>>
      BY <3>1 DEF Finish
    <3>3. MountedOnce /\ MountedRows \subseteq table /\ (outage \/ MountedRows = table)
      BY <2>2, <3>2 DEF Undisturbed, Importing, Filled
    <3>4. \A w \in Workers : ~Rebuilding(w)'
      BY <2>1, <2>2 DEF Undisturbed, Importing, Rebuilding
    <3>. QED
      BY <1>1, <3>2, <3>3, <3>4 DEF Undisturbed, MountedOnce, MountedRows, Mounts
  <2>. QED
    BY <2>3, <2>4
<1>9. CASE Restart
  <2>1. pc'[Main] = "clear" /\ \A w \in Workers : pc'[w] = "idle"
    BY <1>0, <1>9 DEF Restart, Fresh
  <2>. QED
    BY <1>0, <1>1, <2>1 DEF Undisturbed, AtRest, Rebuilding
<1>10. CASE Migrate \/ UNCHANGED vars
  BY <1>1, <1>10, AsideUndisturbed DEF Migrate, vars, Rebuilding
<1>11. ASSUME NEW t \in Threads, Rebuild(t) \/ ReadFails(t)
       PROVE  Undisturbed'
  <2>1. CASE t = Main
    BY <1>8, <1>11, <2>1
  <2>2. CASE t \in Workers
    BY <1>4, <1>5, <1>6, <1>11, <2>2 DEF Rebuild
  <2>. QED
    BY <2>1, <2>2 DEF Threads
<1>. QED
  BY <1>2, <1>3, <1>9, <1>10, <1>11 DEF Next, Handle

\* With one request at a time a rebuild is never disturbed.
LEMMA SerialUndisturbed == ASSUME SoleWorker PROVE Spec => []Undisturbed
<1>1. Init => Undisturbed
  <2> SUFFICES ASSUME Init PROVE Undisturbed
    OBVIOUS
  <2>1. pc[Main] = "clear" /\ \A w \in Workers : pc[w] = "idle"
    BY ConstantsAssumption DEF Init, Fresh, Threads, ConstantsAssumption
  <2>. QED
    BY <2>1 DEF Undisturbed, Importing, Filled, AtRest, Rebuilding, Threads
<1>2. TypeOK /\ Sessions /\ Undisturbed /\ [Next]_vars => Undisturbed'
  BY NextUndisturbed
<1>. QED
  BY <1>1, <1>2, TypeCorrect, PTL DEF Spec

\* RoutesMirrorTable (main.py:71-75): with one request at a time the
\* routes mirror the table whenever no rebuild is under way or has stopped short.
THEOREM SerialRoutesMirror == ASSUME SoleWorker PROVE Spec => []RoutesMirrorTable
<1>1. Undisturbed => RoutesMirrorTable
  BY DEF Undisturbed, RoutesMirrorTable, Mirrors, MountedRows, MountedOnce
<1>. QED
  BY <1>1, SerialUndisturbed, PTL

-----------------------------------------------------------------------------
(* The abstract registry.                                                  *)

\* A commit is a write of the abstract registry, or changes nothing.
LEMMA CommitWrites ==
  ASSUME TypeOK, Sessions, DistinctRows, NEW w \in Workers, Commit(w)
  PROVE  Atomic!Write \/ Atomic!Repair
<1>0. w \in Threads /\ table \subseteq Row /\ pc[w] = "commit" /\ table' = Flushed(w)
      /\ ~RowLost(w)
  BY DEF Commit, TypeOK, Threads
<1>1. ~AtRest'
  BY <1>0 DEF Commit, Goto, TypeOK, AtRest, Rebuilding
<1>2. Atomic!Restored
  BY <1>1 DEF Atomic!Restored
<1>3. CASE Inserts(w)
  <2> DEFINE new == [id |-> lastId + 1, name |-> req[w].name,
                     data |-> req[w].data, code |-> NoCode]
  <2>1. table' = table \cup {new} /\ new.id = lastId + 1
    BY <1>0, <1>3 DEF Flushed
  <2> HIDE DEF new
  <2>2. \A r \in table : r.id # new.id
    <3>1. \A r \in table : r.id \in Nat /\ r.id <= lastId
      BY <1>0 DEF DistinctRows, Row
    <3>. QED
      BY <2>1, <3>1 DEF TypeOK
  <2>. QED
    BY <1>2, <2>1, <2>2 DEF Atomic!Write, Atomic!Insert
<1>4. CASE ~Inserts(w) /\ \A r \in table : ~SameRow(w, r)
  <2>1. table' = table
    BY <1>0, <1>4 DEF Flushed
  <2>. QED
    BY <1>2, <2>1 DEF Atomic!Repair
<1>5. ASSUME NEW old \in table, SameRow(w, old), ~Inserts(w)
      PROVE  Atomic!Write \/ Atomic!Repair
  <2>1. \A r \in table : SameRow(w, r) => r = old
    BY <1>5 DEF SameRow, DistinctRows
  <2>2. CASE req[w].op = "delete"
    <3>1. table' = table \ {old}
      BY <1>0, <1>5, <2>1, <2>2 DEF Flushed
    <3>. QED
      BY <1>2, <3>1 DEF Atomic!Write, Atomic!Delete
  <2>3. CASE req[w].op # "delete"
    <3>1. table' = (table \ {old}) \cup {Edited(w, old)}
      BY <1>0, <1>5, <2>1, <2>3 DEF Flushed
    <3>2. Edited(w, old).id = old.id
      BY <1>0, <1>5, <2>3, EditedRow
    <3>. QED
      BY <1>2, <3>1, <3>2 DEF Atomic!Write, Atomic!Change
  <2>. QED
    BY <2>2, <2>3
<1>. QED
  BY <1>3, <1>4, <1>5

\* What any other step does to the routes restores them or is a fault.
LEMMA OtherStepsRepair ==
  ASSUME TypeOK', Undisturbed', UNCHANGED table
  PROVE  Atomic!Repair \/ Atomic!Fault
<1>1. CASE ~AtRest'
  BY <1>1 DEF Atomic!Repair, Atomic!Restored
<1>2. CASE AtRest' /\ ~outage'
  <2>1. MountedRows' = table'
    BY <1>2 DEF Undisturbed
  <2>. QED
    BY <1>2, <2>1 DEF Atomic!Repair, Atomic!Restored, MountedRows
<1>3. CASE AtRest' /\ outage'
  <2>1. MountedRows' \subseteq table
    BY <1>3 DEF Undisturbed
  <2>. QED
    BY <1>3, <2>1 DEF Atomic!Fault, MountedRows
<1>. QED
  BY <1>1, <1>2, <1>3 DEF TypeOK

\* WritesAreAtomic (main.py:71-75): with one request at a time the
\* registry implements AtomicRegistry: a commit and its whole rebuild are one step
\* to those who look at the routes when no rebuild is under way.
THEOREM SerialWritesAreAtomic == ASSUME SoleWorker PROVE Spec => WritesAreAtomic
<1>1. Init => Atomic!Init
  <2> SUFFICES ASSUME Init PROVE Atomic!Init
    OBVIOUS
  <2>1. ~AtRest
    BY DEF Init, Fresh, AtRest, Rebuilding, Threads
  <2>2. \A r, s \in table : r.id = s.id => r = s
    BY DEF Init
  <2>. QED
    BY <2>1, <2>2 DEF Init, Atomic!Init
<1>2. /\ TypeOK /\ Sessions /\ DistinctRows /\ TypeOK' /\ Undisturbed' /\ [Next]_vars
      => [Atomic!Next]_(Atomic!vars)
  BY CommitWrites, OtherStepsRepair, OnlyCommitWrites DEF Atomic!Next
<1>. QED
  BY <1>1, <1>2, TypeCorrect, RowsStayDistinct, SerialUndisturbed, PTL
     DEF Spec, WritesAreAtomic, Atomic!Spec
=============================================================================
