--------------------------- MODULE PilotRegistry ---------------------------
(***************************************************************************)
(* The pilots of the SensorThings API: the `pilots` table, the admin       *)
(* endpoints that change it, and the route table of the one FastAPI        *)
(* process, which is rebuilt from the table after every commit.            *)
(*                                                                         *)
(* Admin endpoints are plain functions, so each request runs in a thread   *)
(* of its own (Workers).  The rebuild is a listener of the session's       *)
(* after_commit event: it runs in the thread that committed, before the    *)
(* session returns its connection to the pool, with no lock, on the list   *)
(* the event loop is matching requests against.  The import of main.py     *)
(* runs it once more (thread Main), before requests are accepted.          *)
(*                                                                         *)
(* Abstractions.  A row keeps its id, its name, `data` (custom_endpoint    *)
(* and graphs: what the SPARQL queries are sent to) and `code`, the        *)
(* cached_properties, named by the data it was computed from.  The SELECT  *)
(* of a handler and the checkout of its connection are one step; so are    *)
(* the flush and the COMMIT, which row locks and the unique index order    *)
(* the same way.  HTTP replies are left out; every exit is kept.  The two  *)
(* GET handlers, one SELECT each, change nothing and are left out.         *)
(***************************************************************************)
EXTENDS Naturals, Sequences, FiniteSets

CONSTANTS
  Workers,    \* threads of the request pool
  Main,       \* the thread that imports main.py
  Names,      \* pilot names
  Data,       \* (custom_endpoint, graphs) pairs
  PoolSize,   \* connections the engine's pool may hand out at once
  Admin,      \* the admin router's entry of the route table
  NoRow, NoCode, NoRequest,  \* Python's None
  MaxWrites,  \* bound: requests accepted
  MaxFaults   \* bound: database errors and process restarts

Threads == Workers \cup {Main}

Codes == Data \cup {NoCode}
Row   == [id : Nat, name : Names, data : Data, code : Codes]

\* Handlers that take a body (create, update) and those that do not.
Request == [op : {"create", "update"}, path : Names, name : Names, data : Data]
           \cup [op : {"cache", "delete"}, path : Names]

Steps == {"idle", "query", "probe", "commit",
          "clear", "include", "read", "mount", "refresh"}

ASSUME ConstantsAssumption ==
  /\ Main \notin Workers
  /\ Admin \notin Row
  /\ NoRow \notin Row
  /\ NoCode \notin Data
  /\ NoRequest \notin Request
  /\ {PoolSize, MaxWrites, MaxFaults} \subseteq Nat

VARIABLES
  table,    \* committed rows of `pilots`
  migrated, \* the schema has every column models.py names
  routes,   \* app.routes: Admin and mounted snapshots, in matching order
  pc,       \* where each thread is
  req,      \* the request a worker handles
  loaded,   \* the row its session loaded, as it was then
  probed,   \* the code cache_pilot has computed
  todo,     \* rows its rebuild has read and not mounted yet
  held,     \* threads whose session holds a connection
  outage,   \* ghost: a rebuild stopped short since routes were last cleared
  crossed,  \* ghost: routes were last cleared while another thread was filling them
  past,     \* ghost: <<id, data>> for all the data a row id ever had
  lastId,   \* the sequence behind pilots.id
  writes, faults  \* the bounds' counters

locals == <<req, loaded, probed, todo>>
ghosts == <<outage, crossed, past>>
counts == <<writes, faults>>
vars   == <<table, lastId, migrated, routes, pc, locals, held, ghosts, counts>>

TypeOK ==
  /\ table \subseteq Row
  /\ migrated \in BOOLEAN
  /\ routes \in Seq(Row \cup {Admin})
  /\ pc \in [Threads -> Steps]
  /\ req \in [Workers -> Request \cup {NoRequest}]
  /\ loaded \in [Workers -> Row \cup {NoRow}]
  /\ probed \in [Workers -> Codes]
  /\ todo \in [Threads -> SUBSET Row]
  /\ held \subseteq Workers
  /\ outage \in BOOLEAN
  /\ crossed \in BOOLEAN
  /\ past \subseteq Nat \X Data
  /\ lastId \in Nat
  /\ writes \in 0 .. MaxWrites
  /\ faults \in 0 .. MaxFaults

-----------------------------------------------------------------------------
Free == Cardinality(held) < PoolSize

Mounted(x) == \E i \in DOMAIN routes : routes[i] = x

\* Starlette serves the first entry whose path matches.
Served(n) ==
  LET hits == {i \in DOMAIN routes : routes[i] # Admin /\ routes[i].name = n}
  IN  IF hits = {} THEN NoRow
      ELSE routes[CHOOSE i \in hits : \A j \in hits : i <= j]


Goto(t, step) == pc' = [pc EXCEPT ![t] = step]

\* The handler returns or raises: get_db closes the session, which gives back
\* its connection.
Leave(w) ==
  /\ Goto(w, "idle")
  /\ req' = [req EXCEPT ![w] = NoRequest]
  /\ loaded' = [loaded EXCEPT ![w] = NoRow]
  /\ probed' = [probed EXCEPT ![w] = NoCode]
  /\ todo' = [todo EXCEPT ![w] = {}]
  /\ held' = held \ {w}

\* A new process: an empty route table, and Main about to fill it.
Fresh ==
  [routes |-> <<>>,
   pc     |-> [t \in Threads |-> IF t = Main THEN "clear" ELSE "idle"],
   req    |-> [w \in Workers |-> NoRequest],
   loaded |-> [w \in Workers |-> NoRow],
   probed |-> [w \in Workers |-> NoCode],
   todo   |-> [t \in Threads |-> {}],
   held   |-> {}]

\* A process starts on an empty table, or on one that an earlier process left
\* with one row.
Init ==
  /\ routes = Fresh.routes /\ pc = Fresh.pc /\ req = Fresh.req /\ loaded = Fresh.loaded
  /\ probed = Fresh.probed /\ todo = Fresh.todo /\ held = Fresh.held
  /\ \/ table = {} /\ lastId = 0
     \/ \E n \in Names, d \in Data, c \in Codes :
          /\ table = {[id |-> 1, name |-> n, data |-> d, code |-> c]}
          /\ lastId = 1
  /\ migrated \in BOOLEAN
  /\ outage = FALSE
  /\ crossed = FALSE
  /\ past = {<<r.id, r.data>> : r \in table}
            \cup {<<r.id, r.code>> : r \in {x \in table : x.code # NoCode}}
  /\ writes = 0
  /\ faults = 0

-----------------------------------------------------------------------------
(* Requests                                                                *)

\* The event loop matches an admin path and hands the endpoint to a thread.
\* While the rebuild has the list cleared the request is answered 404 and
\* nothing else happens.
Accept(w, r) ==
  /\ pc[Main] = "idle"
  /\ pc[w] = "idle"
  /\ Mounted(Admin)
  /\ writes < MaxWrites
  /\ writes' = writes + 1
  /\ Goto(w, "query")
  /\ req' = [req EXCEPT ![w] = r]
  /\ UNCHANGED <<table, lastId, migrated, routes, loaded, probed, todo, held, ghosts, faults>>

\* The name each handler looks its row up by: create_pilot has only the body's.
Key(r) == IF r.op = "create" THEN r.name ELSE r.path

\* The SELECT every handler starts with.  create_pilot goes on only when the
\* name is free (else 400), cache_pilot and delete_pilot only when it is not
\* (else 400), update_pilot either way.
Query(w) ==
  /\ pc[w] = "query"
  /\ Free
  /\ LET hits == {r \in table : r.name = Key(req[w])}
         row  == IF hits = {} THEN NoRow ELSE CHOOSE r \in hits : TRUE
         goOn == \/ req[w].op = "create" /\ row = NoRow
                 \/ req[w].op = "update"
                 \/ req[w].op \in {"cache", "delete"} /\ row # NoRow
     IN  IF migrated /\ goOn
         THEN /\ loaded' = [loaded EXCEPT ![w] = row]
              /\ held' = held \cup {w}
              /\ Goto(w, IF req[w].op = "cache" THEN "probe" ELSE "commit")
              /\ UNCHANGED <<req, probed, todo>>
         ELSE Leave(w)
  /\ UNCHANGED <<table, lastId, migrated, routes, ghosts, counts>>

\* get_integer_code runs its ASK queries on the graphs of the loaded row.  Its
\* SPARQLStore has no timeout: an endpoint that does not answer keeps the thread
\* here for good, with its connection.
Probe(w) ==
  /\ pc[w] = "probe"
  /\ Goto(w, "commit")
  /\ probed' = [probed EXCEPT ![w] = loaded[w].data]
  /\ UNCHANGED <<table, lastId, migrated, routes, req, loaded, todo, held, ghosts, counts>>

\* ... or handle_sparql_exception raises 503 or 400.
ProbeFails(w) ==
  /\ pc[w] = "probe"
  /\ faults < MaxFaults
  /\ faults' = faults + 1
  /\ Leave(w)
  /\ UNCHANGED <<table, lastId, migrated, routes, ghosts, writes>>

\* Variant: the row is found by its name.
SameName(w, r) == r.name = loaded[w].name

\* The row of the table that w's session loaded: an UPDATE or DELETE finds it by
\* its primary key.
SameRow(w, r)  == r.id = loaded[w].id

\* The row with the columns the session saw change.  SQLAlchemy's UPDATE names
\* only those: the others keep whatever value the table has by now.
Edited(w, row) ==
  LET old == loaded[w]
      new == req[w]
  IN  IF new.op = "update"
      THEN [row EXCEPT !.name = IF new.name = old.name THEN @ ELSE new.name,
                       !.data = IF new.data = old.data THEN @ ELSE new.data]
      ELSE [row EXCEPT !.code = IF probed[w] = old.code THEN @ ELSE probed[w]]

\* The session has no net change on the row it loaded: flush emits nothing.
Untouched(w) == Edited(w, loaded[w]) = loaded[w]

Inserts(w) == loaded[w] = NoRow

\* The rows after the flush of w's session; the row itself is found by its id.
\* A DELETE that matches no row is only a warning.
Flushed(w) ==
  IF Inserts(w)
  THEN table \cup {[id |-> lastId + 1, name |-> req[w].name,
                    data |-> req[w].data, code |-> NoCode]}
  ELSE IF req[w].op = "delete"
  THEN {r \in table : ~SameRow(w, r)}
  ELSE {IF SameRow(w, r) THEN Edited(w, r) ELSE r : r \in table}

\* The unique index on pilots.name.
NameTaken(rows) == \E r, s \in rows : r.id # s.id /\ r.name = s.name

\* An UPDATE that matches no row raises StaleDataError.
RowLost(w) ==
  /\ ~Inserts(w)
  /\ req[w].op # "delete"
  /\ ~Untouched(w)
  /\ \A r \in table : ~SameRow(w, r)

\* A thread is filling the list that it has cleared.
Filling(t) == pc[t] \in {"include", "read", "mount"}

\* Variant: a rebuild that is under way is taken to do for this commit, too.
CommitCoalesced(w) ==
  /\ pc[w] = "commit"
  /\ ~NameTaken(Flushed(w))
  /\ ~RowLost(w)
  /\ table' = Flushed(w)
  /\ lastId' = IF Inserts(w) THEN lastId + 1 ELSE lastId
  /\ past' = past \cup {<<r.id, r.data>> : r \in table'}
  /\ Goto(w, IF \E t \in Threads : Filling(t) THEN "mount" ELSE "clear")
  /\ UNCHANGED <<migrated, routes, locals, held, outage, crossed, counts>>

Commit(w) ==
  /\ pc[w] = "commit"
  /\ ~NameTaken(Flushed(w))
  /\ ~RowLost(w)
  /\ table' = Flushed(w)
  /\ lastId' = IF Inserts(w) THEN lastId + 1 ELSE lastId
  /\ past' = past \cup {<<r.id, r.data>> : r \in table'}
  /\ Goto(w, "clear")
  /\ UNCHANGED <<migrated, routes, locals, held, outage, crossed, counts>>

\* IntegrityError or StaleDataError: nothing is written, the reply is 500.
CommitFails(w) ==
  /\ pc[w] = "commit"
  /\ NameTaken(Flushed(w)) \/ RowLost(w)
  /\ Leave(w)
  /\ UNCHANGED <<table, lastId, migrated, routes, ghosts, counts>>

-----------------------------------------------------------------------------
(* generate_pilot_apps, in any thread                                      *)

\* The list is cleared in place, whoever is reading or filling it.
Clear(t) ==
  /\ pc[t] = "clear"
  /\ routes' = <<>>
  /\ outage' = FALSE
  /\ crossed' = \E u \in Threads \ {t} : Filling(u)
  /\ Goto(t, "include")
  /\ UNCHANGED <<table, lastId, migrated, locals, held, past, counts>>

\* Variant: the admin router is included only into an empty list.
IncludeIfEmpty(t) ==
  /\ pc[t] = "include"
  /\ routes' = IF routes = <<>> THEN <<Admin>> ELSE routes
  /\ Goto(t, "read")
  /\ UNCHANGED <<table, lastId, migrated, locals, held, ghosts, counts>>

Include(t) ==
  /\ pc[t] = "include"
  /\ routes' = Append(routes, Admin)
  /\ Goto(t, "read")
  /\ UNCHANGED <<table, lastId, migrated, locals, held, ghosts, counts>>

\* Variant: the missing result of a failed query is mounted.
ReadNone(t) ==
  /\ pc[t] = "read"
  /\ Free
  /\ todo' = [todo EXCEPT ![t] = IF migrated THEN table ELSE {NoRow}]
  /\ outage' = (outage \/ ~migrated)
  /\ Goto(t, "mount")
  /\ UNCHANGED <<table, lastId, migrated, routes, req, loaded, probed, held, crossed, past,
                 counts>>

\* Variant: the query is limited to one row.
ReadFirst(t) ==
  /\ pc[t] = "read"
  /\ Free
  /\ \E some \in SUBSET (IF migrated THEN table ELSE {}) :
       /\ Cardinality(some) <= 1
       /\ some = {} => table = {} \/ ~migrated
       /\ todo' = [todo EXCEPT ![t] = some]
  /\ outage' = (outage \/ ~migrated)
  /\ Goto(t, "mount")
  /\ UNCHANGED <<table, lastId, migrated, routes, req, loaded, probed, held, crossed, past,
                 counts>>

\* A second session: it needs a connection besides the one the committing
\* session still holds, and gives it back before the mounts.  On a schema that
\* lacks a column the query raises ProgrammingError and no pilot is mounted.
Read(t) ==
  /\ pc[t] = "read"
  /\ Free
  /\ todo' = [todo EXCEPT ![t] = IF migrated THEN table ELSE {}]
  /\ outage' = (outage \/ ~migrated)
  /\ Goto(t, "mount")
  /\ UNCHANGED <<table, lastId, migrated, routes, req, loaded, probed, held, crossed, past,
                 counts>>

\* Variant: a name that is mounted already is skipped.
MountOncePerName(t) ==
  /\ pc[t] = "mount"
  /\ \E row \in todo[t] :
       /\ routes' = IF Served(row.name) = NoRow THEN Append(routes, row) ELSE routes
       /\ todo' = [todo EXCEPT ![t] = @ \ {row}]
  /\ UNCHANGED <<table, lastId, migrated, pc, req, loaded, probed, held, ghosts, counts>>

\* One app per row, in whatever order the query returned them.
Mount(t) ==
  /\ pc[t] = "mount"
  /\ \E row \in todo[t] :
       /\ routes' = Append(routes, row)
       /\ todo' = [todo EXCEPT ![t] = @ \ {row}]
  /\ UNCHANGED <<table, lastId, migrated, pc, req, loaded, probed, held, ghosts, counts>>

\* Variant: the session keeps its connection.
FinishHolding(t) ==
  /\ pc[t] = "mount"
  /\ todo[t] = {}
  /\ Goto(t, "idle")
  /\ UNCHANGED <<table, lastId, migrated, routes, locals, held, ghosts, counts>>

\* commit() returns: the committing session gives its connection back.
\* cache_pilot and delete_pilot reply at once.
Finish(t) ==
  /\ pc[t] = "mount"
  /\ todo[t] = {}
  /\ IF t = Main
     THEN Goto(t, "idle") /\ UNCHANGED <<locals, held>>
     ELSE IF req[t].op \in {"create", "update"}
     THEN Goto(t, "refresh") /\ held' = held \ {t} /\ UNCHANGED locals
     ELSE Leave(t)
  /\ UNCHANGED <<table, lastId, migrated, routes, ghosts, counts>>

\* get_pilot_schema reads the expired attributes again: a SELECT by id, which
\* raises ObjectDeletedError when the row is gone.  Either way the handler ends.
Refresh(w) ==
  /\ pc[w] = "refresh"
  /\ Free
  /\ Leave(w)
  /\ UNCHANGED <<table, lastId, migrated, routes, ghosts, counts>>

\* A rebuild raises.  In a worker the error passes through commit(), after the
\* commit; in Main the import fails and the container starts again.
Raise(t) ==
  /\ outage' = TRUE
  /\ IF t = Main
     THEN /\ Goto(Main, "clear")
          /\ routes' = <<>>
          /\ UNCHANGED <<locals, held>>
     ELSE /\ Leave(t)
          /\ UNCHANGED routes
  /\ UNCHANGED <<table, lastId, migrated, crossed, past, writes>>

\* Variant: the pool waits for ever.
NoTimeout(t) == FALSE /\ t = Main

\* The pool has no connection to give within pool_timeout.
PoolTimeout(t) ==
  /\ ~Free
  /\ \/ pc[t] = "read" /\ Raise(t) /\ UNCHANGED faults
     \/ /\ pc[t] \in {"query", "refresh"}
        /\ Leave(t)
        /\ UNCHANGED <<table, lastId, migrated, routes, ghosts, counts>>

\* Any other error of the rebuild's query than ProgrammingError.
ReadFails(t) ==
  /\ pc[t] = "read"
  /\ Free
  /\ faults < MaxFaults
  /\ faults' = faults + 1
  /\ Raise(t)

-----------------------------------------------------------------------------
(* The environment                                                         *)

\* The process dies and the container starts it again: only the database stays.
Restart ==
  /\ faults < MaxFaults
  /\ faults' = faults + 1
  /\ routes' = Fresh.routes /\ pc' = Fresh.pc /\ req' = Fresh.req /\ loaded' = Fresh.loaded
  /\ probed' = Fresh.probed /\ todo' = Fresh.todo /\ held' = Fresh.held
  /\ UNCHANGED <<table, lastId, migrated, ghosts, writes>>

\* `alembic upgrade head`, run by hand beside the process.
Migrate ==
  /\ ~migrated
  /\ migrated' = TRUE
  /\ UNCHANGED <<table, lastId, routes, pc, locals, held, ghosts, counts>>

-----------------------------------------------------------------------------
Rebuild(t) ==
  \/ Clear(t) \/ Include(t) \/ Read(t) \/ Mount(t) \/ Finish(t)
  \/ PoolTimeout(t)

Handle(w) ==
  \/ Query(w) \/ Commit(w) \/ CommitFails(w) \/ Refresh(w)

Next ==
  \/ \E w \in Workers : \E r \in Request : Accept(w, r)
  \/ \E w \in Workers : Handle(w) \/ Probe(w) \/ ProbeFails(w)
  \/ \E t \in Threads : Rebuild(t) \/ ReadFails(t)
  \/ Restart
  \/ Migrate

\* A thread that can run does run, and the database answers it or breaks off; no
\* endpoint owes an answer to Probe, and nobody a request, a fault or a migration.
Fairness ==
  /\ \A w \in Workers : WF_vars(Handle(w))
  /\ \A t \in Threads : WF_vars(Rebuild(t))

Spec     == Init /\ [][Next]_vars
FairSpec == Spec /\ Fairness

-----------------------------------------------------------------------------
(* Properties                                                              *)

Rebuilding(t) == pc[t] \in {"clear", "include", "read", "mount"}

\* No rebuild is under way.
AtRest == \A t \in Threads : ~Rebuilding(t)

Mounts == {i \in DOMAIN routes : routes[i] # Admin}

\* The route table says what the pilots table says: one mount per row, of the
\* row as it is now.
Mirrors ==
  /\ {routes[i] : i \in Mounts} = table
  /\ \A i, j \in Mounts : routes[i] = routes[j] => i = j

\* However the rebuilds of several commits interleave, when the last one ends
\* every pilot is mounted as its row is now, unless a rebuild stopped short: the
\* last thread to clear the list reads the table after every commit.  (Mounts
\* of older versions may remain beside it, see Mirrors.)
NoLostPilot == AtRest /\ ~outage => \A r \in table : Mounted(r)

\* Older mounts come of one thing only: a list cleared while another thread was
\* filling it (main.py:19).  However many requests commit, and in whatever order
\* their rebuilds run, when the last ends on a list that nobody else was filling
\* when it was cleared, the routes mirror the table.
StaleOnlyIfCrossed == AtRest /\ ~outage /\ ~crossed => Mirrors

\* When no rebuild is under way the admin endpoints are mounted, even after
\* rebuilds that interleaved or raised: the registry can always be repaired
\* by one more write.
AdminReachable == AtRest => Mounted(Admin)

\* With one request at a time the routes mirror the table after each rebuild.
RoutesMirrorTable == AtRest /\ ~outage => Mirrors

Atomic == INSTANCE AtomicRegistry WITH
            rows     <- table,
            served   <- IF AtRest THEN {routes[i] : i \in Mounts} ELSE table,
            degraded <- AtRest /\ outage

\* With one request at a time, writes take effect on the routes as if table and
\* routes were changed together: see AtomicRegistry.
WritesAreAtomic == Atomic!Spec

\* A cached code is computed from data its own row had at some time: cache_pilot
\* probes for long, and the pilot may meanwhile be deleted and another created
\* under its name.
NoForeignCode == \A r \in table : r.code # NoCode => <<r.id, r.code>> \in past

\* A session holds its connection from its first SELECT to the end of commit(),
\* on every path; a leak would drain the pool.
ConnectionsReturned ==
  held = {w \in Workers : pc[w] \in {"probe", "commit"} \/ Rebuilding(w)}

\* The import of main.py leaves the routes the mirror of the table, whatever an
\* earlier process was doing when it died.
BootMirrors == [][pc[Main] = "mount" /\ pc'[Main] = "idle" /\ ~outage => Mirrors']_vars

\* Every accepted request is answered, or waits for the SPARQL endpoint: threads
\* that each hold a connection and wait for a second one are freed by the pool's
\* timeout, also when one that waits for its endpoint keeps a connection for good.
RequestsEnd ==
  \A w \in Workers : pc[w] \notin {"idle", "probe"} ~> pc[w] \in {"idle", "probe"}

\* Once the writes have stopped, a pilot that is in the table is served, for
\* good, unless the last rebuild stopped short.
EventuallyServed ==
  \A n \in Names :
    <>[](\E r \in table : r.name = n) => <>[](outage \/ Served(n) # NoRow)
=============================================================================
