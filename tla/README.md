# A verification project for the STA generation service

The repository holds two services and the tooling around them. The first, under
`src/sta`, publishes RDF data as an OGC SensorThings API: each *pilot* is a row
of a table that names a SPARQL endpoint and some graphs, and gets an API of its
own, mounted into one FastAPI process. The second, under `src/main` and
`src/common`, is a Django project reduced to its shared parts: token
authentication, a memcached client and a command for search indexes. Beside
them are two Python packages (`src/modules`), container scripts (`docker`) and
deployment files.

This directory models that code in TLA+, checks the models with TLC on small
instances and proves their main invariants with TLAPS for every value of the
constants. Paths below are relative to the root of the repository.

    tlc -workers 2 -config MCPilotRegistry_writes.cfg MCPilotRegistry
    tlapm PilotRegistry_proofs.tla

## 1. The parts of the system

| Part | State it keeps | Operations | What is hard about it |
|---|---|---|---|
| **Pilot registry**: `src/sta/src/main.py`, `routers/pilots.py`, `models.py`, `database.py` | the `pilots` table; the process's list of routes; per request a session and a connection | create, update (or create), cache, delete; rebuild of the routes after each commit and at import | requests in threads; a rebuild that clears and refills a live list with no lock; two connections per writer; crashes and errors between the commit and the rebuild |
| **Query dispatch**: `sparql/base_query_handler.py`, `query_handlers.py`, `routers/general_router.py` | per request: the variant asked, rows and counts so far | item and list GETs | several calls to an endpoint that may fail or change; a cached code that may be stale; two loops that swallow errors and one that does not |
| **Query files**: `docker/sta/resources` | per operation the variants' codes, the important bits, the count files | read once at import | codes that collide on the important bits, variants that share one count |
| **Cached properties**: `sparql/cached_properties_handler.py` | the code under computation | the ASK queries of one `POST /pilots/cache/{name}` | up to eight queries, each sent for one graph after another, on data that changes |
| **Shared graphs list**: `query_handlers.py:99` | `pilot.graphs` of a mounted pilot | extended in place by every Datastreams request, read graph by graph by all | one list for all threads and requests, until the next rebuild |
| **Token authentication**: `src/common/auth` | keys in a cache; a token in a signed cookie | token check, key discovery, cookiefy, log out | entries that expire or are overwritten between a write and a read; a provider that changes its keys |
| **Index command**: `src/common/management/commands/_private.py` | the index of a search engine | create, delete, rebuild, populate, single, status | a check in one call and its consequence in another; a failure between two of them |
| **Varnish supervisor**: `docker/varnish/handler.py` | the child process, two flags | start, wait; SIGHUP, SIGTERM, SIGINT | signals between any two lines |
| **Service arguments**: `src/modules/service-arguments` | memoised results of a service's arguments; the written files | declaration, resolution through providers, waiting for a port, initializers, templates | references, a memo, a deadline, a start that fails midway |
| **HTTP test driver**: `src/modules/pytest-http` | the driver's configuration, the last response | requests; `switch_config` | blocks inside blocks, and blocks that raise |
| **Django project**: `src/main`, `src/swagger` | none of its own | settings and URL tables | the settings are resolved like a service's arguments, and may wait for the database |
| **Memcached client**: `src/common/cache` | a client per thread | a thin layer over a library | |
| **Containers, deployment, audits** | none | scripts and declarative files | a rolling update runs two STA processes on one table |

How they interact: an admin request changes the table; its commit rebuilds the
routes in the same thread; the event loop matches every later request against
those routes and hands it, with the row that was mounted, to query dispatch;
dispatch reads the row's endpoint, graphs and cached code and calls the
endpoint; `POST /pilots/cache/{name}` asks that endpoint which properties its
data has and stores the code in the row, where the next rebuild picks it up.

The other programs meet these two through the machine: service-arguments runs
before every container's server and writes its files; the Django project
resolves its settings by the same package and checks tokens with the key store;
the supervisor keeps varnish alive in front; the driver and the index command
are tools of developers.

What makes each part correct is listed with its module below, and for the parts
not modelled in section 7. `PROJECT.json` lists, line by line,
what can go wrong in this code and which property would show it.

## 2. Modules

| Module | What it holds |
|---|---|
| `PilotRegistry` | the table, the admin handlers, the rebuild, the pool, errors, restarts, a migration |
| `AtomicRegistry` | the abstract registry: a write changes table and routes in one step |
| `PilotRegistry_proofs`, `MCPilotRegistry` | its theorems; symmetry for its four configurations |
| `QueryDispatch` | `get_response` and what it calls, one step per call of the endpoint |
| `CodeTables` | codes, bits and counts of the files under `docker/sta/resources` |
| `QueryDispatch_proofs`, `MCQueryDispatch` | its theorems; operations, data sets, pages and codes |
| `CachedProperties` | the ASK queries of `get_integer_code`, and what their code hints at |
| `CachedProperties_proofs`, `MCCachedProperties` | its theorems; contents and tables |
| `SharedGraphs` | the list of graphs that requests share, and a client that follows nextLinks |
| `SharedGraphs_proofs`, `MCSharedGraphs` | its theorems; lists and items |
| `TokenAuth` | bearer tokens, the key store, discovery, the cookie |
| `TokenAuth_proofs`, `MCTokenAuth` | its theorems; keys, answers and tokens |
| `ArgumentTypes` | what a declaration of an argument means, and what a text means for it |
| `ServiceArguments` | a start: resolution, waits, initializers, templates |
| `ServiceArguments_proofs`, `MCServiceArguments` | its theorems; services and environments |
| `HttpDriver` | the test driver |
| `IndexCommand`, `IndexCommand_proofs` | the index command, several at once; its theorems |
| `VarnishSupervisor` | `handler.py` under signals |
| `MCTools`, `Tools_proofs` | the three programs before, each in behaviours of its own; theorems of the driver and the supervisor |

### PilotRegistry

`table` is the set of committed rows, `routes` is `app.routes` (the admin router
and one entry per mounted pilot, in matching order), and `pc`, `req`, `loaded`,
`probed`, `todo`, `held` are the threads: where each is, the request it serves,
the row its session loaded *as it was then*, the code it computed, the rows its
rebuild still has to mount, and whether it holds a connection.

A request is `Accept`, `Query` (the SELECT and the early returns), `Probe` for
`cache_pilot`, then `Commit` or `CommitFails`. `Commit` runs the session's flush
as SQLAlchemy does: an UPDATE names only the columns the session saw change
(`Edited`), no change is no UPDATE (`Untouched`), an UPDATE of a row that is gone
raises (`RowLost`), a DELETE of one does not, and the unique index on `name` is
tested on the result (`NameTaken`). After the commit, and before the session
gives its connection back, the same thread runs `generate_pilot_apps`: `Clear`,
`Include` of the admin router, `Read` of all rows through a second connection,
one `Mount` per row, `Finish`. `create_pilot` and `update_pilot` then read the
row once more (`Refresh`). `PoolTimeout`, `ReadFails` and `ProbeFails` are the
error exits; `Raise` is what an error in a rebuild does: in a request it passes
through `commit()`, after the commit; in the import the process starts again.
`Restart` keeps only the database. `Migrate` is `alembic upgrade head`, run by
hand beside a process that may have started on the old schema.

Steps are as fine as the interleavings that can be told apart: each touch of the
shared list is one, each transaction's SELECT and each COMMIT is one. Left out:
the two GET handlers (they change nothing), the replies' text, the documentation
routes that `app.setup()` adds before the admin router.

`crossed` and `outage` are ghosts, set by the latest `Clear`, or after it: another
thread was filling the list (`Filling`: it has cleared it and is not done), and a
rebuild stopped short. `past` is a third: what each row, by its id, ever held.

Correctness: when every rebuild is over the admin endpoints are mounted, and every
row, as it is now, and nothing older unless the rebuilds crossed; a cached code
belongs to its row; sessions give their connections back; an import repairs
whatever a crash left; every request ends, or waits for its SPARQL endpoint; a
pilot that stays is served in the end. That names stay apart is the unique index's
doing alone (it is the guard of `Commit`), and that a cache run takes back no PUT is
the flush's; both are in the actions, and no property repeats them.

### QueryDispatch

A request is an operation (a row of `CodeTables`), its kind, its `$top`/`$skip`
and `$filter`, and the `cached_properties` of the mounted pilot. `Matching` and
`Hint` are the comparison of codes on the important bits. `HintWhere` and
`HintCount` are the two calls for the hinted variant, inside the `try` whose
`except HTTPException: pass` is `Fallback`; `TryWhere` and `TryCount` are the
calls of the three loops: items, lists whose variants share a count, lists with a
count per variant. `CallFails` is an error of any call, with what each place does
about it; `CountRejected` is the count of a filtered list, which is a WHERE text
sent with its placeholders in; `Update` is other people's writes to the endpoint
between two calls.

The data is abstract: for each variant its count, the positions (in the
endpoint's order) of what it shows, and whether a row lacks a key that
`transform_binding` takes. `LIMIT`/`OFFSET` sit in a sub-select of the query
files, with joins around it, so a position may show nothing and a page may be
short or empty.

Correctness: a cached code is only a hint, however stale; a 404 is only given
for what is not there, as far as the code promises it; a request ends.

### CodeTables

One record per directory of `resources/` that has an operation: number of
variants, their `$CODE_n$` in file order, the positions of `bits.txt`, whether
there is one count file for several WHERE files. Reading the files shows what
the checks must cope with: in `Locations_HistoricalLocations_list` and
`HistoricalLocations_Locations_list` the codes 18 and 2 agree on the important
bits, in `FeaturesOfInterest_Observations_list` 32 and 0 do, and
`Locations_Things_list` has 100 twice. Where codes collide the later variant is
never hinted at; it is reached by the loop. `asks` is the code that the triples
of a file amount to, which in four files is not the one on their last line.

### CachedProperties

`data` gives each graph its facts, one per ASK query. `Ask` is one query for one
graph, `NoneHasIt` the `return False` after the last graph, and both are part of
`Answer`, which sets the bit and chooses the next query: without a collection the
four properties in its loop are skipped, `hasFeatureOfInterest` is not. `AskFails`
is `handle_sparql_exception`. `Update` changes any of the graphs between two
queries. `always` and `ever` are ghosts: the facts a graph had all along, and at
some time. What happens to the code afterwards, the commit of `cache_pilot`, is in
`PilotRegistry`, where the whole computation is the one step `Probe`; the two are
not composed, since the code reads nothing of the registry while it asks.

Correctness: each bit was true of some graph at some time and no fact that held
throughout is missed; the computation ends; on data that holds still the code
hints at a file written for just that data. More cannot be asked of queries
without a transaction: the code may be that of no state the data was ever in, and
a fact that is moved from a graph not yet asked to one already asked is missed.

### AtomicRegistry

What those who use the registry may rely on, as a specification of its own:
`rows`, `served` and `degraded`, with writes that change the first two at once,
and faults that may cut `served` short until the next write or restart, but never
put anything in it that is not in `rows`. `PilotRegistry` implements it
(`WritesAreAtomic == Atomic!Spec`) under the mapping that shows `table` as `rows`
and, while a rebuild is under way, as `served`, too: with one request at a time
nobody who waits for the reply sees the difference. With two the implementation
is false, and section 6 says what is left instead.

### SharedGraphs

`heap` holds the list of every mount there has been, the last one being mounted;
`pc`, `kind`, `mount`, `from`, `rows`, `total` are the threads: the request, whose
list it shares, which graphs its query texts name so far, and what was returned.
`Extend` is `DatastreamsHandler.__init__` (`self.graphs += ...`: in place, atomic
under the GIL), `Name` is one turn of `_add_graphs_to_query` over the list as it
is at that moment, `Named` the end of that loop, which by then may be longer. The
page is cut by the inner query (its graphs named second) and shown by the outer
one. `Rebuild` mounts a new list; requests under way keep the old one. `client`
follows nextLinks from some `$skip` on; each of its requests is hinted (count
last) or not (count first).

Correctness: whatever is appended while a query is written, it names the pilot's
own graphs, and both vocabularies or neither; both, where units are read; page and
count are of one list; a traversal sees each item once, in order. The extension is
only harmless because the vocabularies come together, behind the own graphs, and
hold no items: `ExtendEach`, its mutant, shows it.

### TokenAuth

`cache` is the key store (`kid:<provider>:<kid>`, hence one entry per key id),
`published` the provider's list, `jar` the token in the signed cookie. `Start`
adds the static keys in the order of the imports. A request takes its token from
header, cookie or body (`Getters`, `Receive`), then `Look`, `Discover` or
`DiscoveryFails`, one `Add` per key of the answer, `LookAgain`, `Decode`. `Expire`
and `Evict` drop entries, `Rotate` lets the provider publish another list.
`vouched` and `excused` are ghosts: all keys that were ever static or published,
and the threads to whose request something happened (a failed discovery, a
rotation, the loss of the entry).

Correctness: claims are taken only under a key that the token's issuer vouched
for under that key id; a key is called unknown only if it is, or the thread is
excused; the cookie holds what was checked; every request ends.

### ArgumentTypes and ServiceArguments

`ArgumentTypes` are pure operators: `Normalize` (what `X = 5`, `[int]`,
`('a', 1)`, a class or a scheme in a `Group` mean, and what is refused), `Parse`
(texts of the environment, by type) and `OwnDefault`. A text is a sequence of
parts, each a sequence of words: what `split(',')` and `split(':')` give.

`ServiceArguments` is a start of a container, or the import of Django's settings,
as a machine: `Declare` all services; resolve each argument (`FromText`,
`FromDefault`, with references on `stack`), keeping it in `memo`; `Try` for a host
whose port is awaited; `Initialize`, which may change the environment; `Render`,
template by template, in place. Any exception ends the process there (`Fail`,
`RenderFails`), and `Start` begins again in another environment, with the files
left as they are.

Correctness: what is kept is what a reference definition, `Worth`, says without
any steps; it has the declared type; nobody who set a wait goes on without a
connection; a start that ends well leaves only files of its own; every start
ends, references in a circle included.

### HttpDriver

`config` and the stack of `blocks` opened by `switch_config` and the methods that
use it; `Raise`, `LeaveRaising` and `Catch` are an exception on its way out
through the blocks, which do not restore what they switched (`base.py:372-377` has
no `finally`); `astray` names those settings. `Send` builds URL and headers,
refuses what the code refuses (before or after it forgets the last response),
gets an answer or none, and verifies its status. Correctness: a setting has the
value the open blocks say, unless it is astray; a referrer that nobody gave is
the URL of the request just before, and only if that was answered. Given is a
`Referer` among a call's headers, or among the configured ones (`OwnReferer`),
which `get_headers` puts into each request (`base.py:308`).

### IndexCommand

`index` is the one index, `step` and `todo` where each command is. `rebuild` is
delete, create, populate, each with its own checks; each call of the engine is a
step, and another command may run between any two. Correctness: a command removes
an index only if forced, or once per "yes" of its user; one that ends without an
error, not quiet and not refused, has filled the index to the last record.

### VarnishSupervisor

Every statement of the loop is a step, with either handler between any two;
`child` holds all children so far. Correctness: each restart goes back to a SIGHUP
of its own; a stop that comes while the supervisor waits ends both, also during a
restart; a SIGHUP that comes while it waits starts a new service. A stop that
comes elsewhere may be lost or raise: see section 6.

## 3. Runs

| Run | Configuration | Distinct states | What it asks |
|---|---|---|---|
| `registry_writes` | `MCPilotRegistry_writes.cfg` | 3.8 million | two threads, three requests, two names and data values, all interleavings: `TypeOK`, `NoLostPilot`, `StaleOnlyIfCrossed`, `NoForeignCode` |
| `registry_recovery` | `MCPilotRegistry_recovery.cfg` | 205 thousand | fair threads, a pool no larger than they are, two faults (database, SPARQL, restart): `AdminReachable`, `ConnectionsReturned`, `BootMirrors`, `RequestsEnd`, `EventuallyServed` |
| `registry_serial` | `MCPilotRegistry_serial.cfg` | 49 thousand | one thread, four requests, one fault: `WritesAreAtomic`, that is, `AtomicRegistry` is implemented |
| `registry_stale_mount` | `MCPilotRegistry_stale.cfg` | violation | two threads: `RoutesMirrorTable` fails, see section 6 |
| `dispatch` | `MCQueryDispatch_all.cfg` | 828 thousand | three small shapes of operation on all combinations of results, and the operations of `resources/`, with a failed call and a change of the data anywhere: `TypeOK`, `StaleCodeHidesNothing`, `CodeIsOnlyAHint`, `NotFoundIsTrue`, `EveryRequestEnds` |
| `cached_codes` | `MCCachedProperties_all.cfg` | 563 thousand | all contents of two graphs, two changes among five of them, one failed query: `TypeOK`, `CodeIsWitnessed`, `HintIsRight`, `ComputationEnds` |
| `cached_labels` | `MCCachedProperties_labels.cfg` | violation | all the code tables: `HintIsRight` fails, see section 6 |
| `graphs_paging` | `MCSharedGraphs_paging.cfg` | 519 thousand | two threads, three items in two graphs, a client, a request of others, a rebuild: `NamesOwnGraphs`, `PageFitsCount`, `TraversalComplete` |
| `token_keys` | `MCTokenAuth_keys.cfg` | 298 thousand | two threads, two key ids and keys, two answers of the provider, two changes, one loss: `TypeOK`, `CookieWasChecked`, `ClaimsAreVouched`, `UnknownIsTrue`, `RequestsEnd` |
| `token_static` | `MCTokenAuth_static.cfg` | violation | a key of the provider is static, too: `StaticForever` fails, see section 6 |
| `argument_starts` | `MCServiceArguments_starts.cfg` | 47 thousand | eight setups, six environments, two starts: `MatchesReference`, `GivenHasType`, `EndedIsCurrent`, `WaitedForHost`, `StartEnds` |
| `tools` | `MCTools_work.cfg` | 626 thousand | driver: `BlocksInForce`, `RefererOfLatest`; commands: `DeletedOnRequest`, `EndedIsDone`; supervisor: `RestartsAreAsked`, `StopEnds`, `ReloadStarts` |

Each property of a passing run has a mutant in `PROJECT.json`: a plausible slip
in one of the definitions (a row found by name instead of id, a rebuild under way
taken to do for a later commit, an error taken for an empty variant, a flag not reset, ...) under which the
run finds the property violated. The variants stand in the modules, above the
definition they alter.

Bounds, and why they are enough:

- *Registry: two threads.* The hazards of the rebuild are between one thread's
  clear, read and mounts and another's; three writers add no new pair. The proofs
  are for any number.
- *Three (serial: four) requests, two names, two data values.* A name can be
  freed and taken again while a third request still holds the old row; a rename
  can meet a create; a cached code can be right, stale, or another row's.
- *Pool of three, and of two.* In the first each of two threads has both its
  connections; in the second two writers each hold one and wait for another, the
  case that only `pool_timeout` ends.
- *One to two faults.* A fault during the recovery from a fault is included.
- *Dispatch: variants.* Three per operation give a hint before, at and after the
  right one; the operations of `resources/` have their real numbers, up to 32.
- *Pages.* Two positions, `$top` 1 or 2, `$skip` 0 or 1: a first page with a
  `nextLink`, a last one, and one that is empty because its position shows
  nothing.
- *Codes: two graphs, two changes.* A fact can move from one graph to the other
  and back, before, between and after the queries for it. The five contents of
  the changes have no collection, a bare one, one with a property of its loop, a
  result alone, and a property outside the loop beside both.
- *Paging: three items, one per page, from `$skip` 0 or 2.* Three pages, one of
  them the last from the start; one item is in both graphs, since a WHERE over
  several FROMs is over their union. One request of others is enough to extend
  the list between any two graphs of a query; the client, when it asks for
  Datastreams, extends it again. One rebuild may bring the same list or another.
- *Tokens.* One key id is static and the provider's, too; one answer has a key of
  no use before one that replaces the other's. Tokens: right, signed by one
  issuer's key in another's name, unsound, and without a key id.
- *Arguments.* One of each type; references, in a chain and in a circle; a shared
  target; a name given twice; a class that is none; a wait set, not set, with a
  default as text, with no such host. `Patience` 2 lets a port open between two
  tries, `MaxFlips` 3 lets it open, close and open again.
- *Tools.* Two blocks inside each other, of the same setting or not, one
  exception of the test's own, and three requests: one that is answered, one that
  fails, and one that refers, to which the first response must be unknown (the
  mutant `SendInVainKeeping` does not forget it). Requests are refused early for
  want of a domain and by the Django driver, late for a second body; a refusal of
  `HTTP_...` arguments does what the early ones do. Two commands,
  one failed call; three signals and two crashes: a stop during a restart, a
  SIGHUP during a stop, and one more.

`MaxWrites`, `MaxFaults`, `MaxFailures`, `MaxUpdates`, `MaxRequests`,
`MaxRebuilds`, `MaxChanges`, `MaxLosses`, `MaxStarts`, `MaxFlips`, `MaxSent`,
`MaxRaises`, `MaxErrors`, `MaxSignals`, `MaxEnds` and the sizes of the sets are
the only bounds, and all are constants. (`MaxDepth` and `Patience` are the code's:
the interpreter's recursion limit and the tries until a timeout; the driver's
`MaxDepth` bounds the test.)

`CHECK_DEADLOCK FALSE` stands in every configuration: when the requests of the
bound are used up the registry is idle, a dispatch run ends with its one reply, a
start with its exit. Waiting for ever, which the deadlock check would find, is
what the liveness properties exclude.

The type invariants of `SharedGraphs`, `ServiceArguments`, `HttpDriver`,
`IndexCommand` and `VarnishSupervisor` stand in these modules as their
documentation; no run lists them, since they say nothing of the code.

Symmetry is used for threads, names and data in the runs of the registry that
check safety only; no definition of `PilotRegistry` depends on which of them is which,
`CHOOSE` being applied only to rows of a given name, of which there is at most
one by the unique index (`NameTaken`), and to the least index. The runs with liveness use none.

## 4. Fairness

`PilotRegistry`: weak fairness of each worker's own steps but `Probe`, and of each
thread's rebuild. They are plain code in operating-system threads, one that can run
does, and queries of the database, which is assumed to answer or to break off.
`Probe` stands for the queries of the SPARQL endpoint, made without a timeout
(`cached_properties_handler.py:14-18`): it may never happen, and `RequestsEnd` says
of a request only that it ends or waits for its endpoint, a connection in its hand
that the others must do without. A thread waiting for the pool is never stuck, since `pool_timeout`
(SQLAlchemy's default, `database.py` sets none) raises; that step is part of
`Rebuild`, and the mutant that removes it breaks `RequestsEnd`. Nothing
else is assumed of the environment: no request must arrive, no fault must happen or
stop happening beyond its bound, and the migration may never be run, so
`EventuallyServed` says "or a rebuild stopped short".

`QueryDispatch`: weak fairness of the handler's steps, each one an answered call.
It stands for an endpoint that answers or breaks off: the `SPARQLStore` is made
without a timeout, so against one that does neither the code waits for ever and
nothing is claimed. `CachedProperties` assumes the same of its queries.

`TokenAuth`: weak fairness of each thread's steps; a discovery is an HTTP request
with a timeout (`AUTH_REQUESTS_TIMEOUT`), so it is answered or fails.

`ServiceArguments`: weak fairness of the process's own steps, sequential code. No
port must ever open: a wait ends by its deadline.

`VarnishSupervisor`: weak fairness of the loop, and of a child that was told to
end: it ends. A child that ignores SIGTERM keeps `wait` waiting, and the code sets
no deadline for it, so nothing is claimed of one. No signal must come.

The other modules state no liveness and no fairness: their programs are
sequences of calls that return or raise.

## 5. Proofs

Every theorem holds for any number of threads, names, connections, variants,
codes, pages, services, blocks, and for unbounded `MaxWrites` or `MaxFaults` (any
natural number). The assumptions on the constants (`ConstantsAssumption`,
`TablesAssumption`, `DataAssumption`) say that Python's `None` and the admin entry
are not rows, that the importing thread is not a worker, and of what type the
tables and data are; TLC evaluates them in every run, those of the tools as
`ToolsAssumption` of `MCTools`. Three theorems have a hypothesis beside these:
`SerialRoutesMirror` and `SerialWritesAreAtomic` assume a `SoleWorker`, and
`HintsAreRight` that the files are `Labelled` with what they ask for. Without them
they are false, as `registry_stale_mount` and `cached_labels` show.

Three models follow sequences of any length with a recursive function: what the
union of some graphs lists (`Among`), what a reference is worth (`Through`), what
the open blocks make of a setting (`InForce`). Such a function is an equation
whose solution has to exist before anything follows from it. The proofs get there
by well-founded induction on a set of numbers (`Smallest`, `AllNumbers`): the
numbers up to which the equation has a solution, or up to which a claim holds,
are a set, and one that is not all of them misses a smallest.

`PilotRegistry_proofs`:

| Theorem | Property | Strengthening |
|---|---|---|
| `TypeCorrect` | `TypeOK` | `Sessions`: a thread between SELECT and commit has a request, and a loaded row that fits it. Without it `Commit` could read fields of `None`. |
| `NoPilotIsLost` | `NoLostPilot` | `Delivered`, see below |
| `UncrossedRebuildsMirror` | `StaleOnlyIfCrossed` | `Uncrossed`, see below |
| `AdminStaysReachable` | `AdminReachable` | `AdminDelivered` |
| `ConnectionsAreReturned` | `ConnectionsReturned` | inductive with the types |
| `CodeIsNeverForeign` | `NoForeignCode` | `Provenance`: what a session loaded, and what it probed, its row did have |
| `ImportMirrors` | `BootMirrors` | `Importing`: while `main.py` is imported no request runs, and the routes are as far as an undisturbed rebuild has come (`Filled`) |
| `SerialRoutesMirror` | `RoutesMirrorTable` of `registry_stale_mount` | `Undisturbed`: the same of a sole worker's rebuilds, and what one leaves behind stays until the next |
| `SerialWritesAreAtomic` | `WritesAreAtomic` | `Undisturbed` and `DistinctRows` |

The argument for `NoPilotIsLost` is the one a reviewer of `main.py` would want.
A rebuild can be ruined by another that clears the list after it has mounted
something. `Delivered` says: each row is mounted, or some thread that is still
rebuilding will mount it: it is about to clear or include, or about to read, or
has the row, as it is now, on its list. A commit puts its own thread at "clear",
so whatever it changed is covered; a clear covers everything, since the thread
that clears reads afterwards; a mount moves a row from a list into the routes;
and the last thread to finish has nothing left to do. It follows that no order
of overlapping rebuilds loses a pilot, although no lock orders them. A rebuild
that raises, or finds the schema too old, is the exception, and the ghost
`outage` records it.

`UncrossedRebuildsMirror` says when the routes hold nothing else. `Uncrossed`: while
`crossed` is false at most one thread is filling the list, and unless another is
about to clear it, what that thread has mounted and has still to mount is the table
(`Filled`), and when none is filling it the routes are. A commit may well come
between another thread's read and its mounts; it leaves its own thread at "clear",
which owes everything anew. So it takes a clear within another's filling, and no
other order of commits, reads, errors and restarts, to leave an older mount; a later
rebuild that crosses nobody removes it.

With one request at a time more holds: the routes *are* the table, whenever no
rebuild is under way and none stopped short, and the registry implements
`AtomicRegistry`. The refinement is proved step by step: a commit is `Write`, or
changes nothing (`CommitWrites`); of the other steps, which leave the table alone,
one that ends where a rebuild stopped short is `Fault`, and any other `Repair` or a
stutter (`OtherStepsRepair`): a rebuild's own steps are hidden by the mapping, and
`Filled` says what they add up to.
`SoleWorker` is this "at a time": `\A u, v \in Workers : u = v`.

`QueryDispatch_proofs`:

| Theorem | Property | Strengthening |
|---|---|---|
| `TypeCorrect` | `TypeOK` | none |
| `ItemsAreFound` | `StaleCodeHidesNothing` | `ItemLoop`: the variants the loop has passed do not have the item |
| `MissingListsAreMissing` | `NotFoundIsTrue` | `CountLoop`: those it has passed count 0, the one it asks counts more |
| `CodesChangeNothing` | `CodeIsOnlyAHint` | `HintLoop`: those it has passed show nothing, and what was found and counted is the present variant's |

`CachedProperties_proofs`:

| Theorem | Property | Strengthening |
|---|---|---|
| `TypeCorrect` | `TypeOK` | none |
| `CodesAreWitnessed` | `CodeIsWitnessed` | `Witnesses`: what a graph had throughout it has now, and what it has now it had at some time. `Answered`: for the queries before the present one the property holds already, and the graphs that the present one has passed did not have its fact throughout. |
| `StillCodesAreExact` | | `Still`: before the first change the three are one; the two bounds of `CodeIsWitnessed` then leave one code |
| `HintsAreRight` | `HintIsRight` | for any operations whose files are `Labelled`; `LabelsAssumption` of `MCCachedProperties` checks that this is so of all coded operations but the four of section 6 |

`TokenAuth_proofs`:

| Theorem | Property | Strengthening |
|---|---|---|
| `TypeCorrect` | `TypeOK` | `Waits`: only a thread with a provider discovers, and an idle one holds nothing |
| `CookiesWereChecked` | `CookieWasChecked` | `Kept`, see below |
| `ClaimsStayVouched` | `ClaimsAreVouched` | `Kept` |
| `UnknownKeysAreUnknown` | `UnknownIsTrue` | `Learns`: a key id that the provider lists all along is, for a thread that discovers it, in the store or among what it has still to add; once it has added all, in the store |

`Kept` says that everything on its way to a decision was vouched for under its key
id: each entry of the cache, the entry a thread found, each usable key it has
still to add, the provider's present list and the static keys. An `Add` then moves
a vouched key into the cache, a `Look` a vouched entry into a thread's hands; loss
and rotation take nothing away from `vouched`; and `Decode` compares the token with
what it found, so key, issuer and key id agree with something vouched.

`SharedGraphs_proofs`:

| Theorem | Property | Strengthening |
|---|---|---|
| `QueriesNameOwnGraphs` | `NamesOwnGraphs` | `Whole`: a list holds the own graphs and both vocabularies or none of them; `Reads`, see below |
| `PagesFitCounts` | `PageFitsCount` | `Served`: what a thread has of page and count is the cut, and the length, of the list that the graphs of its *mount* make, whatever was appended to that since |
| `TraversalsComplete` | `TraversalComplete` | `One`: no two requests are the client's; `Traverse`: it has seen the list's items up to its next `$skip`, and was told of the end only behind the last |

`Reads` is what makes the shared list harmless. A part of a query that is half
written is a prefix of the list, and stays one when the list grows at its end
(`Begun`); read to the end, it names all that the list holds, which `Whole` makes
right; parts that are written stay right, since being right does not depend on what
the list has become (`Written`); and a thread that needs the units is behind its
own `Extend` (`Extended`). That vocabularies hold no items (an assumption on
`items`) then gives page and count one list between them (`OwnItems`), so that
`LIMIT` and `OFFSET` cut both alike, whichever is asked first; and one page follows
on the one before (`PagesJoin`).

`ServiceArguments_proofs`:

| Theorem | Property | Strengthening |
|---|---|---|
| `TypeCorrect` | `TypeOK` of the module | `Grounded`: services are resolved one after the other, each in the environment of its turn, and only when all declarations were taken; a wait knows its host |
| `KeptIsWorth` | `MatchesReference` | `Settled`, see below |
| `KeptHasType` | `GivenHasType` | `Settled`, and that `Parse` returns what its type says (`ParseHasType`) |
| `EndedWell` | `EndedIsCurrent` | `Rendered`: the services before the one at hand are written by this start, and of this one the templates before the next |
| `HostsAnswered` | `WaitedForHost` | `Connections`: a wait that is kept as done has had its answer from the host it names |

The reference, `Worth`, follows references without steps or memory, to a depth of
all the names there are. `Settled` says that each kept value is what the argument
is worth through *no more references than values are kept*: a value that is
added refers to one that is kept, or to none, hence is worth its own after one
reference more (`OneMoreStands`). So it does not matter in which order arguments
are resolved, by whom they are asked for, nor that a memo answers for most; and a
reference in a circle is never kept. The steps of a start come in few kinds
(`Kinds`: it moves to another place in its course, asks for an argument, keeps one,
advances to the next service, ...), and each invariant is checked against these.

`IndexCommand_proofs`:

| Theorem | Property | Strengthening |
|---|---|---|
| `DeletionsAreAsked` | `DeletedOnRequest` | `Asked`: what a command has removed, or is about to, was forced or confirmed |
| `EndsAreDone` | `EndedIsDone` | `Placed`: a command that should fill the index has that part still before it, or is in it; `Filled`: once it refreshes the index, it has added the last record |

`Tools_proofs`, of the driver and the supervisor in the behaviours of `MCTools`
(`ToolsAreTheirSpecs`: each of the three programs behaves there as its own
specification says):

| Theorem | Property | Strengthening |
|---|---|---|
| `BlocksStayInForce` | `BlocksInForce` | `Restores`: a block puts back what the blocks outside it say, or its setting is astray, and no block inside it can hide that |
| `ReferersAreLatest` | `RefererOfLatest` | `Latest`: the last response is that of the latest request |
| `RestartsStayAsked` | `RestartsAreAsked` | `Paid`: each child that was started, and each that is already decided on or asked for, has a SIGHUP of its own |

The proof of `ReferersAreLatest` found a slip of the model's: a `Referer` among the
configured headers is given too, and was not counted so (`OwnReferer`); the checked
drivers had none, and one has it now.

Only model-checked: `RequestsEnd` (twice), `EventuallyServed`,
`EveryRequestEnds`, `ComputationEnds`, `StartEnds`, `StopEnds` and `ReloadStarts`,
since liveness is beyond this prover. Every other property of the passing runs is
the property of a theorem.

## 6. What the checks found

- **A stale mount survives** (`registry_stale_mount`). Thread A clears the list
  and reads the table; thread B commits an update or a delete, clears, reads;
  both then append. All rebuilds are over and the routes hold a mount of a row
  as it was before B's commit, and if it was appended first it is the one that
  is served. `main.py:74` logs "Reloading API after pilots changes" for B's
  commit; the API it leaves is not that of the changed table. Nothing repairs it
  but another commit or a restart. `NoPilotIsLost` bounds the damage, since the current
  row is always mounted too, and `UncrossedRebuildsMirror` the cause: nothing but
  a list cleared while another thread fills it leaves such a mount.
- **Four files with another file's code** (`cached_labels`).
  `Things/Locations_Things_list/where_2.rq` ends with `$CODE_100$`, as `where_1.rq`
  does, but takes the WKT geometry instead of wgs84: its triples are for code 68.
  `HistoricalLocations/Locations_HistoricalLocations_list/where_5.rq` and
  `Locations/HistoricalLocations_Locations_list/where_7.rq` say 18 and ask for
  wgs84 (34); `Observations/FeaturesOfInterest_Observations_list/where_3.rq` says
  32 and asks for `sosa:hasResult` (16). A pilot with such data gets no hint, or
  the hint at another file. The reply is right all the same, by `CodeIsOnlyAHint`,
  at the price of the calls that the code was to save. The other coded files agree
  with their triples (`cached_codes`).
- **Codes that collide** (`CodeTables`): see section 2. Harmless to the reply
  (`dispatch`), they cost the calls the code was to save.
- **Which errors are reported** (`NotFoundIsTrue` is stated for lists with counts
  only): for an item, and for the two lists whose variants share a count, an
  endpoint that is down ends in 404, since those loops swallow every exception.
  No document says otherwise.
- **Filtered counts**: with `$filter` the WHERE text serves as the count query,
  with `$GRAPHS_LIST$`, `$LIMIT_OFFSET$` and `$CODE_n$` left in. All list
  directories have the first two. The model lets the endpoint accept or reject it.
- `deploy-stateless-services.yaml` sets `WORKERS` to 4, `server.sh` does not read
  it: there is one process, which is what the registry models.
- **A static key is not for ever** (`token_static`). `auth/__init__.py:7` says of
  static keys that they are cached for ever. A discovery writes every key of the
  provider under the same names, whatever is there, with a timeout: when the
  provider publishes a key under the kid of a static one, the static one is
  replaced, and later gone, and tokens signed with it are refused until a restart.
  By `ClaimsStayVouched` nothing is ever accepted because of it.
- **The list that grows** (`SharedGraphs`): every Datastreams request makes the
  list of its mount longer by two, for all later queries, until the next commit.
  What the queries name stays right; their length is not bounded.
- **The nextLink of a composite list** (`general_router.py:128`) leads to the whole
  list of its resource, not to the next page of the item's own; nothing documents
  it, and `TraversalComplete` is about whole lists.
- **A signal at the wrong line** (`VarnishSupervisor`): before the first child is
  assigned a handler raises `AttributeError` on `None`; between the test of
  `restart` and the next `wait` a stop is told to the child that is gone, and a new
  one is started. `StopEnds` and `ReloadStarts` are therefore stated for signals
  that come while the supervisor waits, where it spends its time.
- **Slips met while reading**, none of which a run is about:
  `service-arguments/arguments/service.py:86` raises `ImproperlySpecifiedArguments`
  without importing it (a `NameError` in its place ends the process as well);
  a Group's name is cut with `rstrip('Group')`, which takes any of these letters
  off the end; `CookiesWrapper.__detitem__` (`pytest_http/drivers/base.py:38`) is
  never called by `del`; `'domain' in 'kwargs'` (`base.py:202`) looks into a text,
  so that a domain beside a root URL is dropped and not refused (`Refused`).

## 7. What is not modelled, and why

- The text of SPARQL queries and of `$filter`: it is run by the endpoint. Its
  effects, rows, counts and rejections, are data of the model. The layout of a
  reply (`transform_binding`) keeps no state and makes no choice.
- Libraries: SQLAlchemy, Starlette, the SPARQL endpoint, the search engine's
  client and PyJWT appear only as this code uses them, and are marked external or
  are part of the step that calls them.
- Two processes on one table during a rollout, and the event loop iterating the
  list while it is being cleared: planned.
- The memcached client hands its arguments to a library's, one per thread; the key
  store's cache is local memory by default, and `TokenAuth` has it as any cache
  that may lose entries.
- Of service-arguments, the Url types (which take a text apart), base64,
  postprocessors and the commands that print; of pytest-http, cookies, bodies and
  the printing of requests; of the Django project, URL tables, checks and fixtures,
  which keep no state.
- The root resource of a pilot, the generated configuration of the containers, the
  shell scripts and the deployment files.

## 8. Plan

Done: `PilotRegistry` with `AtomicRegistry`, `QueryDispatch`, `CodeTables`,
`CachedProperties`, `SharedGraphs` with its client, `TokenAuth`, `ArgumentTypes`,
`ServiceArguments`, `HttpDriver`, `IndexCommand`, `VarnishSupervisor`.

Proved: every safety property of the passing runs, and the refinement of
`AtomicRegistry` by a sole worker (section 5).

Left, in order of importance:

1. A *query contract*, where a request is answered in one step from the data, which
   `QueryDispatch` should implement on data that holds still.
2. `RouteScan`: the event loop matching a path against the list while a rebuild
   clears and fills it, and two processes on one table; composes with
   `PilotRegistry`. To check: a pilot that is never written to is answered, or 404
   only while a rebuild is under way.
3. The Url types and the memcached client.
