--------------------------- MODULE QueryDispatch ---------------------------
(***************************************************************************)
(* BaseQueryHandler.get_response: how one GET on a pilot's API is answered *)
(* from a SPARQL endpoint whose data may be modelled in several ways.      *)
(*                                                                         *)
(* An operation (a directory of resources/) has one WHERE query per way of *)
(* modelling, its variants, in file order.  Each may carry a code, the     *)
(* properties the data must have for it; cached_properties is the same bit *)
(* set as cache_pilot found it, so the variant it hints at is asked first. *)
(* When that call raises an HTTPException the hint is dropped and the      *)
(* variants are tried in order: until one answers, for an item and where   *)
(* the variants share a count; until one has a count above 0 otherwise.    *)
(*                                                                         *)
(* One step is one call of the endpoint and the code up to the next call.  *)
(* A call may fail, and the data may change between two calls.             *)
(* Abstractions: a variant's result is its count and the positions, in the *)
(* endpoint's order, of what it shows: LIMIT and OFFSET apply to a         *)
(* sub-select, so a position may show nothing.  A result is odd when a row *)
(* lacks a key that transform_binding takes (KeyError).                    *)
(***************************************************************************)
EXTENDS Integers, Sequences, FiniteSets

CONSTANTS
  Tables,      \* operations: [n, codes, bits, shared]
  Cached,      \* values of cached_properties per operation; None when never computed
  Datasets,    \* states of the endpoint per operation: [results, all], see ResultType
  Feeds,       \* bound: the states of the endpoint that others may bring about
  Pages,       \* [top, skip] of the list requests
  None,        \* Python's None
  MaxFailures, \* bound: failed calls per request
  MaxUpdates   \* bound: changes of the endpoint's data during a request

\* codes is empty or has one code per variant; shared: the variants have one
\* count query between them.
ASSUME TablesAssumption ==
  \A t \in Tables :
    /\ t.n \in Nat \ {0}
    /\ t.codes \in Seq(Nat) /\ Len(t.codes) \in {0, t.n}
    /\ t.bits \subseteq Nat
    /\ t.shared \in BOOLEAN

\* What the WHERE of a variant finds (positions) and what its own count says;
\* `all` is what a count shared by the variants says.
ResultType == [count : Nat, shown : SUBSET Nat, odd : BOOLEAN]

ASSUME DataAssumption ==
  /\ None \notin Nat
  /\ \A t \in Tables :
       /\ Cached[t] \subseteq Nat \cup {None}
       /\ \A d \in Datasets[t] :
            /\ d.all \in Nat
            /\ \A i \in 1 .. t.n : d.results[i] \in ResultType
  /\ Pages \subseteq [top : Nat, skip : Nat]
  /\ {MaxFailures, MaxUpdates} \subseteq Nat

VARIABLES
  req,      \* the request: operation, arguments and the pilot's cached code
  data,     \* the endpoint
  pc, at,   \* the call to make next, and the variant it is for
  found,    \* what the last WHERE returned
  total,    \* what the last count returned
  reply,
  failures, updates  \* the bounds' counters

vars == <<req, data, pc, at, found, total, reply, failures, updates>>

\* Item and list routes, of the resource itself or of a parent: the handler
\* only tells whether $top and $skip are there.
Kinds == {"item", "list"}

\* $filter: absent, accepted, too short to split, or naming an unknown function.
Filters == {"none", "ok", "short", "unknown"}

RequestsFor(t) ==
  [table : {t} \cap {u \in Tables : ~u.shared}, kind : {"item"}, page : {None},
   filter : {"none"}, cached : Cached[t]]
  \cup [table : {t}, kind : {"list"}, page : Pages, filter : Filters, cached : Cached[t]]

Requests == UNION {RequestsFor(t) : t \in Tables}

Variants == 1 .. req.table.n

Limited == req.kind = "list"

\* With a $filter the WHERE queries serve as counts: one each.
Shared == req.table.shared /\ req.filter = "none"

\* The count of a variant decides whether it is asked at all.
Counted == Limited /\ ~Shared

-----------------------------------------------------------------------------
(* The hint                                                                *)

Bit(code, pos) == (code \div 2^pos) % 2

\* The two codes agree on the operation's important bits.
SameBits(code) == \A pos \in req.table.bits : Bit(code, pos) = Bit(req.cached, pos)

Matching ==
  IF req.cached = None THEN {}
  ELSE {i \in DOMAIN req.table.codes : SameBits(req.table.codes[i])}

\* The first variant in file order whose code matches.
Hint(i) == i \in Matching /\ \A j \in Matching : i <= j

-----------------------------------------------------------------------------
(* Calls and replies                                                       *)

\* The positions LIMIT and OFFSET leave.
OnPage(pos) == pos > req.page.skip /\ pos <= req.page.skip + req.page.top

\* What the WHERE of variant i returns.
Found(i) ==
  [rows |-> IF Limited THEN {pos \in data.results[i].shown : OnPage(pos)}
            ELSE data.results[i].shown,
   odd  |-> data.results[i].odd]

CountOf(i) == IF Shared THEN data.all ELSE data.results[i].count

NoReply  == [status |-> 0, variant |-> 0, rows |-> {}, total |-> 0, next |-> FALSE]
Error(s) == [NoReply EXCEPT !.status = s]

Item(i, rows) ==
  [status |-> 200, variant |-> i, rows |-> rows, total |-> 0, next |-> FALSE]

\* A list carries its count, and a nextLink unless the page reaches it.
Page(i, rows, count) ==
  [status |-> 200, variant |-> i, rows |-> rows, total |-> count,
   next |-> req.page.skip + req.page.top < count]

Answer(r) == reply' = r /\ pc' = "done" /\ UNCHANGED at

\* The first call for a variant.
FirstCall == IF Counted THEN "count" ELSE "where"

\* Variant: the loop takes the hinted variant, and those before it, for tried.
FallbackAfter ==
  \/ req.filter = "short" /\ Answer(Error(500))
  \/ req.filter = "unknown" /\ Answer(Error(400))
  \/ /\ req.filter \in {"none", "ok"}
     /\ IF at < req.table.n THEN at' = at + 1 /\ pc' = FirstCall /\ UNCHANGED reply
        ELSE Answer(Error(404))

\* The loop over the variants starts.  $filter is worked into its queries: two
\* words are an IndexError, an unknown function is a 400.
Fallback ==
  \/ req.filter = "short" /\ Answer(Error(500))
  \/ req.filter = "unknown" /\ Answer(Error(400))
  \/ req.filter \in {"none", "ok"} /\ at' = 1 /\ pc' = FirstCall /\ UNCHANGED reply

\* Variant: the loop runs past its end.
ContinuePast == at' = at + 1 /\ pc' = FirstCall /\ UNCHANGED reply

\* Variant: ... or starts over.
ContinueForever ==
  \/ at < req.table.n /\ at' = at + 1 /\ pc' = FirstCall /\ UNCHANGED reply
  \/ at = req.table.n /\ at' = 1 /\ pc' = FirstCall /\ UNCHANGED reply

\* ... goes on, or falls out of its end.
Continue ==
  \/ at < req.table.n /\ at' = at + 1 /\ pc' = FirstCall /\ UNCHANGED reply
  \/ at = req.table.n /\ Answer(Error(404))

-----------------------------------------------------------------------------
Init ==
  /\ req \in Requests
  /\ data \in Datasets[req.table]
  /\ pc = "start"
  /\ at = 1
  /\ found = [rows |-> {}, odd |-> FALSE]
  /\ total = 0
  /\ reply = NoReply
  /\ failures = 0
  /\ updates = 0

\* The code of the pilot is looked up among the codes of the variants.
Start ==
  /\ pc = "start"
  /\ \/ Matching = {} /\ Fallback
     \/ /\ Matching # {}
        /\ \/ req.filter = "short" /\ Answer(Error(500))
           \/ req.filter = "unknown" /\ Fallback
           \/ /\ req.filter \in {"none", "ok"}
              /\ \E i \in DOMAIN req.table.codes : Hint(i) /\ at' = i
              /\ pc' = "hint where"
              /\ UNCHANGED reply
  /\ UNCHANGED <<req, data, found, total, failures, updates>>

\* Variant: the 404 of the hinted variant is the reply.
HintWhereFinal ==
  /\ pc = "hint where"
  /\ found' = Found(at)
  /\ \/ found'.rows = {} /\ Answer(Error(404))
     \/ /\ found'.rows # {}
        /\ \/ Limited /\ pc' = "hint count" /\ UNCHANGED <<at, reply>>
           \/ ~Limited /\ Answer(Item(at, found'.rows))
  /\ UNCHANGED <<req, data, total, failures, updates>>

\* The WHERE of the hinted variant: no rows are a 404, which only ends the hint.
HintWhere ==
  /\ pc = "hint where"
  /\ found' = Found(at)
  /\ \/ found'.rows = {} /\ Fallback
     \/ /\ found'.rows # {}
        /\ \/ Limited /\ pc' = "hint count" /\ UNCHANGED <<at, reply>>
           \/ ~Limited /\ found'.odd /\ Answer(Error(500))
           \/ ~Limited /\ ~found'.odd /\ Answer(Item(at, found'.rows))
  /\ UNCHANGED <<req, data, total, failures, updates>>

\* Then its count, which comes with the rows found before.
HintCount ==
  /\ pc = "hint count"
  /\ total' = CountOf(at)
  /\ Answer(IF found.odd THEN Error(500) ELSE Page(at, found.rows, total'))
  /\ UNCHANGED <<req, data, found, failures, updates>>

\* The WHERE of a variant in the loop.  For an item, and where the variants
\* share a count, every exception only ends the turn.
TryWhere ==
  /\ pc = "where"
  /\ found' = Found(at)
  /\ \/ /\ ~Limited
        /\ IF found'.rows = {} \/ found'.odd THEN Continue
           ELSE Answer(Item(at, found'.rows))
     \/ /\ Limited /\ Shared
        /\ IF found'.rows = {} THEN Continue
           ELSE pc' = "count" /\ UNCHANGED <<at, reply>>
     \/ /\ Counted
        /\ Answer(IF found'.rows = {} THEN Error(404)
                  ELSE IF found'.odd THEN Error(500)
                  ELSE Page(at, found'.rows, total))
  /\ UNCHANGED <<req, data, total, failures, updates>>

\* A count in the loop: after the WHERE where it is shared, before it otherwise.
TryCount ==
  /\ pc = "count"
  /\ total' = CountOf(at)
  /\ \/ /\ Shared
        /\ IF found.odd THEN Continue ELSE Answer(Page(at, found.rows, total'))
     \/ /\ ~Shared
        /\ IF total' > 0 THEN pc' = "where" /\ UNCHANGED <<at, reply>> ELSE Continue
  /\ UNCHANGED <<req, data, found, failures, updates>>

Calling == pc \in {"hint where", "hint count", "where", "count"}

\* Variant: every loop swallows what a call raises.
CallRaisesSwallowed ==
  /\ Calling
  /\ IF pc \in {"hint where", "hint count"} THEN Fallback ELSE Continue
  /\ UNCHANGED <<req, data, found, total, updates>>

\* A call raises: handle_sparql_exception makes it a 503 or a 400.
CallRaises ==
  /\ Calling
  /\ \/ pc \in {"hint where", "hint count"} /\ Fallback
     \/ pc \in {"where", "count"} /\ ~Counted /\ Continue
     \/ pc \in {"where", "count"} /\ Counted /\ \E s \in {503, 400} : Answer(Error(s))
  /\ UNCHANGED <<req, data, found, total, updates>>

CallFails ==
  /\ failures < MaxFailures
  /\ failures' = failures + 1
  /\ CallRaises

\* The count of a filtered list is the WHERE with $GRAPHS_LIST$ and
\* $LIMIT_OFFSET$ left in: an endpoint may well reject it.
CountRejected ==
  /\ req.filter = "ok"
  /\ pc \in {"hint count", "count"}
  /\ \/ pc = "hint count" /\ Fallback
     \/ pc = "count" /\ Answer(Error(400))
  /\ UNCHANGED <<req, data, found, total, failures, updates>>

\* The endpoint is fed by others.
Update ==
  /\ Calling
  /\ updates < MaxUpdates
  /\ updates' = updates + 1
  /\ data' \in (Datasets[req.table] \cap Feeds) \ {data}
  /\ UNCHANGED <<req, pc, at, found, total, reply, failures>>

Handle == Start \/ HintWhere \/ HintCount \/ TryWhere \/ TryCount

Next == Handle \/ CallFails \/ CountRejected \/ Update

Spec     == Init /\ [][Next]_vars
FairSpec == Spec /\ WF_vars(Handle)

-----------------------------------------------------------------------------
(* Properties                                                              *)

Steps == {"start", "hint where", "hint count", "where", "count", "done"}

TypeOK ==
  /\ req \in Requests
  /\ data \in Datasets[req.table]
  /\ pc \in Steps
  /\ at \in Variants
  /\ found \in [rows : SUBSET Nat, odd : BOOLEAN]
  /\ total \in Nat
  /\ reply \in [status : {0, 200, 400, 404, 500, 503}, variant : Nat, rows : SUBSET Nat,
                total : Nat, next : BOOLEAN]
  /\ failures \in 0 .. MaxFailures
  /\ updates \in 0 .. MaxUpdates

Done == pc = "done"

\* Every call answered, on data that held still and has every key it needs.
Calm ==
  /\ failures = 0 /\ updates = 0
  /\ req.filter = "none"
  /\ \A i \in Variants : ~data.results[i].odd

\* An item that is in the data, in whatever way it is modelled, is found, and
\* one that is not is a 404: whatever code the pilot has cached, be it stale,
\* wrong, shared by two variants or matched by none.
StaleCodeHidesNothing ==
  Done /\ Calm /\ ~Limited =>
    reply.status = IF \E i \in Variants : data.results[i].shown # {} THEN 200 ELSE 404

\* The data is modelled in one way (what a count does not see is not shown).
OneModel ==
  /\ \A i, j \in Variants : CountOf(i) > 0 /\ CountOf(j) > 0 /\ ~Shared => i = j
  /\ \A i, j \in Variants :
       data.results[i].shown # {} /\ data.results[j].shown # {} => i = j
  /\ \A i \in Variants : data.results[i].shown # {} => CountOf(i) > 0

\* The reply of a pilot without a cached code, on such data.
Uncached ==
  LET hits == {i \in Variants : Found(i).rows # {}}
  IN  IF hits = {} THEN {Error(404)}
      ELSE {IF Limited THEN Page(i, Found(i).rows, CountOf(i))
            ELSE Item(i, Found(i).rows) : i \in hits}

\* The cached code saves calls and changes nothing: on data modelled in one way
\* the reply, down to its count and nextLink, is the one without a code.
CodeIsOnlyAHint == Done /\ Calm /\ OneModel => reply \in Uncached

\* A list whose variants have counts is reported missing only when it is:
\* no failed call, of the hint or of the loop, is taken for an empty variant.
NotFoundIsTrue ==
  Done /\ Counted /\ updates = 0 /\ reply.status = 404 =>
    \/ \A i \in Variants : CountOf(i) = 0
    \/ \E i \in Variants :
         /\ CountOf(i) > 0 /\ Found(i).rows = {}
         /\ \A j \in 1 .. i - 1 : CountOf(j) = 0

\* Every request is answered, as long as the endpoint answers or breaks off.
EveryRequestEnds == <>Done
=============================================================================
