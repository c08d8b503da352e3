---------------------------- MODULE SharedGraphs ----------------------------
(***************************************************************************)
(* The list of graphs that all requests of a mounted pilot share, and a    *)
(* client that follows nextLinks through a list while others use it.       *)
(*                                                                         *)
(* A mount's pilot is one object with one list (Pilot.graphs as loaded by  *)
(* the rebuild).  A handler takes that list, not a copy (BaseQueryHandler);*)
(* a Datastreams handler appends the two vocabularies of units to it in    *)
(* place (`+=`, atomic under the GIL).  The text of a query goes through   *)
(* the list one graph at a time, twice for a WHERE query (its own FROMs    *)
(* and those of $GRAPHS_LIST$, where the page is cut), once for a count;   *)
(* other threads run between two graphs.  A commit replaces the mount, and *)
(* requests under way keep the old list.                                   *)
(*                                                                         *)
(* Abstractions: which variant is asked is QueryDispatch's matter: here a  *)
(* list request makes one count and one WHERE query, in either order, an   *)
(* item request only the WHERE.  The items of a graph are fixed, in the    *)
(* endpoint's order, and the vocabularies hold none.                       *)
(***************************************************************************)
EXTENDS Naturals, Sequences, FiniteSets

CONSTANTS
  Threads,
  Vocabs,      \* the two vocabularies, in the order they are appended
  Lists,       \* lists of graphs that the pilot's row may have
  Holds,       \* the items of each graph
  Items,       \* all items, in the endpoint's order
  Top,         \* $top of the client
  Skips,       \* $skip of the client's first request
  None,
  MaxRequests, \* bound: requests of others
  MaxRebuilds  \* bound: rebuilds of the routes

Elems(s) == {s[i] : i \in DOMAIN s}

Graphs == UNION {Elems(l) : l \in Lists} \cup Elems(Vocabs)

ASSUME ConstantsAssumption ==
  /\ Vocabs \in Seq(Graphs) /\ Lists \subseteq Seq(Graphs) /\ Lists # {}
  /\ \A l \in Lists : Elems(l) \cap Elems(Vocabs) = {}
  /\ Items \in Seq(Elems(Items))
  /\ \A i, j \in DOMAIN Items : Items[i] = Items[j] => i = j
  /\ Holds \in [Graphs -> SUBSET Elems(Items)]
  /\ \A g \in Elems(Vocabs) : Holds[g] = {}
  /\ None \notin Nat \cup Lists
  /\ Top \in Nat \ {0} /\ Skips \subseteq Nat
  /\ {MaxRequests, MaxRebuilds} \subseteq Nat

Parts == {"outer", "inner", "count"}

\* units: the resource is Datastreams; skip: of the page asked for, None for an
\* item; counts: the count comes first (the loop over variants) or last (a hint).
Kind == [units : BOOLEAN, skip : Nat \cup {None}, counts : {"first", "last"}]

VARIABLES
  heap,     \* the list of graphs of each mount there was; the last is mounted
  own,      \* ghost: what each mount's list was at first
  pc, kind,
  mount,    \* the mount a request was routed to, whose list it shares
  from,     \* the graphs that the parts of its queries name so far
  rows, total,  \* what its queries returned
  client,   \* the traversal: its resource, first and next $skip, items seen,
            \* and ghosts: the own graphs behind its pages, and if they were the same
  requests, rebuilds  \* the bounds' counters

thread == <<pc, kind, mount, from, rows, total>>
vars   == <<heap, own, thread, client, requests, rebuilds>>

Steps == {"idle", "extend", "outer", "inner", "count", "ask where", "ask count"}

Client ==
  [at : {"start", "waits", "next", "done", "broken"}, units : BOOLEAN, first : Nat,
   skip : Nat, seen : Seq(Elems(Items)), graphs : Lists \cup {None}, steady : BOOLEAN]

TypeOK ==
  /\ heap \in Seq(Seq(Graphs)) /\ heap # <<>>
  /\ own \in Seq(Lists) /\ Len(own) = Len(heap)
  /\ pc \in [Threads -> Steps]
  /\ kind \in [Threads -> Kind]
  /\ mount \in [Threads -> DOMAIN heap]
  /\ from \in [Threads -> [Parts -> Seq(Graphs)]]
  /\ rows \in [Threads -> Seq(Elems(Items))]
  /\ total \in [Threads -> Nat]
  /\ client \in Client
  /\ requests \in 0 .. MaxRequests
  /\ rebuilds \in 0 .. MaxRebuilds

NoKind  == [units |-> FALSE, skip |-> None, counts |-> "first"]
Nothing == [p \in Parts |-> <<>>]

Init ==
  /\ \E l \in Lists : heap = <<l>> /\ own = <<l>>
  /\ pc = [t \in Threads |-> "idle"]
  /\ kind = [t \in Threads |-> NoKind]
  /\ mount = [t \in Threads |-> 1]
  /\ from = [t \in Threads |-> Nothing]
  /\ rows = [t \in Threads |-> <<>>]
  /\ total = [t \in Threads |-> 0]
  /\ \E u \in BOOLEAN, k \in Skips :
       client = [at |-> "start", units |-> u, first |-> k, skip |-> k, seen |-> <<>>,
                 graphs |-> None, steady |-> TRUE]
  /\ requests = 0
  /\ rebuilds = 0

-----------------------------------------------------------------------------
Goto(t, step) == pc' = [pc EXCEPT ![t] = step]

\* The first query of a request.
FirstPart(k) == IF k.skip # None /\ k.counts = "first" THEN "count" ELSE "outer"

\* A request is routed to the mount, and a handler made that shares its list.
Accept(t, k) ==
  /\ pc[t] = "idle"
  /\ kind' = [kind EXCEPT ![t] = k]
  /\ mount' = [mount EXCEPT ![t] = Len(heap)]
  /\ Goto(t, IF k.units THEN "extend" ELSE FirstPart(k))
  /\ UNCHANGED <<heap, own, from, rows, total, rebuilds>>

\* Others ask for items of any resource.
Other(t) ==
  /\ requests < MaxRequests
  /\ requests' = requests + 1
  /\ \E u \in BOOLEAN : Accept(t, [units |-> u, skip |-> None, counts |-> "last"])
  /\ UNCHANGED client

\* The client asks for its first page, or follows a nextLink.
Follow(t) ==
  /\ client.at \in {"start", "next"}
  /\ \E c \in {"first", "last"} :
       Accept(t, [units |-> client.units, skip |-> client.skip, counts |-> c])
  /\ LET now == own[Len(own)]
     IN  client' = [client EXCEPT !.at = "waits", !.graphs = now,
                                  !.steady = @ /\ client.graphs \in {None, now}]
  /\ UNCHANGED requests

\* Variant: the vocabularies are appended one after the other.
ExtendEach(t) ==
  /\ pc[t] = "extend"
  /\ LET m == mount[t]
         n == Len(from[t]["outer"])
     IN  /\ heap' = [heap EXCEPT ![m] = Append(@, Vocabs[n + 1])]
         /\ IF n + 1 = Len(Vocabs)
            THEN Goto(t, FirstPart(kind[t])) /\ from' = [from EXCEPT ![t] = Nothing]
            ELSE UNCHANGED pc /\ from' = [from EXCEPT ![t]["outer"] = Append(@, Vocabs[n + 1])]
  /\ UNCHANGED <<own, kind, mount, rows, total, client, requests, rebuilds>>

\* DatastreamsHandler.__init__: in place, so for all that share the list.
Extend(t) ==
  /\ pc[t] = "extend"
  /\ heap' = [heap EXCEPT ![mount[t]] = @ \o Vocabs]
  /\ Goto(t, FirstPart(kind[t]))
  /\ UNCHANGED <<own, kind, mount, from, rows, total, client, requests, rebuilds>>

\* What a thread goes through: its mount's list as it is now.
Shared(t) == heap[mount[t]]

\* _add_graphs_to_query: the next graph of the list goes into the text.
Name(t) ==
  /\ pc[t] \in Parts
  /\ LET n == Len(from[t][pc[t]])
     IN  /\ n < Len(Shared(t))
         /\ from' = [from EXCEPT ![t][pc[t]] = Append(@, Shared(t)[n + 1])]
  /\ UNCHANGED <<heap, own, pc, kind, mount, rows, total, client, requests, rebuilds>>

\* ... until its end, as long as it is by then.
Named(t) ==
  /\ pc[t] \in Parts
  /\ Len(from[t][pc[t]]) >= Len(Shared(t))
  /\ \/ pc[t] = "outer" /\ Goto(t, "inner")
     \/ pc[t] = "inner" /\ Goto(t, "ask where")
     \/ pc[t] = "count" /\ Goto(t, "ask count")
  /\ UNCHANGED <<heap, own, kind, mount, from, rows, total, client, requests, rebuilds>>

-----------------------------------------------------------------------------
HeldBy(graphs) == UNION {Holds[g] : g \in graphs}

\* What is held of a sequence of items, in its order.
Among(items, held) ==
  LET upTo[k \in 0 .. Len(items)] ==
        IF k = 0 THEN <<>>
        ELSE IF items[k] \in held THEN Append(upTo[k - 1], items[k])
        ELSE upTo[k - 1]
  IN  upTo[Len(items)]

\* The items of some graphs, in the endpoint's order.
ItemsOf(graphs) == Among(Items, HeldBy(graphs))

Lesser(a, b) == IF a < b THEN a ELSE b

\* LIMIT and OFFSET cut the page out of the inner query; the outer one shows it.
Page(t, skip) ==
  LET inner == ItemsOf(Elems(from[t]["inner"]))
  IN  Among(SubSeq(inner, skip + 1, Lesser(skip + Top, Len(inner))),
            HeldBy(Elems(from[t]["outer"])))

\* Variant: off by one.
HasNextAfter(skip, count) == skip + Top + 1 < count

\* _handle_results_properties.
HasNext(skip, count) == skip + Top < count

End(t) ==
  /\ Goto(t, "idle")
  /\ kind' = [kind EXCEPT ![t] = NoKind]
  /\ mount' = [mount EXCEPT ![t] = 1]
  /\ from' = [from EXCEPT ![t] = Nothing]
  /\ rows' = [rows EXCEPT ![t] = <<>>]
  /\ total' = [total EXCEPT ![t] = 0]

\* The page goes to the client, or the item to whoever asked.
Answer(t, found, count) ==
  /\ End(t)
  /\ client' = IF kind[t].skip = None THEN client
               ELSE [client EXCEPT !.at = IF HasNext(kind[t].skip, count) THEN "next" ELSE "done",
                                   !.skip = kind[t].skip + Top,
                                   !.seen = @ \o found]

\* Any error status: the client gives up.
Fail(t) ==
  /\ End(t)
  /\ client' = IF kind[t].skip = None THEN client ELSE [client EXCEPT !.at = "broken"]

\* The WHERE query; no rows are a 404.
AskWhere(t) ==
  /\ pc[t] = "ask where"
  /\ IF kind[t].skip = None THEN Answer(t, <<>>, 0)
     ELSE LET found == Page(t, kind[t].skip)
          IN  IF found = <<>> THEN Fail(t)
              ELSE IF kind[t].counts = "first" THEN Answer(t, found, total[t])
              ELSE /\ rows' = [rows EXCEPT ![t] = found]
                   /\ Goto(t, "count")
                   /\ UNCHANGED <<kind, mount, from, total, client>>
  /\ UNCHANGED <<heap, own, requests, rebuilds>>

\* Variant: the count query names the first graph only.
CountOfFirst(t) == Cardinality(HeldBy({from[t]["count"][1]}))

\* What the count query returns.
CountOf(t) == Cardinality(HeldBy(Elems(from[t]["count"])))

\* The count; where it comes first, 0 is a 404.
AskCount(t) ==
  /\ pc[t] = "ask count"
  /\ LET count == CountOf(t)
     IN  IF kind[t].counts = "last" THEN Answer(t, rows[t], count)
         ELSE IF count = 0 THEN Fail(t)
         ELSE /\ total' = [total EXCEPT ![t] = count]
              /\ Goto(t, "outer")
              /\ UNCHANGED <<kind, mount, from, rows, client>>
  /\ UNCHANGED <<heap, own, requests, rebuilds>>

\* A call raises.
CallFails(t) ==
  /\ pc[t] \in {"ask where", "ask count"}
  /\ Fail(t)
  /\ UNCHANGED <<heap, own, requests, rebuilds>>

\* A commit: the routes are rebuilt, with a list of their own, from a row that a
\* PUT may have changed.
Rebuild ==
  /\ rebuilds < MaxRebuilds
  /\ rebuilds' = rebuilds + 1
  /\ \E l \in Lists : heap' = Append(heap, l) /\ own' = Append(own, l)
  /\ UNCHANGED <<thread, client, requests>>

-----------------------------------------------------------------------------
Handle(t) == Extend(t) \/ Name(t) \/ Named(t) \/ AskWhere(t) \/ AskCount(t)

Next ==
  \/ \E t \in Threads : Other(t) \/ Follow(t) \/ Handle(t) \/ CallFails(t)
  \/ Rebuild

Spec == Init /\ [][Next]_vars

-----------------------------------------------------------------------------
(* Properties                                                              *)

\* What a part of a query of t must name: all graphs of the pilot, and both
\* vocabularies or none; both, where units are read.
Right(t, part) ==
  LET named == Elems(from[t][part])
      mine  == Elems(own[mount[t]])
      units == Elems(Vocabs)
  IN  named = mine \cup units \/ (named = mine /\ ~kind[t].units)

\* Every query that is sent names the graphs of the pilot it was routed to:
\* whoever extends the list while it is read, and whatever is mounted meanwhile.
NamesOwnGraphs ==
  \A t \in Threads :
    /\ pc[t] = "ask where" => Right(t, "outer") /\ Right(t, "inner")
    /\ pc[t] = "ask count" => Right(t, "count")

\* A page and the count it comes with are of the same list: the count reaches at
\* least to the page's last item, in whatever order the two were asked.
PageFitsCount ==
  \A t \in Threads :
    kind[t].skip # None =>
      /\ pc[t] = "ask where" /\ kind[t].counts = "first" =>
           LET found == Page(t, kind[t].skip)
           IN  found # <<>> => kind[t].skip + Len(found) <= total[t]
      /\ pc[t] = "ask count" /\ kind[t].counts = "last" =>
           kind[t].skip + Len(rows[t]) <= CountOf(t)

\* Following nextLinks through a list shows every item from the first $skip on
\* once and in order, and ends when there are no more: through rebuilds that
\* leave the pilot's graphs alone, and Datastreams requests that do not.
TraversalComplete ==
  client.graphs # None /\ client.steady =>
    LET all == ItemsOf(Elems(client.graphs))
    IN  /\ client.seen = SubSeq(all, client.first + 1, Lesser(client.skip, Len(all)))
        /\ client.at = "done" => client.skip >= Len(all)
=============================================================================
