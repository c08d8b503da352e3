------------------------ MODULE QueryDispatch_proofs ------------------------
(***************************************************************************)
(* Proofs about QueryDispatch: for any operations and codes, any data, any *)
(* cached code, and any number of failed calls and changes of the data.    *)
(***************************************************************************)
EXTENDS QueryDispatch, TLAPS

\* What every request says of its parts.
LEMMA RequestParts ==
  ASSUME req \in Requests
  PROVE  /\ req.table \in Tables
         /\ req.table.n \in Nat \ {0}
         /\ DOMAIN req.table.codes \subseteq Variants
         /\ req.filter \in Filters
         /\ req.kind \in Kinds
         /\ Limited => req.page \in [top : Nat, skip : Nat]
         /\ ~Limited => req.filter = "none"
<1>1. /\ req.table \in Tables /\ req.filter \in Filters /\ req.kind \in Kinds
      /\ Limited => req.page \in Pages
      /\ ~Limited => req.filter = "none"
  BY DEF Requests, RequestsFor, Filters, Kinds, Limited
<1>2. /\ req.table.n \in Nat \ {0} /\ Len(req.table.codes) \in {0, req.table.n}
      /\ req.table.codes \in Seq(Nat)
  BY <1>1, TablesAssumption DEF TablesAssumption
<1>3. DOMAIN req.table.codes = 1 .. Len(req.table.codes)
  BY <1>2
<1>4. DOMAIN req.table.codes \subseteq Variants
  BY <1>2, <1>3 DEF Variants
<1>. QED
  BY <1>1, <1>2, <1>4, DataAssumption DEF DataAssumption

\* What the endpoint returns for a variant of the request.
LEMMA ResultParts ==
  ASSUME req \in Requests, data \in Datasets[req.table], NEW i \in Variants
  PROVE  /\ data.results[i] \in ResultType
         /\ Found(i) \in [rows : SUBSET Nat, odd : BOOLEAN]
         /\ Found(i).odd = data.results[i].odd
         /\ Found(i).rows \subseteq data.results[i].shown
         /\ ~Limited => Found(i).rows = data.results[i].shown
         /\ CountOf(i) \in Nat
<1>1. data.results[i] \in ResultType /\ data.all \in Nat
  BY RequestParts, DataAssumption DEF DataAssumption, Variants
<1>. QED
  BY <1>1 DEF ResultType, Found, CountOf

ReplyType == [status : {0, 200, 400, 404, 500, 503}, variant : Nat,
              rows : SUBSET Nat, total : Nat, next : BOOLEAN]

\* What the replies are made of.
LEMMA ErrorParts ==
  /\ NoReply \in ReplyType /\ NoReply.status = 0
  /\ \A s \in {400, 404, 500, 503} : Error(s) \in ReplyType /\ Error(s).status = s
<1>1. NoReply \in ReplyType /\ NoReply.status = 0
  BY DEF NoReply, ReplyType
<1>2. ASSUME NEW s \in {400, 404, 500, 503}
      PROVE  Error(s) \in ReplyType /\ Error(s).status = s
  BY <1>1 DEF Error, ReplyType
<1>. QED
  BY <1>1, <1>2

\* The reply of an item is a 200.
LEMMA ItemParts ==
  ASSUME NEW i \in Nat, NEW rows \in SUBSET Nat
  PROVE  Item(i, rows) \in ReplyType /\ Item(i, rows).status = 200
BY DEF Item, ReplyType

\* So is the reply of a list, whatever its count.
LEMMA PageParts ==
  ASSUME NEW i \in Nat, NEW rows \in SUBSET Nat, NEW c \in Nat
  PROVE  Page(i, rows, c) \in ReplyType /\ Page(i, rows, c).status = 200
<1>1. (req.page.skip + req.page.top < c) \in BOOLEAN
  OBVIOUS
<1>. QED
  BY <1>1 DEF Page, ReplyType

-----------------------------------------------------------------------------
\* The moves of the program counter that the actions are made of.
Move == /\ pc' \in Steps /\ at' \in Variants /\ reply' \in ReplyType

\* A reply ends the program in a state of its type ...
LEMMA AnswerMoves ==
  ASSUME TypeOK, req' = req, NEW r \in ReplyType, Answer(r)
  PROVE  Move
<1>1. "done" \in Steps
  BY DEF Steps
<1>. QED
  BY <1>1 DEF Answer, Move, TypeOK, Variants

\* ... an error among them ...
LEMMA ErrorMoves ==
  ASSUME TypeOK, req' = req,
         \/ Answer(Error(400)) \/ Answer(Error(404))
         \/ Answer(Error(500)) \/ Answer(Error(503))
  PROVE  Move
<1>1. Error(400) \in ReplyType /\ Error(404) \in ReplyType
  BY ErrorParts
<1>2. Error(500) \in ReplyType /\ Error(503) \in ReplyType
  BY ErrorParts
<1>3. CASE Answer(Error(400))
  BY <1>1, <1>3, AnswerMoves
<1>4. CASE Answer(Error(404))
  BY <1>1, <1>4, AnswerMoves
<1>5. CASE Answer(Error(500))
  BY <1>2, <1>5, AnswerMoves
<1>6. CASE Answer(Error(503))
  BY <1>2, <1>6, AnswerMoves
<1>. QED
  BY <1>3, <1>4, <1>5, <1>6

\* ... and so does going on to a call for one of the variants.
LEMMA CallMoves ==
  ASSUME TypeOK, at' \in Variants, reply' = reply,
         pc' \in {"hint where", "hint count", "where", "count"}
  PROVE  Move
<1>1. reply \in ReplyType
  BY DEF TypeOK, ReplyType
<1>2. pc' \in Steps
  BY DEF Steps
<1>. QED
  BY <1>1, <1>2 DEF Move

\* Entering the loop, or its next turn, asks a variant that exists or replies.
LEMMA LoopMoves ==
  ASSUME TypeOK, req' = req, Fallback \/ Continue
  PROVE  Move
<1>1. req.table.n \in Nat \ {0} /\ at \in Variants
  BY RequestParts DEF TypeOK
<1>2. FirstCall \in {"where", "count"}
  BY DEF FirstCall
<1>3. CASE Fallback
  <2>1. \/ Answer(Error(500))
        \/ Answer(Error(400))
        \/ at' = 1 /\ pc' = FirstCall /\ reply' = reply
    BY <1>3 DEF Fallback
  <2>2. 1 \in Variants
    BY <1>1 DEF Variants
  <2>3. CASE at' = 1 /\ pc' = FirstCall /\ reply' = reply
    BY <1>2, <2>2, <2>3, CallMoves
  <2>. QED
    BY <2>1, <2>3, ErrorMoves
<1>4. CASE Continue
  <2>1. CASE at < req.table.n /\ at' = at + 1 /\ pc' = FirstCall /\ reply' = reply
    <3>1. at' \in Variants
      BY <1>1, <2>1 DEF Variants
    <3>. QED
      BY <1>2, <2>1, <3>1, CallMoves
  <2>2. CASE Answer(Error(404))
    BY <2>2, ErrorMoves
  <2>. QED
    BY <1>4, <2>1, <2>2 DEF Continue
<1>. QED
  BY <1>3, <1>4

\* The first state is of its type.
LEMMA InitTypeOK == Init => TypeOK
<1> SUFFICES ASSUME Init PROVE TypeOK
  OBVIOUS
<1>1. at \in Variants
  BY RequestParts DEF Init, Variants
<1>2. reply \in ReplyType
  BY ErrorParts DEF Init
<1>. QED
  BY <1>1, <1>2, DataAssumption DEF Init, TypeOK, Steps, ReplyType, DataAssumption

\* Every call, answered or not, keeps the type.
LEMMA NextTypeOK == TypeOK /\ [Next]_vars => TypeOK'
<1> SUFFICES ASSUME TypeOK, [Next]_vars PROVE TypeOK'
  OBVIOUS
<1> DEFINE FoundType == [rows : SUBSET Nat, odd : BOOLEAN]
<1>0. /\ at \in Variants /\ at \in Nat /\ found \in FoundType
      /\ Found(at) \in FoundType /\ CountOf(at) \in Nat
      /\ DOMAIN req.table.codes \subseteq Variants
      /\ reply \in ReplyType /\ total \in Nat
      /\ failures \in 0 .. MaxFailures /\ updates \in 0 .. MaxUpdates
      /\ data \in Datasets[req.table] /\ pc \in Steps
  BY RequestParts, ResultParts DEF TypeOK, Variants, ReplyType
<1>3. ASSUME req' = req, Move, found' \in FoundType, total' \in Nat,
             data' \in Datasets[req.table], failures' \in 0 .. MaxFailures, updates' \in 0 .. MaxUpdates
      PROVE  TypeOK'
  BY <1>3 DEF TypeOK, Move, Variants, ReplyType
<1>4. CASE Start
  <2>1. /\ UNCHANGED <<req, data, found, total, failures, updates>>
        /\ \/ Fallback
           \/ Answer(Error(500))
           \/ at' \in Variants /\ pc' = "hint where" /\ reply' = reply
    BY <1>0, <1>4 DEF Start
  <2>2. Move
    <3>1. CASE Fallback
      BY <2>1, <3>1, LoopMoves
    <3>2. CASE Answer(Error(500))
      BY <2>1, <3>2, ErrorMoves
    <3>3. CASE at' \in Variants /\ pc' = "hint where" /\ reply' = reply
      BY <3>3, CallMoves
    <3>. QED
      BY <2>1, <3>1, <3>2, <3>3
  <2>. QED
    BY <1>0, <1>3, <2>1, <2>2
<1>5. CASE HintWhere
  <2>1. /\ UNCHANGED <<req, data, total, failures, updates>> /\ found' = Found(at)
        /\ \/ Fallback
           \/ Answer(Error(500))
           \/ Answer(Item(at, found'.rows))
           \/ at' = at /\ pc' = "hint count" /\ reply' = reply
    BY <1>5 DEF HintWhere
  <2>2. Item(at, found'.rows) \in ReplyType
    BY <1>0, <2>1, ItemParts
  <2>3. Move
    <3>1. CASE Fallback
      BY <2>1, <3>1, LoopMoves
    <3>2. CASE Answer(Error(500))
      BY <2>1, <3>2, ErrorMoves
    <3>3. CASE Answer(Item(at, found'.rows))
      BY <2>1, <2>2, <3>3, AnswerMoves
    <3>4. CASE at' = at /\ pc' = "hint count" /\ reply' = reply
      BY <1>0, <3>4, CallMoves
    <3>. QED
      BY <2>1, <3>1, <3>2, <3>3, <3>4
  <2>. QED
    BY <1>0, <1>3, <2>1, <2>3
<1>6. CASE HintCount
  <2>1. /\ UNCHANGED <<req, data, found, failures, updates>> /\ total' = CountOf(at)
        /\ Answer(Error(500)) \/ Answer(Page(at, found.rows, total'))
    BY <1>6 DEF HintCount
  <2>2. Page(at, found.rows, total') \in ReplyType
    BY <1>0, <2>1, PageParts
  <2>3. Move
    <3>1. CASE Answer(Error(500))
      BY <2>1, <3>1, ErrorMoves
    <3>2. CASE Answer(Page(at, found.rows, total'))
      BY <2>1, <2>2, <3>2, AnswerMoves
    <3>. QED
      BY <2>1, <3>1, <3>2
  <2>. QED
    BY <1>0, <1>3, <2>1, <2>3
<1>7. CASE TryWhere
  <2>1. /\ UNCHANGED <<req, data, total, failures, updates>> /\ found' = Found(at)
        /\ \/ Continue
           \/ Answer(Item(at, found'.rows))
           \/ at' = at /\ pc' = "count" /\ reply' = reply
           \/ Answer(Error(404))
           \/ Answer(Error(500))
           \/ Answer(Page(at, found'.rows, total))
    BY <1>7 DEF TryWhere
  <2>2. Item(at, found'.rows) \in ReplyType /\ Page(at, found'.rows, total) \in ReplyType
    BY <1>0, <2>1, ItemParts, PageParts
  <2>3. Move
    <3>1. CASE Continue
      BY <2>1, <3>1, LoopMoves
    <3>2. CASE Answer(Error(404)) \/ Answer(Error(500))
      BY <2>1, <3>2, ErrorMoves
    <3>3. CASE Answer(Item(at, found'.rows))
      BY <2>1, <2>2, <3>3, AnswerMoves
    <3>4. CASE Answer(Page(at, found'.rows, total))
      BY <2>1, <2>2, <3>4, AnswerMoves
    <3>5. CASE at' = at /\ pc' = "count" /\ reply' = reply
      BY <1>0, <3>5, CallMoves
    <3>. QED
      BY <2>1, <3>1, <3>2, <3>3, <3>4, <3>5
  <2>. QED
    BY <1>0, <1>3, <2>1, <2>3
<1>8. CASE TryCount
  <2>1. /\ UNCHANGED <<req, data, found, failures, updates>> /\ total' = CountOf(at)
        /\ \/ Continue
           \/ Answer(Page(at, found.rows, total'))
           \/ at' = at /\ pc' = "where" /\ reply' = reply
    BY <1>8 DEF TryCount
  <2>2. Page(at, found.rows, total') \in ReplyType
    BY <1>0, <2>1, PageParts
  <2>3. Move
    BY <1>0, <2>1, <2>2, LoopMoves, CallMoves, AnswerMoves
  <2>. QED
    BY <1>0, <1>3, <2>1, <2>3
<1>9. CASE CallFails
  <2>1. /\ UNCHANGED <<req, data, found, total, updates>>
        /\ Fallback \/ Continue \/ Answer(Error(503)) \/ Answer(Error(400))
    <3>1. UNCHANGED <<req, data, found, total, updates>>
      BY <1>9 DEF CallFails, CallRaises
    <3>2. Fallback \/ Continue \/ \E s \in {503, 400} : Answer(Error(s))
      BY <1>9 DEF CallFails, CallRaises
    <3>. QED
      BY <3>1, <3>2
  <2>2. failures' \in 0 .. MaxFailures
    BY <1>0, <1>9, DataAssumption DEF CallFails, DataAssumption
  <2>3. Move
    <3>1. CASE Fallback \/ Continue
      BY <2>1, <3>1, LoopMoves
    <3>2. CASE Answer(Error(503)) \/ Answer(Error(400))
      BY <2>1, <3>2, ErrorMoves
    <3>. QED
      BY <2>1, <3>1, <3>2
  <2>. QED
    BY <1>0, <1>3, <2>1, <2>2, <2>3
<1>10. CASE CountRejected
  <2>1. /\ UNCHANGED <<req, data, found, total, failures, updates>>
        /\ Fallback \/ Answer(Error(400))
    BY <1>10 DEF CountRejected
  <2>2. Move
    <3>1. CASE Fallback
      BY <2>1, <3>1, LoopMoves
    <3>2. CASE Answer(Error(400))
      BY <2>1, <3>2, ErrorMoves
    <3>. QED
      BY <2>1, <3>1, <3>2
  <2>. QED
    BY <1>0, <1>3, <2>1, <2>2
<1>11. CASE Update
  <2>1. updates' \in 0 .. MaxUpdates
    BY <1>0, <1>11, DataAssumption DEF Update, DataAssumption
  <2>. QED
    BY <1>0, <1>3, <1>11, <2>1 DEF Update, Move
<1>12. CASE UNCHANGED vars
  BY <1>0, <1>3, <1>12 DEF vars, Move
<1>. QED
  BY <1>4, <1>5, <1>6, <1>7, <1>8, <1>9, <1>10, <1>11, <1>12 DEF Next, Handle

\* TypeOK: the variant asked is always one of the operation's, and the numbers
\* of a reply are numbers, whatever the endpoint does.
THEOREM TypeCorrect == Spec => []TypeOK
BY InitTypeOK, NextTypeOK, PTL DEF Spec

-----------------------------------------------------------------------------
(* Calm steps                                                              *)

\* No step changes the request; only Update changes the data, and only
\* CallFails and Update use up a bound.
LEMMA StepsKeep ==
  ASSUME [Next]_vars
  PROVE  /\ req' = req
         /\ ~Update => data' = data /\ updates' = updates
         /\ ~CallFails => failures' = failures
<1>1. CASE Handle
  BY <1>1 DEF Handle, Start, HintWhere, HintCount, TryWhere, TryCount
<1>2. CASE CallFails \/ CountRejected \/ Update
  BY <1>2 DEF CallFails, CallRaises, CountRejected, Update
<1>3. CASE UNCHANGED vars
  BY <1>3 DEF vars
<1>. QED
  BY <1>1, <1>2, <1>3 DEF Next

\* A step into a calm state is the handler's own, from a calm state.
LEMMA CalmSteps ==
  ASSUME TypeOK, [Next]_vars, Calm'
  PROVE  Calm /\ data' = data /\ ~CallFails /\ ~Update /\ ~CountRejected
<1>1. failures \in Nat /\ updates \in Nat /\ failures' = 0 /\ updates' = 0
      /\ req' = req /\ req.filter = "none"
  BY StepsKeep DEF TypeOK, Calm
<1>2. ~CallFails
  BY <1>1 DEF CallFails
<1>3. ~Update
  BY <1>1 DEF Update
<1>4. ~CountRejected
  BY <1>1 DEF CountRejected
<1>. QED
  BY <1>1, <1>2, <1>3, <1>4, StepsKeep DEF Calm, Variants

-----------------------------------------------------------------------------
(* Items                                                                   *)

\* While the loop looks for an item, the variants it has passed do not have it.
ItemLoop ==
  Calm /\ ~Limited =>
    /\ pc \in {"start", "hint where", "where", "done"}
    /\ pc = "where" => \A j \in Variants : j < at => data.results[j].shown = {}
    /\ StaleCodeHidesNothing

\* For an item, where a call may leave the program.
LEMMA ItemMoves ==
  ASSUME TypeOK, Calm, ~Limited, req' = req, data' = data,
         \/ Fallback
         \/ Continue /\ \A j \in Variants : j <= at => data.results[j].shown = {}
  PROVE  /\ pc' \in {"where", "done"}
         /\ pc' = "where" => \A j \in Variants : j < at' => data.results[j].shown = {}
         /\ pc' = "done" => /\ reply'.status = 404
                            /\ \A j \in Variants : data.results[j].shown = {}
<1>1. req.table.n \in Nat \ {0} /\ at \in Variants /\ req.filter = "none"
  BY RequestParts DEF TypeOK
<1>2. FirstCall = "where"
  BY DEF FirstCall, Counted
<1>3. CASE Fallback
  <2>1. at' = 1 /\ pc' = "where"
    BY <1>1, <1>2, <1>3 DEF Fallback
  <2>. QED
    BY <2>1 DEF Variants
<1>4. CASE Continue /\ \A j \in Variants : j <= at => data.results[j].shown = {}
  <2>1. CASE at < req.table.n
    <3>1. at' = at + 1 /\ pc' = "where"
      BY <1>1, <1>2, <1>4, <2>1 DEF Continue, Variants
    <3>. QED
      BY <1>1, <1>4, <3>1 DEF Variants
  <2>2. CASE at = req.table.n
    <3>1. pc' = "done" /\ reply' = Error(404)
      BY <1>1, <1>4, <2>2 DEF Continue, Answer, Variants
    <3>2. Error(404).status = 404
      BY ErrorParts
    <3>. QED
      BY <1>1, <1>4, <2>2, <3>1, <3>2 DEF Variants
  <2>. QED
    BY <1>1, <2>1, <2>2 DEF Variants
<1>. QED
  BY <1>3, <1>4

\* Every step keeps ItemLoop: only an empty WHERE moves the loop on.
LEMMA NextItemLoop == TypeOK /\ ItemLoop /\ [Next]_vars => ItemLoop'
<1> SUFFICES ASSUME TypeOK, ItemLoop, [Next]_vars, Calm', ~Limited'
             PROVE  /\ pc' \in {"start", "hint where", "where", "done"}
                    /\ pc' = "where" =>
                         (\A j \in Variants : j < at => data.results[j].shown = {})'
                    /\ StaleCodeHidesNothing'
  BY DEF ItemLoop
<1>1. req' = req
  BY StepsKeep
<1>2. ~CallFails /\ ~Update /\ ~CountRejected
  BY CalmSteps
<1>3. data' = data /\ Calm /\ ~Limited
  BY <1>1, CalmSteps DEF Limited
<1>4. /\ pc \in {"start", "hint where", "where", "done"}
      /\ pc = "where" => \A j \in Variants : j < at => data.results[j].shown = {}
      /\ StaleCodeHidesNothing
  BY <1>3 DEF ItemLoop
<1>5. at \in Variants /\ Found(at).rows = data.results[at].shown
      /\ Found(at).rows \in SUBSET Nat /\ at \in Nat
      /\ Found(at).odd = FALSE
  BY <1>3, ResultParts, RequestParts DEF TypeOK, Variants, Calm
<1>6. ASSUME \/ Fallback
             \/ Continue /\ \A j \in Variants : j <= at => data.results[j].shown = {}
      PROVE  /\ pc' \in {"where", "done"}
             /\ pc' = "where" =>
                  (\A j \in Variants : j < at => data.results[j].shown = {})'
             /\ StaleCodeHidesNothing'
  <2>1. /\ pc' \in {"where", "done"}
        /\ pc' = "where" => \A j \in Variants : j < at' => data.results[j].shown = {}
        /\ pc' = "done" => /\ reply'.status = 404
                           /\ \A j \in Variants : data.results[j].shown = {}
    BY <1>1, <1>3, <1>6, ItemMoves
  <2>. QED
    BY <1>1, <1>3, <2>1 DEF StaleCodeHidesNothing, Done, Variants
<1>7. ASSUME NEW rows, rows = data.results[at].shown, rows # {}, Answer(Item(at, rows))
      PROVE  pc' = "done" /\ StaleCodeHidesNothing'
  <2>1. reply' = Item(at, rows) /\ pc' = "done" /\ rows \in SUBSET Nat
    BY <1>5, <1>7 DEF Answer
  <2>2. reply'.status = 200
    BY <1>5, <2>1, ItemParts
  <2>3. \E i \in Variants : data.results[i].shown # {}
    BY <1>5, <1>7
  <2>. QED
    BY <1>1, <1>3, <2>1, <2>2, <2>3 DEF StaleCodeHidesNothing, Variants
<1>8. CASE Start
  <2>1. req.filter = "none"
    BY <1>3 DEF Calm
  <2>2. Fallback \/ pc' = "hint where"
    BY <1>8, <2>1 DEF Start
  <2>. QED
    BY <1>6, <2>2 DEF StaleCodeHidesNothing, Done
<1>9. CASE HintWhere
  <2>1. \/ Fallback
        \/ Found(at).rows # {} /\ Answer(Item(at, Found(at).rows))
    BY <1>3, <1>5, <1>9 DEF HintWhere
  <2>. QED
    BY <1>5, <1>6, <1>7, <2>1
<1>10. CASE TryWhere
  <2>1. \/ Continue /\ Found(at).rows = {}
        \/ Found(at).rows # {} /\ Answer(Item(at, Found(at).rows))
    BY <1>3, <1>5, <1>10 DEF TryWhere, Counted
  <2>2. \A j \in Variants : j < at => data.results[j].shown = {}
    BY <1>4, <1>10 DEF TryWhere
  <2>3. \A j \in Variants : j <= at => j < at \/ j = at
    BY <1>5 DEF Variants
  <2>4. Found(at).rows = {} => \A j \in Variants : j <= at => data.results[j].shown = {}
    BY <1>5, <2>2, <2>3
  <2>. QED
    BY <1>5, <1>6, <1>7, <2>1, <2>4
<1>11. CASE HintCount \/ TryCount
  BY <1>4, <1>11 DEF HintCount, TryCount
<1>12. CASE UNCHANGED vars
  <2>1. UNCHANGED <<pc, at, data, req, reply>>
    BY <1>12 DEF vars
  <2>2. StaleCodeHidesNothing'
    BY <1>3, <1>4, <2>1 DEF StaleCodeHidesNothing, Done, Variants
  <2>. QED
    BY <1>4, <2>1, <2>2 DEF Variants
<1>. QED
  BY <1>2, <1>8, <1>9, <1>10, <1>11, <1>12 DEF Next, Handle

\* StaleCodeHidesNothing: whatever code is cached, and whichever of the
\* operation's codes it agrees with, an item is found if and only if some way
\* of modelling the data has it.
THEOREM ItemsAreFound == Spec => []StaleCodeHidesNothing
<1>1. Init => ItemLoop
  BY DEF Init, ItemLoop, StaleCodeHidesNothing, Done
<1>2. ItemLoop => StaleCodeHidesNothing
  BY DEF ItemLoop, StaleCodeHidesNothing
<1>. QED
  BY <1>1, <1>2, TypeCorrect, NextItemLoop, PTL DEF Spec

-----------------------------------------------------------------------------
(* Lists with counts                                                       *)

\* The variants that the loop has passed count nothing, and one that is asked
\* counts something.
CountLoop ==
  Counted /\ updates = 0 =>
    /\ pc \in {"count", "where"} => \A j \in Variants : j < at => CountOf(j) = 0
    /\ pc = "where" => CountOf(at) > 0
    /\ NotFoundIsTrue

\* For a list whose variants have counts, where a call may leave the program.
LEMMA CountMoves ==
  ASSUME TypeOK, Counted, req' = req, data' = data,
         \/ Fallback
         \/ Continue /\ \A j \in Variants : j <= at => CountOf(j) = 0
  PROVE  /\ pc' \in {"count", "done"}
         /\ pc' = "count" => \A j \in Variants : j < at' => CountOf(j) = 0
         /\ pc' = "done" /\ reply'.status = 404 => \A j \in Variants : CountOf(j) = 0
<1>1. req.table.n \in Nat \ {0} /\ at \in Variants /\ req.filter \in Filters
  BY RequestParts DEF TypeOK
<1>2. FirstCall = "count"
  BY DEF FirstCall
<1>3. \A s \in {400, 404, 500, 503} : Error(s).status = s
  BY ErrorParts
<1>4. CASE Fallback
  <2>1. \/ at' = 1 /\ pc' = "count"
        \/ pc' = "done" /\ reply'.status \in {400, 500}
    BY <1>2, <1>3, <1>4 DEF Fallback, Answer
  <2>. QED
    BY <2>1 DEF Variants
<1>5. CASE Continue /\ \A j \in Variants : j <= at => CountOf(j) = 0
  <2>1. CASE at < req.table.n
    <3>1. at' = at + 1 /\ pc' = "count"
      BY <1>1, <1>2, <1>5, <2>1 DEF Continue, Variants
    <3>. QED
      BY <1>1, <1>5, <3>1 DEF Variants
  <2>2. CASE at = req.table.n
    <3>1. pc' = "done"
      BY <1>1, <1>5, <2>2 DEF Continue, Answer, Variants
    <3>. QED
      BY <1>1, <1>5, <2>2, <3>1 DEF Variants
  <2>. QED
    BY <1>1, <2>1, <2>2 DEF Variants
<1>. QED
  BY <1>4, <1>5

\* Every step keeps CountLoop: only a count of 0 moves the loop on, a failed
\* call replies.
LEMMA NextCountLoop == TypeOK /\ CountLoop /\ [Next]_vars => CountLoop'
<1> SUFFICES ASSUME TypeOK, CountLoop, [Next]_vars, Counted', updates' = 0
             PROVE  /\ pc' \in {"count", "where"} =>
                         (\A j \in Variants : j < at => CountOf(j) = 0)'
                    /\ pc' = "where" => (CountOf(at) > 0)'
                    /\ NotFoundIsTrue'
  BY DEF CountLoop
<1>1. req' = req /\ ~Update /\ data' = data /\ updates = 0
  <2>1. ~Update
    BY DEF Update, TypeOK
  <2>. QED
    BY <2>1, StepsKeep
<1>2. Counted
  BY <1>1 DEF Counted, Limited, Shared
<1>3. /\ pc \in {"count", "where"} => \A j \in Variants : j < at => CountOf(j) = 0
      /\ pc = "where" => CountOf(at) > 0
      /\ NotFoundIsTrue
  BY <1>1, <1>2 DEF CountLoop
<1>4. at \in Variants /\ at \in Nat /\ CountOf(at) \in Nat /\ Found(at).rows \in SUBSET Nat
      /\ found.rows \in SUBSET Nat /\ total \in Nat
  BY ResultParts, RequestParts DEF TypeOK, Variants
<1>5. /\ Variants' = Variants
      /\ \A i : CountOf(i)' = CountOf(i)
      /\ \A i : Found(i)' = Found(i)
  BY <1>1 DEF Variants, CountOf, Found, Shared, Limited, OnPage
<1>6. ASSUME pc' = "done", reply'.status # 404
      PROVE  NotFoundIsTrue'
  BY <1>6 DEF NotFoundIsTrue
<1>7. ASSUME \/ Fallback
             \/ Continue /\ \A j \in Variants : j <= at => CountOf(j) = 0
      PROVE  /\ pc' \in {"count", "done"}
             /\ pc' = "count" => \A j \in Variants' : j < at' => CountOf(j)' = 0
             /\ NotFoundIsTrue'
  BY <1>1, <1>2, <1>5, <1>7, CountMoves DEF NotFoundIsTrue, Done
<1>8. CASE Fallback
  BY <1>5, <1>7, <1>8
<1>9. CASE Start
  <2>1. Fallback \/ Answer(Error(500)) \/ pc' = "hint where"
    BY <1>9 DEF Start
  <2>2. Answer(Error(500)) => pc' = "done" /\ reply'.status # 404
    BY ErrorParts DEF Answer
  <2>. QED
    BY <1>6, <1>8, <2>1, <2>2 DEF NotFoundIsTrue, Done
<1>10. CASE HintWhere
  <2>1. Fallback \/ pc' = "hint count"
    BY <1>2, <1>10 DEF HintWhere, Counted
  <2>. QED
    BY <1>8, <2>1 DEF NotFoundIsTrue, Done
<1>11. CASE HintCount
  <2>1. /\ pc' = "done"
        /\ reply' = Error(500) \/ reply' = Page(at, found.rows, CountOf(at))
    BY <1>11 DEF HintCount, Answer
  <2>2. reply'.status # 404
    BY <1>4, <2>1, ErrorParts, PageParts
  <2>. QED
    BY <1>6, <2>1, <2>2
<1>12. CASE TryWhere
  <2>1. /\ pc = "where" /\ pc' = "done"
        /\ \/ Found(at).rows = {}
           \/ reply'.status \in {200, 500}
    BY <1>2, <1>4, <1>12, ErrorParts, PageParts DEF TryWhere, Counted, Answer
  <2>2. CASE Found(at).rows = {}
    <3>1. req.table.n \in Nat
      BY RequestParts DEF TypeOK
    <3>2. \A j \in 1 .. at - 1 : j \in Variants /\ j < at
      BY <1>4, <3>1 DEF Variants
    <3>3. CountOf(at) > 0 /\ \A j \in 1 .. at - 1 : CountOf(j) = 0
      BY <1>3, <2>1, <3>2
    <3>. QED
      BY <1>4, <1>5, <2>1, <2>2, <3>3 DEF NotFoundIsTrue
  <2>. QED
    BY <1>6, <2>1, <2>2
<1>13. CASE TryCount
  <2>1. /\ \A j \in Variants : j < at => CountOf(j) = 0
        /\ \/ CountOf(at) > 0 /\ pc' = "where" /\ at' = at
           \/ ~(CountOf(at) > 0) /\ Continue
    BY <1>2, <1>3, <1>13 DEF TryCount, Counted
  <2>2. CASE CountOf(at) > 0 /\ pc' = "where" /\ at' = at
    BY <1>5, <2>1, <2>2 DEF NotFoundIsTrue, Done
  <2>3. CASE ~(CountOf(at) > 0) /\ Continue
    <3>1. \A j \in Variants : j <= at => j < at \/ j = at
      BY <1>4 DEF Variants
    <3>2. CountOf(at) = 0
      BY <1>4, <2>3
    <3>3. \A j \in Variants : j <= at => CountOf(j) = 0
      BY <2>1, <3>1, <3>2
    <3>. QED
      BY <1>5, <1>7, <2>3, <3>3
  <2>. QED
    BY <2>1, <2>2, <2>3
<1>14. CASE CallFails
  <2>1. Fallback \/ \E s \in {503, 400} : Answer(Error(s))
    BY <1>2, <1>14 DEF CallFails, CallRaises, Calling
  <2>2. ASSUME NEW s \in {503, 400}, Answer(Error(s))
        PROVE  pc' = "done" /\ reply'.status # 404
    BY <2>2, ErrorParts DEF Answer
  <2>. QED
    BY <1>6, <1>8, <2>1, <2>2
<1>15. CASE CountRejected
  <2>1. Fallback \/ Answer(Error(400))
    BY <1>15 DEF CountRejected
  <2>2. Answer(Error(400)) => pc' = "done" /\ reply'.status # 404
    BY ErrorParts DEF Answer
  <2>. QED
    BY <1>6, <1>8, <2>1, <2>2
<1>16. CASE UNCHANGED vars
  BY <1>3, <1>5, <1>16 DEF vars, NotFoundIsTrue, Done, Counted, Limited, Shared
<1>. QED
  BY <1>1, <1>9, <1>10, <1>11, <1>12, <1>13, <1>14, <1>15, <1>16 DEF Next, Handle

\* NotFoundIsTrue: a list whose variants have counts is a 404 only where every
\* count is 0 or the first variant with a count has nothing on the page,
\* however many calls failed on the way.
THEOREM MissingListsAreMissing == Spec => []NotFoundIsTrue
<1>1. Init => CountLoop
  BY DEF Init, CountLoop, NotFoundIsTrue, Done
<1>2. CountLoop => NotFoundIsTrue
  BY DEF CountLoop, NotFoundIsTrue
<1>. QED
  BY <1>1, <1>2, TypeCorrect, NextCountLoop, PTL DEF Spec

-----------------------------------------------------------------------------
(* The cached code is only a hint                                          *)

\* The variants that the loop has passed have nothing on the page; what was
\* found or counted last is what the variant asked has.
HintLoop ==
  Calm /\ OneModel =>
    /\ pc \in {"where", "count"} => \A j \in Variants : j < at => Found(j).rows = {}
    /\ pc = "where" /\ Counted => total = CountOf(at) /\ CountOf(at) > 0
    /\ pc = "hint count" \/ (pc = "count" /\ Shared) =>
         found = Found(at) /\ found.rows # {}
    /\ pc \in {"hint count", "count"} => Limited
    /\ CodeIsOnlyAHint

\* A variant that shows something gives the reply of a pilot without a code ...
LEMMA HitIsUncached ==
  ASSUME NEW i \in Variants, Found(i).rows # {}
  PROVE  /\ Limited => Page(i, Found(i).rows, CountOf(i)) \in Uncached
         /\ ~Limited => Item(i, Found(i).rows) \in Uncached
BY DEF Uncached

\* ... and a 404 is that reply when no variant shows anything.
LEMMA MissIsUncached ==
  ASSUME \A i \in Variants : Found(i).rows = {}
  PROVE  Error(404) \in Uncached
BY DEF Uncached

\* On data modelled in one way, a variant without a count shows nothing, and so
\* do all the others when one has a count.
LEMMA CountsTell ==
  ASSUME TypeOK, OneModel, NEW i \in Variants
  PROVE  /\ CountOf(i) = 0 => Found(i).rows = {}
         /\ Counted /\ CountOf(i) > 0 =>
              \A j \in Variants : j # i => Found(j).rows = {}
<1>1. \A j \in Variants : /\ CountOf(j) \in Nat
                          /\ Found(j).rows \subseteq data.results[j].shown
  BY ResultParts DEF TypeOK
<1>2. \A j \in Variants : data.results[j].shown # {} => CountOf(j) > 0
  BY DEF OneModel
<1>3. \A j \in Variants : CountOf(j) = 0 => Found(j).rows = {}
  BY <1>1, <1>2
<1>4. ASSUME Counted, CountOf(i) > 0, NEW j \in Variants, j # i
      PROVE  Found(j).rows = {}
  <2>1. ~(CountOf(j) > 0)
    BY <1>4 DEF OneModel, Counted
  <2>. QED
    BY <1>1, <1>3, <2>1
<1>. QED
  BY <1>3, <1>4

\* Where a call may leave the program, on data modelled in one way.
LEMMA HintMoves ==
  ASSUME TypeOK, req.filter = "none", req' = req, data' = data,
         \/ Fallback
         \/ Continue /\ \A j \in Variants : j <= at => Found(j).rows = {}
  PROVE  \/ /\ pc' = FirstCall
            /\ \A j \in Variants : j < at' => Found(j).rows = {}
         \/ pc' = "done" /\ reply' \in Uncached
<1>1. req.table.n \in Nat \ {0} /\ at \in Variants
  BY RequestParts DEF TypeOK
<1>2. CASE Fallback
  <2>1. at' = 1 /\ pc' = FirstCall
    BY <1>2 DEF Fallback
  <2>. QED
    BY <2>1 DEF Variants
<1>3. CASE Continue /\ \A j \in Variants : j <= at => Found(j).rows = {}
  <2>1. CASE at < req.table.n
    <3>1. at' = at + 1 /\ pc' = FirstCall
      BY <1>1, <1>3, <2>1 DEF Continue, Variants
    <3>2. \A j \in Variants : j < at + 1 => j <= at
      BY <1>1 DEF Variants
    <3>. QED
      BY <1>3, <3>1, <3>2
  <2>2. CASE at = req.table.n
    <3>1. pc' = "done" /\ reply' = Error(404)
      BY <1>1, <1>3, <2>2 DEF Continue, Answer, Variants
    <3>2. \A j \in Variants : Found(j).rows = {}
      BY <1>1, <1>3, <2>2 DEF Variants
    <3>. QED
      BY <3>1, <3>2, MissIsUncached
  <2>. QED
    BY <1>1, <2>1, <2>2 DEF Variants
<1>. QED
  BY <1>2, <1>3

\* Every step keeps HintLoop: a hint that finds nothing leaves the loop to start
\* at the first variant, as without a code.
LEMMA NextHintLoop == TypeOK /\ HintLoop /\ [Next]_vars => HintLoop'
<1> SUFFICES ASSUME TypeOK, HintLoop, [Next]_vars, Calm', OneModel'
             PROVE  HintLoop'
  BY DEF HintLoop
<1>1. req' = req /\ data' = data /\ Calm /\ ~CallFails /\ ~Update /\ ~CountRejected
  BY StepsKeep, CalmSteps
<1>2. /\ Variants' = Variants /\ Uncached' = Uncached /\ OneModel
      /\ \A i : CountOf(i)' = CountOf(i)
      /\ \A i : Found(i)' = Found(i)
      /\ Limited' = Limited /\ Shared' = Shared /\ Counted' = Counted
  BY <1>1 DEF Variants, CountOf, Found, Shared, Limited, OnPage, Counted, OneModel,
              Uncached, Page, Item, Error
<1>3. /\ pc \in {"where", "count"} => \A j \in Variants : j < at => Found(j).rows = {}
      /\ pc = "where" /\ Counted => total = CountOf(at) /\ CountOf(at) > 0
      /\ pc = "hint count" \/ (pc = "count" /\ Shared) =>
           found = Found(at) /\ found.rows # {}
      /\ pc \in {"hint count", "count"} => Limited
      /\ CodeIsOnlyAHint
  BY <1>1, <1>2 DEF HintLoop
<1>4. /\ at \in Variants /\ Found(at).odd = FALSE /\ CountOf(at) \in Nat
      /\ req.filter = "none"
  BY <1>1, ResultParts DEF TypeOK, Calm
<1>5. ASSUME pc' = "done", reply' \in Uncached
      PROVE  HintLoop'
  BY <1>2, <1>5 DEF HintLoop, CodeIsOnlyAHint
<1>6. ASSUME \A j \in Variants : j < at => Found(j).rows = {}, Found(at).rows = {}
      PROVE  \A j \in Variants : j <= at => Found(j).rows = {}
  <2>1. \A j \in Variants : j <= at => j < at \/ j = at
    BY <1>4, RequestParts DEF Variants, TypeOK
  <2>. QED
    BY <1>6, <2>1
<1>7. ASSUME \/ Fallback
             \/ Continue /\ \A j \in Variants : j <= at => Found(j).rows = {}
      PROVE  HintLoop'
  <2>1. \/ /\ pc' = FirstCall
           /\ \A j \in Variants : j < at' => Found(j).rows = {}
        \/ pc' = "done" /\ reply' \in Uncached
    BY <1>1, <1>4, <1>7, HintMoves
  <2>2. CASE /\ pc' = FirstCall
             /\ \A j \in Variants : j < at' => Found(j).rows = {}
    BY <1>2, <2>2 DEF HintLoop, CodeIsOnlyAHint, Done, FirstCall, Counted
  <2>. QED
    BY <1>5, <2>1, <2>2
<1>8. CASE Start
  <2>1. Fallback \/ pc' = "hint where"
    BY <1>4, <1>8 DEF Start
  <2>. QED
    BY <1>7, <2>1 DEF HintLoop, CodeIsOnlyAHint, Done
<1>9. CASE HintWhere
  <2>1. /\ found' = Found(at)
        /\ \/ Fallback
           \/ Limited /\ Found(at).rows # {} /\ pc' = "hint count" /\ at' = at
           \/ ~Limited /\ Found(at).rows # {} /\ Answer(Item(at, Found(at).rows))
    BY <1>4, <1>9 DEF HintWhere
  <2>2. CASE Limited /\ Found(at).rows # {} /\ pc' = "hint count" /\ at' = at
    BY <1>2, <2>1, <2>2 DEF HintLoop, CodeIsOnlyAHint, Done
  <2>3. CASE ~Limited /\ Found(at).rows # {} /\ Answer(Item(at, Found(at).rows))
    BY <1>4, <1>5, <2>3, HitIsUncached DEF Answer
  <2>. QED
    BY <1>7, <2>1, <2>2, <2>3
<1>10. CASE HintCount
  <2>1. found = Found(at) /\ Found(at).rows # {} /\ Limited
    BY <1>3, <1>10 DEF HintCount
  <2>2. pc' = "done" /\ reply' = Page(at, Found(at).rows, CountOf(at))
    BY <1>4, <1>10, <2>1 DEF HintCount, Answer
  <2>. QED
    BY <1>4, <1>5, <2>1, <2>2, HitIsUncached
<1>11. CASE TryWhere
  <2>1. \A j \in Variants : j < at => Found(j).rows = {}
    BY <1>3, <1>11 DEF TryWhere
  <2>2. CASE ~Limited
    <3>1. \/ Found(at).rows = {} /\ Continue
          \/ Found(at).rows # {} /\ Answer(Item(at, Found(at).rows))
      BY <1>4, <1>11, <2>2 DEF TryWhere, Counted
    <3>2. Found(at).rows # {} /\ Answer(Item(at, Found(at).rows)) => HintLoop'
      BY <1>4, <1>5, <2>2, HitIsUncached DEF Answer
    <3>. QED
      BY <1>6, <1>7, <2>1, <3>1, <3>2
  <2>3. CASE Limited /\ Shared
    <3>1. \/ Found(at).rows = {} /\ Continue
          \/ /\ Found(at).rows # {} /\ pc' = "count" /\ at' = at
             /\ found' = Found(at)
      BY <1>11, <2>3 DEF TryWhere, Counted
    <3>2. CASE /\ Found(at).rows # {} /\ pc' = "count" /\ at' = at
               /\ found' = Found(at)
      BY <1>2, <2>1, <2>3, <3>2 DEF HintLoop, CodeIsOnlyAHint, Done
    <3>. QED
      BY <1>6, <1>7, <2>1, <3>1, <3>2
  <2>4. CASE Counted
    <3>1. total = CountOf(at) /\ CountOf(at) > 0 /\ Limited
      BY <1>3, <1>11, <2>4 DEF TryWhere, Counted
    <3>2. /\ pc' = "done"
          /\ \/ Found(at).rows = {} /\ reply' = Error(404)
             \/ Found(at).rows # {} /\ reply' = Page(at, Found(at).rows, CountOf(at))
      BY <1>4, <1>11, <2>4, <3>1 DEF TryWhere, Counted, Answer
    <3>3. CASE Found(at).rows = {} /\ reply' = Error(404)
      <4>1. \A j \in Variants : Found(j).rows = {}
        BY <1>2, <1>4, <2>4, <3>1, <3>3, CountsTell
      <4>. QED
        BY <1>5, <3>2, <3>3, <4>1, MissIsUncached
    <3>4. CASE Found(at).rows # {} /\ reply' = Page(at, Found(at).rows, CountOf(at))
      BY <1>4, <1>5, <3>1, <3>2, <3>4, HitIsUncached
    <3>. QED
      BY <3>2, <3>3, <3>4
  <2>. QED
    BY <2>2, <2>3, <2>4 DEF Counted
<1>12. CASE TryCount
  <2>1. /\ \A j \in Variants : j < at => Found(j).rows = {}
        /\ pc = "count" /\ Limited
    BY <1>3, <1>12 DEF TryCount
  <2>2. CASE Shared
    <3>1. found = Found(at) /\ Found(at).rows # {}
      BY <1>3, <2>1, <2>2
    <3>2. pc' = "done" /\ reply' = Page(at, Found(at).rows, CountOf(at))
      BY <1>4, <1>12, <2>2, <3>1 DEF TryCount, Answer
    <3>. QED
      BY <1>4, <1>5, <2>1, <3>1, <3>2, HitIsUncached
  <2>3. CASE ~Shared
    <3>1. \/ /\ CountOf(at) > 0 /\ pc' = "where" /\ at' = at
             /\ total' = CountOf(at)
          \/ CountOf(at) = 0 /\ Continue
      BY <1>4, <1>12, <2>3 DEF TryCount
    <3>2. CASE /\ CountOf(at) > 0 /\ pc' = "where" /\ at' = at
               /\ total' = CountOf(at)
      BY <1>2, <2>1, <3>2 DEF HintLoop, CodeIsOnlyAHint, Done
    <3>3. CASE CountOf(at) = 0 /\ Continue
      <4>1. Found(at).rows = {}
        BY <1>2, <1>4, <3>3, CountsTell
      <4>. QED
        BY <1>6, <1>7, <2>1, <3>3, <4>1
    <3>. QED
      BY <3>1, <3>2, <3>3
  <2>. QED
    BY <2>2, <2>3
<1>13. CASE UNCHANGED vars
  <2>1. UNCHANGED <<pc, at, found, total, reply>>
    BY <1>13 DEF vars
  <2>2. CASE Done
    BY <1>1, <1>2, <1>3, <1>5, <2>1, <2>2 DEF CodeIsOnlyAHint, Done
  <2>3. CASE ~Done
    BY <1>2, <1>3, <2>1, <2>3 DEF HintLoop, CodeIsOnlyAHint, Done
  <2>. QED
    BY <2>2, <2>3
<1>. QED
  BY <1>1, <1>8, <1>9, <1>10, <1>11, <1>12, <1>13 DEF Next, Handle

\* CodeIsOnlyAHint: on data that is modelled in one way the reply is what a
\* pilot without a cached code would get, page, count and nextLink included.
THEOREM CodesChangeNothing == Spec => []CodeIsOnlyAHint
<1>1. Init => HintLoop
  BY DEF Init, HintLoop, CodeIsOnlyAHint, Done
<1>2. HintLoop => CodeIsOnlyAHint
  BY DEF HintLoop, CodeIsOnlyAHint
<1>. QED
  BY <1>1, <1>2, TypeCorrect, NextHintLoop, PTL DEF Spec
=============================================================================
