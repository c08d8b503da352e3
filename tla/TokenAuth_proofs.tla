-------------------------- MODULE TokenAuth_proofs --------------------------
(***************************************************************************)
(* Proofs about TokenAuth: for any threads, tokens, static keys, answers   *)
(* of the provider and losses of the cache.                                *)
(***************************************************************************)
EXTENDS TokenAuth, TLAPS

Vouched(kid, entry) == <<kid, entry.issuer, entry.key>> \in vouched

\* Whoever waits for the provider has one, and a thread without a request
\* holds nothing of the last one.
Waits ==
  \A t \in Threads :
    /\ pc[t] \in {"discover", "add"} => Provider # None
    /\ pc[t] = "idle" => found[t] = None /\ todo[t] = <<>>

\* Whatever the store holds, a thread found there, or is about to add, was
\* vouched for under its key id.
Kept ==
  /\ \A k \in Kids : cache[k] # None => Vouched(k, cache[k])
  /\ \A t \in Threads : found[t] # None => Vouched(token[t].kid, found[t])
  /\ \A t \in Threads : \A i \in DOMAIN todo[t] :
       Usable(todo[t][i]) => <<todo[t][i].kid, Provider, todo[t][i].key>> \in vouched
  /\ Provider # None => VouchedBy(published) \subseteq vouched
  /\ \A i \in 1 .. Len(Static) :
       <<Static[i].kid, Static[i].issuer, Static[i].key>> \in vouched

IInv == TypeOK /\ Waits /\ Kept /\ CookieWasChecked

-----------------------------------------------------------------------------
(* Parts of the types                                                      *)

LEMMA Bounds == MaxRequests \in Nat /\ MaxChanges \in Nat /\ MaxLosses \in Nat
BY ConstantsAssumption DEF ConstantsAssumption

LEMMA ProviderIsIssuer == Provider # None => Provider \in Issuers
BY ConstantsAssumption DEF ConstantsAssumption

LEMMA AnswerType ==
  ASSUME NEW answer \in Answers
  PROVE  /\ answer \in Seq(Definition)
         /\ \A i \in DOMAIN answer : answer[i] \in Definition
BY ConstantsAssumption DEF ConstantsAssumption

\* What an answer of the provider vouches for is made of key ids and keys.
LEMMA VouchedType ==
  ASSUME NEW answer \in Answers, Provider # None
  PROVE  VouchedBy(answer) \subseteq Kids \X Issuers \X Keys
<1>1. ASSUME NEW i \in DOMAIN answer, Usable(answer[i])
      PROVE  <<answer[i].kid, Provider, answer[i].key>> \in Kids \X Issuers \X Keys
  BY <1>1, AnswerType, ProviderIsIssuer DEF Definition, Usable
<1>. QED
  BY <1>1 DEF VouchedBy

LEMMA EntryType ==
  ASSUME NEW issuer \in Issuers, NEW key \in Keys, NEW forever \in BOOLEAN
  PROVE  /\ NewEntry(issuer, key, forever) \in Entry
         /\ NewEntry(issuer, key, forever).issuer = issuer
         /\ NewEntry(issuer, key, forever).key = key
BY DEF NewEntry, Entry

LEMMA NoneIsNoEntry == \A e \in Entry : e # None
BY ConstantsAssumption DEF ConstantsAssumption

LEMMA NoneIsNoToken == \A tok \in Tokens : tok # None /\ tok \in Token
BY ConstantsAssumption DEF ConstantsAssumption

LEMMA StaticType ==
  ASSUME NEW i \in 1 .. Len(Static)
  PROVE  /\ Static[i] \in StaticKey
         /\ Static[i].kid \in Kids /\ Static[i].issuer \in Issuers /\ Static[i].key \in Keys
<1>1. Static[i] \in StaticKey
  BY ConstantsAssumption DEF ConstantsAssumption
<1>. QED
  BY <1>1 DEF StaticKey

\* The end of a request frees the thread, and keeps the types if its outcome is
\* a reply.
LEMMA EndParts ==
  ASSUME TypeOK, NEW t \in Threads, NEW outcome \in Replies, End(t, outcome),
         pc[t] # "idle"
  PROVE  /\ pc' = [pc EXCEPT ![t] = "idle"]
         /\ token' = [token EXCEPT ![t] = None]
         /\ found' = [found EXCEPT ![t] = None]
         /\ todo' = [todo EXCEPT ![t] = <<>>]
         /\ via' \in [Threads -> Entries]
         /\ excused' \subseteq Threads
         /\ reply' = outcome
         /\ jar' \in Tokens \cup {None}
         /\ jar' = jar \/ (outcome = "claims" /\ jar' = token[t])
<1>1. token[t] \in Tokens
  BY DEF TypeOK
<1>2. "api" \in Entries
  BY DEF Entries
<1>. QED
  BY <1>1, <1>2 DEF End, Forget, Goto, TypeOK

\* The part of the type that is about the threads.
ThreadsTyped ==
  /\ pc \in [Threads -> Steps]
  /\ token \in [Threads -> Tokens \cup {None}]
  /\ \A t \in Threads : pc[t] # "idle" => token[t] # None /\ token[t].kid \in Kids
  /\ via \in [Threads -> Entries]
  /\ found \in [Threads -> Entry \cup {None}]
  /\ \A t \in Threads : pc[t] = "decode" => found[t] # None
  /\ todo \in [Threads -> Seq(Definition)]

LEMMA ThreadsStayTyped ==
  ASSUME TypeOK, pc' = pc, token' = token, found' = found, todo' = todo, via' = via
  PROVE  ThreadsTyped'
BY DEF TypeOK, ThreadsTyped

-----------------------------------------------------------------------------
(* The invariant                                                           *)

LEMMA InitIInv == Init => IInv
<1>. SUFFICES ASSUME Init PROVE IInv
  OBVIOUS
<1>1. vouched \subseteq Kids \X Issuers \X Keys
  <2>1. {<<Static[i].kid, Static[i].issuer, Static[i].key>> : i \in DOMAIN Static}
          \subseteq Kids \X Issuers \X Keys
    BY StaticType, ConstantsAssumption DEF ConstantsAssumption
  <2>2. published \in Answers
    BY DEF Init
  <2>. QED
    BY <2>1, <2>2, VouchedType DEF Init
<1>2. TypeOK
  BY <1>1, ConstantsAssumption DEF Init, TypeOK, ConstantsAssumption, Steps, Entries, Replies
<1>3. Waits /\ CookieWasChecked
  BY DEF Init, Waits, CookieWasChecked
<1>4. Kept
  <2>1. Provider # None => VouchedBy(published) \subseteq vouched
    BY DEF Init
  <2>2. \A i \in 1 .. Len(Static) :
          <<Static[i].kid, Static[i].issuer, Static[i].key>> \in vouched
    <3>1. DOMAIN Static = 1 .. Len(Static)
      BY ConstantsAssumption DEF ConstantsAssumption
    <3>. QED
      BY <3>1 DEF Init
  <2>3. \A t \in Threads : found[t] = None /\ todo[t] = <<>>
    BY DEF Init
  <2>4. \A k \in Kids : cache[k] = None
    BY DEF Init
  <2>. QED
    BY <2>1, <2>2, <2>3, <2>4 DEF Kept
<1>. QED
  BY <1>2, <1>3, <1>4 DEF IInv

\* A step that ends the request of a thread, and leaves the store alone.
LEMMA EndKeepsIInv ==
  ASSUME IInv, NEW t \in Threads, NEW outcome \in Replies, End(t, outcome),
         pc[t] # "idle",
         outcome = "claims" => pc[t] = "decode" /\ Accepts(t),
         UNCHANGED <<started, cache, published, vouched, counts>>
  PROVE  IInv'
<1>0. TypeOK /\ Waits /\ Kept /\ CookieWasChecked
  BY DEF IInv
<1>1. /\ pc' = [pc EXCEPT ![t] = "idle"]
      /\ token' = [token EXCEPT ![t] = None]
      /\ found' = [found EXCEPT ![t] = None]
      /\ todo' = [todo EXCEPT ![t] = <<>>]
      /\ via' \in [Threads -> Entries]
      /\ excused' \subseteq Threads
      /\ reply' = outcome
      /\ jar' \in Tokens \cup {None}
      /\ jar' = jar \/ (outcome = "claims" /\ jar' = token[t])
  BY <1>0, EndParts
<1>2. TypeOK'
  <2>1. pc' \in [Threads -> Steps] /\ reply' \in Replies
    BY <1>0, <1>1 DEF TypeOK, Steps
  <2>2. /\ token' \in [Threads -> Tokens \cup {None}]
        /\ found' \in [Threads -> Entry \cup {None}]
    BY <1>0, <1>1 DEF TypeOK
  <2>3. todo' \in [Threads -> Seq(Definition)]
    BY <1>0, <1>1 DEF TypeOK
  <2>4. \A u \in Threads : pc'[u] # "idle" =>
          /\ token'[u] # None /\ token'[u].kid \in Kids
          /\ pc'[u] = "decode" => found'[u] # None
    BY <1>0, <1>1 DEF TypeOK
  <2>. QED
    BY <1>0, <1>1, <2>1, <2>2, <2>3, <2>4 DEF TypeOK, counts
<1>3. Waits'
  BY <1>0, <1>1 DEF Waits, TypeOK
<1>4. Kept'
  BY <1>0, <1>1 DEF Kept, TypeOK, Vouched
<1>5. CookieWasChecked'
  <2>1. CASE jar' = jar
    BY <1>0, <2>1 DEF CookieWasChecked
  <2>2. CASE outcome = "claims" /\ jar' = token[t]
    <3>1. found[t] # None /\ Accepts(t)
      BY <1>0, <2>2 DEF TypeOK
    <3>. QED
      BY <1>0, <2>2, <3>1 DEF CookieWasChecked, Kept, Accepts, Vouched
  <2>. QED
    BY <1>1, <2>1, <2>2
<1>. QED
  BY <1>2, <1>3, <1>4, <1>5 DEF IInv

\* A step that sends a thread on with what it found in the cache.
LEMMA FoundKeepsIInv ==
  ASSUME IInv, NEW t \in Threads, pc[t] # "idle",
         found' = [found EXCEPT ![t] = cache[token[t].kid]],
         NEW step \in {"discover", "decode"}, Goto(t, step),
         step = "discover" => Provider # None,
         step = "decode" => cache[token[t].kid] # None,
         reply' = "none",
         UNCHANGED <<token, via, todo, jar, excused>>,
         UNCHANGED <<started, cache, published, vouched, counts>>
  PROVE  IInv'
<1>0. TypeOK /\ Waits /\ Kept /\ CookieWasChecked
  BY DEF IInv
<1>1. token[t].kid \in Kids
  BY <1>0 DEF TypeOK
<1>2. TypeOK'
  BY <1>0, <1>1 DEF TypeOK, Steps, counts, Goto, Replies
<1>3. Waits'
  BY <1>0 DEF Waits, TypeOK, Goto
<1>4. Kept'
  BY <1>0, <1>1 DEF Kept, TypeOK, Vouched
<1>5. CookieWasChecked'
  BY <1>0 DEF CookieWasChecked
<1>. QED
  BY <1>2, <1>3, <1>4, <1>5 DEF IInv

\* A step that changes the entry of one key id to none, or to one vouched for.
LEMMA CacheKeepsIInv ==
  ASSUME IInv, NEW k \in Kids, NEW entry \in Entry \cup {None},
         entry # None => Vouched(k, entry),
         cache' = [cache EXCEPT ![k] = entry],
         started' \in 0 .. Len(Static),
         reply' \in Replies, excused' \subseteq Threads, losses' \in 0 .. MaxLosses,
         UNCHANGED <<published, jar, local, vouched, requests, changes>>
  PROVE  IInv'
<1>0. TypeOK /\ Waits /\ Kept /\ CookieWasChecked
  BY DEF IInv
<1>1. TypeOK'
  <2>1. cache' \in [Kids -> Entry \cup {None}]
    BY <1>0 DEF TypeOK
  <2>2. /\ pc' = pc /\ token' = token /\ found' = found /\ todo' = todo /\ via' = via
        /\ UNCHANGED <<published, jar, vouched, requests, changes>>
    BY DEF local
  <2>3. ThreadsTyped'
    BY <1>0, <2>2, ThreadsStayTyped
  <2>. QED
    BY <1>0, <2>1, <2>2, <2>3 DEF TypeOK, ThreadsTyped
<1>2. Waits' /\ CookieWasChecked'
  BY <1>0 DEF Waits, CookieWasChecked, local
<1>3. Kept'
  <2>1. \A j \in Kids : cache'[j] # None => Vouched(j, cache[j])'
    BY <1>0 DEF Kept, Vouched, TypeOK
  <2>. QED
    BY <1>0, <2>1 DEF Kept, Vouched, local
<1>. QED
  BY <1>1, <1>2, <1>3 DEF IInv

LEMMA StartKeepsIInv == IInv /\ Start => IInv'
<1>. SUFFICES ASSUME IInv, Start PROVE IInv'
  OBVIOUS
<1>0. TypeOK /\ Kept
  BY DEF IInv
<1>. DEFINE s == Static[started + 1]
            entry == NewEntry(s.issuer, s.key, TRUE)
<1>1. started + 1 \in 1 .. Len(Static)
  BY <1>0 DEF Start, TypeOK
<1>2. s.kid \in Kids /\ entry \in Entry /\ entry.issuer = s.issuer /\ entry.key = s.key
  BY <1>1, StaticType, EntryType
<1>3. Vouched(s.kid, entry)
  BY <1>0, <1>1, <1>2 DEF Kept, Vouched
<1>4. /\ cache' = [cache EXCEPT ![s.kid] = entry]
      /\ started' \in 0 .. Len(Static)
      /\ reply' \in Replies /\ excused' \subseteq Threads /\ losses' \in 0 .. MaxLosses
      /\ UNCHANGED <<published, jar, local, vouched, requests, changes>>
  BY <1>0, <1>1 DEF Start, TypeOK, counts
<1>. HIDE DEF s, entry
<1>. QED
  BY <1>2, <1>3, <1>4, CacheKeepsIInv

LEMMA LoseKeepsIInv ==
  ASSUME IInv, NEW k \in Kids, Expire(k) \/ Evict(k)
  PROVE  IInv'
<1>0. TypeOK
  BY DEF IInv
<1>1. Lose(k)
  BY DEF Expire, Evict
<1>2. /\ cache' = [cache EXCEPT ![k] = None]
      /\ started' \in 0 .. Len(Static)
      /\ reply' \in Replies /\ excused' \subseteq Threads
      /\ UNCHANGED <<published, jar, local, vouched, requests, changes>>
  BY <1>0, <1>1 DEF Lose, TypeOK, Replies
<1>3. losses' \in 0 .. MaxLosses
  BY <1>0, <1>1, Bounds DEF Lose, TypeOK
<1>. QED
  BY <1>2, <1>3, CacheKeepsIInv

LEMMA ReceiveKeepsIInv ==
  ASSUME IInv, NEW t \in Threads, Receive(t)
  PROVE  IInv'
<1>0. TypeOK /\ Waits /\ Kept /\ CookieWasChecked
  BY DEF IInv
<1>1. /\ pc[t] = "idle"
      /\ requests' \in 0 .. MaxRequests
      /\ UNCHANGED <<started, cache, published, jar, found, todo, vouched, excused, changes, losses>>
  BY <1>0, Bounds DEF Receive, TypeOK
<1>2. \/ \E outcome \in {"refused", "anonymous"} : Turned(outcome)
      \/ \E tok \in Tokens, entry \in Entries : Given(t, tok, entry)
  BY <1>0 DEF Receive, Getters, Entries, TypeOK
<1>3. CASE \E outcome \in {"refused", "anonymous"} : Turned(outcome)
  <2>1. reply' \in Replies /\ UNCHANGED <<pc, token, via>>
    BY <1>3 DEF Turned, Replies
  <2>2. TypeOK'
    BY <1>0, <1>1, <2>1 DEF TypeOK
  <2>3. Waits' /\ Kept' /\ CookieWasChecked'
    BY <1>0, <1>1, <2>1 DEF Waits, Kept, CookieWasChecked, Vouched
  <2>. QED
    BY <2>2, <2>3 DEF IInv
<1>4. ASSUME NEW tok \in Tokens, NEW entry \in Entries, Given(t, tok, entry)
      PROVE  IInv'
  <2>1. CASE tok.kid = None
    <3>1. reply' \in Replies /\ UNCHANGED <<pc, token, via>>
      BY <1>4, <2>1 DEF Given, Turned, Replies
    <3>2. TypeOK'
      BY <1>0, <1>1, <3>1 DEF TypeOK
    <3>3. Waits' /\ Kept' /\ CookieWasChecked'
      BY <1>0, <1>1, <3>1 DEF Waits, Kept, CookieWasChecked, Vouched
    <3>. QED
      BY <3>2, <3>3 DEF IInv
  <2>2. CASE tok.kid # None
    <3>1. /\ pc' = [pc EXCEPT ![t] = "look"]
          /\ token' = [token EXCEPT ![t] = tok]
          /\ via' = [via EXCEPT ![t] = entry]
          /\ reply' = "none"
      BY <1>4, <2>2 DEF Given, Goto
    <3>2. tok # None /\ tok.kid \in Kids
      BY <2>2, NoneIsNoToken DEF Token
    <3>3. TypeOK'
      <4>1. pc' \in [Threads -> Steps] /\ reply' \in Replies
        BY <1>0, <3>1 DEF TypeOK, Steps, Replies
      <4>2. token' \in [Threads -> Tokens \cup {None}] /\ via' \in [Threads -> Entries]
        BY <1>0, <3>1 DEF TypeOK
      <4>3. \A u \in Threads : pc'[u] # "idle" => token'[u] # None /\ token'[u].kid \in Kids
        BY <1>0, <3>1, <3>2 DEF TypeOK
      <4>4. \A u \in Threads : pc'[u] = "decode" => found'[u] # None
        BY <1>0, <1>1, <3>1 DEF TypeOK
      <4>. QED
        BY <1>0, <1>1, <4>1, <4>2, <4>3, <4>4 DEF TypeOK
    <3>4. Waits' /\ CookieWasChecked'
      BY <1>0, <1>1, <3>1 DEF Waits, CookieWasChecked, TypeOK
    <3>5. Kept'
      BY <1>0, <1>1, <3>1 DEF Kept, Waits, Vouched, TypeOK
    <3>. QED
      BY <3>3, <3>4, <3>5 DEF IInv
  <2>. QED
    BY <2>1, <2>2
<1>. QED
  BY <1>2, <1>3, <1>4

LEMMA FlushKeepsIInv == IInv /\ Flush => IInv'
<1>. SUFFICES ASSUME IInv, Flush PROVE IInv'
  OBVIOUS
<1>0. TypeOK /\ Waits /\ Kept /\ CookieWasChecked
  BY DEF IInv
<1>b. requests' \in 0 .. MaxRequests
  BY <1>0, Bounds DEF Flush, TypeOK
<1>1. /\ requests' \in 0 .. MaxRequests /\ jar' = None /\ reply' \in Replies
      /\ pc' = pc /\ token' = token /\ found' = found /\ todo' = todo /\ via' = via
      /\ UNCHANGED <<started, cache, published, vouched, excused, changes, losses>>
  BY <1>b DEF Flush, local, Replies
<1>2. TypeOK'
  <2>1. ThreadsTyped'
    BY <1>0, <1>1, ThreadsStayTyped
  <2>. QED
    BY <1>0, <1>1, <2>1 DEF TypeOK, ThreadsTyped
<1>3. Waits' /\ Kept' /\ CookieWasChecked'
  BY <1>0, <1>1 DEF Waits, Kept, CookieWasChecked, Vouched
<1>. QED
  BY <1>2, <1>3 DEF IInv

LEMMA RotateKeepsIInv == IInv /\ Rotate => IInv'
<1>. SUFFICES ASSUME IInv, Rotate PROVE IInv'
  OBVIOUS
<1>0. TypeOK /\ Waits /\ Kept /\ CookieWasChecked
  BY DEF IInv
<1>b. changes' \in 0 .. MaxChanges
  BY <1>0, Bounds DEF Rotate, TypeOK
<1>e. excused' \subseteq Threads
  BY <1>0 DEF Rotate, TypeOK
<1>1. /\ Provider # None /\ published' \in Answers
      /\ vouched' = vouched \cup VouchedBy(published')
      /\ changes' \in 0 .. MaxChanges /\ reply' \in Replies /\ excused' \subseteq Threads
      /\ pc' = pc /\ token' = token /\ found' = found /\ todo' = todo /\ via' = via
      /\ UNCHANGED <<started, cache, jar, requests, losses>>
  BY <1>b, <1>e DEF Rotate, local, Replies
<1>2. vouched' \subseteq Kids \X Issuers \X Keys
  BY <1>0, <1>1, VouchedType DEF TypeOK
<1>3. TypeOK'
  <2>1. ThreadsTyped'
    BY <1>0, <1>1, ThreadsStayTyped
  <2>. QED
    BY <1>0, <1>1, <1>2, <2>1 DEF TypeOK, ThreadsTyped
<1>4. Waits' /\ CookieWasChecked'
  BY <1>0, <1>1 DEF Waits, CookieWasChecked
<1>5. vouched \subseteq vouched' /\ VouchedBy(published)' \subseteq vouched'
  BY <1>1 DEF VouchedBy
<1>6. Kept'
  <2>1. \A k \in Kids : cache'[k] # None => Vouched(k, cache[k])'
    BY <1>0, <1>1, <1>5 DEF Kept, Vouched
  <2>2. \A t \in Threads : found'[t] # None => Vouched(token[t].kid, found[t])'
    BY <1>0, <1>1, <1>5 DEF Kept, Vouched
  <2>. QED
    BY <1>0, <1>1, <1>5, <2>1, <2>2 DEF Kept
<1>. QED
  BY <1>3, <1>4, <1>6 DEF IInv

LEMMA DiscoverKeepsIInv ==
  ASSUME IInv, NEW t \in Threads, Discover(t)
  PROVE  IInv'
<1>0. TypeOK /\ Waits /\ Kept /\ CookieWasChecked
  BY DEF IInv
<1>1. /\ pc[t] = "discover" /\ pc' = [pc EXCEPT ![t] = "add"]
      /\ todo' = [todo EXCEPT ![t] = published] /\ reply' = "none"
      /\ UNCHANGED <<started, cache, published, jar, token, via, found, vouched, excused,
                     requests, changes, losses>>
  BY DEF Discover, Goto, counts
<1>2. Provider # None /\ published \in Seq(Definition)
  BY <1>0, <1>1, AnswerType DEF Waits, TypeOK
<1>3. TypeOK'
  <2>1. pc' \in [Threads -> Steps] /\ reply' \in Replies
    BY <1>0, <1>1 DEF TypeOK, Steps, Replies
  <2>2. todo' \in [Threads -> Seq(Definition)]
    BY <1>0, <1>1, <1>2 DEF TypeOK
  <2>3. \A u \in Threads :
          /\ pc'[u] # "idle" => token'[u] # None /\ token'[u].kid \in Kids
          /\ pc'[u] = "decode" => found'[u] # None
    BY <1>0, <1>1 DEF TypeOK
  <2>. QED
    BY <1>0, <1>1, <2>1, <2>2, <2>3 DEF TypeOK
<1>4. Waits' /\ CookieWasChecked'
  BY <1>0, <1>1, <1>2 DEF Waits, CookieWasChecked, TypeOK
<1>5. Kept'
  <2>1. \A i \in DOMAIN published :
          Usable(published[i]) => <<published[i].kid, Provider, published[i].key>> \in vouched
    BY <1>0, <1>2 DEF Kept, VouchedBy
  <2>2. \A u \in Threads : \A i \in DOMAIN todo'[u] :
          Usable(todo'[u][i]) => <<todo'[u][i].kid, Provider, todo'[u][i].key>> \in vouched
    BY <1>0, <1>1, <2>1 DEF Kept, TypeOK
  <2>. QED
    BY <1>0, <1>1, <2>2 DEF Kept, Vouched
<1>. QED
  BY <1>3, <1>4, <1>5 DEF IInv

LEMMA DiscoveryFailsKeepsIInv ==
  ASSUME IInv, NEW t \in Threads, DiscoveryFails(t)
  PROVE  IInv'
<1>0. TypeOK /\ Waits /\ Kept /\ CookieWasChecked
  BY DEF IInv
<1>a. losses < MaxLosses /\ losses' = losses + 1
  BY DEF DiscoveryFails
<1>b. losses' \in 0 .. MaxLosses
  <2>1. losses \in 0 .. MaxLosses
    BY <1>0 DEF TypeOK
  <2>. QED
    BY <1>a, <2>1, Bounds
<1>e. excused' \subseteq Threads
  BY <1>0 DEF DiscoveryFails, TypeOK
<1>1. /\ pc[t] = "discover" /\ pc' = [pc EXCEPT ![t] = "look again"]
      /\ reply' = "none" /\ excused' \subseteq Threads /\ losses' \in 0 .. MaxLosses
      /\ UNCHANGED <<started, cache, published, jar, token, via, found, todo, vouched,
                     requests, changes>>
  BY <1>b, <1>e DEF DiscoveryFails, Goto
<1>2. TypeOK'
  <2>1. pc' \in [Threads -> Steps] /\ reply' \in Replies
    BY <1>0, <1>1 DEF TypeOK, Steps, Replies
  <2>2. \A u \in Threads :
          /\ pc'[u] # "idle" => token'[u] # None /\ token'[u].kid \in Kids
          /\ pc'[u] = "decode" => found'[u] # None
    BY <1>0, <1>1 DEF TypeOK
  <2>. QED
    BY <1>0, <1>1, <2>1, <2>2 DEF TypeOK
<1>3. Waits' /\ Kept' /\ CookieWasChecked'
  BY <1>0, <1>1 DEF Waits, Kept, CookieWasChecked, Vouched, TypeOK
<1>. QED
  BY <1>2, <1>3 DEF IInv

LEMMA AddKeepsIInv ==
  ASSUME IInv, NEW t \in Threads, Add(t)
  PROVE  IInv'
<1>0. TypeOK /\ Waits /\ Kept /\ CookieWasChecked
  BY DEF IInv
<1>1. /\ pc[t] = "add" /\ reply' = "none"
      /\ UNCHANGED <<started, published, jar, token, via, found, vouched, excused,
                     requests, changes, losses>>
  BY DEF Add, counts
<1>2. CASE todo[t] = <<>>
  <2>1. pc' = [pc EXCEPT ![t] = "look again"] /\ UNCHANGED <<cache, todo>>
    BY <1>2 DEF Add, Goto
  <2>2. TypeOK'
    <3>1. pc' \in [Threads -> Steps] /\ reply' \in Replies
      BY <1>0, <1>1, <2>1 DEF TypeOK, Steps, Replies
    <3>2. \A u \in Threads :
            /\ pc'[u] # "idle" => token'[u] # None /\ token'[u].kid \in Kids
            /\ pc'[u] = "decode" => found'[u] # None
      BY <1>0, <1>1, <2>1 DEF TypeOK
    <3>. QED
      BY <1>0, <1>1, <2>1, <3>1, <3>2 DEF TypeOK
  <2>3. Waits' /\ Kept' /\ CookieWasChecked'
    BY <1>0, <1>1, <2>1 DEF Waits, Kept, CookieWasChecked, Vouched, TypeOK
  <2>. QED
    BY <2>2, <2>3 DEF IInv
<1>3. CASE todo[t] # <<>>
  <2>. DEFINE d == Head(todo[t])
  <2>1. /\ todo' = [todo EXCEPT ![t] = Tail(todo[t])]
        /\ cache' = Added(t, d)
        /\ pc' = pc
    BY <1>3 DEF Add
  <2>2. todo[t] \in Seq(Definition)
    BY <1>0 DEF TypeOK
  <2>3. /\ Tail(todo[t]) \in Seq(Definition)
        /\ d = todo[t][1] /\ 1 \in DOMAIN todo[t]
        /\ \A i \in DOMAIN Tail(todo[t]) : i + 1 \in DOMAIN todo[t] /\ Tail(todo[t])[i] = todo[t][i + 1]
    BY <1>3, <2>2
  <2>4. d \in Definition
    BY <2>2, <2>3
  <2>5. Usable(d) => /\ d.kid \in Kids /\ d.key \in Keys /\ Provider \in Issuers
                     /\ <<d.kid, Provider, d.key>> \in vouched
    BY <1>0, <1>1, <2>3, <2>4, ProviderIsIssuer DEF Usable, Definition, Kept, Waits
  <2>6. /\ cache' \in [Kids -> Entry \cup {None}]
        /\ \A k \in Kids : cache'[k] # None => Vouched(k, cache'[k])
    <3>1. CASE ~Usable(d)
      BY <1>0, <2>1, <3>1 DEF Added, TypeOK, Kept
    <3>2. CASE Usable(d)
      <4>. DEFINE e == NewEntry(Provider, d.key, FALSE)
      <4>1. e \in Entry /\ e.issuer = Provider /\ e.key = d.key
        BY <2>5, <3>2, EntryType
      <4>2. Vouched(d.kid, e)
        BY <2>5, <3>2, <4>1 DEF Vouched
      <4>3. cache' = [cache EXCEPT ![d.kid] = e]
        BY <2>1, <3>2 DEF Added
      <4>. HIDE DEF e
      <4>. QED
        BY <1>0, <4>1, <4>2, <4>3 DEF TypeOK, Kept
    <3>. QED
      BY <3>1, <3>2
  <2>7. todo' \in [Threads -> Seq(Definition)]
    BY <1>0, <2>1, <2>3 DEF TypeOK
  <2>8. \A u \in Threads : \A i \in DOMAIN todo'[u] :
          Usable(todo'[u][i]) => <<todo'[u][i].kid, Provider, todo'[u][i].key>> \in vouched
    <3>. SUFFICES ASSUME NEW u \in Threads, NEW i \in DOMAIN todo'[u], Usable(todo'[u][i])
                  PROVE  <<todo'[u][i].kid, Provider, todo'[u][i].key>> \in vouched
      OBVIOUS
    <3>1. CASE u = t
      <4>1. todo'[u] = Tail(todo[t])
        BY <1>0, <2>1, <3>1 DEF TypeOK
      <4>2. todo'[u][i] = todo[t][i + 1] /\ i + 1 \in DOMAIN todo[t]
        BY <2>3, <4>1
      <4>. QED
        BY <1>0, <4>2 DEF Kept
    <3>2. CASE u # t
      BY <1>0, <2>1, <3>2 DEF Kept, TypeOK
    <3>. QED
      BY <3>1, <3>2
  <2>. HIDE DEF d
  <2>9. TypeOK' /\ Waits' /\ CookieWasChecked'
    <3>1. reply' \in Replies
      BY <1>1 DEF Replies
    <3>2. TypeOK'
      BY <1>0, <1>1, <2>1, <2>6, <2>7, <3>1 DEF TypeOK
    <3>3. Waits' /\ CookieWasChecked'
      BY <1>0, <1>1, <2>1 DEF Waits, CookieWasChecked, TypeOK
    <3>. QED
      BY <3>2, <3>3
  <2>10. Kept'
    BY <1>0, <1>1, <2>6, <2>8 DEF Kept, Vouched
  <2>. QED
    BY <2>9, <2>10 DEF IInv
<1>. QED
  BY <1>2, <1>3

LEMMA HandleKeepsIInv ==
  ASSUME IInv, NEW t \in Threads, Handle(t)
  PROVE  IInv'
<1>1. CASE Look(t)
  <2>1. /\ pc[t] # "idle"
        /\ UNCHANGED <<started, cache, published, vouched, counts>>
    BY <1>1 DEF Look
  <2>2. CASE End(t, "unknown key")
    BY <2>1, <2>2, EndKeepsIInv DEF Replies
  <2>3. CASE ~End(t, "unknown key")
    <3>. DEFINE step == IF cache[token[t].kid] = None THEN "discover" ELSE "decode"
    <3>1. /\ cache[token[t].kid] # None \/ Provider # None
          /\ found' = [found EXCEPT ![t] = cache[token[t].kid]]
          /\ Goto(t, step) /\ reply' = "none"
          /\ UNCHANGED <<token, via, todo, jar, excused>>
      BY <1>1, <2>3 DEF Look
    <3>2. /\ step \in {"discover", "decode"}
          /\ step = "discover" => Provider # None
          /\ step = "decode" => cache[token[t].kid] # None
      BY <3>1
    <3>. HIDE DEF step
    <3>. QED
      BY <2>1, <3>1, <3>2, FoundKeepsIInv
  <2>. QED
    BY <2>2, <2>3
<1>2. CASE Discover(t)
  BY <1>2, DiscoverKeepsIInv
<1>3. CASE Add(t)
  BY <1>3, AddKeepsIInv
<1>4. CASE LookAgain(t)
  <2>1. /\ pc[t] # "idle"
        /\ UNCHANGED <<started, cache, published, vouched, counts>>
    BY <1>4 DEF LookAgain
  <2>2. CASE End(t, "unknown key")
    BY <2>1, <2>2, EndKeepsIInv DEF Replies
  <2>3. CASE ~End(t, "unknown key")
    BY <1>4, <2>1, <2>3, FoundKeepsIInv DEF LookAgain
  <2>. QED
    BY <2>2, <2>3
<1>5. CASE Decode(t)
  <2>. DEFINE outcome == IF Accepts(t) THEN "claims" ELSE "refused"
  <2>1. /\ pc[t] = "decode" /\ End(t, outcome)
        /\ UNCHANGED <<started, cache, published, vouched, counts>>
    BY <1>5 DEF Decode
  <2>2. outcome \in Replies /\ (outcome = "claims" => Accepts(t))
    BY DEF Replies
  <2>. HIDE DEF outcome
  <2>. QED
    BY <2>1, <2>2, EndKeepsIInv
<1>. QED
  BY <1>1, <1>2, <1>3, <1>4, <1>5 DEF Handle

LEMMA StepKeepsIInv == IInv /\ [Next]_vars => IInv'
<1>. SUFFICES ASSUME IInv, [Next]_vars PROVE IInv'
  OBVIOUS
<1>1. CASE Start
  BY <1>1, StartKeepsIInv
<1>2. CASE \E t \in Threads : Receive(t) \/ Handle(t) \/ DiscoveryFails(t)
  BY <1>2, ReceiveKeepsIInv, HandleKeepsIInv, DiscoveryFailsKeepsIInv
<1>3. CASE Flush \/ Rotate
  BY <1>3, FlushKeepsIInv, RotateKeepsIInv
<1>4. CASE \E k \in Kids : Expire(k) \/ Evict(k)
  BY <1>4, LoseKeepsIInv
<1>5. CASE UNCHANGED vars
  BY <1>5 DEF vars, local, counts, IInv, TypeOK, Waits, Kept, CookieWasChecked, Vouched
<1>. QED
  BY <1>1, <1>2, <1>3, <1>4, <1>5 DEF Next

THEOREM Invariance == Spec => []IInv
<1>. QED
  BY InitIInv, StepKeepsIInv, PTL DEF Spec

-----------------------------------------------------------------------------
\* The variables of TokenAuth keep their types, and a thread that decodes has a
\* key.
THEOREM TypeCorrect == Spec => []TypeOK
<1>1. IInv => TypeOK
  BY DEF IInv
<1>. QED
  BY <1>1, Invariance, PTL

\* A cookie holds a token that was in order, with a key vouched for, when it was
\* put there by CookiefyTokenView.
THEOREM CookiesWereChecked == Spec => []CookieWasChecked
<1>1. IInv => CookieWasChecked
  BY DEF IInv
<1>. QED
  BY <1>1, Invariance, PTL

\* TokenHandler.decode returns claims only for a key that the token's own issuer
\* vouched for under the token's key id, however threads share the store.
THEOREM ClaimsStayVouched == Spec => ClaimsAreVouched
<1>. DEFINE Right == \A t \in Threads :
                       pc[t] # "idle" /\ pc'[t] = "idle" /\ reply' = "claims" =>
                         <<token[t].kid, token[t].issuer, token[t].key>> \in vouched
<1>1. IInv /\ [Next]_vars => Right
  <2>. SUFFICES ASSUME IInv, [Next]_vars, NEW t \in Threads,
                       pc[t] # "idle", pc'[t] = "idle", reply' = "claims"
                PROVE  <<token[t].kid, token[t].issuer, token[t].key>> \in vouched
    OBVIOUS
  <2>0. TypeOK /\ Kept
    BY DEF IInv
  <2>1. PICK u \in Threads : Decode(u)
    <3>1. pc' # pc
      BY <2>0
    <3>2. PICK u \in Threads : Receive(u) \/ Handle(u) \/ DiscoveryFails(u)
      <4>1. ~Start /\ ~Flush /\ ~Rotate /\ ~UNCHANGED vars
        BY <3>1 DEF Start, Flush, Rotate, vars, local
      <4>2. \A k \in Kids : ~Expire(k) /\ ~Evict(k)
        BY <3>1 DEF Expire, Evict, Lose, local
      <4>. QED
        BY <4>1, <4>2 DEF Next
    <3>3. ~DiscoveryFails(u) /\ ~Discover(u) /\ ~Add(u)
      BY DEF DiscoveryFails, Discover, Add
    <3>4. ~Look(u) /\ ~LookAgain(u)
      BY DEF Look, LookAgain, End
    <3>5. ~Receive(u)
      BY DEF Receive, Getters, Given, Turned
    <3>. QED
      BY <3>2, <3>3, <3>4, <3>5 DEF Handle
  <2>2. Accepts(u) /\ pc' = [pc EXCEPT ![u] = "idle"]
    BY <2>1 DEF Decode, End, Goto
  <2>3. u = t
    BY <2>0, <2>2 DEF TypeOK
  <2>4. found[t] # None
    BY <2>0, <2>1, <2>3 DEF TypeOK, Decode
  <2>. QED
    BY <2>0, <2>2, <2>3, <2>4 DEF Kept, Accepts, Vouched
<1>2. Right => [Right]_vars
  OBVIOUS
<1>. QED
  BY <1>1, Invariance, PTL DEF Spec, ClaimsAreVouched

-----------------------------------------------------------------------------
(* Unknown keys.                                                           *)

Lists(answer, kid) == \E i \in DOMAIN answer : Usable(answer[i]) /\ answer[i].kid = kid

\* What the discovery of a thread has done so far: the key that its token asks
\* for, if the provider has published it all the while, is in the store or in the
\* rest of the answer.
LearnsOf(t) ==
  t \notin excused /\ Lists(published, token[t].kid) =>
    /\ pc[t] = "add" => cache[token[t].kid] # None \/ Lists(todo[t], token[t].kid)
    /\ pc[t] = "look again" => cache[token[t].kid] # None

Learns == \A t \in Threads : LearnsOf(t)

\* A thread that stands where it stood has learned as much, if the store has lost
\* nothing that it asks for.
LEMMA OthersLearn ==
  ASSUME Learns, NEW t \in Threads, published' = published,
         pc'[t] \in {"add", "look again"} =>
           /\ pc'[t] = pc[t] /\ token'[t] = token[t] /\ todo'[t] = todo[t]
           /\ t \in excused => t \in excused'
           /\ cache[token[t].kid] # None /\ t \notin excused' => cache'[token[t].kid] # None
  PROVE  LearnsOf(t)'
BY DEF Learns, LearnsOf, Lists

\* One more key of the answer is in the store.
LEMMA AddLearns ==
  ASSUME IInv, Learns, NEW t \in Threads, Add(t)
  PROVE  Learns'
<1>0. TypeOK /\ pc[t] = "add" /\ token[t].kid \in Kids
  BY DEF IInv, TypeOK, Add
<1>1. UNCHANGED <<published, token, excused>>
  BY DEF Add
<1>2. CASE todo[t] = <<>>
  <2>1. pc' = [pc EXCEPT ![t] = "look again"] /\ UNCHANGED <<cache, todo>>
    BY <1>2 DEF Add, Goto
  <2>2. ~Lists(todo[t], token[t].kid)
    BY <1>2 DEF Lists
  <2>3. LearnsOf(t)'
    BY <1>0, <1>1, <2>1, <2>2 DEF Learns, LearnsOf, TypeOK, Lists
  <2>4. \A u \in Threads \ {t} : LearnsOf(u)'
    BY <1>0, <1>1, <2>1, OthersLearn DEF TypeOK
  <2>. QED
    BY <2>3, <2>4 DEF Learns
<1>3. CASE todo[t] # <<>>
  <2>. DEFINE d == Head(todo[t])
  <2>1. todo' = [todo EXCEPT ![t] = Tail(todo[t])] /\ cache' = Added(t, d) /\ pc' = pc
    BY <1>3 DEF Add
  <2>2. todo[t] \in Seq(Definition)
    BY <1>0 DEF TypeOK
  <2>3. /\ d = todo[t][1] /\ d \in Definition
        /\ \A i \in DOMAIN todo[t] : i = 1 \/ /\ i - 1 \in DOMAIN Tail(todo[t])
                                              /\ Tail(todo[t])[i - 1] = todo[t][i]
    BY <1>3, <2>2
  <2>. HIDE DEF d
  <2>4. /\ \A k \in Kids : cache[k] # None => cache'[k] # None
        /\ Usable(d) => cache'[d.kid] # None
    <3>1. CASE ~Usable(d)
      BY <2>1, <3>1 DEF Added
    <3>2. CASE Usable(d)
      <4>. DEFINE e == NewEntry(Provider, d.key, FALSE)
      <4>1. d.key \in Keys /\ d.kid \in Kids /\ Provider \in Issuers
        BY <1>0, <2>3, <3>2, ProviderIsIssuer DEF Usable, Definition, IInv, Waits
      <4>2. e # None
        BY <4>1, EntryType, NoneIsNoEntry
      <4>3. cache' = [cache EXCEPT ![d.kid] = e]
        BY <2>1, <3>2 DEF Added
      <4>. HIDE DEF e
      <4>. QED
        BY <1>0, <4>1, <4>2, <4>3 DEF TypeOK
    <3>. QED
      BY <3>1, <3>2
  <2>5. LearnsOf(t)'
    <3>. SUFFICES ASSUME t \notin excused, Lists(published, token[t].kid)
                  PROVE  cache'[token[t].kid] # None \/ Lists(todo'[t], token[t].kid)
      BY <1>0, <1>1, <2>1 DEF LearnsOf, Lists
    <3>1. CASE cache[token[t].kid] # None
      BY <1>0, <2>4, <3>1
    <3>2. ASSUME NEW i \in DOMAIN todo[t], Usable(todo[t][i]), todo[t][i].kid = token[t].kid
          PROVE  cache'[token[t].kid] # None \/ Lists(todo'[t], token[t].kid)
      <4>1. CASE i = 1
        BY <2>3, <2>4, <3>2, <4>1
      <4>2. CASE i # 1
        <5>1. todo'[t] = Tail(todo[t])
          BY <1>0, <2>1 DEF TypeOK
        <5>. QED
          BY <2>3, <3>2, <4>2, <5>1 DEF Lists
      <4>. QED
        BY <4>1, <4>2
    <3>. QED
      BY <1>0, <3>1, <3>2 DEF Learns, LearnsOf, Lists
  <2>6. \A u \in Threads \ {t} : LearnsOf(u)'
    <3>1. \A u \in Threads : pc[u] # "idle" => token[u].kid \in Kids
      BY <1>0 DEF TypeOK
    <3>2. \A u \in Threads \ {t} : todo'[u] = todo[u]
      BY <1>0, <2>1 DEF TypeOK
    <3>. QED
      BY <1>1, <2>1, <2>4, <3>1, <3>2, OthersLearn
  <2>. QED
    BY <2>5, <2>6 DEF Learns
<1>. QED
  BY <1>2, <1>3

\* A step of one thread that leaves the store as it is, and after which the thread
\* neither adds keys nor looks again.
LEMMA AsideLearns ==
  ASSUME Learns, NEW t \in Threads, UNCHANGED <<cache, published>>,
         pc'[t] \notin {"add", "look again"},
         \A u \in Threads \ {t} : /\ pc'[u] = pc[u] /\ token'[u] = token[u]
                                  /\ todo'[u] = todo[u]
                                  /\ u \in excused => u \in excused'
  PROVE  Learns'
<1>1. \A u \in Threads : LearnsOf(u)'
  BY OthersLearn
<1>. QED
  BY <1>1 DEF Learns

LEMMA StepLearns == IInv /\ Learns /\ [Next]_vars => Learns'
<1>. SUFFICES ASSUME IInv, Learns, [Next]_vars PROVE Learns'
  OBVIOUS
<1>0. TypeOK /\ Waits
  BY DEF IInv
<1>1. CASE Start
  <2>. DEFINE s == Static[started + 1]
              e == NewEntry(s.issuer, s.key, TRUE)
  <2>1. started + 1 \in 1 .. Len(Static)
    BY <1>0, <1>1 DEF Start, TypeOK
  <2>2. s.kid \in Kids /\ e # None
    BY <2>1, StaticType, EntryType, NoneIsNoEntry
  <2>3. cache' = [cache EXCEPT ![s.kid] = e] /\ UNCHANGED <<published, pc, token, todo, excused>>
    BY <1>1 DEF Start, local
  <2>. HIDE DEF s, e
  <2>4. \A u \in Threads : pc[u] # "idle" => token[u].kid \in Kids
    BY <1>0 DEF TypeOK
  <2>5. \A k \in Kids : cache[k] # None => cache'[k] # None
    BY <1>0, <2>2, <2>3 DEF TypeOK
  <2>6. \A u \in Threads : LearnsOf(u)'
    BY <2>3, <2>4, <2>5, OthersLearn
  <2>. QED
    BY <2>6 DEF Learns
<1>2. ASSUME NEW t \in Threads, Receive(t)
      PROVE  Learns'
  <2>1. /\ pc[t] = "idle" /\ UNCHANGED <<cache, published, todo, excused>>
        /\ pc'[t] \in {"idle", "look"}
        /\ \A u \in Threads \ {t} : pc'[u] = pc[u] /\ token'[u] = token[u]
    BY <1>0, <1>2 DEF Receive, Getters, Given, Turned, Goto, TypeOK
  <2>. QED
    BY <2>1, AsideLearns
<1>3. ASSUME NEW t \in Threads, NEW outcome, End(t, outcome), UNCHANGED <<cache, published>>
      PROVE  Learns'
  <2>1. /\ pc'[t] = "idle"
        /\ \A u \in Threads \ {t} : /\ pc'[u] = pc[u] /\ token'[u] = token[u]
                                    /\ todo'[u] = todo[u]
                                    /\ u \in excused => u \in excused'
    BY <1>0, <1>3 DEF End, Forget, Goto, TypeOK
  <2>. QED
    BY <1>3, <2>1, AsideLearns
<1>4. ASSUME NEW t \in Threads, Look(t) \/ LookAgain(t) \/ Decode(t)
      PROVE  Learns'
  <2>1. UNCHANGED <<cache, published>>
    BY <1>4 DEF Look, LookAgain, Decode
  <2>2. CASE \E outcome : End(t, outcome)
    BY <1>3, <2>1, <2>2
  <2>3. CASE ~\E outcome : End(t, outcome)
    <3>1. \/ pc' = [pc EXCEPT ![t] = "discover"]
          \/ pc' = [pc EXCEPT ![t] = "decode"]
      BY <1>4, <2>3 DEF Look, LookAgain, Decode, Goto
    <3>2. UNCHANGED <<token, todo, excused>>
      BY <1>4, <2>3 DEF Look, LookAgain, Decode
    <3>3. pc'[t] \in {"discover", "decode"} /\ \A u \in Threads \ {t} : pc'[u] = pc[u]
      BY <1>0, <3>1 DEF TypeOK
    <3>. QED
      BY <2>1, <3>2, <3>3, AsideLearns
  <2>. QED
    BY <2>2, <2>3
<1>5. ASSUME NEW t \in Threads, Discover(t)
      PROVE  Learns'
  <2>1. /\ pc' = [pc EXCEPT ![t] = "add"] /\ todo' = [todo EXCEPT ![t] = published]
        /\ UNCHANGED <<cache, published, token, excused>>
    BY <1>5 DEF Discover, Goto
  <2>2. LearnsOf(t)'
    BY <1>0, <2>1 DEF LearnsOf, Lists, TypeOK
  <2>3. \A u \in Threads \ {t} : LearnsOf(u)'
    BY <1>0, <2>1, OthersLearn DEF TypeOK
  <2>. QED
    BY <2>2, <2>3 DEF Learns
<1>6. ASSUME NEW t \in Threads, Add(t)
      PROVE  Learns'
  BY <1>6, AddLearns
<1>7. ASSUME NEW t \in Threads, DiscoveryFails(t)
      PROVE  Learns'
  <2>1. /\ pc' = [pc EXCEPT ![t] = "look again"] /\ excused' = excused \cup {t}
        /\ UNCHANGED <<cache, published, token, todo>>
    BY <1>7 DEF DiscoveryFails, Goto
  <2>2. LearnsOf(t)'
    BY <2>1 DEF LearnsOf
  <2>3. \A u \in Threads \ {t} : LearnsOf(u)'
    BY <1>0, <2>1, OthersLearn DEF TypeOK
  <2>. QED
    BY <2>2, <2>3 DEF Learns
<1>8. CASE Flush \/ UNCHANGED vars
  <2>1. UNCHANGED <<cache, published, pc, token, todo, excused>>
    BY <1>8 DEF Flush, vars, local
  <2>. QED
    BY <2>1, OthersLearn DEF Learns
<1>9. CASE Rotate
  <2>1. pc' = pc /\ \A t \in Threads : pc[t] # "idle" => t \in excused'
    BY <1>9 DEF Rotate, local
  <2>. QED
    BY <2>1 DEF Learns, LearnsOf
<1>10. ASSUME NEW k \in Kids, Expire(k) \/ Evict(k)
       PROVE  Learns'
  <2>1. /\ cache' = [cache EXCEPT ![k] = None] /\ UNCHANGED <<published, pc, token, todo>>
        /\ excused' = excused \cup {t \in Threads : pc[t] # "idle" /\ token[t].kid = k}
    BY <1>10 DEF Expire, Evict, Lose, local
  <2>2. \A u \in Threads : LearnsOf(u)'
    BY <1>0, <2>1, OthersLearn DEF TypeOK
  <2>. QED
    BY <2>2 DEF Learns
<1>. QED
  BY <1>1, <1>2, <1>4, <1>5, <1>6, <1>7, <1>8, <1>9, <1>10 DEF Next, Handle

LEMMA DiscoveriesLearn == Spec => []Learns
<1>1. Init => Learns
  BY DEF Init, Learns, LearnsOf
<1>. QED
  BY <1>1, StepLearns, Invariance, PTL DEF Spec

\* Which step calls a key unknown.
LEMMA UnknownEnds ==
  ASSUME IInv, [Next]_vars, NEW t \in Threads,
         pc[t] # "idle", pc'[t] = "idle", reply' = "unknown key"
  PROVE  /\ published' = published
         /\ Provider = None \/ (pc[t] = "look again" /\ cache[token[t].kid] = None)
<1>0. TypeOK
  BY DEF IInv
<1>1. PICK u \in Threads : Receive(u) \/ Handle(u) \/ DiscoveryFails(u)
  <2>1. pc' # pc
    OBVIOUS
  <2>2. ~Start /\ ~Flush /\ ~Rotate /\ ~UNCHANGED vars
    BY <2>1 DEF Start, Flush, Rotate, vars, local
  <2>3. \A k \in Kids : ~Expire(k) /\ ~Evict(k)
    BY <2>1 DEF Expire, Evict, Lose, local
  <2>. QED
    BY <2>2, <2>3 DEF Next
<1>2. Look(u) \/ LookAgain(u)
  <2>1. ~DiscoveryFails(u) /\ ~Discover(u) /\ ~Add(u)
    BY DEF DiscoveryFails, Discover, Add
  <2>2. ~Receive(u) /\ ~Decode(u)
    BY DEF Receive, Getters, Given, Turned, Decode, End
  <2>. QED
    BY <1>1, <2>1, <2>2 DEF Handle
<1>3. u = t
  BY <1>0, <1>2 DEF Look, LookAgain, End, Goto, TypeOK
<1>4. End(t, "unknown key") /\ published' = published
  BY <1>2, <1>3 DEF Look, LookAgain
<1>. QED
  BY <1>2, <1>3, <1>4 DEF Look, LookAgain

\* UnknownIsTrue (common/auth/keystore.py): a key is called unknown only when the
\* provider does not publish it, unless the request was disturbed.
THEOREM UnknownKeysAreUnknown == Spec => UnknownIsTrue
<1>. DEFINE Right == \A t \in Threads :
       pc[t] # "idle" /\ pc'[t] = "idle" /\ reply' = "unknown key" /\ t \notin excused =>
         Provider = None \/ \A i \in DOMAIN published :
                              Usable(published[i]) => published[i].kid # token[t].kid
<1>1. IInv /\ Learns /\ [Next]_vars => Right
  BY UnknownEnds DEF Learns, LearnsOf, Lists
<1>2. Right => [Right]_vars
  OBVIOUS
<1>. QED
  BY <1>1, Invariance, DiscoveriesLearn, PTL DEF Spec, UnknownIsTrue
=============================================================================
