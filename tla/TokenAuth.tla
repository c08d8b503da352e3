----------------------------- MODULE TokenAuth -----------------------------
(***************************************************************************)
(* Bearer tokens: how a request's token is found and checked, and the key  *)
(* store behind it.  The store is a cache (LocMemCache: one per process)   *)
(* under the names "kid:<provider>:<kid>".  Static keys (AUTH_KEYS, then   *)
(* the key made of SECRET_KEY) are put there when the process starts; a    *)
(* key id that is not there starts a discovery: two HTTP requests to the   *)
(* OpenID provider, one cache write per key it publishes, and a second     *)
(* look.  Threads serve requests at the same time; the provider changes    *)
(* its keys; entries expire, and the cache drops entries when it is full.  *)
(*                                                                         *)
(* Abstractions: a token is the key id in its header, the issuer it names, *)
(* the key it is signed with, and whether everything else that jwt.decode  *)
(* and validate_claims look at is in order.  An answer of the provider is  *)
(* its list of keys or an error; the first of its two requests, which only *)
(* finds the address of the second, is part of the same step.              *)
(***************************************************************************)
EXTENDS Naturals, Sequences

CONSTANTS
  Threads,     \* threads that serve requests
  Kids,        \* key ids
  Keys,        \* key material
  Issuers,     \* token issuers: the provider, those of AUTH_KEYS, MAIN_DOMAIN
  Provider,    \* AUTH_OPENID_PROVIDER, or None
  Static,      \* the keys added at start, in order: [kid, issuer, key]
  Answers,     \* lists of keys that the provider may publish: [kid, key]
  Tokens,      \* tokens that clients may have
  None,        \* Python's None; also a key without kid, or that cannot be built
  MaxRequests, \* bound: requests
  MaxChanges,  \* bound: changes of the provider's keys
  MaxLosses    \* bound: expired and evicted entries, and failed discoveries

StaticKey  == [kid : Kids, issuer : Issuers, key : Keys]
Definition == [kid : Kids \cup {None}, key : Keys \cup {None}]
Token == [kid : Kids \cup {None}, issuer : Issuers, key : Keys, sound : BOOLEAN]
Entry == [issuer : Issuers, key : Keys, forever : BOOLEAN]

ASSUME ConstantsAssumption ==
  /\ None \notin Kids \cup Keys \cup Issuers \cup Token \cup Entry
  /\ Provider \in Issuers \cup {None}
  /\ Static \in Seq(StaticKey)
  /\ Answers \subseteq Seq(Definition)
  /\ Tokens \subseteq Token
  /\ {MaxRequests, MaxChanges, MaxLosses} \subseteq Nat

VARIABLES
  started,    \* static keys that the start of the process has added
  cache,      \* entry under each key id
  published,  \* the provider's keys
  jar,        \* the token in the browser's signed cookie
  pc,         \* where each thread is
  token,      \* the token it checks
  via,        \* how the request came in
  found,      \* what its look into the cache returned
  todo,       \* keys that its discovery has still to add
  reply,      \* the outcome of the request that the last step ended, if it did
  vouched,    \* ghost: <<kid, issuer, key>> of all keys ever static or published
  excused,    \* ghost: threads whose discovery failed, or lost its key id meanwhile
  requests, changes, losses  \* the bounds' counters

local  == <<pc, token, via, found, todo>>
counts == <<requests, changes, losses>>
vars   == <<started, cache, published, jar, local, reply, vouched, excused, counts>>

Steps   == {"idle", "look", "discover", "add", "look again", "decode"}
Entries == {"api", "cookiefy"}
Replies == {"none", "claims", "anonymous", "refused", "unknown key"}

TypeOK ==
  /\ started \in 0 .. Len(Static)
  /\ cache \in [Kids -> Entry \cup {None}]
  /\ published \in Answers
  /\ jar \in Tokens \cup {None}
  /\ pc \in [Threads -> Steps]
  /\ token \in [Threads -> Tokens \cup {None}]
  /\ \A t \in Threads : pc[t] # "idle" => token[t] # None /\ token[t].kid \in Kids
  /\ via \in [Threads -> Entries]
  /\ found \in [Threads -> Entry \cup {None}]
  /\ \A t \in Threads : pc[t] = "decode" => found[t] # None
  /\ todo \in [Threads -> Seq(Definition)]
  /\ reply \in Replies
  /\ vouched \subseteq Kids \X Issuers \X Keys
  /\ excused \subseteq Threads
  /\ requests \in 0 .. MaxRequests
  /\ changes \in 0 .. MaxChanges
  /\ losses \in 0 .. MaxLosses

-----------------------------------------------------------------------------
(* The key store                                                           *)

\* add_keys skips what has no kid or cannot be built.
Usable(d) == d.kid # None /\ d.key # None

NewEntry(issuer, key, forever) == [issuer |-> issuer, key |-> key, forever |-> forever]

VouchedBy(answer) ==
  {<<answer[i].kid, Provider, answer[i].key>> : i \in {j \in DOMAIN answer : Usable(answer[j])}}

Init ==
  /\ cache = [k \in Kids |-> None]
  /\ started = 0
  /\ published \in Answers
  /\ jar = None
  /\ pc = [t \in Threads |-> "idle"]
  /\ token = [t \in Threads |-> None]
  /\ via = [t \in Threads |-> "api"]
  /\ found = [t \in Threads |-> None]
  /\ todo = [t \in Threads |-> <<>>]
  /\ reply = "none"
  /\ vouched = {<<Static[i].kid, Static[i].issuer, Static[i].key>> : i \in DOMAIN Static}
               \cup (IF Provider = None THEN {} ELSE VouchedBy(published))
  /\ excused = {}
  /\ requests = 0 /\ changes = 0 /\ losses = 0

\* The import of common.auth adds the keys of AUTH_KEYS, then ready() of the app
\* the secret: the later of two keys with one kid stays.
Start ==
  /\ started < Len(Static)
  /\ started' = started + 1
  /\ LET s == Static[started + 1]
     IN  cache' = [cache EXCEPT ![s.kid] = NewEntry(s.issuer, s.key, TRUE)]
  /\ UNCHANGED <<published, jar, local, reply, vouched, excused, counts>>

-----------------------------------------------------------------------------
(* Requests                                                                *)

Goto(t, step) == pc' = [pc EXCEPT ![t] = step]

Forget(t) ==
  /\ token' = [token EXCEPT ![t] = None]
  /\ found' = [found EXCEPT ![t] = None]
  /\ todo' = [todo EXCEPT ![t] = <<>>]
  /\ via' = [via EXCEPT ![t] = "api"]
  /\ excused' = excused \ {t}

\* Variant: cookiefy sets the cookie whatever decode says.
EndCookiefied(t, outcome) ==
  /\ Goto(t, "idle")
  /\ reply' = outcome
  /\ jar' = IF via[t] = "cookiefy" THEN token[t] ELSE jar
  /\ Forget(t)

\* The request is over: its outcome, and a cookie when cookiefy took the token.
End(t, outcome) ==
  /\ Goto(t, "idle")
  /\ reply' = outcome
  /\ jar' = IF outcome = "claims" /\ via[t] = "cookiefy" THEN token[t] ELSE jar
  /\ Forget(t)

\* There is no token to check, or a getter raised.
Turned(outcome) == reply' = outcome /\ UNCHANGED <<pc, token, via>>

\* A token to check; get_decode_args wants a header with a kid.
Given(t, tok, entry) ==
  IF tok.kid = None THEN Turned("refused")
  ELSE /\ Goto(t, "look")
       /\ token' = [token EXCEPT ![t] = tok]
       /\ via' = [via EXCEPT ![t] = entry]
       /\ reply' = "none"

\* The getters in order: the header, whose errors (no prefix, another prefix,
\* nothing after it) hide the cookie, then the cookie, whose signature may not
\* fit.  The middleware makes of an error a request without claims.
Getters(t) ==
  \/ Turned("refused")
  \/ \E tok \in Tokens : Given(t, tok, "api")
  \/ jar = None /\ Turned("anonymous")
  \/ jar # None /\ Given(t, jar, "api")

\* Cookiefy takes its token from the body.
Receive(t) ==
  /\ started = Len(Static)
  /\ pc[t] = "idle"
  /\ requests < MaxRequests
  /\ requests' = requests + 1
  /\ Getters(t) \/ \E tok \in Tokens : Given(t, tok, "cookiefy")
  /\ UNCHANGED <<started, cache, published, jar, found, todo, vouched, excused, changes, losses>>

\* Logging out: the cookie is deleted.
Flush ==
  /\ started = Len(Static)
  /\ jar # None
  /\ requests < MaxRequests
  /\ requests' = requests + 1
  /\ jar' = None
  /\ reply' = "none"
  /\ UNCHANGED <<started, cache, published, local, vouched, excused, changes, losses>>

\* KeyStore.get, first look.
Look(t) ==
  /\ pc[t] = "look"
  /\ LET entry == cache[token[t].kid]
     IN  \/ /\ entry = None /\ Provider = None
           /\ End(t, "unknown key")
        \/ /\ entry # None \/ Provider # None
           /\ found' = [found EXCEPT ![t] = entry]
           /\ Goto(t, IF entry = None THEN "discover" ELSE "decode")
           /\ reply' = "none"
           /\ UNCHANGED <<token, via, todo, jar, excused>>
  /\ UNCHANGED <<started, cache, published, vouched, counts>>

Discover(t) ==
  /\ pc[t] = "discover"
  /\ todo' = [todo EXCEPT ![t] = published]
  /\ Goto(t, "add")
  /\ reply' = "none"
  /\ UNCHANGED <<started, cache, published, jar, token, via, found, vouched, excused, counts>>

\* No answer within AUTH_REQUESTS_TIMEOUT, an error status, or no such field:
\* discovery returns 0, and the cache is asked again all the same.
DiscoveryFails(t) ==
  /\ pc[t] = "discover"
  /\ losses < MaxLosses
  /\ losses' = losses + 1
  /\ excused' = excused \cup {t}
  /\ Goto(t, "look again")
  /\ reply' = "none"
  /\ UNCHANGED <<started, cache, published, jar, token, via, found, todo, vouched, requests, changes>>

\* Variant: the key goes under the issuer of the token in hand.
AddedForToken(t, d) ==
  IF Usable(d) THEN [cache EXCEPT ![d.kid] = NewEntry(token[t].issuer, d.key, FALSE)] ELSE cache

\* KeyStore.add: the key of the provider, with AUTH_KEYSTORE_TIMEOUT, in place of
\* whatever has its kid.
Added(t, d) ==
  IF Usable(d) THEN [cache EXCEPT ![d.kid] = NewEntry(Provider, d.key, FALSE)] ELSE cache

\* Variant: add_keys gives up at the first key that is of no use.
AddUntilBad(t) ==
  /\ pc[t] = "add"
  /\ IF todo[t] = <<>> \/ ~Usable(Head(todo[t]))
     THEN Goto(t, "look again") /\ UNCHANGED <<cache, todo>>
     ELSE /\ todo' = [todo EXCEPT ![t] = Tail(@)]
          /\ cache' = Added(t, Head(todo[t]))
          /\ UNCHANGED pc
  /\ reply' = "none"
  /\ UNCHANGED <<started, published, jar, token, via, found, vouched, excused, counts>>

\* add_keys: the next key of the answer.
Add(t) ==
  /\ pc[t] = "add"
  /\ IF todo[t] = <<>> THEN Goto(t, "look again") /\ UNCHANGED <<cache, todo>>
     ELSE /\ todo' = [todo EXCEPT ![t] = Tail(@)]
          /\ cache' = Added(t, Head(todo[t]))
          /\ UNCHANGED pc
  /\ reply' = "none"
  /\ UNCHANGED <<started, published, jar, token, via, found, vouched, excused, counts>>

\* Variant: a key that is still missing is looked for again.
LookUntilFound(t) ==
  /\ pc[t] = "look again"
  /\ found' = [found EXCEPT ![t] = cache[token[t].kid]]
  /\ Goto(t, IF found'[t] = None THEN "discover" ELSE "decode")
  /\ reply' = "none"
  /\ UNCHANGED <<started, cache, published, jar, token, via, todo, vouched, excused, counts>>

\* Variant: the result of the second look is not checked.
LookAgainBlindly(t) ==
  /\ pc[t] = "look again"
  /\ found' = [found EXCEPT ![t] = cache[token[t].kid]]
  /\ Goto(t, "decode")
  /\ reply' = "none"
  /\ UNCHANGED <<started, cache, published, jar, token, via, todo, vouched, excused, counts>>

\* KeyStore.get, second look: None is the end of it.
LookAgain(t) ==
  /\ pc[t] = "look again"
  /\ LET entry == cache[token[t].kid]
     IN  \/ entry = None /\ End(t, "unknown key")
        \/ /\ entry # None
           /\ found' = [found EXCEPT ![t] = entry]
           /\ Goto(t, "decode")
           /\ reply' = "none"
           /\ UNCHANGED <<token, via, todo, jar, excused>>
  /\ UNCHANGED <<started, cache, published, vouched, counts>>

\* jwt.decode checks the signature and the issuer against one entry, and the
\* rest; validate_claims looks for the required claims.
Accepts(t) ==
  /\ token[t].key = found[t].key
  /\ token[t].issuer = found[t].issuer
  /\ token[t].sound

Decode(t) ==
  /\ pc[t] = "decode"
  /\ End(t, IF Accepts(t) THEN "claims" ELSE "refused")
  /\ UNCHANGED <<started, cache, published, vouched, counts>>

-----------------------------------------------------------------------------
(* The environment                                                         *)

\* The provider publishes other keys.  (A discovery that is under way works
\* with the list it has.)
Rotate ==
  /\ Provider # None
  /\ changes < MaxChanges
  /\ changes' = changes + 1
  /\ published' \in Answers \ {published}
  /\ vouched' = vouched \cup VouchedBy(published')
  /\ excused' = excused \cup {t \in Threads : pc[t] # "idle"}
  /\ reply' = "none"
  /\ UNCHANGED <<started, cache, jar, local, requests, losses>>

\* The cache drops an entry: its time is over, or the cache is full.
Lose(k) ==
  /\ cache[k] # None
  /\ losses < MaxLosses
  /\ losses' = losses + 1
  /\ cache' = [cache EXCEPT ![k] = None]
  /\ excused' = excused \cup {t \in Threads : pc[t] # "idle" /\ token[t].kid = k}
  /\ reply' = "none"
  /\ UNCHANGED <<started, published, jar, local, vouched, requests, changes>>

Expire(k) == cache[k] # None /\ ~cache[k].forever /\ Lose(k)
Evict(k)  == cache[k] # None /\ cache[k].forever /\ Lose(k)

-----------------------------------------------------------------------------
Handle(t) == Look(t) \/ Discover(t) \/ Add(t) \/ LookAgain(t) \/ Decode(t)

Next ==
  \/ Start
  \/ \E t \in Threads : Receive(t) \/ Handle(t) \/ DiscoveryFails(t)
  \/ Flush \/ Rotate
  \/ \E k \in Kids : Expire(k) \/ Evict(k)

Spec     == Init /\ [][Next]_vars
FairSpec == Spec /\ \A t \in Threads : WF_vars(Handle(t))

-----------------------------------------------------------------------------
(* Properties                                                              *)

\* Claims are only taken from a token whose key its own issuer vouched for,
\* under that very key id: static keys, discoveries and other threads' writes
\* share one namespace, and no interleaving pairs one's key with another's name.
ClaimsAreVouched ==
  [][\A t \in Threads :
       pc[t] # "idle" /\ pc'[t] = "idle" /\ reply' = "claims" =>
         <<token[t].kid, token[t].issuer, token[t].key>> \in vouched]_vars

\* A key id is called unknown only when the provider does not publish it, or
\* something went wrong during the request: no other thread's discovery, begun
\* with an older list, and no key of no use makes a published key unknown.
UnknownIsTrue ==
  [][\A t \in Threads :
       pc[t] # "idle" /\ pc'[t] = "idle" /\ reply' = "unknown key" /\ t \notin excused =>
         Provider = None \/ \A i \in DOMAIN published :
                              Usable(published[i]) => published[i].kid # token[t].kid]_vars

\* A cookie holds a token that was in order when it was put there.
CookieWasChecked == jar # None => jar.sound /\ <<jar.kid, jar.issuer, jar.key>> \in vouched

\* Every request is answered: the HTTP requests have a timeout, and a key that
\* stays unknown is looked for once.
RequestsEnd == \A t \in Threads : pc[t] # "idle" ~> pc[t] = "idle"

\* Static keys are put into the cache for ever: "add static keys to default key
\* store and cache it forever".
StaticForever ==
  started = Len(Static) =>
    \A i \in DOMAIN Static :
      cache[Static[i].kid] # None /\ cache[Static[i].kid].forever
=============================================================================
