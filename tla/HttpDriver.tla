----------------------------- MODULE HttpDriver -----------------------------
(***************************************************************************)
(* pytest-http: the driver through which tests send their requests.        *)
(*                                                                         *)
(* A test opens blocks (`with driver.prefix('/x'):`), each of which        *)
(* switches one setting of the driver, sends requests in them, and leaves  *)
(* them, at their end or by an exception: a request that fails, or an      *)
(* assertion of the test.  The driver outlives the test: when an exception *)
(* leaves all blocks, the next test goes on with the driver as it is.      *)
(*                                                                         *)
(* Abstractions: of a request, its URL and the headers Referer, Origin,    *)
(* Authorization and Host; the body and its Content-Type only by their     *)
(* refusals; the path is the same for all; cookies are left out.           *)
(***************************************************************************)
EXTENDS Naturals, Sequences, SequencesExt

CONSTANTS
  Arguments,  \* what a driver may be made with: its backend and keyword arguments
  Switches,   \* blocks a test may open: [by, value], by a method's name
  Calls,      \* requests a test may send, see Call
  Allowed,    \* the first of Django's ALLOWED_HOSTS, the domain of its driver
  None,
  MaxDepth,   \* bound: blocks inside each other
  MaxSent,    \* bound: requests
  MaxRaises   \* bound: exceptions of the tests' own

Headers == {"Referer", "Origin", "Authorization", "Host"}

\* referrer: pass_referrer; headers: those of the call; badly: a refused way to
\* give headers ("http") or a body ("body").
Call(c) ==
  /\ c.referrer \in BOOLEAN
  /\ DOMAIN c.headers \subseteq Headers
  /\ c.badly \in {"no", "http", "body"}

\* The key that a method switches.
KeyOf(by) == IF by = "append_prefix" THEN "prefix" ELSE by

Keys == {"domain", "subdomain", "origin", "authorization", "referer", "prefix", "scheme",
         "address", "headers", "verify_status", "verify_status_mode"}

DriverConstants ==
  /\ \A s \in Switches : KeyOf(s.by) \in Keys
  /\ \A c \in Calls : Call(c)
  /\ \A a \in Arguments : a.backend \in {"requests", "django"}
  /\ \A a \in Arguments : a.root_url = None \/ DOMAIN a.root_url = {"scheme", "domain", "prefix"}
  /\ {MaxDepth, MaxSent, MaxRaises} \subseteq Nat

VARIABLES
  backend,
  config,
  blocks,    \* the open blocks, innermost last: [key, by, value, old] and
             \* ghost clean: that its key was not astray when it was opened
  raised,    \* an exception is on its way out of the blocks
  last,      \* _last_response: the URL asked, and ghost: its number
  request,   \* ghost: the latest request that was sent: [url, number, referer, given]
  made,      \* ghost: the configuration the driver was made with
  astray,    \* ghost: keys that a block left by an exception did not restore
  sent, raises  \* the bounds' counters

driverVars == <<backend, config, blocks, raised, last, request, made, astray, sent, raises>>

-----------------------------------------------------------------------------
\* __init__: a root_url gives the scheme, the domain and the prefix.
Refused(a) ==
  a.root_url # None /\ (a.scheme # None \/ a.prefix # None)

Default(x, d) == IF x = None THEN d ELSE x

PrefixOf(a) == IF a.root_url # None THEN a.root_url.prefix ELSE Default(a.prefix, <<>>)

\* What root_url says goes before a domain of its own, which is not refused.
Configured(a) ==
  LET root == a.root_url # None
  IN  [domain    |-> IF root THEN a.root_url.domain
                     ELSE IF a.backend = "django" THEN Default(a.domain, Allowed) ELSE a.domain,
       subdomain |-> None, origin |-> a.origin, authorization |-> None,
       referer   |-> a.referer,
       prefix    |-> PrefixOf(a),
       scheme    |-> IF root THEN a.root_url.scheme ELSE Default(a.scheme, "http"),
       address   |-> a.address, headers |-> a.headers,
       verify_status |-> a.verify, verify_status_mode |-> Default(a.mode, "assert")]

Init ==
  /\ \E a \in Arguments : ~Refused(a) /\ backend = a.backend /\ config = Configured(a)
  /\ made = config
  /\ blocks = <<>>
  /\ raised = FALSE
  /\ last = None
  /\ request = None
  /\ astray = {}
  /\ sent = 0 /\ raises = 0

-----------------------------------------------------------------------------
\* What a method makes of the old value.
Switched(by, value, old) == IF by = "append_prefix" THEN old \o value ELSE value

\* A block is opened: `with driver.<by>(value):`.  Nothing can be appended to no prefix.
Open(s) ==
  LET key == KeyOf(s.by)
      old == config[key]
  IN  /\ ~raised /\ Len(blocks) < MaxDepth
      /\ IF s.by = "append_prefix" /\ old = None
           THEN raised' = TRUE /\ UNCHANGED <<config, blocks>>
           ELSE /\ config' = [config EXCEPT ![key] = Switched(s.by, s.value, old)]
                /\ blocks' = Append(blocks, [key |-> key, by |-> s.by, value |-> s.value,
                                             old |-> old, clean |-> key \notin astray])
                /\ UNCHANGED raised
      /\ UNCHANGED <<backend, last, request, made, astray, sent, raises>>

\* Variant: a block puts back what the driver was made with.
CloseToMade ==
  /\ ~raised /\ blocks # <<>>
  /\ config' = [config EXCEPT ![Last(blocks).key] = made[Last(blocks).key]]
  /\ astray' = IF Last(blocks).clean THEN astray \ {Last(blocks).key} ELSE astray
  /\ blocks' = Front(blocks)
  /\ UNCHANGED <<backend, raised, last, request, made, sent, raises>>

\* The innermost block ends: the code after the yield of switch_config.
Close ==
  LET b == Last(blocks)
  IN  /\ ~raised /\ blocks # <<>>
      /\ config' = [config EXCEPT ![b.key] = b.old]
      /\ astray' = IF b.clean THEN astray \ {b.key} ELSE astray
      /\ blocks' = Front(blocks)
      /\ UNCHANGED <<backend, raised, last, request, made, sent, raises>>

\* The test raises: an assertion of its own.
Raise ==
  /\ ~raised /\ raises < MaxRaises
  /\ raises' = raises + 1
  /\ raised' = TRUE
  /\ UNCHANGED <<backend, config, blocks, last, request, made, astray, sent>>

\* The exception leaves the innermost block, raised at its yield: the setting stays.
LeaveRaising ==
  /\ raised /\ blocks # <<>>
  /\ astray' = astray \cup {Last(blocks).key}
  /\ blocks' = Front(blocks)
  /\ UNCHANGED <<backend, config, raised, last, request, made, sent, raises>>

\* The exception ends: caught by the test (pytest.raises), or with the test.
Catch ==
  /\ raised
  /\ raised' = FALSE
  /\ UNCHANGED <<backend, config, blocks, last, request, made, astray, sent, raises>>

-----------------------------------------------------------------------------
\* The subdomain is put before the domain, as another element.
EffectiveDomain ==
  (IF config.subdomain = None THEN <<>> ELSE config.subdomain) \o config.domain

Url ==
  [scheme |-> config.scheme,
   address |-> IF config.address = None THEN EffectiveDomain ELSE config.address,
   prefix |-> config.prefix]

With(h, name, value) == IF value = None THEN h ELSE [n \in DOMAIN h \cup {name} |->
                                                    IF n = name THEN value ELSE h[n]]
Over(h, g) == [n \in DOMAIN h \cup DOMAIN g |-> IF n \in DOMAIN g THEN g[n] ELSE h[n]]

\* The headers: each line goes over those before, the call's over all.
HeadersOf(c) ==
  LET configured == With(config.headers, "Referer", config.referer)
      referred   == IF c.referrer /\ last # None
                      THEN With(configured, "Referer", last.url) ELSE configured
      named      == With(With(With(referred, "Origin", config.origin),
                             "Authorization", config.authorization), "Host", EffectiveDomain)
  IN  Over(named, c.headers)

\* Refused before anything is forgotten: no domain, the URL of a response of the Django
\* driver, whose request is a dict, and headers given the wrong way.
RefusedEarly(c) ==
  \/ config.domain = None
  \/ backend = "django" /\ c.referrer /\ last # None
  \/ c.badly = "http"

\* Nothing was sent: a body given twice, refused by _execute_request.
RefusedLate(c) == c.badly = "body"

RefuseEarly(c) ==
  /\ RefusedEarly(c)
  /\ raised' = TRUE
  /\ UNCHANGED <<last, request>>

RefuseLate(c) ==
  /\ ~RefusedEarly(c) /\ RefusedLate(c)
  /\ last' = None
  /\ raised' = TRUE
  /\ UNCHANGED request

Sendable(c) == ~RefusedEarly(c) /\ ~RefusedLate(c)

\* The Referer that the settings give every request.
OwnReferer ==
  LET configured == With(config.headers, "Referer", config.referer)
  IN  IF "Referer" \in DOMAIN configured THEN configured["Referer"] ELSE None

\* given: the call or the settings give a Referer.
Requested(c) ==
  LET h == HeadersOf(c)
  IN  [url     |-> Url, number |-> sent + 1,
       referer |-> IF "Referer" \in DOMAIN h THEN h["Referer"] ELSE None,
       given   |-> \/ "Referer" \in DOMAIN c.headers
                   \/ ~c.referrer /\ OwnReferer # None]

\* Variant: the last response is not forgotten before a request is sent.
SendInVainKeeping(c) ==
  /\ Sendable(c)
  /\ request' = Requested(c)
  /\ raised' = TRUE
  /\ UNCHANGED last

\* No answer: the connection fails, or times out.
SendInVain(c) ==
  /\ Sendable(c)
  /\ request' = Requested(c)
  /\ last' = None
  /\ raised' = TRUE

\* Whether verify_status takes the answer: both modes raise on others than 2xx, and
\* a mode that is neither always does.
Verified(status) ==
  ~config.verify_status \/ (config.verify_status_mode \in {"assert", "raise"} /\ status = "2xx")

\* An answer, which stays the last one when its status is refused.
SendAnswered(c) ==
  /\ Sendable(c)
  /\ request' = Requested(c)
  /\ last' = [url |-> Url, number |-> sent + 1]
  /\ \E status \in {"2xx", "other"} : raised' = ~Verified(status)

\* _execute_request_outer, by any of the methods.
Send(c) ==
  /\ ~raised /\ sent < MaxSent
  /\ sent' = sent + 1
  /\ RefuseEarly(c) \/ RefuseLate(c) \/ SendInVain(c) \/ SendAnswered(c)
  /\ UNCHANGED <<backend, config, blocks, made, astray, raises>>

Next ==
  \/ \E s \in Switches : Open(s)
  \/ Close
  \/ Raise
  \/ LeaveRaising
  \/ Catch
  \/ \E c \in Calls : Send(c)

Spec == Init /\ [][Next]_driverVars

-----------------------------------------------------------------------------
\* Types, and what a driver always has.
TypeOK ==
  /\ backend \in {"requests", "django"}
  /\ DOMAIN config = Keys /\ DOMAIN made = Keys
  /\ made.prefix # None /\ made.scheme # None
  /\ Len(blocks) <= MaxDepth
  /\ \A i \in DOMAIN blocks : blocks[i].key = KeyOf(blocks[i].by) /\ blocks[i].clean \in BOOLEAN
  /\ raised \in BOOLEAN
  /\ last # None => last.number \in 1 .. sent
  /\ astray \subseteq Keys
  /\ sent \in 0 .. MaxSent /\ raises \in 0 .. MaxRaises

\* What the open blocks b say of a key, the innermost last: the driver as made,
\* switched by each block in turn.
InForce(key, b) ==
  LET upTo[k \in 0 .. Len(b)] ==
        IF k = 0 THEN made[key]
        ELSE IF b[k].key = key THEN Switched(b[k].by, b[k].value, upTo[k - 1])
        ELSE upTo[k - 1]
  IN  upTo[Len(b)]

\* The settings are what the open blocks say, whatever blocks were opened, ended
\* and left before: of every key but those that an exception left astray, until an
\* outer block that was opened before ends (base.py:372-377).
BlocksInForce == \A key \in Keys \ astray : config[key] = InForce(key, blocks)

\* A Referer that neither the call nor the settings gave is the URL of the request
\* that was sent just before, and was answered (base.py:313-314).
RefererOfLatest ==
  [][ request' # request /\ ~request'.given /\ request'.referer # OwnReferer
        => /\ last # None /\ last.number = request.number
           /\ request'.referer = request.url ]_driverVars
=============================================================================
