---------------------------- MODULE MCTokenAuth ----------------------------
\* Instances of TokenAuth for TLC.
EXTENDS TokenAuth

CONSTANTS k1, k2, x, y, op, main

TwoKids    == {k1, k2}
TwoKeys    == {x, y}
TwoIssuers == {op, main}

Def(kid, key) == [kid |-> kid, key |-> key]

\* The key made of SECRET_KEY; and a key of the provider given in AUTH_KEYS.
SecretKey   == <<[kid |-> k1, issuer |-> main, key |-> x]>>
ProviderKey == <<[kid |-> k1, issuer |-> op, key |-> x]>>

\* A kid that is also the secret's; a key of no use before one that replaces
\* the other list's.
SomeAnswers == {<<Def(k1, y), Def(k2, y)>>, <<Def(None, x), Def(k2, x)>>}

SomeTokens ==
  {[kid |-> k1, issuer |-> main, key |-> x, sound |-> TRUE],
   [kid |-> k2, issuer |-> main, key |-> y, sound |-> TRUE],
   [kid |-> k2, issuer |-> op, key |-> y, sound |-> TRUE],
   [kid |-> k2, issuer |-> op, key |-> x, sound |-> FALSE],
   [kid |-> None, issuer |-> op, key |-> x, sound |-> TRUE]}

=============================================================================
