--------------------------- MODULE MCKeyRotation ---------------------------
(* A small instance of KeyRotation: two kids, two keys of the provider and    *)
(* one that is not its own.                                                  *)
EXTENDS KeyRotation

CONSTANTS k1, k2, a, b, noKid, noAlg

Jwk(kid, key, alg) == [kid |-> kid, key |-> key, alg |-> alg]

SomeJwks == {Jwk(k, x, s) : k \in {k1, k2, noKid}, x \in {a, b}, s \in {"RS256", "ES256", noAlg}}

\* One key, a rotation overlapping and done, the kid taken over by another
\* key, a kid listed twice, keys that cannot be used, nothing.
SomeDocuments ==
    { <<Jwk(k1, a, "RS256")>>,
      <<Jwk(k1, a, "RS256"), Jwk(k2, b, "ES256")>>,
      <<Jwk(k2, b, "ES256")>>,
      <<Jwk(k1, a, "RS256"), Jwk(k1, b, "ES256"), Jwk(k1, b, noAlg)>>,
      <<Jwk(noKid, a, "RS256")>>,
      <<>> }

Token(kid, key, alg, valid) == [kid |-> kid, key |-> key, alg |-> alg, valid |-> valid]

SomeTokens ==
    { Token(k1, a, "RS256", TRUE), Token(k1, b, "ES256", TRUE), Token(k2, b, "ES256", TRUE),
      Token(k1, a, "ES256", TRUE), Token(k1, a, "RS256", FALSE), Token(noKid, a, "RS256", TRUE) }
=============================================================================
