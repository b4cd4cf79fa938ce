------------------------------ MODULE KeyTrust ------------------------------
(***************************************************************************)
(* What the reader promises about the keys of an identity provider (the    *)
(* comment of JwksAuthResolver): a token is judged by one of the documents *)
(* the provider published, by that document alone, and the reader only     *)
(* ever moves on to a later one.  A pod that starts trusts nobody.         *)
(***************************************************************************)
EXTENDS Naturals, Sequences

CONSTANTS Documents,   \* sequences of [kid, key, alg]
          Tokens,      \* [kid, key, alg, valid]
          NoKid, NoAlg

VARIABLES
    docs,      \* what the provider has published so far; the last is its JWKS
    level,     \* the document the reader judges by, 0 for none
    verdict    \* the last token judged and whether it was accepted

vars == <<docs, level, verdict>>

(* A document accepts the signature of a token under a kid if, of the keys   *)
(* it lists usably under it, the last is the one the token is signed with.   *)
Names(d, i, kid) == d[i].kid = kid /\ d[i].kid # NoKid /\ d[i].alg # NoAlg

Signs(d, t) ==
    \E i \in DOMAIN d :
        /\ Names(d, i, t.kid) /\ d[i].key = t.key /\ d[i].alg = t.alg
        /\ \A j \in DOMAIN d : Names(d, j, t.kid) => j <= i

Accepts(n, t) == n > 0 /\ t.valid /\ Signs(docs[n], t)

Init ==
    /\ docs \in {<<d>> : d \in Documents}
    /\ level = 0
    /\ verdict \in [token : Tokens, ok : {FALSE}]

Publish(d) ==
    /\ docs' = Append(docs, d)
    /\ UNCHANGED <<level, verdict>>

MoveOn ==
    /\ level' \in level..Len(docs)
    /\ UNCHANGED <<docs, verdict>>

Judge(t) ==
    /\ verdict' = [token |-> t, ok |-> Accepts(level, t)]
    /\ UNCHANGED <<docs, level>>

StartOver ==
    /\ level' = 0
    /\ UNCHANGED <<docs, verdict>>

Next ==
    \/ \E d \in Documents : Publish(d)
    \/ \E t \in Tokens : Judge(t)
    \/ MoveOn \/ StartOver

Spec == Init /\ [][Next]_vars
=============================================================================
