---------------------------- MODULE KeyRotation ----------------------------
(***************************************************************************)
(* One pod that verifies tokens against the rotating keys of an identity   *)
(* provider: JwksAuthResolver (auth.rs) and the task that refreshes it     *)
(* (spawn_jwks_refresher in main.rs).                                      *)
(*                                                                         *)
(* verify holds the read lock from the choice of the key to the check of   *)
(* the signature, install_jwks the write lock for the exchange: each is    *)
(* one step.  The refresher awaits the response, its body and its timer.   *)
(***************************************************************************)
EXTENDS Naturals, Sequences

CONSTANTS
    Jwks,          \* keys a document may list: [kid, key, alg]
    Documents,     \* what the provider may publish: sequences of them
    Tokens,        \* [kid, key, alg, valid]: header, signing key, fit claims
    NoKid, NoAlg,  \* a JWK or a header without kid, a JWK that cannot be used
    MaxDocs,       \* bound of the model: documents published
    MaxStarts      \* bound of the model: starts of the pod

ASSUME DocumentsAssumption == Documents \subseteq Seq(Jwks)
ASSUME BoundsAssumption == MaxDocs \in Nat \ {0} /\ MaxStarts \in Nat \ {0}

VARIABLES
    docs,       \* the provider: the documents published, the last in force
    keys,       \* JwksAuthResolver.keys: an entry for each kid
    refresher,  \* where the task awaits, and the document on its way
    starts,     \* how often the pod was started (bounded by MaxStarts)
    level,      \* history: the document the keys were taken from
    verdict     \* the last token verified, and the outcome

vars == <<docs, keys, refresher, starts, level, verdict>>

Asking == [at |-> "send"]
Asleep == [at |-> "sleep"]

Usable(k) == k.kid # NoKid /\ k.alg # NoAlg

(* The keys of a document: those without kid or without an algorithm that    *)
(* can be used are skipped, and a later one replaces an earlier of its kid.  *)
Installed(d) ==
    {d[i] : i \in {n \in DOMAIN d :
        /\ Usable(d[n])
        /\ \A m \in DOMAIN d : Usable(d[m]) /\ d[m].kid = d[n].kid => m <= n}}

(* verify: the key is chosen by the kid of the header alone; the signature,  *)
(* its algorithm and the claims must fit.                                    *)
Accepted(t) ==
    /\ t.kid # NoKid
    /\ \E k \in keys : k.kid = t.kid /\ k.key = t.key /\ k.alg = t.alg
    /\ t.valid

Init ==
    /\ docs \in {<<d>> : d \in Documents}
    /\ keys = {} /\ refresher = Asking /\ starts = 1 /\ level = 0
    /\ verdict \in [token : Tokens, ok : {FALSE}]

Verify(t) ==
    /\ verdict' = [token |-> t, ok |-> Accepted(t)]
    /\ UNCHANGED <<docs, keys, refresher, starts, level>>

\* The provider answers with what it publishes at this moment.
Response ==
    /\ refresher = Asking
    /\ refresher' = [at |-> "body", doc |-> Len(docs)]
    /\ UNCHANGED <<docs, keys, starts, level, verdict>>

\* resp.text() is there and install_jwks takes it.
InstallJwks ==
    /\ refresher.at = "body"
    /\ keys' = Installed(docs[refresher.doc])
    /\ level' = refresher.doc
    /\ refresher' = Asleep
    /\ UNCHANGED <<docs, starts, verdict>>

\* Mutant of FetchFails: the keys are dropped with the document.
FailsEmpty ==
    /\ refresher.at \in {"send", "body"}
    /\ refresher' = Asleep
    /\ keys' = {}
    /\ UNCHANGED <<docs, starts, level, verdict>>

\* No response, another status than success, no body, or none that parses.
FetchFails ==
    /\ refresher.at \in {"send", "body"}
    /\ refresher' = Asleep
    /\ UNCHANGED <<docs, keys, starts, level, verdict>>

\* Mutant of Wake: the task ends with the first document it could install.
WakeUntilInstalled ==
    /\ refresher = Asleep /\ keys = {}
    /\ refresher' = Asking
    /\ UNCHANGED <<docs, keys, starts, level, verdict>>

Wake ==
    /\ refresher = Asleep
    /\ refresher' = Asking
    /\ UNCHANGED <<docs, keys, starts, level, verdict>>

Publish(d) ==
    /\ Len(docs) < MaxDocs
    /\ docs' = Append(docs, d)
    /\ UNCHANGED <<keys, refresher, starts, level, verdict>>

Restart ==
    /\ starts < MaxStarts
    /\ starts' = starts + 1
    /\ keys' = {} /\ refresher' = Asking /\ level' = 0
    /\ UNCHANGED <<docs, verdict>>

Next ==
    \/ \E t \in Tokens : Verify(t)
    \/ \E d \in Documents : Publish(d)
    \/ Response \/ InstallJwks \/ FetchFails \/ Wake \/ Restart

(* The timer fires; and though any fetch may fail, not all of them do: the   *)
(* endpoint of the provider is up again and again.                           *)
Fairness == WF_vars(Wake) /\ SF_vars(Response) /\ SF_vars(InstallJwks)

Spec == Init /\ [][Next]_vars /\ Fairness

-----------------------------------------------------------------------------
(* Properties.                                                              *)

TypeOK ==
    /\ docs \in Seq(Documents) /\ Len(docs) \in 1..MaxDocs
    /\ keys \subseteq Jwks
    /\ \A k, l \in keys : k.kid = l.kid => k = l
    /\ refresher \in {Asking, Asleep} \cup [at : {"body"}, doc : DOMAIN docs]
    /\ starts \in 1..MaxStarts
    /\ level \in 0..Len(docs)
    /\ verdict \in [token : Tokens, ok : BOOLEAN]

(* What is judged by is one document of the provider, unmixed and unspoiled  *)
(* by failed fetches, and never an earlier one than before (install_jwks,    *)
(* "atomar getauscht"; "Verfuegbarkeit vor Frische" of the refresher).       *)
Trust == INSTANCE KeyTrust
KeepsTrust == Trust!Init /\ [][Trust!Next]_<<docs, level, verdict>>

(* "Nach einer Rotation bleiben alte Schluessel nur gueltig, solange der IdP *)
(* sie weiter publiziert": once the provider leaves its document alone, the  *)
(* pod accepts exactly the tokens that document stands for, for good.        *)
FollowsProvider ==
    \A t \in Tokens :
        LET Stands == t.valid /\ Trust!Signs(docs[Len(docs)], t)
        IN  /\ <>[]Stands => <>[]Accepted(t)
            /\ <>[]~Stands => <>[]~Accepted(t)
=============================================================================
