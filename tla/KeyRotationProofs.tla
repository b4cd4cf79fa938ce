------------------------- MODULE KeyRotationProofs -------------------------
(* Proofs about KeyRotation, for any documents, tokens and bounds.            *)
EXTENDS KeyRotation, TLAPS

(* The keys are those of the document of level, and a document on its way is *)
(* at least as late: there is one refresher, and it asks after it installed. *)
InForce ==
    /\ keys = IF level = 0 THEN {} ELSE Installed(docs[level])
    /\ refresher.at = "body" => level <= refresher.doc

IInv == TypeOK /\ InForce

(* What a document installs: at most one key for each kid (install_jwks).    *)
LEMMA InstalledKeys ==
    ASSUME NEW d \in Seq(Jwks)
    PROVE  /\ Installed(d) \subseteq Jwks
           /\ \A k, l \in Installed(d) : k.kid = l.kid => k = l
<1>1. \A i \in DOMAIN d : d[i] \in Jwks /\ i \in Nat
  OBVIOUS
<1>2. Installed(d) \subseteq Jwks
  BY <1>1 DEF Installed
<1>3. ASSUME NEW k \in Installed(d), NEW l \in Installed(d), k.kid = l.kid PROVE k = l
  <2>1. PICK i \in DOMAIN d :
           /\ k = d[i] /\ Usable(d[i])
           /\ \A m \in DOMAIN d : Usable(d[m]) /\ d[m].kid = d[i].kid => m <= i
    BY DEF Installed
  <2>2. PICK j \in DOMAIN d :
           /\ l = d[j] /\ Usable(d[j])
           /\ \A m \in DOMAIN d : Usable(d[m]) /\ d[m].kid = d[j].kid => m <= j
    BY DEF Installed
  <2>3. i <= j /\ j <= i
    BY <1>3, <2>1, <2>2
  <2>4. i = j
    BY <1>1, <2>3
  <2> QED
    BY <2>1, <2>2, <2>4
<1> QED
  BY <1>2, <1>3

(* verify with the keys of a document is the judgement of that document.     *)
LEMMA VerifyIsJudge ==
    ASSUME NEW t \in Tokens, IInv
    PROVE  Accepted(t) = Trust!Accepts(level, t)
<1>1. CASE level = 0
  <2>1. keys = {} /\ ~(level > 0)
    BY <1>1 DEF IInv, InForce
  <2> QED
    BY <2>1 DEF Accepted, Trust!Accepts
<1>2. CASE level # 0
  <2>1. keys = Installed(docs[level]) /\ level > 0
    BY <1>2 DEF IInv, InForce, TypeOK
  <2> DEFINE d == docs[level]
  <2>2. (t.kid # NoKid /\ \E k \in Installed(d) : k.kid = t.kid /\ k.key = t.key /\ k.alg = t.alg)
           <=> Trust!Signs(d, t)
    BY DEF Installed, Usable, Trust!Signs, Trust!Names
  <2> QED
    BY <2>1, <2>2 DEF Accepted, Trust!Accepts
<1> QED
  BY <1>1, <1>2

LEMMA InitInvariant == Init => IInv
<1> SUFFICES ASSUME Init PROVE IInv
  OBVIOUS
<1>1. PICK d \in Documents : docs = <<d>>
  BY DEF Init
<1>2. docs \in Seq(Documents) /\ Len(docs) = 1
  BY <1>1
<1>3. TypeOK
  <2>1. /\ Len(docs) \in 1..MaxDocs /\ keys \subseteq Jwks
        /\ \A k, l \in keys : k.kid = l.kid => k = l
        /\ refresher = Asking /\ starts \in 1..MaxStarts /\ level \in 0..Len(docs)
    BY <1>2, BoundsAssumption DEF Init
  <2>2. verdict \in [token : Tokens, ok : BOOLEAN]
    <3>1. PICK t \in Tokens : verdict = [token |-> t, ok |-> FALSE]
      BY DEF Init
    <3> QED
      BY <3>1, Zenon
  <2> QED
    BY <1>2, <2>1, <2>2 DEF TypeOK
<1>4. InForce
  BY DEF Init, InForce, Asking
<1> QED
  BY <1>3, <1>4 DEF IInv

LEMMA StepInvariant == IInv /\ [Next]_vars => IInv'
<1> SUFFICES ASSUME IInv, [Next]_vars PROVE IInv'
  OBVIOUS
<1> USE DocumentsAssumption, BoundsAssumption
<1>1. ASSUME NEW t \in Tokens, Verify(t) PROVE IInv'
  BY <1>1 DEF Verify, Accepted, IInv, TypeOK, InForce
<1>2. ASSUME NEW d \in Documents, Publish(d) PROVE IInv'
  <2>1. Len(docs') = Len(docs) + 1 /\ docs' \in Seq(Documents)
           /\ \A i \in DOMAIN docs : i \in DOMAIN docs' /\ docs'[i] = docs[i]
    BY <1>2 DEF Publish, IInv, TypeOK
  <2>2. TypeOK'
    BY <1>2, <2>1 DEF Publish, IInv, TypeOK
  <2>3. InForce'
    BY <1>2, <2>1 DEF Publish, IInv, TypeOK, InForce
  <2> QED
    BY <2>2, <2>3 DEF IInv
<1>3. CASE Response
  BY <1>3 DEF Response, IInv, TypeOK, InForce, Asking, Asleep
<1>4. CASE InstallJwks
  <2>1. refresher.doc \in DOMAIN docs /\ docs[refresher.doc] \in Seq(Jwks)
    BY <1>4 DEF InstallJwks, IInv, TypeOK, Asking, Asleep
  <2>2. /\ Installed(docs[refresher.doc]) \subseteq Jwks
        /\ \A k, l \in Installed(docs[refresher.doc]) : k.kid = l.kid => k = l
    BY <2>1, InstalledKeys
  <2>3. TypeOK'
    BY <1>4, <2>1, <2>2 DEF InstallJwks, IInv, TypeOK
  <2>4. InForce'
    BY <1>4, <2>1 DEF InstallJwks, IInv, TypeOK, InForce, Asleep
  <2> QED
    BY <2>3, <2>4 DEF IInv
<1>5. CASE FetchFails
  BY <1>5 DEF FetchFails, IInv, TypeOK, InForce, Asleep
<1>6. CASE Wake
  BY <1>6 DEF Wake, IInv, TypeOK, InForce, Asking
<1>7. CASE Restart
  BY <1>7 DEF Restart, IInv, TypeOK, InForce, Asking
<1>8. CASE UNCHANGED vars
  BY <1>8 DEF vars, IInv, TypeOK, InForce
<1> QED
  BY <1>1, <1>2, <1>3, <1>4, <1>5, <1>6, <1>7, <1>8 DEF Next

LEMMA Invariant == Spec => []IInv
BY InitInvariant, StepInvariant, PTL DEF Spec

(* The state of the resolver and of its refresher is well formed, with one   *)
(* key for a kid.                                                            *)
THEOREM TypeCorrect == Spec => []TypeOK
BY Invariant, PTL DEF IInv

(* Whatever is published, whichever fetches fail and whenever the pod starts *)
(* anew: a token is judged by one document, and never by an earlier one than *)
(* before (install_jwks, verify, spawn_jwks_refresher).                      *)
THEOREM KeepsTrustAlways == Spec => KeepsTrust
<1>1. Init => Trust!Init
  BY DEF Init, Trust!Init
<1>2. IInv /\ [Next]_vars => [Trust!Next]_<<docs, level, verdict>>
  <2> SUFFICES ASSUME IInv, [Next]_vars PROVE [Trust!Next]_<<docs, level, verdict>>
    OBVIOUS
  <2>1. ASSUME NEW t \in Tokens, Verify(t) PROVE Trust!Judge(t)
    <3>1. Accepted(t) = Trust!Accepts(level, t)
      BY VerifyIsJudge
    <3>2. verdict' = [token |-> t, ok |-> Accepted(t)] /\ UNCHANGED <<docs, level>>
      BY <2>1 DEF Verify
    <3> HIDE DEF Accepted, Trust!Accepts
    <3> QED
      BY <3>1, <3>2 DEF Trust!Judge
  <2>2. ASSUME NEW d \in Documents, Publish(d) PROVE Trust!Publish(d)
    BY <2>2 DEF Publish, Trust!Publish
  <2>3. CASE InstallJwks
    <3>1. refresher.doc \in level..Len(docs)
      BY <2>3 DEF InstallJwks, IInv, TypeOK, InForce, Asking, Asleep
    <3> QED
      BY <2>3, <3>1 DEF InstallJwks, Trust!MoveOn, Trust!Next
  <2>4. CASE Restart
    BY <2>4 DEF Restart, Trust!StartOver, Trust!Next
  <2>5. CASE Response \/ FetchFails \/ Wake \/ UNCHANGED vars
    BY <2>5 DEF Response, FetchFails, Wake, vars
  <2> QED
    BY <2>1, <2>2, <2>3, <2>4, <2>5 DEF Next, Trust!Next
<1> QED
  BY <1>1, <1>2, Invariant, PTL DEF Spec, KeepsTrust
=============================================================================
