--------------------------- MODULE DocumentProofs ---------------------------
(***************************************************************************)
(* What is proved of the documents of any corpus: the arena is a tree in   *)
(* document order, and what the views of it show, where the eIds and paths *)
(* they hand out lead, and what a comparison tells follows from that.      *)
(***************************************************************************)
EXTENDS AknOutline, SequenceTheorems, FiniteSetTheorems, WellFoundedInduction, TLAPS

-----------------------------------------------------------------------------
(* Numbers.  Induction is had from the least for which a claim does not hold. *)
LEMMA LeastOf ==
    ASSUME NEW T, T \subseteq Nat, T # {}
    PROVE  \E x \in T : \A y \in T : x <= y
  <1>1. PICK x \in T : \A y \in T : ~ (<<y, x>> \in OpToRel(<, Nat))
    BY WFMin, NatLessThanWellFounded
  <1>2. \A y \in T : ~(y < x)
    BY <1>1 DEF OpToRel
  <1> QED BY <1>2

LEMMA LastOf ==
    ASSUME NEW n \in Nat, NEW T, T \subseteq 1..n, T # {}
    PROVE  \E x \in T : \A y \in T : y <= x
  <1> DEFINE bounds == {m \in Nat : \A y \in T : y <= m}
  <1>1. n \in bounds
    OBVIOUS
  <1>2. PICK m \in bounds : \A k \in bounds : m <= k
    <2>1. bounds \subseteq Nat /\ bounds # {}
      BY <1>1
    <2> HIDE DEF bounds
    <2> QED BY <2>1, LeastOf
  <1>3. ASSUME m \notin T PROVE FALSE
    <2>1. \A y \in T : y <= m - 1 /\ y >= 1
      BY <1>3
    <2>2. m - 1 \in Nat
      <3>1. PICK y \in T : TRUE
        OBVIOUS
      <3> QED BY <2>1, <3>1
    <2>3. m - 1 \in bounds
      BY <2>1, <2>2
    <2> QED BY <1>2, <2>3
  <1> QED BY <1>3

LEMMA MinIs ==
    ASSUME NEW T, T \subseteq Nat, T # {}
    PROVE  Min(T) \in T /\ \A y \in T : Min(T) <= y
  BY LeastOf DEF Min

LEMMA MaxIs ==
    ASSUME NEW n \in Nat, NEW T, T \subseteq 1..n, T # {}
    PROVE  Max(T) \in T /\ \A y \in T : y <= Max(T)
  <1>1. \E x \in T : \A y \in T : x >= y
    <2>1. PICK x \in T : \A y \in T : y <= x
      BY LastOf
    <2>2. \A y \in T : x >= y
      BY <2>1
    <2> QED BY <2>2
  <1> QED BY <1>1 DEF Max

-----------------------------------------------------------------------------
(* The arena.                                                                 *)
Tree(d) == DOMAIN d = 1..Len(d) /\ Len(d) \in Nat /\ (\A n \in 1..Len(d) : d[n].parent \in Nat) /\ InDocumentOrder(d)

\* n is i or below it.
Within(d, i, n) == n \in i..Len(d) /\ \A k \in i + 1..n : d[k].parent >= i

LEMMA SubtreeIs ==
    ASSUME NEW d, Tree(d), NEW i \in 1..Len(d)
    PROVE  \A n : n \in Subtree(d, i) <=> Within(d, i, n)
  <1> DEFINE Outside == {k \in i + 1..Len(d) : d[k].parent < i}
  <1>0. Len(d) \in Nat /\ \A k \in i + 1..Len(d) : d[k].parent \in Nat
    BY DEF Tree
  <1>1. CASE Outside = {}
    <2>1. Subtree(d, i) = i..Len(d)
      BY <1>1 DEF Subtree
    <2>2. \A k \in i + 1..Len(d) : d[k].parent >= i
      BY <1>0, <1>1
    <2> QED BY <1>0, <2>1, <2>2 DEF Within
  <1>2. CASE Outside # {}
    <2> DEFINE m == Min(Outside)
    <2>1. Subtree(d, i) = i..m - 1
      BY <1>2 DEF Subtree
    <2>2. m \in Outside /\ \A y \in Outside : m <= y
      <3>1. Outside \subseteq Nat
        BY <1>0
      <3> HIDE DEF Outside
      <3> QED BY <1>2, <3>1, MinIs
    <2> HIDE DEF m
    <2>3. m \in i + 1..Len(d) /\ d[m].parent < i
      BY <2>2
    <2>4. \A k \in i + 1..m - 1 : d[k].parent >= i
      BY <1>0, <2>2, <2>3
    <2>5. ASSUME NEW n \in i..m - 1 PROVE Within(d, i, n)
      BY <1>0, <2>3, <2>4 DEF Within
    <2>6. ASSUME NEW n, Within(d, i, n) PROVE n \in i..m - 1
      <3>1. n \in i..Len(d) /\ \A k \in i + 1..n : d[k].parent >= i
        BY <2>6 DEF Within
      <3>2. m \notin i + 1..n
        BY <1>0, <2>3, <3>1
      <3> QED BY <1>0, <2>3, <3>1, <3>2
    <2> QED BY <2>1, <2>5, <2>6
  <1> QED BY <1>1, <1>2

\* The ancestors of a node are those of its parent, and itself.
LEMMA OneUp ==
    ASSUME NEW d, Tree(d), NEW n \in 1..Len(d), NEW a \in Nat
    PROVE  (a >= 1 /\ Within(d, a, n)) <=> (a = n \/ (a >= 1 /\ Within(d, a, d[n].parent)))
  <1>0. Len(d) \in Nat /\ (\A k \in 1..Len(d) : d[k].parent \in Nat) /\ d[1].parent = 0
    BY DEF Tree, InDocumentOrder, NoNode
  <1>1. CASE n = 1
    BY <1>0, <1>1 DEF Within
  <1>2. CASE n # 1
    <2> DEFINE p == d[n].parent
    <2>1. p \in 1..n - 1 /\ \A k \in p + 1..n - 1 : d[k].parent >= p
      BY <1>0, <1>2 DEF Tree, InDocumentOrder
    <2> HIDE DEF p
    <2>2. ASSUME a >= 1, Within(d, a, n), a # n PROVE Within(d, a, p)
      <3>1. a <= n - 1 /\ (\A k \in a + 1..n : d[k].parent >= a) /\ n \in a + 1..n
        BY <1>0, <2>2 DEF Within
      <3>2. p >= a
        BY <3>1 DEF p
      <3> QED BY <1>0, <2>1, <3>1, <3>2 DEF Within
    <2>3. ASSUME a >= 1, Within(d, a, p) PROVE Within(d, a, n)
      <3>1. a <= p /\ \A k \in a + 1..p : d[k].parent >= a
        BY <2>3 DEF Within
      <3>2. ASSUME NEW k \in a + 1..n PROVE d[k].parent >= a
        <4>1. k \in 1..Len(d) /\ d[k].parent \in Nat
          BY <1>0
        <4>2. CASE k <= p
          BY <3>1, <4>2
        <4>3. CASE k > p /\ k # n
          <5>1. d[k].parent >= p
            BY <2>1, <4>3
          <5> QED BY <2>1, <3>1, <4>1, <5>1
        <4>4. CASE k = n
          BY <3>1, <4>4 DEF p
        <4> QED BY <2>1, <4>2, <4>3, <4>4
      <3> QED BY <1>0, <2>1, <3>1, <3>2 DEF Within
    <2>4. Within(d, n, n)
      BY <1>0 DEF Within
    <2> QED BY <2>2, <2>3, <2>4 DEF p
  <1> QED BY <1>1, <1>2

LEMMA AncestryIs ==
    ASSUME NEW d, Tree(d), NEW i \in 0..Len(d)
    PROVE  Ancestry(d, i) = {a \in 1..i : Within(d, a, i)}
  <1>0. Len(d) \in Nat /\ (\A k \in 1..Len(d) : d[k].parent \in 0..k - 1)
    BY DEF Tree, InDocumentOrder, NoNode
  <1> DEFINE IsAbove(f) == f = [n \in 0..i |-> IF n = NoNode THEN {} ELSE {n} \cup f[d[n].parent]]
             Above == CHOOSE f : IsAbove(f)
             up(n) == {a \in 1..n : Within(d, a, n)}
             g == [n \in 0..i |-> up(n)]
  <1>1. Ancestry(d, i) = Above[i]
    BY DEF Ancestry
  <1>2. \A n \in 0..i : up(n) = IF n = NoNode THEN {} ELSE {n} \cup up(d[n].parent)
    <2> TAKE n \in 0..i
    <2>1. CASE n = 0
      BY <2>1 DEF NoNode
    <2>2. CASE n # 0
      <3>1. n \in 1..Len(d) /\ d[n].parent \in 0..n - 1
        BY <1>0, <2>2
      <3>2. \A a \in Nat : (a >= 1 /\ Within(d, a, n)) <=> (a = n \/ (a >= 1 /\ Within(d, a, d[n].parent)))
        BY <3>1, OneUp
      <3>3. \A m \in Nat : \A a : a \in up(m) <=> a \in Nat /\ a >= 1 /\ Within(d, a, m)
        BY DEF Within
      <3>4. \A a : a \in up(n) <=> a = n \/ a \in up(d[n].parent)
        <4> HIDE DEF up
        <4> QED BY <3>1, <3>2, <3>3
      <3>5. up(n) = {n} \cup up(d[n].parent)
        <4> HIDE DEF up
        <4> QED BY <3>4
      <3> HIDE DEF up
      <3> QED BY <2>2, <3>5 DEF NoNode
    <2> QED BY <2>1, <2>2
  <1> HIDE DEF up
  <1>3. IsAbove(g)
    <2>1. \A n \in 0..i : n = NoNode \/ d[n].parent \in 0..i
      BY <1>0 DEF NoNode
    <2> QED BY <1>2, <2>1
  <1>4. IsAbove(Above)
    BY <1>3
  <1> HIDE DEF Above
  <1>5. \A n \in 0..i : Above[n] = IF n = NoNode THEN {} ELSE {n} \cup Above[d[n].parent]
    BY <1>4
  <1> DEFINE wrong == {n \in 0..i : Above[n] # up(n)}
  <1>6. ASSUME wrong # {} PROVE FALSE
    <2>1. PICK m \in wrong : \A k \in wrong : m <= k
      <3>1. wrong \subseteq Nat
        BY <1>0
      <3> HIDE DEF wrong
      <3> QED BY <1>6, <3>1, LeastOf
    <2>2. m \in 0..i /\ Above[m] # up(m)
      OBVIOUS
    <2>3. CASE m = NoNode
      BY <1>2, <1>5, <2>2, <2>3
    <2>4. CASE m # NoNode
      <3>1. d[m].parent \in 0..i /\ d[m].parent < m
        BY <1>0, <2>2, <2>4 DEF NoNode
      <3>2. d[m].parent \notin wrong
        BY <1>0, <2>1, <2>2, <3>1
      <3>3. Above[d[m].parent] = up(d[m].parent)
        BY <3>1, <3>2
      <3> HIDE DEF wrong
      <3> QED BY <1>2, <1>5, <2>2, <2>4, <3>3
    <2> QED BY <2>3, <2>4
  <1>7. Above[i] = up(i)
    BY <1>6
  <1> QED BY <1>1, <1>7 DEF up

\* Of two elements with a node in common one is in the other.
LEMMA Nested ==
    ASSUME NEW d, Tree(d), NEW i \in 1..Len(d), NEW j \in 1..Len(d), i <= j,
           NEW n, n \in Subtree(d, i), n \in Subtree(d, j)
    PROVE  j \in Subtree(d, i)
  <1>1. Within(d, i, n) /\ Within(d, j, n) /\ Len(d) \in Nat
    BY SubtreeIs DEF Tree
  <1>2. Within(d, i, j)
    BY <1>1 DEF Within
  <1> QED BY <1>2, SubtreeIs

LEMMA Transitive ==
    ASSUME NEW d, Tree(d), NEW i \in 1..Len(d), NEW j \in Subtree(d, i), NEW n \in Subtree(d, j)
    PROVE  n \in Subtree(d, i)
  <1>1. Within(d, i, j) /\ Len(d) \in Nat /\ \A k \in 1..Len(d) : d[k].parent \in Nat
    BY SubtreeIs DEF Tree
  <1>2. j \in 1..Len(d) /\ j >= i /\ \A k \in i + 1..j : d[k].parent >= i
    BY <1>1 DEF Within
  <1>3. Within(d, j, n)
    BY <1>2, SubtreeIs
  <1>4. n \in j..Len(d) /\ \A k \in j + 1..n : d[k].parent >= j
    BY <1>3 DEF Within
  <1>5. ASSUME NEW k \in i + 1..n PROVE d[k].parent >= i
    <2>1. k <= j \/ d[k].parent >= j
      BY <1>2, <1>4
    <2>2. d[k].parent \in Nat
      BY <1>1, <1>2, <1>4
    <2> QED BY <1>2, <2>1, <2>2
  <1>6. Within(d, i, n)
    BY <1>2, <1>4, <1>5 DEF Within
  <1> QED BY <1>6, SubtreeIs

LEMMA SubtreeBounds ==
    ASSUME NEW d, Tree(d), NEW i \in 1..Len(d)
    PROVE  /\ i \in Subtree(d, i)
           /\ \A n \in Subtree(d, i) : n \in 1..Len(d) /\ n >= i
           /\ Len(d) \in Nat
  <1>1. Len(d) \in Nat /\ Within(d, i, i)
    BY DEF Tree, Within
  <1>2. \A n : Within(d, i, n) => n \in 1..Len(d) /\ n >= i
    BY <1>1 DEF Within
  <1> QED BY <1>1, <1>2, SubtreeIs

-----------------------------------------------------------------------------
(* Documents as they are parsed.                                              *)
DocInv ==
    /\ corpus \in Corpora
    /\ doc \in Seq(Nodes(DOMAIN corpus.below))
    /\ InDocumentOrder(doc)
    /\ doc[1].tag \notin HierarchyTags

LEMMA NodesOf ==
    ASSUME NEW tags, NEW d \in Seq(Nodes(tags))
    PROVE  /\ DOMAIN d = 1..Len(d) /\ Len(d) \in Nat
           /\ \A n \in DOMAIN d : /\ d[n].parent \in Nat /\ d[n].tag \in tags
                                 /\ d[n].eid \in EidValues \cup {None}
  <1> DEFINE nodes == Nodes(tags)
  <1>1. d \in Seq(nodes)
    OBVIOUS
  <1>2. \A node \in nodes : node.parent \in Nat /\ node.tag \in tags /\ node.eid \in EidValues \cup {None}
    BY DEF Nodes
  <1> HIDE DEF nodes
  <1> QED BY <1>1, <1>2

LEMMA DocIsTree == DocInv => Tree(doc)
  BY NodesOf DEF DocInv, Tree

LEMMA DocGrows ==
    ASSUME DocInv, NEW p \in Open(doc), NEW node \in Nodes(DOMAIN corpus.below), node.parent = p,
           doc' = Append(doc, node), corpus' = corpus
    PROVE  DocInv'
  <1>1. Tree(doc) /\ Len(doc) \in Nat /\ Len(doc) >= 1
    BY DocIsTree DEF DocInv, InDocumentOrder
  <1>2. p \in 1..Len(doc) /\ \A k \in p + 1..Len(doc) : doc[k].parent >= p
    <2>1. p \in Ancestry(doc, Len(doc)) /\ Len(doc) \in 0..Len(doc)
      BY <1>1 DEF Open
    <2>2. p \in 1..Len(doc) /\ Within(doc, p, Len(doc))
      BY <1>1, <2>1, AncestryIs
    <2> QED BY <2>2 DEF Within
  <1> DEFINE d == doc'
             nodes == Nodes(DOMAIN corpus.below)
  <1>3. d \in Seq(nodes) /\ Len(d) = Len(doc) + 1 /\ d[Len(doc) + 1] = node
        /\ \A n \in 1..Len(doc) : d[n] = doc[n]
    <2> HIDE DEF nodes
    <2> QED BY AppendProperties DEF nodes, DocInv
  <1> HIDE DEF d, nodes
  <1>4. \A n \in 2..Len(doc) :
          /\ doc[n].parent \in 1..n - 1
          /\ \A k \in doc[n].parent + 1..n - 1 : doc[k].parent >= doc[n].parent
    BY DEF DocInv, InDocumentOrder
  <1>5. ASSUME NEW n \in 2..Len(d)
        PROVE  /\ d[n].parent \in 1..n - 1
               /\ \A k \in d[n].parent + 1..n - 1 : d[k].parent >= d[n].parent
    <2>1. CASE n = Len(doc) + 1
      BY <1>1, <1>2, <1>3, <2>1
    <2>2. CASE n # Len(doc) + 1
      <3>1. n \in 2..Len(doc) /\ d[n] = doc[n]
        BY <1>1, <1>3, <2>2
      <3>2. \A k \in doc[n].parent + 1..n - 1 : d[k] = doc[k]
        BY <1>1, <1>3, <1>4, <3>1
      <3> QED BY <1>4, <3>1, <3>2
    <2> QED BY <2>1, <2>2
  <1>6. Len(d) >= 1 /\ d[1].parent = NoNode
    BY <1>1, <1>3 DEF DocInv, InDocumentOrder
  <1>7. InDocumentOrder(d)
    BY <1>5, <1>6 DEF InDocumentOrder
  <1>8. d[1].tag \notin HierarchyTags
    BY <1>1, <1>3 DEF DocInv
  <1> QED BY <1>3, <1>7, <1>8 DEF DocInv, d, nodes

LEMMA EidsTyped ==
    ASSUME NEW tags, NEW d \in Seq(Nodes(tags)), NEW how
    PROVE  Eids(d, how) \subseteq EidValues \cup {None}
  <1>1. \A i \in DOMAIN d : d[i].eid \in EidValues \cup {None}
    BY NodesOf
  <1>2. \A i \in {n \in DOMAIN d : d[n].eid # None}, b \in BOOLEAN :
          [num |-> d[i].eid.num, underscore |-> b] \in EidValues
    BY <1>1 DEF EidValues
  <1>3. [num |-> Len(d) + 1, underscore |-> TRUE] \in EidValues
    BY DEF EidValues
  <1> DEFINE own   == IF "own" \in how THEN {[num |-> Len(d) + 1, underscore |-> TRUE]} ELSE {}
             again == IF "again" \in how
                      THEN {[num |-> d[i].eid.num, underscore |-> b] :
                               i \in {n \in DOMAIN d : d[n].eid # None}, b \in BOOLEAN}
                      ELSE {}
  <1>4. own \subseteq EidValues
    BY <1>3
  <1>5. again \subseteq EidValues
    BY <1>2
  <1>6. Eids(d, how) = UNION {IF "none" \in how THEN {None} ELSE {}, own, again}
    BY DEF Eids
  <1> HIDE DEF own, again
  <1> QED BY <1>4, <1>5, <1>6

LEMMA FrbrsTyped ==
    ASSUME NEW tags, NEW d \in Seq(Nodes(tags)), NEW tag
    PROVE  Frbrs(d, tag) \subseteq [uri : Uris \cup {None}, this : Uris \cup {None}]
  <1>1. [path |-> Len(d) + 1, dated |-> TRUE] \in Uris
    BY DEF Uris
  <1> DEFINE own == [path |-> Len(d) + 1, dated |-> TRUE]
  <1>2. Frbrs(d, tag) = IF tag # "doc" THEN {NoFrbr}
                        ELSE {NoFrbr, [uri |-> own, this |-> None], [uri |-> None, this |-> own]}
    BY DEF Frbrs
  <1> HIDE DEF own
  <1>3. own \in Uris
    BY <1>1 DEF own
  <1> QED BY <1>2, <1>3 DEF NoFrbr

(* copy_rox: whatever is parsed, the arena is a tree in document order.       *)
THEOREM DocumentIsTree == Spec => []DocInv
  <1>1. Init => DocInv
    BY CorporaAssumption DEF Init, DocInv
  <1>2. DocInv /\ [Next]_vars => DocInv'
    <2> SUFFICES ASSUME DocInv, Next PROVE DocInv'
      BY DEF DocInv, vars
    <2>1. PICK p \in Open(doc) :
              \/ \E tag \in corpus.below[doc[p].tag] : Element(p, tag)
              \/ \E len \in corpus.lengths : Text(p, len)
      BY DEF Next
    <2>2. p \in DOMAIN doc /\ p \in Nat /\ doc[p].tag \in DOMAIN corpus.below
      <3>1. p \in Ancestry(doc, Len(doc)) /\ Tree(doc) /\ Len(doc) \in 0..Len(doc)
        BY DocIsTree DEF Open, Tree
      <3>2. p \in 1..Len(doc)
        BY <3>1, AncestryIs
      <3> QED BY <3>2, NodesOf DEF DocInv
    <2>3. ASSUME NEW tag \in corpus.below[doc[p].tag], Element(p, tag) PROVE DocInv'
      <3>1. PICK eid \in Eids(doc, corpus.eids[tag]), frbr \in Frbrs(doc, tag) :
               doc' = Append(doc, Node(tag, p, eid, frbr, 0)) /\ corpus' = corpus
        BY <2>3 DEF Element
      <3>2. tag \in DOMAIN corpus.below
        BY <2>2, CorporaAssumption DEF DocInv
      <3>3. eid \in EidValues \cup {None} /\ frbr \in [uri : Uris \cup {None}, this : Uris \cup {None}]
        BY EidsTyped, FrbrsTyped DEF DocInv
      <3>4. Node(tag, p, eid, frbr, 0) \in Nodes(DOMAIN corpus.below) /\ Node(tag, p, eid, frbr, 0).parent = p
        BY <2>2, <3>2, <3>3 DEF Node, Nodes
      <3> QED BY <3>1, <3>4, DocGrows
    <2>4. ASSUME NEW len \in corpus.lengths, Text(p, len) PROVE DocInv'
      <3>1. doc' = Append(doc, Node("text", p, None, NoFrbr, len)) /\ corpus' = corpus
        BY <2>4 DEF Text
      <3>2. len \in Nat /\ "text" \in DOMAIN corpus.below
        BY CorporaAssumption DEF DocInv
      <3>3. Node("text", p, None, NoFrbr, len) \in Nodes(DOMAIN corpus.below)
            /\ Node("text", p, None, NoFrbr, len).parent = p
        BY <2>2, <3>2 DEF Node, Nodes, NoFrbr
      <3> QED BY <3>1, <3>3, DocGrows
    <2> QED BY <2>1, <2>3, <2>4
  <1> QED BY <1>1, <1>2, PTL DEF Spec

-----------------------------------------------------------------------------
(* Views.  A text is in the text of an element if nothing between them cuts   *)
(* it out.                                                                    *)
LEMMA TextsAre ==
    ASSUME NEW d, Tree(d), NEW i \in 1..Len(d), NEW cut
    PROVE  \A t : t \in Texts(d, i, cut) <=>
               /\ t \in FindAll(d, i, "text")
               /\ \A c \in Subtree(d, i) : c # i /\ t \in Subtree(d, c) => d[c].tag \notin cut
  BY DEF Texts

(* search_text: a text of a document is found in one place, and the eId of    *)
(* that place leads to it if it is given once.                                *)
LEMMA FoundOnceHolds == DocInv => FoundOnce
  <1> SUFFICES ASSUME DocInv, NEW t \in FindAll(doc, 1, "text")
               PROVE  LET hits == SearchText(doc, t, Len(doc))
                      IN  /\ Cardinality(hits) <= 1
                          /\ \A h \in hits : LookupEid(doc, 1, doc[h].eid) = {h} => ResolveEid(doc, 1, doc[h].eid).node = h
    BY DEF FoundOnce
  <1>1. Tree(doc)
    BY DocIsTree
  <1> DEFINE hits == SearchText(doc, t, Len(doc))
  <1>2. ASSUME NEW l \in hits, NEW m \in hits, l < m PROVE FALSE
    <2>1. l \in Leaves(doc) /\ m \in Leaves(doc) /\ t \in TextOf(doc, l) /\ t \in TextOf(doc, m)
      BY DEF SearchText
    <2>2. l \in 1..Len(doc) /\ m \in 1..Len(doc) /\ doc[m].eid # None /\ ~HasEidDescendant(doc, l)
      BY <1>1, <2>1 DEF Leaves, Named, Tree
    <2>3. t \in Subtree(doc, l) /\ t \in Subtree(doc, m)
      BY <2>1 DEF TextOf, Texts, FindAll
    <2>4. m \in Subtree(doc, l)
      BY <1>1, <1>2, <2>2, <2>3, Nested
    <2> QED BY <1>2, <2>2, <2>4 DEF HasEidDescendant
  <1>3. \A h \in hits : h \in Nat
    BY <1>1 DEF SearchText, Leaves, Named, Tree
  <1>4. \A l, m \in hits : l = m
    <2> HIDE DEF hits
    <2> QED BY <1>2, <1>3
  <1>5. Cardinality(hits) <= 1
    <2> HIDE DEF hits
    <2>1. CASE hits = {}
      BY <2>1, FS_EmptySet
    <2>2. CASE hits # {}
      <3>1. PICK x : hits = {x}
        BY <1>4, <2>2
      <3>2. Cardinality({x}) = 1
        BY FS_Singleton
      <3> QED BY <3>1, <3>2
    <2> QED BY <2>1, <2>2
  <1>6. ASSUME NEW h \in hits, LookupEid(doc, 1, doc[h].eid) = {h} PROVE ResolveEid(doc, 1, doc[h].eid).node = h
    <2>1. Min({h}) = h
      BY <1>3, MinIs
    <2> HIDE DEF hits
    <2> QED BY <1>6, <2>1 DEF ResolveEid
  <1> QED BY <1>5, <1>6

-----------------------------------------------------------------------------
(* Notes and islands.                                                         *)
LEMMA NoteTexts ==
    ASSUME NEW d, Tree(d), NEW i \in 1..Len(d), \A n \in CollectNotes(d, i) : CollectNotes(d, n) = {n}
    PROVE  /\ \A n \in FindAll(d, i, "authorialNote") :
                  [anchor |-> NearestEid(d, d[n].parent), texts |-> TextWithNotes(d, n)] \in ExtractChangeNotes(d, i)
           /\ \A note \in ExtractChangeNotes(d, i) : \E n \in FindAll(d, i, "authorialNote") :
                  note = [anchor |-> NearestEid(d, d[n].parent), texts |-> TextWithNotes(d, n)]
  <1>1. ASSUME NEW n \in FindAll(d, i, "authorialNote")
        PROVE  Max(CollectNotes(d, n)) = n
    <2>1. CollectNotes(d, n) = {n}
      BY DEF CollectNotes
    <2>2. n \in 1..Len(d)
      BY SubtreeBounds DEF FindAll
    <2>3. Max({n}) = n
      BY <2>2 DEF Max
    <2> QED BY <2>1, <2>3
  <1> QED BY <1>1 DEF ExtractChangeNotes

\* The nearest eId above a node of the subtree of a named element is of that subtree.
LEMMA NearestIsWithin ==
    ASSUME NEW d, Tree(d), NEW i \in Named(d), NEW n \in Subtree(d, i), n # i
    PROVE  \E e \in Subtree(d, i) : d[e].eid = NearestEid(d, d[n].parent)
  <1>1. i \in 1..Len(d) /\ d[i].eid # None /\ Len(d) \in Nat
    BY DEF Named, Tree
  <1>2. n \in 1..Len(d) /\ Within(d, i, n)
    BY <1>1, SubtreeIs, SubtreeBounds
  <1> DEFINE p == d[n].parent
             named == {a \in Ancestry(d, p) : d[a].eid # None}
  <1>3. Within(d, i, p)
    BY <1>1, <1>2, OneUp
  <1>4. p \in 1..Len(d) /\ i <= p
    BY <1>1, <1>3 DEF Within
  <1>5. Ancestry(d, p) = {a \in 1..p : Within(d, a, p)}
    BY <1>1, <1>4, AncestryIs
  <1> HIDE DEF p
  <1>6. i \in named /\ named \subseteq 1..p
    BY <1>1, <1>3, <1>4, <1>5
  <1> DEFINE m == Max(named)
  <1>7. m \in named /\ i <= m
    <2>1. p \in Nat /\ named \subseteq 1..p /\ named # {}
      BY <1>4, <1>6
    <2> HIDE DEF named
    <2>2. m \in named /\ \A y \in named : y <= m
      BY <2>1, MaxIs
    <2> QED BY <1>6, <2>2
  <1>8. m \in 1..p /\ Within(d, m, p)
    BY <1>5, <1>7
  <1>9. NearestEid(d, p) = d[m].eid
    <2> HIDE DEF m
    <2> QED BY <1>6 DEF NearestEid, m
  <1> HIDE DEF m
  <1>10. m \in Subtree(d, i)
    <2>1. m \in 1..Len(d) /\ p \in Subtree(d, i) /\ p \in Subtree(d, m)
      BY <1>1, <1>3, <1>4, <1>8, SubtreeIs
    <2> QED BY <1>1, <1>7, <2>1, Nested
  <1> QED BY <1>9, <1>10 DEF p

LEMMA NothingUnaccountedHolds == DocInv => NothingUnaccounted
  <1> DEFINE notes(i)  == ExtractChangeNotes(doc, i)
             noted(i)  == UNION {n.texts : n \in notes(i)}
             island    == UNION {f.elements : f \in DetectForeignContent(doc)}
  <1> SUFFICES ASSUME DocInv, NEW i \in Named(doc), \A n \in CollectNotes(doc, i) : CollectNotes(doc, n) = {n}
               PROVE  /\ FindAll(doc, i, "text") \subseteq TextOf(doc, i) \cup noted(i) \cup island
                      /\ doc[i].tag # "authorialNote" =>
                             /\ TextOf(doc, i) \cap noted(i) = {}
                             /\ \A n \in notes(i) : \E e \in Subtree(doc, i) : doc[e].eid = n.anchor
                      /\ (\A f \in FindAll(doc, 1, "foreign") : i \notin Subtree(doc, f)) =>
                             TextOf(doc, i) \cap island = {}
    BY DEF NothingUnaccounted
  <1>1. Tree(doc) /\ i \in 1..Len(doc) /\ 1 \in 1..Len(doc) /\ Len(doc) \in Nat
    BY DocIsTree DEF Tree, Named, InDocumentOrder
  <1>2. \A t : t \in island <=> \E f \in FindAll(doc, 1, "foreign") : t \in Subtree(doc, f) \ {f}
    <2> DEFINE report(f) == [context |-> NearestEid(doc, f), elements |-> Subtree(doc, f) \ {f}]
    <2>1. \A f : report(f).elements = Subtree(doc, f) \ {f}
      OBVIOUS
    <2>2. DetectForeignContent(doc) = {report(f) : f \in FindAll(doc, 1, "foreign")}
      BY DEF DetectForeignContent
    <2> HIDE DEF report
    <2> QED BY <2>1, <2>2
  <1>3. \A t : t \in noted(i) <=> \E n \in FindAll(doc, i, "authorialNote") : t \in TextWithNotes(doc, n)
    <2> DEFINE note(n) == [anchor |-> NearestEid(doc, doc[n].parent), texts |-> TextWithNotes(doc, n)]
    <2>1. \A n : note(n).texts = TextWithNotes(doc, n)
      OBVIOUS
    <2>2. /\ \A n \in FindAll(doc, i, "authorialNote") : note(n) \in notes(i)
          /\ \A m \in notes(i) : \E n \in FindAll(doc, i, "authorialNote") : m = note(n)
      BY <1>1, NoteTexts
    <2> HIDE DEF note, notes
    <2> QED BY <2>1, <2>2
  <1>4. \A n \in Subtree(doc, i) : n \in 1..Len(doc) /\ n \in Subtree(doc, 1)
    <2>1. \A n \in Subtree(doc, i) : n \in 1..Len(doc)
      BY <1>1, SubtreeBounds
    <2>2. \A n \in 1..Len(doc) : n \in Subtree(doc, 1)
      <3> TAKE n \in 1..Len(doc)
      <3>1. Within(doc, 1, n)
        BY <1>1 DEF Within, Tree, InDocumentOrder
      <3> QED BY <1>1, <3>1, SubtreeIs
    <2> QED BY <2>1, <2>2
  <1> HIDE DEF island, noted
  <1>5. ASSUME NEW t \in FindAll(doc, i, "text"), t \notin TextOf(doc, i), t \notin island
        PROVE  t \in noted(i)
    <2>1. PICK c \in Subtree(doc, i) : c # i /\ t \in Subtree(doc, c) /\ doc[c].tag \in {"authorialNote", "foreign"}
      BY <1>1, <1>5, TextsAre DEF TextOf
    <2>2. c \in 1..Len(doc) /\ t \in 1..Len(doc) /\ doc[t].tag = "text"
      BY <1>4, <2>1 DEF FindAll
    <2>3. ASSUME NEW f \in 1..Len(doc), doc[f].tag = "foreign", t \in Subtree(doc, f) PROVE FALSE
      <3>1. f \in FindAll(doc, 1, "foreign")
        <4>1. f \in Subtree(doc, 1)
          <5>1. Within(doc, 1, f)
            BY <1>1 DEF Within, Tree, InDocumentOrder
          <5> QED BY <1>1, <5>1, SubtreeIs
        <4> QED BY <2>3, <4>1 DEF FindAll
      <3>2. t # f
        BY <2>2, <2>3
      <3> QED BY <1>2, <1>5, <2>3, <3>1, <3>2
    <2>4. doc[c].tag = "authorialNote"
      BY <2>1, <2>2, <2>3
    <2>5. t \in TextWithNotes(doc, c)
      <3>1. t \in FindAll(doc, c, "text")
        BY <2>1, <2>2 DEF FindAll
      <3>2. \A k \in Subtree(doc, c) : k # c /\ t \in Subtree(doc, k) => doc[k].tag \notin {"foreign"}
        BY <1>1, <2>2, <2>3, SubtreeBounds
      <3> QED BY <1>1, <2>2, <3>1, <3>2, TextsAre DEF TextWithNotes
    <2>6. c \in FindAll(doc, i, "authorialNote")
      BY <2>1, <2>4 DEF FindAll
    <2> QED BY <1>3, <2>5, <2>6
  <1>6. ASSUME NEW t \in TextOf(doc, i), t \in noted(i), doc[i].tag # "authorialNote" PROVE FALSE
    <2>1. PICK n \in FindAll(doc, i, "authorialNote") : t \in TextWithNotes(doc, n)
      BY <1>3, <1>6
    <2>2. n \in Subtree(doc, i) /\ n # i /\ doc[n].tag = "authorialNote" /\ t \in Subtree(doc, n)
      BY <1>6, <2>1 DEF FindAll, TextWithNotes, Texts
    <2> QED BY <1>1, <1>6, <2>2, TextsAre DEF TextOf
  <1>7. ASSUME doc[i].tag # "authorialNote", NEW note \in notes(i)
        PROVE  \E e \in Subtree(doc, i) : doc[e].eid = note.anchor
    <2>1. PICK n \in FindAll(doc, i, "authorialNote") :
              note = [anchor |-> NearestEid(doc, doc[n].parent), texts |-> TextWithNotes(doc, n)]
      BY <1>1, NoteTexts
    <2>2. n \in Subtree(doc, i) /\ n # i
      BY <1>7, <2>1 DEF FindAll
    <2> QED BY <1>1, <2>1, <2>2, NearestIsWithin
  <1>8. ASSUME \A f \in FindAll(doc, 1, "foreign") : i \notin Subtree(doc, f),
               NEW t \in TextOf(doc, i), t \in island
        PROVE  FALSE
    <2>1. PICK f \in FindAll(doc, 1, "foreign") : t \in Subtree(doc, f)
      BY <1>2, <1>8
    <2>2. f \in 1..Len(doc) /\ doc[f].tag = "foreign" /\ i \notin Subtree(doc, f)
      BY <1>1, <1>8, SubtreeBounds DEF FindAll
    <2>3. t \in Subtree(doc, i)
      BY DEF TextOf, Texts, FindAll
    <2>4. ~(f <= i)
      BY <1>1, <2>1, <2>2, <2>3, Nested
    <2>5. f \in Subtree(doc, i) /\ f # i
      BY <1>1, <2>1, <2>2, <2>3, <2>4, Nested
    <2> QED BY <1>1, <1>8, <2>1, <2>2, <2>5, TextsAre DEF TextOf
  <1> QED BY <1>5, <1>6, <1>7, <1>8

(* extract_change_notes, detect_foreign_content: of no document does a text   *)
(* go missing between the norm, its change notes and the islands.             *)
THEOREM NothingUnaccountedAlways == Spec => []NothingUnaccounted
  BY DocumentIsTree, NothingUnaccountedHolds, PTL

-----------------------------------------------------------------------------
(* The readable document.                                                     *)
LEMMA BelowParent ==
    ASSUME NEW d, Tree(d), NEW i \in 1..Len(d), NEW c \in 1..Len(d), d[c].parent = i
    PROVE  c \in Subtree(d, i)
  <1>1. Within(d, i, i) /\ i \in Nat /\ i >= 1
    BY DEF Within, Tree
  <1>2. Within(d, i, c)
    BY <1>1, OneUp
  <1> QED BY <1>2, SubtreeIs

LEMMA ChildIs ==
    ASSUME NEW d, Tree(d), NEW i \in 1..Len(d), NEW tag, FindChild(d, i, tag) # NoNode
    PROVE  /\ FindChild(d, i, tag) \in Subtree(d, i) /\ FindChild(d, i, tag) # i
           /\ d[FindChild(d, i, tag)].tag = tag /\ d[FindChild(d, i, tag)].parent = i
  <1> DEFINE found == {c \in Children(d, i) : d[c].tag = tag}
             c == FindChild(d, i, tag)
  <1>0. Len(d) \in Nat /\ DOMAIN d = 1..Len(d)
    BY DEF Tree
  <1>1. found # {} /\ c = Min(found)
    BY DEF FindChild
  <1>2. found \subseteq Nat
    BY <1>0 DEF Children, Elements
  <1>3. c \in found
    <2> HIDE DEF found, c
    <2> QED BY <1>1, <1>2, MinIs
  <1>4. c \in 1..Len(d) /\ d[c].parent = i /\ d[c].tag = tag
    BY <1>0, <1>3 DEF Children, Elements
  <1> HIDE DEF c
  <1>5. c # i
    <2>1. d[c].parent = NoNode \/ d[c].parent \in 1..c - 1
      BY <1>0, <1>4 DEF Tree, InDocumentOrder
    <2> QED BY <1>0, <1>4, <2>1 DEF NoNode
  <1>6. c \in Subtree(d, i)
    BY <1>4, BelowParent
  <1> QED BY <1>4, <1>5, <1>6 DEF c

\* What is between a child of the root and the root is nothing.
LEMMA BelowChild ==
    ASSUME NEW d, Tree(d), NEW i \in 1..Len(d), NEW c \in 1..Len(d), d[c].parent = i,
           NEW n \in Subtree(d, c), NEW a \in Subtree(d, i), a # i, n \in Subtree(d, a)
    PROVE  a \in Subtree(d, c)
  <1>1. a \in 1..Len(d) /\ c \in 1..Len(d) /\ Len(d) \in Nat /\ a >= i
    BY SubtreeBounds
  <1>2. CASE c <= a
    BY <1>1, <1>2, Nested
  <1>3. CASE a < c
    <2>1. c \in Subtree(d, a)
      BY <1>1, <1>3, Nested
    <2>2. Within(d, a, c)
      BY <1>1, <2>1, SubtreeIs
    <2>3. d[c].parent >= a
      BY <1>1, <1>3, <2>2 DEF Within
    <2> QED BY <1>1, <2>3
  <1> QED BY <1>1, <1>2, <1>3

LEMMA BodyOf ==
    ASSUME NEW d, Tree(d), NEW r \in 1..Len(d), Body(d, r) # NoNode
    PROVE  /\ Body(d, r) \in Subtree(d, r) /\ Body(d, r) \in 1..Len(d) /\ Body(d, r) # r
           /\ d[Body(d, r)].tag \in {"body", "mainBody"} /\ d[Body(d, r)].parent = r
  <1>1. Body(d, r) \in {FindChild(d, r, "body"), FindChild(d, r, "mainBody")}
    BY DEF Body
  <1>2. CASE Body(d, r) = FindChild(d, r, "body")
    BY <1>2, ChildIs, SubtreeBounds
  <1>3. CASE Body(d, r) = FindChild(d, r, "mainBody")
    BY <1>3, ChildIs, SubtreeBounds
  <1> QED BY <1>1, <1>2, <1>3

LEMMA BodyIs ==
    ASSUME NEW d, Tree(d), Body(d, 1) # NoNode
    PROVE  /\ Body(d, 1) \in Subtree(d, 1) /\ Body(d, 1) \in 1..Len(d) /\ Body(d, 1) # 1
           /\ d[Body(d, 1)].tag \in {"body", "mainBody"} /\ d[Body(d, 1)].parent = 1
  <1>1. 1 \in 1..Len(d)
    BY DEF Tree, InDocumentOrder
  <1> QED BY <1>1, BodyOf

\* The label of an element is text of a number or a heading right below it.
LEMMA LabelIs ==
    ASSUME NEW d, Tree(d), NEW h \in 1..Len(d), NEW t \in Label(d, h)
    PROVE  \E c \in Subtree(d, h) : /\ c # h /\ d[c].tag \in {"num", "heading"} /\ d[c].parent = h
                                    /\ t \in TextOf(d, c)
  <1>1. PICK c \in {FindChild(d, h, "num"), FindChild(d, h, "heading")} \ {NoNode} : t \in TextOf(d, c)
    BY DEF Label
  <1> QED BY <1>1, ChildIs

\* A text of a part that nothing cuts out of the document is text of the document.
LEMMA TextOfPart ==
    ASSUME NEW d, Tree(d), NEW c \in 1..Len(d), NEW t \in TextOf(d, c),
           \A a \in Subtree(d, 1) : a # 1 /\ c \in Subtree(d, a) => d[a].tag \notin {"authorialNote", "foreign"}
    PROVE  t \in TextOf(d, 1)
  <1>1. t \in FindAll(d, c, "text") /\ 1 \in 1..Len(d) /\ Len(d) \in Nat
    BY DEF TextOf, Texts, Tree, InDocumentOrder
  <1>2. c \in Subtree(d, 1)
    <2>1. Within(d, 1, c)
      BY <1>1 DEF Within, Tree, InDocumentOrder
    <2> QED BY <1>1, <2>1, SubtreeIs
  <1>3. t \in FindAll(d, 1, "text")
    BY <1>1, <1>2, Transitive DEF FindAll
  <1>4. ASSUME NEW a \in Subtree(d, 1), a # 1, t \in Subtree(d, a)
        PROVE  d[a].tag \notin {"authorialNote", "foreign"}
    <2>1. a \in 1..Len(d) /\ t \in Subtree(d, c)
      BY <1>1, SubtreeBounds DEF FindAll
    <2>2. CASE a <= c
      BY <1>4, <2>1, <2>2, Nested
    <2>3. CASE c < a
      <3>1. a \in Subtree(d, c) /\ a # c
        BY <1>4, <2>1, <2>3, Nested
      <3> QED BY <1>4, <3>1, TextsAre DEF TextOf
    <2> QED BY <1>1, <2>1, <2>2, <2>3
  <1> QED BY <1>1, <1>3, <1>4, TextsAre DEF TextOf

LEMMA RenderedIs ==
    ASSUME NEW d, Tree(d), Body(d, 1) # NoNode, NEW h \in Rendered(d)
    PROVE  /\ h \in 1..Len(d) /\ d[h].tag \in HierarchyTags
           /\ \A a \in Subtree(d, 1) : a # 1 /\ h \in Subtree(d, a) => d[a].tag \notin {"authorialNote", "foreign"}
  <1> DEFINE body == Body(d, 1)
  <1>1. body \in 1..Len(d) /\ d[body].tag \in {"body", "mainBody"} /\ d[body].parent = 1 /\ 1 \in 1..Len(d)
        /\ Len(d) \in Nat
    BY BodyIs DEF Tree, InDocumentOrder
  <1>2. /\ h \in Subtree(d, body) /\ h # body /\ d[h].tag \in HierarchyTags
        /\ \A a \in Ancestry(d, h) : a > body => d[a].tag \notin {"authorialNote", "foreign"}
    BY DEF Rendered
  <1> HIDE DEF body
  <1>3. h \in 1..Len(d)
    BY <1>1, <1>2, SubtreeBounds
  <1>4. ASSUME NEW a \in Subtree(d, 1), a # 1, h \in Subtree(d, a)
        PROVE  d[a].tag \notin {"authorialNote", "foreign"}
    <2>1. a \in Subtree(d, body)
      BY <1>1, <1>2, <1>4, BelowChild
    <2>2. a \in 1..Len(d) /\ a >= body
      BY <1>1, <2>1, SubtreeBounds
    <2>3. CASE a = body
      BY <1>1, <2>3
    <2>4. CASE a # body
      <3>1. Within(d, a, h)
        BY <1>4, <2>2, SubtreeIs
      <3>2. a \in 1..h
        BY <1>3, <2>2, <3>1 DEF Within
      <3>3. a \in Ancestry(d, h)
        BY <1>1, <1>3, <3>1, <3>2, AncestryIs
      <3> QED BY <1>1, <1>2, <2>2, <2>4, <3>3
    <2> QED BY <2>3, <2>4
  <1> QED BY <1>2, <1>3, <1>4

\* What an element shows is its own text, and text of the document.
LEMMA ShownIs ==
    ASSUME NEW d, Tree(d), Body(d, 1) # NoNode, NEW h \in Rendered(d), NEW t \in Shown(d, h)
    PROVE  t \in Subtree(d, h) /\ t \in TextOf(d, 1)
  <1>1. /\ h \in 1..Len(d) /\ d[h].tag \in HierarchyTags /\ Len(d) \in Nat
        /\ \A a \in Subtree(d, 1) : a # 1 /\ h \in Subtree(d, a) => d[a].tag \notin {"authorialNote", "foreign"}
    BY RenderedIs DEF Tree
  <1>2. CASE HasHierarchyChildren(d, h)
    <2>1. PICK c \in Subtree(d, h) : c # h /\ d[c].tag \in {"num", "heading"} /\ d[c].parent = h /\ t \in TextOf(d, c)
      BY <1>1, <1>2, LabelIs DEF Shown
    <2>2. c \in 1..Len(d)
      BY <1>1, SubtreeBounds
    <2>3. t \in Subtree(d, c)
      BY <2>1 DEF TextOf, Texts, FindAll
    <2>4. ASSUME NEW a \in Subtree(d, 1), a # 1, c \in Subtree(d, a)
          PROVE  d[a].tag \notin {"authorialNote", "foreign"}
      <3>1. CASE a = c
        BY <2>1, <3>1
      <3>2. CASE a # c
        <4>0. 1 \in 1..Len(d)
          BY DEF Tree, InDocumentOrder
        <4>1. a \in 1..Len(d) /\ Within(d, a, c)
          BY <2>4, <4>0, SubtreeIs, SubtreeBounds
        <4>2. Within(d, a, h)
          BY <1>1, <2>1, <2>2, <3>2, <4>1, OneUp
        <4>3. h \in Subtree(d, a)
          BY <4>1, <4>2, SubtreeIs
        <4> QED BY <1>1, <2>4, <4>3
      <3> QED BY <3>1, <3>2
    <2>5. t \in TextOf(d, 1)
      BY <2>1, <2>2, <2>4, TextOfPart
    <2> QED BY <1>1, <2>1, <2>3, <2>5, Transitive
  <1>3. CASE ~HasHierarchyChildren(d, h)
    <2>1. t \in TextOf(d, h)
      BY <1>3 DEF Shown
    <2>2. t \in Subtree(d, h)
      BY <2>1 DEF TextOf, Texts, FindAll
    <2> QED BY <1>1, <2>1, <2>2, TextOfPart
  <1> QED BY <1>2, <1>3

LEMMA ShownOnceHolds == DocInv => ShownOnce
  <1> SUFFICES ASSUME DocInv, Body(doc, 1) # NoNode
               PROVE  /\ (\A c \in DOMAIN doc : doc[c].tag \in {"num", "heading"} => ~HasHierarchyChildren(doc, c)) =>
                             \A g, h \in Rendered(doc) : g < h => Shown(doc, g) \cap Shown(doc, h) = {}
                      /\ ReadableDocument(doc) \subseteq TextOf(doc, 1)
                      /\ \A h \in Subtree(doc, Body(doc, 1)) :
                            doc[h].tag \in HierarchyTags /\ ~HasHierarchyChildren(doc, h) =>
                                TextOf(doc, h) \cap TextOf(doc, 1) \subseteq ReadableDocument(doc)
    BY DEF ShownOnce
  <1>1. Tree(doc) /\ 1 \in 1..Len(doc) /\ Len(doc) \in Nat /\ DOMAIN doc = 1..Len(doc)
    BY DocIsTree DEF Tree, InDocumentOrder
  <1> DEFINE body == Body(doc, 1)
  <1>2. body \in Subtree(doc, 1) /\ body \in 1..Len(doc) /\ body # 1
        /\ doc[body].tag \in {"body", "mainBody"} /\ doc[body].parent = 1
    BY <1>1, BodyIs
  <1>3. ASSUME \A c \in DOMAIN doc : doc[c].tag \in {"num", "heading"} => ~HasHierarchyChildren(doc, c),
               NEW g \in Rendered(doc), NEW h \in Rendered(doc), g < h, NEW t \in Shown(doc, g), t \in Shown(doc, h)
        PROVE  FALSE
    <2>1. t \in Subtree(doc, g) /\ t \in Subtree(doc, h)
      BY <1>1, <1>3, ShownIs
    <2>2. g \in 1..Len(doc) /\ h \in 1..Len(doc) /\ doc[h].tag \in HierarchyTags
      BY <1>1, RenderedIs
    <2>3. h \in Subtree(doc, g) /\ h # g
      BY <1>1, <1>3, <2>1, <2>2, Nested
    <2>4. HasHierarchyChildren(doc, g)
      BY <2>2, <2>3 DEF HasHierarchyChildren
    <2>5. PICK c \in Subtree(doc, g) : c # g /\ doc[c].tag \in {"num", "heading"} /\ doc[c].parent = g /\ t \in TextOf(doc, c)
      BY <1>1, <2>2, <2>4, LabelIs DEF Shown
    <2>6. c \in 1..Len(doc) /\ t \in Subtree(doc, c)
      BY <1>1, <2>2, <2>5, SubtreeBounds DEF TextOf, Texts, FindAll
    <2>7. h \in Subtree(doc, c)
      BY <1>1, <2>1, <2>2, <2>3, <2>5, <2>6, BelowChild
    <2>8. h # c
      BY <2>2, <2>5 DEF HierarchyTags
    <2> QED BY <1>1, <1>3, <2>2, <2>5, <2>6, <2>7, <2>8 DEF HasHierarchyChildren
  <1>4. ASSUME NEW t \in ReadableDocument(doc) PROVE t \in TextOf(doc, 1)
    <2>1. CASE \E h \in Rendered(doc) : t \in Shown(doc, h)
      BY <1>1, <2>1, ShownIs
    <2>2. CASE ~ \E h \in Rendered(doc) : t \in Shown(doc, h)
      <3> DEFINE c == FindChild(doc, 1, "preamble")
      <3>1. c # NoNode /\ t \in TextOf(doc, c)
        BY <1>4, <2>2 DEF ReadableDocument
      <3>2. c \in Subtree(doc, 1) /\ c # 1 /\ doc[c].tag = "preamble" /\ doc[c].parent = 1
        BY <1>1, <3>1, ChildIs
      <3>3. c \in 1..Len(doc)
        BY <1>1, <3>2, SubtreeBounds
      <3> HIDE DEF c
      <3>4. ASSUME NEW a \in Subtree(doc, 1), a # 1, c \in Subtree(doc, a)
            PROVE  doc[a].tag \notin {"authorialNote", "foreign"}
        <4>1. a \in 1..Len(doc) /\ c \in Subtree(doc, c) /\ c >= a
          BY <1>1, <3>3, <3>4, SubtreeBounds
        <4>2. a \in Subtree(doc, c)
          BY <1>1, <3>2, <3>3, <3>4, <4>1, BelowChild
        <4>3. a >= c
          BY <1>1, <3>3, <4>2, SubtreeBounds
        <4>4. a = c
          BY <3>3, <4>1, <4>3
        <4> QED BY <3>2, <4>4
      <3> QED BY <1>1, <3>1, <3>3, <3>4, TextOfPart
    <2> QED BY <2>1, <2>2
  <1>5. ASSUME NEW h \in Subtree(doc, body), doc[h].tag \in HierarchyTags, ~HasHierarchyChildren(doc, h),
               NEW t \in TextOf(doc, h), t \in TextOf(doc, 1)
        PROVE  t \in ReadableDocument(doc)
    <2>1. h \in 1..Len(doc) /\ t \in Subtree(doc, h)
      BY <1>1, <1>2, SubtreeBounds DEF TextOf, Texts, FindAll
    <2>2. h # body
      BY <1>2, <1>5 DEF HierarchyTags
    <2>3. ASSUME NEW a \in Ancestry(doc, h), a > body PROVE doc[a].tag \notin {"authorialNote", "foreign"}
      <3>1. a \in 1..h /\ Within(doc, a, h)
        BY <1>1, <2>1, <2>3, AncestryIs
      <3>2. a \in 1..Len(doc) /\ h \in Subtree(doc, a)
        BY <1>1, <2>1, <3>1, SubtreeIs
      <3>3. t \in Subtree(doc, a)
        BY <1>1, <2>1, <3>2, Transitive
      <3>4. Within(doc, 1, a)
        BY <1>1, <3>2 DEF Within, Tree, InDocumentOrder
      <3>5. a \in Subtree(doc, 1) /\ a # 1
        BY <1>1, <1>2, <2>3, <3>2, <3>4, SubtreeIs
      <3> QED BY <1>1, <1>5, <3>3, <3>5, TextsAre DEF TextOf
    <2>4. h \in Rendered(doc)
      BY <1>5, <2>2, <2>3 DEF Rendered
    <2>5. t \in Shown(doc, h)
      BY <1>5 DEF Shown
    <2> QED BY <2>4, <2>5 DEF ReadableDocument
  <1> QED BY <1>3, <1>4, <1>5

(* markdown.rs: of every act that has a body, the readable document shows all *)
(* there is to show, each text once, and no note or island.                   *)
THEOREM ShownOnceAlways == Spec => []ShownOnce
  BY DocumentIsTree, ShownOnceHolds, PTL

-----------------------------------------------------------------------------
(* Placeholders.                                                              *)
LEMMA ResolvesToItself ==
    ASSUME NEW d, Tree(d), \A i, j \in Named(d) : i # j => d[i].eid # d[j].eid, NEW c \in Named(d)
    PROVE  ResolveEid(d, 1, d[c].eid).node = c
  <1>1. Len(d) \in Nat /\ DOMAIN d = 1..Len(d) /\ 1 \in 1..Len(d) /\ c \in 1..Len(d)
    BY DEF Tree, InDocumentOrder, Named
  <1>2. \A n : n \in Subtree(d, 1) <=> n \in 1..Len(d)
    <2>1. \A n \in 1..Len(d) : Within(d, 1, n)
      BY <1>1 DEF Within, Tree, InDocumentOrder
    <2>2. \A n : Within(d, 1, n) => n \in 1..Len(d)
      BY DEF Within
    <2> QED BY <1>1, <2>1, <2>2, SubtreeIs
  <1>3. LookupEid(d, 1, d[c].eid) = {c}
    <2>1. \A i \in 1..Len(d) : d[i].eid = d[c].eid => i = c
      BY <1>1 DEF Named
    <2> QED BY <1>1, <1>2, <2>1 DEF LookupEid
  <1>4. Min({c}) = c
    BY <1>1 DEF Min
  <1> QED BY <1>3, <1>4 DEF ResolveEid

\* A named element below another is found by way of one that its placeholder lists.
LEMMA WayThere ==
    ASSUME NEW d, Tree(d), NEW i \in 1..Len(d), NEW n \in Named(d), n \in Subtree(d, i), n # i
    PROVE  \E c \in DirectEidChildren(d, i) : n \in Subtree(d, c)
  <1>1. Len(d) \in Nat /\ n \in 1..Len(d) /\ i < n /\ d[n].eid # None
    BY SubtreeBounds DEF Named
  <1>2. Ancestry(d, n) = {a \in 1..n : Within(d, a, n)}
    BY <1>1, AncestryIs
  <1> DEFINE named == {a \in Ancestry(d, n) : i < a /\ d[a].eid # None}
             c == Min(named)
  <1>3. Within(d, n, n)
    BY <1>1 DEF Within
  <1>4. named \subseteq Nat /\ n \in named
    BY <1>1, <1>2, <1>3
  <1>5. c \in named /\ \A a \in named : c <= a
    <2> HIDE DEF named
    <2> QED BY <1>4, MinIs
  <1> HIDE DEF c
  <1>6. c \in 1..n /\ Within(d, c, n) /\ i < c /\ d[c].eid # None
    BY <1>2, <1>5
  <1>7. c \in 1..Len(d) /\ n \in Subtree(d, c)
    BY <1>1, <1>6, SubtreeIs
  <1>8. c \in Subtree(d, i)
    BY <1>1, <1>6, <1>7, Nested
  <1>9. ASSUME NEW a \in Ancestry(d, c), i < a, a < c PROVE d[a].eid = None
    <2>1. a \in 1..c /\ Within(d, a, c)
      BY <1>1, <1>7, AncestryIs
    <2>2. a \in 1..Len(d) /\ c \in Subtree(d, a)
      BY <1>1, <1>7, <2>1, SubtreeIs
    <2>3. n \in Subtree(d, a)
      BY <1>7, <2>2, Transitive
    <2>4. a \in Ancestry(d, n)
      BY <1>1, <1>2, <2>1, <2>2, <2>3, SubtreeIs, <1>6
    <2>5. a \notin named
      BY <1>5, <1>6, <1>9, <2>2
    <2> QED BY <1>9, <2>4, <2>5
  <1>10. c \in DirectEidChildren(d, i)
    BY <1>6, <1>8, <1>9 DEF DirectEidChildren
  <1> QED BY <1>7, <1>10

(* HOLLOW_PLACEHOLDER: where eIds are given once, whoever follows the eIds    *)
(* that placeholders list, from any element that has one, meets every leaf    *)
(* the hollowed view has below it, and no other.                              *)
LEMMA PlaceholdersLeadHolds == DocInv => PlaceholdersLead
  <1> DEFINE IsReached(f) == f = [i \in DOMAIN doc |->
                 {i} \cup UNION {f[ResolveEid(doc, 1, doc[c].eid).node] : c \in DirectEidChildren(doc, i)}]
             Reached == CHOOSE f : IsReached(f)
  <1> SUFFICES ASSUME DocInv, \A i, j \in Named(doc) : i # j => doc[i].eid # doc[j].eid
               PROVE  \A i \in Named(doc) : Leaves(doc) \cap Subtree(doc, i) = Leaves(doc) \cap Reached[i]
    BY DEF PlaceholdersLead
  <1>1. Tree(doc) /\ Len(doc) \in Nat /\ DOMAIN doc = 1..Len(doc)
    BY DocIsTree DEF Tree
  <1>2. ASSUME NEW i \in 1..Len(doc), NEW c \in DirectEidChildren(doc, i)
        PROVE  /\ c \in Named(doc) /\ c \in 1..Len(doc) /\ i < c /\ c \in Subtree(doc, i)
               /\ ResolveEid(doc, 1, doc[c].eid).node = c
    <2>1. c \in Subtree(doc, i) /\ c # i /\ doc[c].eid # None
      BY DEF DirectEidChildren
    <2>2. c \in 1..Len(doc) /\ i < c
      BY <1>1, <2>1, SubtreeBounds
    <2>3. c \in Named(doc)
      BY <1>1, <2>1, <2>2 DEF Named
    <2> QED BY <1>1, <2>1, <2>2, <2>3, ResolvesToItself
  <1> DEFINE below(i) == {i} \cup (Named(doc) \cap Subtree(doc, i))
             g == [i \in DOMAIN doc |-> below(i)]
  <1>3. ASSUME NEW i \in 1..Len(doc)
        PROVE  below(i) = {i} \cup UNION {below(c) : c \in DirectEidChildren(doc, i)}
    <2>1. ASSUME NEW n \in Named(doc), n \in Subtree(doc, i), n # i
          PROVE  \E c \in DirectEidChildren(doc, i) : n \in below(c)
      BY <1>1, <2>1, WayThere
    <2>2. ASSUME NEW c \in DirectEidChildren(doc, i), NEW n \in below(c)
          PROVE  n \in below(i)
      <3>1. c \in Named(doc) /\ c \in Subtree(doc, i)
        BY <1>2
      <3>2. CASE n = c
        BY <3>1, <3>2
      <3>3. CASE n # c
        BY <1>1, <3>1, <3>3, Transitive
      <3> QED BY <3>2, <3>3
    <2>3. i \in below(i)
      OBVIOUS
    <2>4. \A n \in below(i) : n = i \/ \E c \in DirectEidChildren(doc, i) : n \in below(c)
      BY <2>1
    <2> HIDE DEF below
    <2> QED BY <2>2, <2>3, <2>4
  <1>4. IsReached(g)
    <2>1. ASSUME NEW i \in 1..Len(doc)
          PROVE  below(i) = {i} \cup UNION {g[ResolveEid(doc, 1, doc[c].eid).node] : c \in DirectEidChildren(doc, i)}
      <3>1. \A c \in DirectEidChildren(doc, i) : g[ResolveEid(doc, 1, doc[c].eid).node] = below(c)
        <4> HIDE DEF below
        <4> QED BY <1>1, <1>2
      <3> HIDE DEF below, g
      <3> QED BY <1>3, <3>1
    <2>2. \A i \in DOMAIN doc : below(i) =
              {i} \cup UNION {g[ResolveEid(doc, 1, doc[c].eid).node] : c \in DirectEidChildren(doc, i)}
      <3> HIDE DEF below, g
      <3> QED BY <1>1, <2>1
    <2> HIDE DEF below
    <2> QED BY <2>2, Zenon
  <1>5. IsReached(Reached)
    <2> HIDE DEF g, IsReached
    <2> QED BY <1>4
  <1> HIDE DEF Reached
  <1>6. \A i \in 1..Len(doc) : Reached[i] = {i} \cup UNION {Reached[c] : c \in DirectEidChildren(doc, i)}
    <2> TAKE i \in 1..Len(doc)
    <2>1. Reached[i] = {i} \cup UNION {Reached[ResolveEid(doc, 1, doc[c].eid).node] : c \in DirectEidChildren(doc, i)}
      BY <1>1, <1>5, Zenon
    <2>2. \A c \in DirectEidChildren(doc, i) : Reached[ResolveEid(doc, 1, doc[c].eid).node] = Reached[c]
      BY <1>2
    <2> HIDE DEF IsReached
    <2> QED BY <2>1, <2>2
  <1> HIDE DEF IsReached, below
  <1> DEFINE wrong == {i \in 1..Len(doc) : Reached[i] # below(i)}
  <1>7. ASSUME wrong # {} PROVE FALSE
    <2>1. PICK m \in wrong : \A k \in wrong : k <= m
      <3>1. wrong \subseteq 1..Len(doc)
        OBVIOUS
      <3> HIDE DEF wrong
      <3> QED BY <1>1, <1>7, <3>1, LastOf
    <2>2. m \in 1..Len(doc) /\ Reached[m] # below(m)
      OBVIOUS
    <2>3. \A c \in DirectEidChildren(doc, m) : Reached[c] = below(c)
      <3> TAKE c \in DirectEidChildren(doc, m)
      <3>1. c \in 1..Len(doc) /\ m < c
        BY <1>2, <2>2
      <3>2. c \notin wrong
        BY <2>1, <2>2, <3>1
      <3> QED BY <3>1, <3>2
    <2> HIDE DEF wrong
    <2>4. {Reached[c] : c \in DirectEidChildren(doc, m)} = {below(c) : c \in DirectEidChildren(doc, m)}
      BY <2>3
    <2>5. below(m) = {m} \cup UNION {below(c) : c \in DirectEidChildren(doc, m)}
      BY <1>3, <2>2
    <2>6. Reached[m] = {m} \cup UNION {Reached[c] : c \in DirectEidChildren(doc, m)}
      BY <1>6, <2>2
    <2> QED BY <2>2, <2>4, <2>5, <2>6
  <1>8. ASSUME NEW i \in Named(doc)
        PROVE  Leaves(doc) \cap Subtree(doc, i) = Leaves(doc) \cap Reached[i]
    <2>1. i \in 1..Len(doc) /\ i \in Subtree(doc, i)
      BY <1>1, SubtreeBounds DEF Named
    <2>2. Reached[i] = below(i)
      BY <1>7, <2>1
    <2>3. below(i) = Named(doc) \cap Subtree(doc, i)
      BY <2>1 DEF below
    <2> QED BY <2>2, <2>3 DEF Leaves
  <1> QED BY <1>8

-----------------------------------------------------------------------------
(* Signposts.                                                                 *)
LEMMA WholeTree ==
    ASSUME NEW d, Tree(d)
    PROVE  Len(d) \in Nat /\ DOMAIN d = 1..Len(d) /\ 1 \in 1..Len(d) /\ Subtree(d, 1) = 1..Len(d)
  <1>1. Len(d) \in Nat /\ DOMAIN d = 1..Len(d) /\ 1 \in 1..Len(d)
    BY DEF Tree, InDocumentOrder
  <1>2. \A n \in 1..Len(d) : Within(d, 1, n)
    BY <1>1 DEF Within, Tree, InDocumentOrder
  <1>3. \A n : Within(d, 1, n) => n \in 1..Len(d)
    BY DEF Within
  <1> QED BY <1>1, <1>2, <1>3, SubtreeIs

LEMMA AboveIs ==
    ASSUME NEW d, Tree(d), NEW i \in 0..Len(d)
    PROVE  \A a : a \in Ancestry(d, i) <=> a \in 1..Len(d) /\ i \in Subtree(d, a)
  <1>1. Len(d) \in Nat
    BY WholeTree
  <1>2. Ancestry(d, i) = {a \in 1..i : Within(d, a, i)}
    BY AncestryIs
  <1>3. \A a \in 1..Len(d) : i \in Subtree(d, a) <=> Within(d, a, i)
    BY SubtreeIs
  <1>4. \A a \in 1..Len(d) : Within(d, a, i) => a \in 1..i
    BY <1>1 DEF Within
  <1> QED BY <1>1, <1>2, <1>3, <1>4

LEMMA ReadIs ==
    ASSUME NEW d, Tree(d), EidsUnique(d), EliWork(d, 1) # None, NEW c \in Named(d)
    PROVE  LET read == GetElementText(d, d[c].eid)
           IN  read.node = c /\ read.texts = TextOf(d, c) /\ read.path = SectionPath(d, 1, c)
  <1>1. ResolveEid(d, 1, d[c].eid).node = c
    BY ResolvesToItself DEF EidsUnique
  <1>2. c # NoNode
    BY WholeTree DEF Named, NoNode
  <1>3. GetElementText(d, d[c].eid) =
            [node |-> c, texts |-> TextOf(d, c), notes |-> CollectNotes(d, c), path |-> SectionPath(d, 1, c)]
    BY <1>1, <1>2 DEF GetElementText
  <1> QED BY <1>3

LEMMA NearestIs ==
    ASSUME NEW d, Tree(d), NEW i \in 0..Len(d), NearestEid(d, i) # None
    PROVE  \E a \in Named(d) : d[a].eid = NearestEid(d, i) /\ i \in Subtree(d, a)
  <1> DEFINE named == {a \in Ancestry(d, i) : d[a].eid # None}
             m == Max(named)
  <1>1. named # {} /\ NearestEid(d, i) = d[m].eid
    BY DEF NearestEid
  <1>2. named \subseteq 1..Len(d) /\ Len(d) \in Nat
    BY AboveIs, WholeTree
  <1>3. m \in named
    <2> HIDE DEF named
    <2> QED BY <1>1, <1>2, MaxIs
  <1> HIDE DEF m
  <1>4. m \in Named(d) /\ i \in Subtree(d, m)
    BY <1>2, <1>3, AboveIs, WholeTree DEF Named
  <1> QED BY <1>1, <1>4

\* The path of a node in the body leads through the outline.
LEMMA PathIsOutline ==
    ASSUME NEW d, Tree(d), d[1].tag \notin HierarchyTags, Body(d, 1) # NoNode, NEW n \in Subtree(d, Body(d, 1))
    PROVE  SectionPath(d, 1, n) = OutlineNodes(d) \cap Ancestry(d, n)
  <1> DEFINE b == Body(d, 1)
  <1>1. b \in 1..Len(d) /\ d[b].parent = 1 /\ d[b].tag \notin HierarchyTags
    BY BodyIs DEF HierarchyTags
  <1>2. n \in 1..Len(d) /\ n \in 0..Len(d) /\ 1 \in 1..Len(d)
    BY <1>1, SubtreeBounds, WholeTree
  <1>3. ASSUME NEW a \in Ancestry(d, n), d[a].tag \in HierarchyTags
        PROVE  a \in Subtree(d, b) /\ a # b
    <2>1. a \in 1..Len(d) /\ n \in Subtree(d, a)
      BY <1>2, AboveIs
    <2>2. a \in Subtree(d, 1) /\ a # 1
      BY <1>3, <2>1, WholeTree
    <2>3. a \in Subtree(d, b)
      BY <1>1, <1>2, <2>1, <2>2, BelowChild
    <2> QED BY <1>1, <1>3, <2>3
  <1>4. \A a : a \in OutlineNodes(d) <=> a \in Subtree(d, b) /\ a # b /\ d[a].tag \in HierarchyTags
    BY DEF OutlineNodes
  <1>5. \A a \in Ancestry(d, n) : a \in Subtree(d, 1)
    BY <1>2, AboveIs, WholeTree
  <1>6. \A a : a \in SectionPath(d, 1, n) <=> a \in Ancestry(d, n) /\ a \in Subtree(d, 1) /\ d[a].tag \in HierarchyTags
    BY DEF SectionPath
  <1> HIDE DEF b
  <1> QED BY <1>3, <1>4, <1>5, <1>6

LEMMA OutlineIs ==
    ASSUME NEW d, Tree(d), NEW n \in OutlineNodes(d)
    PROVE  /\ Body(d, 1) # NoNode /\ n \in Subtree(d, Body(d, 1)) /\ n \in 1..Len(d) /\ n # NoNode
           /\ n \in Ancestry(d, n)
  <1>1. Body(d, 1) # NoNode /\ n \in Subtree(d, Body(d, 1))
    BY DEF OutlineNodes
  <1>2. n \in 1..Len(d)
    BY <1>1, BodyIs, SubtreeBounds
  <1>3. n \in 0..Len(d) /\ n \in Subtree(d, n)
    BY <1>2, SubtreeBounds
  <1> QED BY <1>1, <1>2, <1>3, AboveIs DEF NoNode

\* Above an entry of the outline is what is above its parent entry.
LEMMA OneEntryUp ==
    ASSUME NEW d, Tree(d), NEW n \in OutlineNodes(d)
    PROVE  LET p == OutlineParent(d, n)
               up(m) == IF m = NoNode THEN {} ELSE OutlineNodes(d) \cap Ancestry(d, m)
           IN  up(n) = {n} \cup up(p) /\ p \in {NoNode} \cup OutlineNodes(d) /\ p < n
  <1> DEFINE above == OutlineNodes(d) \cap (Ancestry(d, n) \ {n})
             p == OutlineParent(d, n)
             all == OutlineNodes(d) \cap Ancestry(d, n)
  <1>1. n \in 1..Len(d) /\ n \in 0..Len(d) /\ n # NoNode /\ n \in all /\ Len(d) \in Nat
    BY OutlineIs, WholeTree
  <1>2. all = {n} \cup above
    BY <1>1
  <1>3. CASE above = {}
    <2>1. p = NoNode
      BY <1>3 DEF OutlineParent
    <2> QED BY <1>1, <1>2, <1>3, <2>1 DEF NoNode
  <1>4. CASE above # {}
    <2>1. p = Max(above)
      BY <1>4 DEF OutlineParent
    <2>2. above \subseteq 1..Len(d) /\ \A a \in above : n \in Subtree(d, a) /\ a # n
      BY <1>1, AboveIs
    <2>3. p \in above /\ \A a \in above : a <= p
      <3> HIDE DEF above, p
      <3> QED BY <1>1, <1>4, <2>1, <2>2, MaxIs
    <2> HIDE DEF p
    <2>4. p \in 1..Len(d) /\ p \in 0..Len(d) /\ n \in Subtree(d, p) /\ p # n /\ p # NoNode /\ p \in OutlineNodes(d)
      BY <2>2, <2>3 DEF NoNode
    <2>5. p < n
      BY <1>1, <2>4, SubtreeBounds
    <2>6. ASSUME NEW a \in above PROVE a \in Ancestry(d, p)
      <3>1. a \in 1..Len(d) /\ n \in Subtree(d, a) /\ a <= p
        BY <2>2, <2>3
      <3>2. p \in Subtree(d, a)
        BY <2>4, <3>1, Nested
      <3> QED BY <2>4, <3>1, <3>2, AboveIs
    <2>7. ASSUME NEW a \in OutlineNodes(d), a \in Ancestry(d, p) PROVE a \in above
      <3>1. a \in 1..Len(d) /\ p \in Subtree(d, a)
        BY <2>4, <2>7, AboveIs
      <3>2. n \in Subtree(d, a) /\ a <= p
        BY <2>4, <3>1, Transitive, SubtreeBounds
      <3>3. a # n
        BY <1>1, <2>4, <2>5, <3>1, <3>2
      <3> QED BY <1>1, <3>1, <3>2, <3>3, AboveIs
    <2>8. above = OutlineNodes(d) \cap Ancestry(d, p)
      <3>1. \A a \in above : a \in OutlineNodes(d)
        OBVIOUS
      <3> HIDE DEF above
      <3> QED BY <2>6, <2>7, <3>1
    <2> HIDE DEF above, all
    <2> QED BY <1>1, <1>2, <2>4, <2>5, <2>8 DEF all, p
  <1> QED BY <1>3, <1>4

LEMMA WaysLead ==
    ASSUME DocInv
    PROVE  LET Way[n \in {NoNode} \cup OutlineNodes(doc)] ==
                   IF n = NoNode THEN {} ELSE {n} \cup Way[OutlineParent(doc, n)]
           IN  \A n \in OutlineNodes(doc) : SectionPath(doc, 1, n) = Way[n]
  <1> DEFINE places == {NoNode} \cup OutlineNodes(doc)
             IsWay(f) == f = [n \in places |-> IF n = NoNode THEN {} ELSE {n} \cup f[OutlineParent(doc, n)]]
             Way == CHOOSE f : IsWay(f)
             up(m) == IF m = NoNode THEN {} ELSE OutlineNodes(doc) \cap Ancestry(doc, m)
             g == [n \in places |-> up(n)]
  <1>1. Tree(doc) /\ Len(doc) \in Nat /\ doc[1].tag \notin HierarchyTags
    BY DocIsTree DEF DocInv, Tree
  <1>2. \A n \in OutlineNodes(doc) : /\ up(n) = {n} \cup up(OutlineParent(doc, n))
                                    /\ OutlineParent(doc, n) \in places /\ OutlineParent(doc, n) < n
                                    /\ n \in Nat /\ n # NoNode
    BY <1>1, OneEntryUp, OutlineIs, WholeTree
  <1>3. \A n \in OutlineNodes(doc) : up(n) = SectionPath(doc, 1, n)
    BY <1>1, OutlineIs, PathIsOutline
  <1>4. up(NoNode) = {}
    OBVIOUS
  <1> HIDE DEF up
  <1>5. IsWay(g)
    <2>1. \A n \in places : up(n) = IF n = NoNode THEN {} ELSE {n} \cup g[OutlineParent(doc, n)]
      BY <1>2, <1>4
    <2> HIDE DEF g
    <2> QED BY <2>1 DEF g
  <1>6. IsWay(Way)
    <2> HIDE DEF g, IsWay
    <2> QED BY <1>5
  <1> HIDE DEF Way, g
  <1>7. \A n \in places : Way[n] = IF n = NoNode THEN {} ELSE {n} \cup Way[OutlineParent(doc, n)]
    BY <1>6
  <1> HIDE DEF IsWay
  <1> DEFINE wrong == {n \in places : Way[n] # up(n)}
  <1>8. ASSUME wrong # {} PROVE FALSE
    <2>1. PICK m \in wrong : \A k \in wrong : m <= k
      <3>1. wrong \subseteq Nat
        BY <1>2 DEF NoNode
      <3> HIDE DEF wrong
      <3> QED BY <1>8, <3>1, LeastOf
    <2>2. m \in places /\ Way[m] # up(m)
      OBVIOUS
    <2>3. m # NoNode /\ m \in OutlineNodes(doc)
      BY <1>4, <1>7, <2>2
    <2>4. OutlineParent(doc, m) \in places /\ OutlineParent(doc, m) < m /\ m \in Nat
      BY <1>2, <2>3
    <2>5. OutlineParent(doc, m) \in Nat
      BY <1>2, <2>4 DEF NoNode
    <2>6. OutlineParent(doc, m) \notin wrong
      BY <2>1, <2>4, <2>5
    <2>7. Way[OutlineParent(doc, m)] = up(OutlineParent(doc, m))
      BY <2>4, <2>6
    <2> HIDE DEF wrong
    <2> QED BY <1>2, <1>7, <2>2, <2>3, <2>7
  <1>9. \A n \in OutlineNodes(doc) : SectionPath(doc, 1, n) = Way[n]
    BY <1>3, <1>8
  <1> QED BY <1>9 DEF Way, IsWay

LEMMA ReferencesLead ==
    ASSUME DocInv, EidsUnique(doc), EliWork(doc, 1) # None, NEW r \in GetAllReferences(doc), r.source # None
    PROVE  r.node \in Subtree(doc, GetElementText(doc, r.source).node)
  <1>1. PICK n \in FindAll(doc, 1, "ref") : r.node = n /\ r.source = NearestEid(doc, doc[n].parent)
    BY DEF GetAllReferences
  <1>2. Tree(doc) /\ n \in 1..Len(doc) /\ doc[n].parent \in 0..Len(doc)
    <2>1. Tree(doc) /\ n \in 1..Len(doc) /\ Len(doc) \in Nat
      BY DocIsTree, WholeTree DEF FindAll
    <2>2. doc[n].parent = 0 \/ doc[n].parent \in 1..n - 1
      BY <2>1 DEF Tree, InDocumentOrder, NoNode
    <2> QED BY <2>1, <2>2
  <1>3. PICK a \in Named(doc) : doc[a].eid = r.source /\ doc[n].parent \in Subtree(doc, a)
    BY <1>1, <1>2, NearestIs
  <1>4. a \in 1..Len(doc)
    BY <1>2, WholeTree DEF Named
  <1>5. n \in Subtree(doc, a)
    <2> DEFINE p == doc[n].parent
    <2>1. Within(doc, a, p) /\ a \in Nat /\ a >= 1
      BY <1>2, <1>3, <1>4, SubtreeIs
    <2>2. Within(doc, a, n)
      BY <1>2, <2>1, OneUp
    <2> QED BY <1>2, <1>4, <2>2, SubtreeIs
  <1>6. GetElementText(doc, r.source).node = a
    BY <1>2, <1>3, ReadIs
  <1> QED BY <1>1, <1>5, <1>6

LEMMA TablesLead ==
    ASSUME DocInv, EidsUnique(doc), EliWork(doc, 1) # None, NEW t \in ExtractTables(doc, 1), t.context # None
    PROVE  t \in ExtractTables(doc, GetElementText(doc, t.context).node)
  <1> DEFINE Rows(n) == InOrder(FindAll(doc, n, "tr"))
             entry(n) == [node |-> n, context |-> NearestEid(doc, n),
                          header |-> IF HasHeader(doc, Rows(n)) THEN Cells(doc, Rows(n)[1], "th") ELSE {},
                          data |-> DataCells(doc, Rows(n))]
  <1>1. \A s : ExtractTables(doc, s) = {entry(n) : n \in FindAll(doc, s, "table")}
    BY DEF ExtractTables
  <1>2. \A n : entry(n).context = NearestEid(doc, n)
    OBVIOUS
  <1> HIDE DEF entry
  <1>3. PICK n \in FindAll(doc, 1, "table") : t = entry(n)
    BY <1>1
  <1>4. Tree(doc) /\ n \in 1..Len(doc) /\ n \in 0..Len(doc) /\ doc[n].tag = "table"
    BY DocIsTree, WholeTree DEF FindAll
  <1>5. PICK a \in Named(doc) : doc[a].eid = t.context /\ n \in Subtree(doc, a)
    BY <1>2, <1>3, <1>4, NearestIs
  <1>6. n \in FindAll(doc, a, "table")
    BY <1>4, <1>5 DEF FindAll
  <1>7. GetElementText(doc, t.context).node = a
    BY <1>4, <1>5, ReadIs
  <1> QED BY <1>1, <1>3, <1>6, <1>7

LEMMA QuotationsLead ==
    ASSUME DocInv, EidsUnique(doc), EliWork(doc, 1) # None, NEW m \in GetModifications(doc), doc[m.mod].eid # None,
           \A n \in Subtree(doc, m.mod) \ {m.mod} : doc[n].tag \in {"authorialNote", "foreign"} =>
               FindAll(doc, n, "quotedStructure") = {}
    PROVE  m.texts \subseteq GetElementText(doc, doc[m.mod].eid).texts
  <1> DEFINE qs(i) == FindAll(doc, i, "quotedStructure")
             Quoted(i) == LET q == FindAll(doc, i, "quotedStructure") IN IF q = {} THEN NoNode ELSE Min(q)
  <1>1. PICK i \in FindAll(doc, 1, "mod") :
            m.mod = i /\ m.texts = IF Quoted(i) = NoNode THEN {} ELSE TextOf(doc, Quoted(i))
    BY DEF GetModifications
  <1>2. Tree(doc) /\ i \in 1..Len(doc) /\ i \in Named(doc)
    BY <1>1, DocIsTree, WholeTree DEF FindAll, Named
  <1>3. GetElementText(doc, doc[m.mod].eid).texts = TextOf(doc, i)
    BY <1>1, <1>2, ReadIs
  <1>4. CASE Quoted(i) = NoNode
    BY <1>1, <1>4
  <1>5. CASE Quoted(i) # NoNode
    <2> DEFINE q == Quoted(i)
    <2>1. qs(i) # {} /\ q = Min(qs(i))
      BY <1>5
    <2>2. qs(i) \subseteq Nat
      <3>1. Subtree(doc, i) \subseteq Nat
        BY <1>2, SubtreeBounds
      <3> QED BY <3>1 DEF FindAll
    <2>3. q \in qs(i)
      <3> HIDE DEF q, qs
      <3> QED BY <2>1, <2>2, MinIs
    <2> HIDE DEF q
    <2>4. q \in Subtree(doc, i) /\ doc[q].tag = "quotedStructure" /\ q \in 1..Len(doc)
      BY <1>2, <2>3, SubtreeBounds DEF FindAll
    <2>5. ASSUME NEW t \in TextOf(doc, q) PROVE t \in TextOf(doc, i)
      <3>1. /\ t \in Subtree(doc, q) /\ doc[t].tag = "text"
            /\ \A c \in Subtree(doc, q) : c # q /\ t \in Subtree(doc, c) => doc[c].tag \notin {"authorialNote", "foreign"}
        BY <1>2, <2>4, TextsAre DEF TextOf, FindAll
      <3>2. t \in Subtree(doc, i)
        BY <1>2, <2>4, <3>1, Transitive
      <3>3. ASSUME NEW c \in Subtree(doc, i), c # i, t \in Subtree(doc, c)
            PROVE  doc[c].tag \notin {"authorialNote", "foreign"}
        <4>1. c \in 1..Len(doc) /\ Len(doc) \in Nat
          BY <1>2, SubtreeBounds
        <4>2. CASE c < q
          <5>1. q \in Subtree(doc, c)
            BY <1>2, <2>4, <3>1, <3>3, <4>1, <4>2, Nested
          <5>2. q \in FindAll(doc, c, "quotedStructure")
            BY <2>4, <5>1 DEF FindAll
          <5> QED BY <1>1, <3>3, <5>2
        <4>3. CASE q <= c
          <5>1. c \in Subtree(doc, q)
            BY <1>2, <2>4, <3>1, <3>3, <4>1, <4>3, Nested
          <5> QED BY <2>4, <3>1, <3>3, <5>1
        <4> QED BY <2>4, <4>1, <4>2, <4>3
      <3> QED BY <1>2, <3>1, <3>2, <3>3, TextsAre DEF TextOf, FindAll
    <2> QED BY <1>1, <1>3, <1>5, <2>5 DEF q
  <1> QED BY <1>4, <1>5

-----------------------------------------------------------------------------
(* Sequences of nodes.                                                        *)
\* In document order each node of a set has one place.
LEMMA InOrderIs ==
    ASSUME NEW S, S \subseteq Nat, IsFiniteSet(S)
    PROVE  LET s == InOrder(S)
           IN  /\ s \in Seq(S) /\ Len(s) = Cardinality(S)
               /\ \A x \in S : \E i \in 1..Len(s) : s[i] = x
               /\ \A i, j \in 1..Len(s) : i < j => s[i] < s[j]
  <1> DEFINE before(x) == {m \in S : m < x}
             n == Cardinality(S)
             rank == [x \in S |-> Cardinality(before(x)) + 1]
             s == InOrder(S)
  <1>1. n \in Nat /\ IsFiniteSet(1..n) /\ Cardinality(1..n) = n
    BY FS_CardinalityType, FS_Interval
  <1>2. ASSUME NEW x \in S PROVE IsFiniteSet(before(x)) /\ Cardinality(before(x)) \in 0..n - 1
    <2>1. before(x) \in SUBSET S /\ before(x) # S
      OBVIOUS
    <2> HIDE DEF before
    <2>2. IsFiniteSet(before(x)) /\ Cardinality(before(x)) <= n /\ Cardinality(before(x)) # n
      BY <2>1, FS_Subset
    <2>3. Cardinality(before(x)) \in Nat
      BY <2>2, FS_CardinalityType
    <2> QED BY <1>1, <2>2, <2>3
  <1>3. ASSUME NEW x \in S, NEW y \in S, x < y PROVE Cardinality(before(x)) < Cardinality(before(y))
    <2>0. x \in Nat /\ y \in Nat /\ \A m \in S : m \in Nat
      OBVIOUS
    <2>1. before(x) \in SUBSET before(y) /\ x \in before(y) /\ x \notin before(x)
      <3>1. \A m \in S : m < x => m < y
        BY <1>3, <2>0
      <3>2. ~(x < x)
        BY <2>0
      <3> QED BY <1>3, <3>1, <3>2
    <2>2. before(x) # before(y)
      BY <2>1
    <2> HIDE DEF before
    <2>3. Cardinality(before(x)) <= Cardinality(before(y)) /\ Cardinality(before(x)) # Cardinality(before(y))
      BY <1>2, <2>1, <2>2, FS_Subset
    <2> QED BY <1>2, <2>3
  <1> HIDE DEF before
  <1>0. \A x, y \in S : x = y \/ x < y \/ y < x
    <2> TAKE x, y \in S
    <2>1. x \in Nat /\ y \in Nat
      OBVIOUS
    <2> QED BY <2>1
  <1>12. \A x \in S : Cardinality(before(x)) \in Nat
    BY <1>1, <1>2
  <1>4. rank \in Injection(S, 1..n)
    <2>1. rank \in [S -> 1..n]
      BY <1>1, <1>2
    <2>2. ASSUME NEW x \in S, NEW y \in S, rank[x] = rank[y] PROVE x = y
      BY <1>0, <1>2, <1>3, <2>2
    <2> HIDE DEF rank
    <2> QED BY <2>1, <2>2 DEF Injection, IsInjective
  <1>5. rank \in Surjection(S, 1..n)
    BY <1>1, <1>4, FS_Injection
  <1>6. \A k \in 1..n : \E x \in S : Cardinality(before(x)) = k - 1
    <2> TAKE k \in 1..n
    <2>1. PICK x \in S : rank[x] = k
      BY <1>5 DEF Surjection
    <2>2. Cardinality(before(x)) + 1 = k
      BY <2>1
    <2> QED BY <1>2, <2>2
  <1>7. s = [k \in 1..n |-> CHOOSE x \in S : Cardinality(before(x)) = k - 1]
    BY DEF InOrder, before
  <1>8. \A k \in 1..n : s[k] \in S /\ Cardinality(before(s[k])) = k - 1
    BY <1>6, <1>7
  <1>9. s \in Seq(S) /\ Len(s) = n
    <2>1. s \in [1..n -> S]
      BY <1>7, <1>8
    <2> HIDE DEF s
    <2> QED BY <1>1, <2>1
  <1> HIDE DEF s, n, rank
  <1>10. ASSUME NEW x \in S PROVE \E i \in 1..n : s[i] = x
    <2> DEFINE i == Cardinality(before(x)) + 1
    <2>1. i \in 1..n /\ Cardinality(before(s[i])) = Cardinality(before(x)) /\ s[i] \in S
      BY <1>1, <1>2, <1>8
    <2> HIDE DEF i
    <2>2. s[i] = x
      <3>1. CASE s[i] < x
        <4>1. Cardinality(before(s[i])) < Cardinality(before(x))
          BY <1>3, <2>1, <3>1
        <4> QED BY <1>12, <2>1, <4>1
      <3>2. CASE x < s[i]
        <4>1. Cardinality(before(x)) < Cardinality(before(s[i]))
          BY <1>3, <2>1, <3>2
        <4> QED BY <1>12, <2>1, <4>1
      <3> QED BY <1>0, <2>1, <3>1, <3>2
    <2> QED BY <2>1, <2>2
  <1>11. ASSUME NEW i \in 1..n, NEW j \in 1..n, i < j PROVE s[i] < s[j]
    <2>1. s[i] \in S /\ s[j] \in S /\ Cardinality(before(s[i])) < Cardinality(before(s[j]))
      BY <1>8, <1>11
    <2>2. ~(s[j] < s[i])
      <3>1. ASSUME s[j] < s[i] PROVE FALSE
        <4>1. Cardinality(before(s[j])) < Cardinality(before(s[i]))
          BY <1>3, <2>1, <3>1
        <4>2. Cardinality(before(s[i])) \in Nat /\ Cardinality(before(s[j])) \in Nat
          BY <1>12, <2>1
        <4> QED BY <2>1, <4>1, <4>2
      <3> QED BY <3>1
    <2>3. s[i] # s[j]
      <3>1. Cardinality(before(s[i])) \in Nat
        BY <1>12, <2>1
      <3> QED BY <2>1, <3>1
    <2> QED BY <1>0, <2>1, <2>2, <2>3
  <1> QED BY <1>9, <1>10, <1>11 DEF n, s

\* Sequences laid end to end.
Flattens(f, ss, k) == f = [i \in 1..k |-> IF i = 1 THEN ss[i] ELSE f[i - 1] \o ss[i]]

LEMMA FlattensMore ==
    ASSUME NEW ss, NEW n \in Nat, NEW k \in 1..n, k = 1 \/ \E f : Flattens(f, ss, k - 1)
    PROVE  \E f : Flattens(f, ss, k)
  <1>1. CASE k = 1
    <2>1. Flattens([i \in 1..1 |-> ss[1]], ss, 1)
      BY DEF Flattens
    <2> QED BY <1>1, <2>1
  <1>2. CASE k # 1
    <2>1. PICK f : Flattens(f, ss, k - 1)
      BY <1>2
    <2> DEFINE g == [i \in 1..k |-> IF i = k THEN f[k - 1] \o ss[k] ELSE f[i]]
    <2>2. \A i \in 1..k - 1 : f[i] = IF i = 1 THEN ss[i] ELSE f[i - 1] \o ss[i]
      BY <2>1 DEF Flattens
    <2>3. \A i \in 1..k : g[i] = IF i = 1 THEN ss[i] ELSE g[i - 1] \o ss[i]
      <3> TAKE i \in 1..k
      <3>1. CASE i = k
        <4>1. g[k - 1] = f[k - 1]
          BY <1>2
        <4> QED BY <1>2, <3>1, <4>1
      <3>2. CASE i # k
        <4>1. g[i] = f[i] /\ (i # 1 => g[i - 1] = f[i - 1])
          BY <3>2
        <4> QED BY <2>2, <3>2, <4>1
      <3> QED BY <3>1, <3>2
    <2>4. g = [i \in 1..k |-> g[i]]
      OBVIOUS
    <2> HIDE DEF g
    <2>5. Flattens(g, ss, k)
      BY <2>3, <2>4 DEF Flattens
    <2> QED BY <2>5
  <1> QED BY <1>1, <1>2

LEMMA FlattenIs ==
    ASSUME NEW V, NEW ss \in Seq(Seq(V))
    PROVE  \E f : /\ f \in [0..Len(ss) -> Seq(V)] /\ f[0] = <<>> /\ f[Len(ss)] = FlattenSeq(ss)
                  /\ \A k \in 1..Len(ss) : f[k] = f[k - 1] \o ss[k]
  <1> DEFINE n == Len(ss)
             missing == {k \in 1..n : ~ \E f : Flattens(f, ss, k)}
  <1>0. n \in Nat /\ \A k \in 1..n : ss[k] \in Seq(V)
    BY ElementOfSeq
  <1>1. CASE n = 0
    <2> DEFINE f == [k \in 0..n |-> <<>>]
    <2>1. FlattenSeq(ss) = ss /\ ss = <<>>
      BY <1>1 DEF FlattenSeq
    <2>2. f \in [0..n -> Seq(V)]
      BY EmptySeq
    <2>3. f[0] = <<>>
      BY <1>0
    <2>4. f[Len(ss)] = FlattenSeq(ss) /\ \A k \in 1..n : f[k] = f[k - 1] \o ss[k]
      BY <1>1, <2>1, <2>3
    <2> HIDE DEF f
    <2> QED BY <2>2, <2>3, <2>4
  <1>2. CASE n # 0
    <2>1. ASSUME missing # {} PROVE FALSE
      <3>1. PICK k \in missing : \A m \in missing : k <= m
        <4>1. missing \subseteq Nat
          OBVIOUS
        <4> HIDE DEF missing
        <4> QED BY <2>1, <4>1, LeastOf
      <3>2. k \in 1..n /\ ~ \E f : Flattens(f, ss, k)
        OBVIOUS
      <3>3. k = 1 \/ k - 1 \notin missing
        <4> HIDE DEF missing
        <4> QED BY <1>0, <3>1, <3>2
      <3>4. k = 1 \/ \E f : Flattens(f, ss, k - 1)
        BY <1>0, <3>2, <3>3
      <3> QED BY <1>0, <3>2, <3>4, FlattensMore
    <2>2. \E f : Flattens(f, ss, n)
      <3>1. n \in 1..n
        BY <1>0, <1>2
      <3>2. \A k \in 1..n : \E f : Flattens(f, ss, k)
        BY <2>1
      <3> HIDE DEF n
      <3> QED BY <3>1, <3>2
    <2> DEFINE fl == CHOOSE f : Flattens(f, ss, n)
    <2>3. Flattens(fl, ss, n)
      BY <2>2
    <2>4. FlattenSeq(ss) = fl[n]
      BY <1>2 DEF FlattenSeq, Flattens
    <2> HIDE DEF fl
    <2>5. \A i \in 1..n : fl[i] = IF i = 1 THEN ss[i] ELSE fl[i - 1] \o ss[i]
      BY <2>3 DEF Flattens
    <2> DEFINE wrong == {k \in 1..n : fl[k] \notin Seq(V)}
    <2>6. ASSUME wrong # {} PROVE FALSE
      <3>1. PICK k \in wrong : \A m \in wrong : k <= m
        <4>1. wrong \subseteq Nat
          OBVIOUS
        <4> HIDE DEF wrong
        <4> QED BY <2>6, <4>1, LeastOf
      <3>2. k \in 1..n /\ fl[k] \notin Seq(V)
        OBVIOUS
      <3>3. CASE k = 1
        BY <1>0, <2>5, <3>2, <3>3
      <3>4. CASE k # 1
        <4>1. k - 1 \in 1..n /\ k - 1 \notin wrong
          BY <1>0, <3>1, <3>2, <3>4
        <4>2. fl[k - 1] \in Seq(V) /\ ss[k] \in Seq(V) /\ fl[k] = fl[k - 1] \o ss[k]
          BY <1>0, <2>5, <3>2, <3>4, <4>1
        <4> QED BY <3>2, <4>2, ConcatProperties
      <3> QED BY <3>3, <3>4
    <2> DEFINE f == [k \in 0..n |-> IF k = 0 THEN <<>> ELSE fl[k]]
    <2>7. f \in [0..n -> Seq(V)]
      BY <1>0, <2>6, EmptySeq
    <2>8. f[0] = <<>> /\ f[n] = FlattenSeq(ss)
      BY <1>0, <1>2, <2>4
    <2>9. ASSUME NEW k \in 1..n PROVE f[k] = f[k - 1] \o ss[k]
      <3>1. CASE k = 1
        <4>1. <<>> \o ss[k] = ss[k]
          BY <1>0, ConcatEmptySeq
        <4>2. f[k] = ss[k] /\ f[k - 1] = <<>>
          BY <1>0, <2>5, <3>1
        <4> QED BY <4>1, <4>2
      <3>2. CASE k # 1
        <4>1. f[k] = fl[k] /\ f[k - 1] = fl[k - 1]
          BY <1>0, <3>2
        <4> QED BY <2>5, <3>2, <4>1
      <3> QED BY <3>1, <3>2
    <2> HIDE DEF f
    <2> QED BY <2>7, <2>8, <2>9
  <1> QED BY <1>1, <1>2

\* A fold from the left, as the libraries define it: over sets of places, the last first.
Folding(f, V, base, step, s, k) ==
    /\ f \in [SUBSET (1..k) -> V]
    /\ \A T \in SUBSET (1..k) :
          f[T] = IF T = {} THEN base ELSE step[f[T \ {Max(T)}], s[Max(T)]]

LEMMA FoldsMore ==
    ASSUME NEW V, NEW P, NEW base \in V, NEW step \in [V \X P -> V], NEW n \in Nat, NEW s \in [1..n -> P],
           NEW k \in 1..n, \E f : Folding(f, V, base, step, s, k - 1)
    PROVE  \E f : Folding(f, V, base, step, s, k)
  <1>1. PICK f : Folding(f, V, base, step, s, k - 1)
    OBVIOUS
  <1> DEFINE g == [T \in SUBSET (1..k) |-> IF T = {} THEN base ELSE step[f[T \ {Max(T)}], s[Max(T)]]]
  <1>2. ASSUME NEW T \in SUBSET (1..k), T # {}
        PROVE  Max(T) \in 1..n /\ T \ {Max(T)} \in SUBSET (1..k - 1)
    <2>0. T \subseteq 1..k /\ k \in Nat /\ \A y \in T : y \in Nat /\ y >= 1 /\ y <= k
      OBVIOUS
    <2>1. Max(T) \in T /\ \A y \in T : y <= Max(T)
      BY <1>2, <2>0, MaxIs
    <2> DEFINE m == Max(T)
    <2> HIDE DEF m
    <2>2. m \in T /\ \A y \in T : y <= m
      BY <2>1 DEF m
    <2>3. \A y \in T \ {m} : y \in 1..k - 1
      BY <2>0, <2>2
    <2>4. m \in 1..n
      BY <2>0, <2>2
    <2> QED BY <2>3, <2>4 DEF m
  <1>3. g \in [SUBSET (1..k) -> V]
    <2>1. ASSUME NEW T \in SUBSET (1..k) PROVE g[T] \in V
      <3>1. CASE T = {}
        BY <3>1
      <3>2. CASE T # {}
        <4>1. f[T \ {Max(T)}] \in V /\ s[Max(T)] \in P
          BY <1>1, <1>2, <3>2 DEF Folding
        <4> QED BY <3>2, <4>1
      <3> QED BY <3>1, <3>2
    <2> QED BY <2>1
  <1>4. \A T \in SUBSET (1..k - 1) : T \in SUBSET (1..k) /\ g[T] = f[T]
    <2> TAKE T \in SUBSET (1..k - 1)
    <2>1. T \in SUBSET (1..k)
      OBVIOUS
    <2>2. f[T] = IF T = {} THEN base ELSE step[f[T \ {Max(T)}], s[Max(T)]]
      BY <1>1 DEF Folding
    <2> QED BY <2>1, <2>2
  <1>5. ASSUME NEW T \in SUBSET (1..k)
        PROVE  g[T] = IF T = {} THEN base ELSE step[g[T \ {Max(T)}], s[Max(T)]]
    <2>1. CASE T = {}
      BY <2>1
    <2>2. CASE T # {}
      <3>1. g[T \ {Max(T)}] = f[T \ {Max(T)}]
        BY <1>2, <1>4, <2>2
      <3>2. g[T] = step[f[T \ {Max(T)}], s[Max(T)]]
        BY <2>2
      <3> HIDE DEF g
      <3> QED BY <2>2, <3>1, <3>2
    <2> QED BY <2>1, <2>2
  <1> HIDE DEF g
  <1>6. Folding(g, V, base, step, s, k)
    BY <1>3, <1>5 DEF Folding
  <1> QED BY <1>6

LEMMA FoldExists ==
    ASSUME NEW V, NEW P, NEW base \in V, NEW step \in [V \X P -> V], NEW n \in Nat, NEW s \in [1..n -> P]
    PROVE  \E f : Folding(f, V, base, step, s, n)
  <1> DEFINE missing == {k \in 0..n : ~ \E f : Folding(f, V, base, step, s, k)}
  <1>1. ASSUME missing # {} PROVE FALSE
    <2>1. PICK k \in missing : \A m \in missing : k <= m
      <3>1. missing \subseteq Nat
        OBVIOUS
      <3> HIDE DEF missing
      <3> QED BY <1>1, <3>1, LeastOf
    <2>2. k \in 0..n /\ ~ \E f : Folding(f, V, base, step, s, k)
      OBVIOUS
    <2>3. CASE k = 0
      <3> DEFINE f == [T \in SUBSET (1..0) |-> base]
      <3>1. \A T \in SUBSET (1..0) : T = {}
        OBVIOUS
      <3>2. f \in [SUBSET (1..0) -> V]
        OBVIOUS
      <3>3. \A T \in SUBSET (1..0) : f[T] = base
        OBVIOUS
      <3> HIDE DEF f
      <3>4. Folding(f, V, base, step, s, 0)
        BY <3>1, <3>2, <3>3 DEF Folding
      <3> QED BY <2>2, <2>3, <3>4
    <2>4. CASE k # 0
      <3>1. k \in 1..n /\ k - 1 \in 0..n
        BY <2>2, <2>4
      <3>2. k - 1 \notin missing
        <4> HIDE DEF missing
        <4> QED BY <2>1, <2>2, <3>1
      <3>3. \E f : Folding(f, V, base, step, s, k - 1)
        BY <3>1, <3>2
      <3> QED BY <2>2, <3>1, <3>3, FoldsMore
    <2> QED BY <2>3, <2>4
  <1> QED BY <1>1

\* What each step keeps of a kind is of that kind in the end.
Keeping(it, V, base, step, s, n) ==
    /\ it[{}] = base
    /\ \A T \in SUBSET (1..n) : T # {} /\ it[T \ {Max(T)}] \in V => it[T] = step[it[T \ {Max(T)}], s[Max(T)]]

Steps(g, V, base, step, s, n) ==
    g \in [0..n -> V] /\ g[0] = base /\ \A k \in 1..n : g[k] = step[g[k - 1], s[k]]

EndsWith(result, V, base, step, s, n) == \E g : Steps(g, V, base, step, s, n) /\ g[n] = result

LEMMA FoldSteps ==
    ASSUME NEW V, NEW P, NEW base \in V, NEW step \in [V \X P -> V], NEW n \in Nat, NEW s \in [1..n -> P],
           NEW it, Keeping(it, V, base, step, s, n)
    PROVE  EndsWith(it[1..n], V, base, step, s, n)
  <1>0. it[1..0] = base
    <2>1. 1..0 = {}
      OBVIOUS
    <2> QED BY <2>1 DEF Keeping
  <1>1. ASSUME NEW k \in 1..n, it[1..k - 1] \in V
        PROVE  it[1..k] \in V /\ it[1..k] = step[it[1..k - 1], s[k]]
    <2> DEFINE T == 1..k
    <2>1. T \in SUBSET (1..n) /\ T # {} /\ k \in T /\ \A y \in T : y <= k
      <3>1. \A y \in T : y \in 1..n /\ y <= k
        OBVIOUS
      <3>2. k \in T
        OBVIOUS
      <3> QED BY <3>1, <3>2
    <2>2. Max(T) = k
      <3>1. Max(T) \in T /\ k <= Max(T)
        <4> HIDE DEF T
        <4> QED BY <2>1, MaxIs
      <3> QED BY <2>1, <3>1
    <2>3. T \ {k} = 1..k - 1
      OBVIOUS
    <2>4. it[T] = step[it[1..k - 1], s[k]]
      <3> HIDE DEF T
      <3> QED BY <1>1, <2>1, <2>2, <2>3 DEF Keeping
    <2>5. s[k] \in P
      OBVIOUS
    <2> QED BY <1>1, <2>4, <2>5
  <1> DEFINE wrong == {k \in 0..n : it[1..k] \notin V}
  <1>2. ASSUME wrong # {} PROVE FALSE
    <2>1. PICK k \in wrong : \A m \in wrong : k <= m
      <3>1. wrong \subseteq Nat
        OBVIOUS
      <3> HIDE DEF wrong
      <3> QED BY <1>2, <3>1, LeastOf
    <2>2. k \in 0..n /\ it[1..k] \notin V
      OBVIOUS
    <2>3. k \in 1..n /\ k - 1 \in 0..n /\ k - 1 < k
      BY <1>0, <2>2
    <2>4. k - 1 \notin wrong
      <3> HIDE DEF wrong
      <3> QED BY <2>1, <2>2, <2>3
    <2>5. it[1..k - 1] \in V
      BY <2>3, <2>4
    <2> QED BY <1>1, <2>2, <2>3, <2>5
  <1>3. \A k \in 0..n : it[1..k] \in V
    BY <1>2
  <1> DEFINE g == [k \in 0..n |-> it[1..k]]
  <1>4. \A k \in 0..n : g[k] = it[1..k] /\ g[k] \in V
    BY <1>3
  <1>5. g \in [0..n -> V] /\ 0 \in 0..n /\ n \in 0..n
    <2>1. g = [k \in 0..n |-> g[k]] /\ 0 \in 0..n /\ n \in 0..n
      OBVIOUS
    <2> HIDE DEF g
    <2> QED BY <1>4, <2>1
  <1> HIDE DEF g
  <1>6. ASSUME NEW k \in 1..n PROVE g[k] = step[g[k - 1], s[k]]
    <2>1. k \in 0..n /\ k - 1 \in 0..n
      OBVIOUS
    <2>2. it[1..k] = step[it[1..k - 1], s[k]]
      BY <1>1, <1>3, <2>1
    <2> QED BY <1>4, <2>1, <2>2
  <1>7. Steps(g, V, base, step, s, n)
    BY <1>0, <1>4, <1>5, <1>6 DEF Steps
  <1> QED BY <1>4, <1>5, <1>7 DEF EndsWith

-----------------------------------------------------------------------------
(* From pieces to chunks.                                                     *)
ChunkOf(d, r, p, i) ==
    [ eli    |-> WorkEliPath(EliWork(d, r)),
      eid    |-> IF p.node = NoNode THEN None ELSE d[p.node].eid,
      idx    |-> i,
      suffix |-> p.suffix,
      path   |-> IF p.node = NoNode THEN {} ELSE SectionPath(d, r, p.node),
      texts  |-> p.texts ]

Push(d, r, chunks, p) ==
    IF Size(d, p.texts) = 0 THEN chunks ELSE Append(chunks, ChunkOf(d, r, p, Len(chunks)))

ChunksOf(d, r, P) == {ChunkOf(d, r, p, i) : p \in P, i \in Nat}

\* The chunks there are after each piece.
PushSteps(f, d, r, P, pieces) ==
    /\ f \in [0..Len(pieces) -> Seq(ChunksOf(d, r, P))] /\ f[0] = <<>>
    /\ f[Len(pieces)] = Pushed(d, r, pieces)
    /\ \A k \in 1..Len(pieces) : f[k] = Push(d, r, f[k - 1], pieces[k])

LEMMA PushedSteps ==
    ASSUME NEW d, NEW r, NEW P, NEW pieces \in Seq(P)
    PROVE  \E f : PushSteps(f, d, r, P, pieces)
  <1> DEFINE n == Len(pieces)
             V == Seq(ChunksOf(d, r, P))
             step == [v \in V \X P |-> Push(d, r, v[1], v[2])]
             Rec(f) == f = [T \in SUBSET (1..n) |-> IF T = {} THEN <<>> ELSE Push(d, r, f[T \ {Max(T)}], pieces[Max(T)])]
             iter == CHOOSE f : Rec(f)
  <1>0. n \in Nat /\ pieces \in [1..n -> P] /\ DOMAIN pieces = 1..n
    OBVIOUS
  <1>1. Pushed(d, r, pieces) = iter[1..n]
    BY <1>0 DEF Pushed, FoldLeft, MapThenFoldSet, Push, ChunkOf
  <1>2. \A c \in V, p \in P : Push(d, r, c, p) \in V
    <2> TAKE c \in V, p \in P
    <2>1. ChunkOf(d, r, p, Len(c)) \in ChunksOf(d, r, P)
      BY LenProperties DEF ChunksOf
    <2> QED BY <2>1, AppendProperties DEF Push
  <1>3. <<>> \in V
    BY EmptySeq
  <1> HIDE DEF V
  <1>4. step \in [V \X P -> V] /\ \A c \in V, p \in P : step[c, p] = Push(d, r, c, p)
    BY <1>2
  <1> HIDE DEF step
  <1>5. PICK f : Folding(f, V, <<>>, step, pieces, n)
    BY <1>0, <1>3, <1>4, FoldExists
  <1>6. \A T \in SUBSET (1..n) : T # {} =>
            Max(T) \in 1..n /\ T \ {Max(T)} \in SUBSET (1..n)
    BY <1>0, MaxIs
  <1>7. Rec(f)
    <2>1. \A T \in SUBSET (1..n) : f[T] = IF T = {} THEN <<>> ELSE Push(d, r, f[T \ {Max(T)}], pieces[Max(T)])
      <3> TAKE T \in SUBSET (1..n)
      <3>1. CASE T = {}
        BY <1>5, <3>1 DEF Folding
      <3>2. CASE T # {}
        <4>1. f[T \ {Max(T)}] \in V /\ pieces[Max(T)] \in P
          BY <1>0, <1>5, <1>6, <3>2 DEF Folding
        <4>2. f[T] = step[f[T \ {Max(T)}], pieces[Max(T)]]
          BY <1>5, <3>2 DEF Folding
        <4> QED BY <1>4, <3>2, <4>1, <4>2
      <3> QED BY <3>1, <3>2
    <2>2. f \in [SUBSET (1..n) -> V]
      BY <1>5 DEF Folding
    <2> QED BY <2>1, <2>2
  <1>8. Rec(iter)
    <2> HIDE DEF Rec
    <2> QED BY <1>7
  <1> HIDE DEF iter
  <1>9. iter[{}] = <<>> /\ \A T \in SUBSET (1..n) : T # {} => iter[T] = Push(d, r, iter[T \ {Max(T)}], pieces[Max(T)])
    BY <1>8
  <1> HIDE DEF Rec
  <1>10. \A T \in SUBSET (1..n) : T # {} /\ iter[T \ {Max(T)}] \in V =>
             iter[T] = step[iter[T \ {Max(T)}], pieces[Max(T)]]
    <2> TAKE T \in SUBSET (1..n)
    <2> HAVE T # {} /\ iter[T \ {Max(T)}] \in V
    <2>1. pieces[Max(T)] \in P
      BY <1>0, <1>6
    <2> QED BY <1>4, <1>9, <2>1
  <1>11. Keeping(iter, V, <<>>, step, pieces, n)
    BY <1>9, <1>10 DEF Keeping
  <1>12. PICK g : Steps(g, V, <<>>, step, pieces, n) /\ g[n] = iter[1..n]
    <2>1. EndsWith(iter[1..n], V, <<>>, step, pieces, n)
      <3> HIDE DEF n
      <3> QED BY <1>0, <1>3, <1>4, <1>11, FoldSteps
    <2> QED BY <2>1 DEF EndsWith
  <1>13. g \in [0..n -> V] /\ g[n] = Pushed(d, r, pieces) /\ g[0] = <<>>
    BY <1>1, <1>12 DEF Steps
  <1>14. \A k \in 1..n : g[k] = Push(d, r, g[k - 1], pieces[k])
    <2> TAKE k \in 1..n
    <2>1. k - 1 \in 0..n /\ pieces[k] \in P
      BY <1>0
    <2>2. g[k] = step[g[k - 1], pieces[k]] /\ g[k - 1] \in V
      BY <1>12, <2>1 DEF Steps
    <2> QED BY <1>4, <2>1, <2>2
  <1>15. PushSteps(g, d, r, P, pieces)
    BY <1>13, <1>14 DEF PushSteps, V
  <1> QED BY <1>15

LEMMA PushedIs ==
    ASSUME NEW d, NEW r, NEW P, NEW pieces \in Seq(P)
    PROVE  Pushed(d, r, pieces) \in Seq(ChunksOf(d, r, P))
  <1>1. PICK f : PushSteps(f, d, r, P, pieces)
    BY PushedSteps
  <1>2. Len(pieces) \in 0..Len(pieces)
    BY LenProperties
  <1> QED BY <1>1, <1>2 DEF PushSteps

-----------------------------------------------------------------------------
(* Sizes of sets of texts.                                                    *)
Sums(f, d, S, k) ==
    LET some == {T \in SUBSET S : Cardinality(T) <= k}
    IN  /\ f \in [some -> Nat]
        /\ \A T \in some : f[T] = IF T = {} THEN 0 ELSE d[CHOOSE x \in T : TRUE].len + f[T \ {CHOOSE x \in T : TRUE}]

LEMMA OneLess ==
    ASSUME NEW S, IsFiniteSet(S), NEW T \in SUBSET S, T # {}
    PROVE  LET c == CHOOSE x \in T : TRUE
           IN  /\ c \in T /\ c \in S /\ T \ {c} \in SUBSET S
               /\ Cardinality(T) \in Nat \ {0} /\ Cardinality(T \ {c}) = Cardinality(T) - 1
  <1> DEFINE c == CHOOSE x \in T : TRUE
  <1>1. c \in T
    OBVIOUS
  <1> HIDE DEF c
  <1>2. IsFiniteSet(T)
    BY FS_Subset
  <1>3. Cardinality(T) \in Nat /\ Cardinality(T \ {c}) = Cardinality(T) - 1
    BY <1>1, <1>2, FS_CardinalityType, FS_RemoveElement
  <1>4. Cardinality(T) # 0
    BY <1>1, <1>2, FS_EmptySet
  <1> QED BY <1>1, <1>3, <1>4 DEF c

LEMMA SumsMore ==
    ASSUME NEW d, NEW S, IsFiniteSet(S), \A t \in S : d[t].len \in Nat,
           NEW k \in Nat, \E f : Sums(f, d, S, k)
    PROVE  \E f : Sums(f, d, S, k + 1)
  <1>1. PICK f : Sums(f, d, S, k)
    OBVIOUS
  <1> DEFINE c(T) == CHOOSE x \in T : TRUE
             some(m) == {T \in SUBSET S : Cardinality(T) <= m}
             g == [T \in some(k + 1) |-> IF T = {} THEN 0 ELSE d[c(T)].len + f[T \ {c(T)}]]
  <1>2. ASSUME NEW T \in some(k + 1), T # {}
        PROVE  c(T) \in S /\ T \ {c(T)} \in some(k)
    <2>1. T \in SUBSET S /\ Cardinality(T) <= k + 1
      OBVIOUS
    <2>2. c(T) \in S /\ T \ {c(T)} \in SUBSET S /\ Cardinality(T) \in Nat /\ Cardinality(T \ {c(T)}) = Cardinality(T) - 1
      BY <1>2, <2>1, OneLess
    <2> HIDE DEF c
    <2> QED BY <2>1, <2>2
  <1> HIDE DEF c
  <1>3. /\ f \in [some(k) -> Nat]
        /\ \A T \in some(k) : f[T] = IF T = {} THEN 0 ELSE d[c(T)].len + f[T \ {c(T)}]
    BY <1>1 DEF Sums, c
  <1>4. \A T \in some(k) : T \in some(k + 1)
    <2> TAKE T \in some(k)
    <2>1. T \in SUBSET S /\ Cardinality(T) \in Nat
      BY FS_Subset, FS_CardinalityType
    <2> QED BY <2>1
  <1>5. g \in [some(k + 1) -> Nat]
    <2> HIDE DEF some
    <2>1. \A T \in some(k + 1) : T # {} => d[c(T)].len + f[T \ {c(T)}] \in Nat
      BY <1>2, <1>3
    <2> QED BY <2>1
  <1> HIDE DEF some
  <1>6. \A T \in some(k) : g[T] = f[T]
    BY <1>3, <1>4
  <1>7. \A T \in some(k + 1) : g[T] = IF T = {} THEN 0 ELSE d[c(T)].len + g[T \ {c(T)}]
    <2> TAKE T \in some(k + 1)
    <2>1. CASE T = {}
      BY <2>1
    <2>2. CASE T # {}
      <3>1. g[T \ {c(T)}] = f[T \ {c(T)}]
        BY <1>2, <1>6, <2>2
      <3>2. g[T] = d[c(T)].len + f[T \ {c(T)}]
        BY <2>2
      <3> HIDE DEF g
      <3> QED BY <2>2, <3>1, <3>2
    <2> QED BY <2>1, <2>2
  <1> HIDE DEF g
  <1>8. Sums(g, d, S, k + 1)
    BY <1>5, <1>7 DEF Sums, some, c
  <1> QED BY <1>8

LEMMA SumExists ==
    ASSUME NEW d, NEW S, IsFiniteSet(S), \A t \in S : d[t].len \in Nat, NEW k \in Nat
    PROVE  \E f : Sums(f, d, S, k)
  <1> DEFINE missing == {m \in Nat : ~ \E f : Sums(f, d, S, m)}
  <1>1. ASSUME missing # {} PROVE FALSE
    <2>1. PICK m \in missing : \A j \in missing : m <= j
      <3>1. missing \subseteq Nat
        OBVIOUS
      <3> HIDE DEF missing
      <3> QED BY <1>1, <3>1, LeastOf
    <2>2. m \in Nat /\ ~ \E f : Sums(f, d, S, m)
      OBVIOUS
    <2>3. CASE m = 0
      <3> DEFINE f == [T \in {{}} |-> 0]
      <3>1. \A T : T \in {U \in SUBSET S : Cardinality(U) <= 0} <=> T = {}
        <4>1. ASSUME NEW T \in SUBSET S, Cardinality(T) <= 0 PROVE T = {}
          <5>1. IsFiniteSet(T) /\ Cardinality(T) \in Nat
            BY FS_Subset, FS_CardinalityType
          <5>2. Cardinality(T) = 0
            BY <4>1, <5>1
          <5> QED BY <5>1, <5>2, FS_EmptySet
        <4>2. Cardinality({}) = 0
          BY FS_EmptySet
        <4> QED BY <4>1, <4>2
      <3>2. {U \in SUBSET S : Cardinality(U) <= 0} = {{}}
        BY <3>1
      <3>3. Sums(f, d, S, 0)
        BY <3>2 DEF Sums
      <3> QED BY <2>2, <2>3, <3>3
    <2>4. CASE m # 0
      <3>1. m - 1 \in Nat /\ m = (m - 1) + 1
        BY <2>2, <2>4
      <3>2. m - 1 \notin missing
        <4> HIDE DEF missing
        <4> QED BY <2>1, <2>2, <3>1
      <3>3. \E f : Sums(f, d, S, m - 1)
        BY <3>1, <3>2
      <3>4. \E f : Sums(f, d, S, (m - 1) + 1)
        BY <3>1, <3>3, SumsMore
      <3> QED BY <2>2, <3>1, <3>4
    <2> QED BY <2>3, <2>4
  <1> QED BY <1>1

\* A sum over the subsets of S, one text at a time.
Summing(f, d, S) ==
    /\ f \in [SUBSET S -> Nat]
    /\ \A T \in SUBSET S : f[T] = IF T = {} THEN 0 ELSE d[CHOOSE x \in T : TRUE].len + f[T \ {CHOOSE x \in T : TRUE}]

LEMMA SizeIsSum ==
    ASSUME NEW d, NEW S, IsFiniteSet(S), \A t \in S : d[t].len \in Nat
    PROVE  \E f : Summing(f, d, S) /\ Size(d, S) = f[S]
  <1> DEFINE c(T) == CHOOSE x \in T : TRUE
             Rec(f) == f = [T \in SUBSET S |-> IF T = {} THEN 0 ELSE d[c(T)].len + f[T \ {c(T)}]]
             iter == CHOOSE f : Rec(f)
             n == Cardinality(S)
  <1>1. Size(d, S) = iter[S]
    BY DEF Size, MapThenSumSet, MapThenFoldSet
  <1>2. n \in Nat
    BY FS_CardinalityType
  <1>3. {T \in SUBSET S : Cardinality(T) <= n} = SUBSET S
    BY FS_Subset
  <1>4. PICK f : Sums(f, d, S, n)
    <2> HIDE DEF n
    <2> QED BY <1>2, SumExists
  <1>5. Summing(f, d, S)
    BY <1>3, <1>4 DEF Sums, Summing
  <1> HIDE DEF n
  <1>6. Rec(f)
    <2>1. f = [T \in SUBSET S |-> f[T]]
      BY <1>5 DEF Summing
    <2>2. \A T \in SUBSET S : f[T] = IF T = {} THEN 0 ELSE d[c(T)].len + f[T \ {c(T)}]
      BY <1>5 DEF Summing
    <2> HIDE DEF c
    <2> QED BY <2>1, <2>2
  <1>7. Rec(iter)
    <2> HIDE DEF Rec
    <2> QED BY <1>6
  <1> HIDE DEF iter
  <1>8. iter = f
    <2>1. \A T \in SUBSET S : f[T] = IF T = {} THEN 0 ELSE d[c(T)].len + f[T \ {c(T)}]
      BY <1>5 DEF Summing
    <2>2. \A T \in SUBSET S : iter[T] = IF T = {} THEN 0 ELSE d[c(T)].len + iter[T \ {c(T)}]
      BY <1>7
    <2>3. DOMAIN iter = SUBSET S /\ DOMAIN f = SUBSET S /\ iter = [T \in SUBSET S |-> iter[T]]
      BY <1>5, <1>7 DEF Summing
    <2>4. ASSUME NEW k \in Nat, \A j \in Nat : j < k => \A T \in SUBSET S : Cardinality(T) = j => iter[T] = f[T]
          PROVE  \A T \in SUBSET S : Cardinality(T) = k => iter[T] = f[T]
      <3> TAKE T \in SUBSET S
      <3> HAVE Cardinality(T) = k
      <3>1. CASE T = {}
        BY <2>1, <2>2, <3>1
      <3>2. CASE T # {}
        <4>1. T \ {c(T)} \in SUBSET S /\ Cardinality(T \ {c(T)}) = k - 1 /\ k \in Nat \ {0}
          BY <3>2, OneLess
        <4>2. iter[T \ {c(T)}] = f[T \ {c(T)}]
          BY <2>4, <4>1
        <4> HIDE DEF c
        <4> QED BY <2>1, <2>2, <3>2, <4>2
      <3> QED BY <3>1, <3>2
    <2> DEFINE wrong == {k \in Nat : \E T \in SUBSET S : Cardinality(T) = k /\ iter[T] # f[T]}
    <2>5. ASSUME wrong # {} PROVE FALSE
      <3>1. PICK k \in wrong : \A j \in wrong : k <= j
        <4>1. wrong \subseteq Nat
          OBVIOUS
        <4> HIDE DEF wrong
        <4> QED BY <2>5, <4>1, LeastOf
      <3>2. k \in Nat /\ \E T \in SUBSET S : Cardinality(T) = k /\ iter[T] # f[T]
        OBVIOUS
      <3>3. \A j \in Nat : j < k => j \notin wrong
        <4> HIDE DEF wrong
        <4> QED BY <3>1, <3>2
      <3>4. \A j \in Nat : j < k => \A T \in SUBSET S : Cardinality(T) = j => iter[T] = f[T]
        BY <3>3
      <3> QED BY <2>4, <3>2, <3>4
    <2>6. \A T \in SUBSET S : iter[T] = f[T]
      <3>1. \A T \in SUBSET S : Cardinality(T) \in Nat
        BY FS_Subset, FS_CardinalityType
      <3> QED BY <2>5, <3>1
    <2>7. f = [T \in SUBSET S |-> f[T]]
      BY <1>5 DEF Summing
    <2>8. [T \in SUBSET S |-> iter[T]] = [T \in SUBSET S |-> f[T]]
      BY <2>6
    <2> QED BY <2>3, <2>7, <2>8
  <1> QED BY <1>1, <1>5, <1>8

LEMMA SizeIsNat ==
    ASSUME NEW d, NEW S, IsFiniteSet(S), \A t \in S : d[t].len \in Nat
    PROVE  Size(d, S) \in Nat
  <1>1. PICK f : Summing(f, d, S) /\ Size(d, S) = f[S]
    BY SizeIsSum
  <1> QED BY <1>1 DEF Summing

-----------------------------------------------------------------------------
(* Groups of texts.                                                           *)
Measured(d) == Tree(d) /\ \A n \in 1..Len(d) : d[n].len \in Nat

Groups(d) == [texts : SUBSET (1..Len(d)), len : Nat]

GroupOf(d, i) == [texts |-> i, len |-> Size(d, i)]

Grown(d, groups, i) ==
    Append(Front(groups), [texts |-> Last(groups).texts \cup i, len |-> Last(groups).len + 1 + Size(d, i)])

AddTo(d, reserve, groups, i) ==
    IF Size(d, i) = 0 THEN groups
    ELSE IF groups = <<>> \/ reserve + Last(groups).len + Size(d, i) > SplitThreshold
    THEN Append(groups, GroupOf(d, i))
    ELSE Grown(d, groups, i)

LEMMA GroupsTyped ==
    ASSUME NEW d, Measured(d), NEW reserve, NEW groups \in Seq(Groups(d)), NEW i \in SUBSET (1..Len(d))
    PROVE  AddTo(d, reserve, groups, i) \in Seq(Groups(d))
  <1>1. Size(d, i) \in Nat
    <2>1. Len(d) \in Nat
      BY DEF Measured, Tree
    <2>2. IsFiniteSet(i)
      <3>1. IsFiniteSet(1..Len(d))
        BY <2>1, FS_Interval
      <3> QED BY <3>1, FS_Subset
    <2>3. \A t \in i : d[t].len \in Nat
      BY DEF Measured
    <2> QED BY <2>2, <2>3, SizeIsNat
  <1>2. GroupOf(d, i) \in Groups(d)
    BY <1>1 DEF GroupOf, Groups
  <1>3. Append(groups, GroupOf(d, i)) \in Seq(Groups(d))
    BY <1>2, AppendProperties
  <1>4. ASSUME groups # <<>> PROVE Grown(d, groups, i) \in Seq(Groups(d))
    <2>1. Len(groups) \in Nat \ {0}
      BY <1>4, EmptySeq, LenProperties
    <2>2. Last(groups) \in Groups(d)
      BY <2>1, ElementOfSeq DEF Last
    <2>3. Front(groups) \in Seq(Groups(d))
      <3>1. 1 \in 1..Len(groups) + 1 /\ Len(groups) - 1 \in 0..Len(groups)
        BY <2>1
      <3> QED BY <3>1, <2>1, SubSeqProperties DEF Front
    <2> DEFINE l == Last(groups)
    <2>4. l.texts \in SUBSET (1..Len(d)) /\ l.len \in Nat
      BY <2>2 DEF Groups
    <2> HIDE DEF l
    <2>5. [texts |-> l.texts \cup i, len |-> l.len + 1 + Size(d, i)] \in Groups(d)
      <3>1. l.texts \cup i \in SUBSET (1..Len(d))
        BY <2>4
      <3>3. \A x, y \in Nat : x + 1 + y \in Nat
        OBVIOUS
      <3>4. l.len + 1 + Size(d, i) \in Nat
        BY <1>1, <2>4, <3>3
      <3>2. \A u \in SUBSET (1..Len(d)), m \in Nat : [texts |-> u, len |-> m] \in Groups(d)
        BY DEF Groups
      <3> QED BY <3>1, <3>2, <3>4
    <2> QED BY <2>3, <2>5, AppendProperties DEF Grown, l
  <1> QED BY <1>3, <1>4 DEF AddTo

\* The groups there are after each item.
PackSteps(f, d, reserve, items) ==
    /\ f \in [0..Len(items) -> Seq(Groups(d))] /\ f[0] = <<>>
    /\ f[Len(items)] = Packed(d, items, reserve)
    /\ \A k \in 1..Len(items) : f[k] = AddTo(d, reserve, f[k - 1], items[k])

LEMMA PackedSteps ==
    ASSUME NEW d, Measured(d), NEW reserve, NEW items \in Seq(SUBSET (1..Len(d)))
    PROVE  \E f : PackSteps(f, d, reserve, items)
  <1> DEFINE n == Len(items)
             V == Seq(Groups(d))
             P == SUBSET (1..Len(d))
             step == [v \in V \X P |-> AddTo(d, reserve, v[1], v[2])]
             Rec(f) == f = [T \in SUBSET (1..n) |-> IF T = {} THEN <<>> ELSE AddTo(d, reserve, f[T \ {Max(T)}], items[Max(T)])]
             iter == CHOOSE f : Rec(f)
  <1>0. n \in Nat /\ items \in [1..n -> P] /\ DOMAIN items = 1..n
    OBVIOUS
  <1>1. Packed(d, items, reserve) = iter[1..n]
    BY <1>0 DEF Packed, FoldLeft, MapThenFoldSet, AddTo, GroupOf, Grown
  <1>2. \A c \in V, p \in P : AddTo(d, reserve, c, p) \in V
    BY GroupsTyped
  <1>3. <<>> \in V
    BY EmptySeq
  <1> HIDE DEF V, P
  <1>4. step \in [V \X P -> V] /\ \A c \in V, p \in P : step[c, p] = AddTo(d, reserve, c, p)
    BY <1>2
  <1> HIDE DEF step
  <1>5. PICK f : Folding(f, V, <<>>, step, items, n)
    BY <1>0, <1>3, <1>4, FoldExists
  <1>6. \A T \in SUBSET (1..n) : T # {} =>
            Max(T) \in 1..n /\ T \ {Max(T)} \in SUBSET (1..n)
    BY <1>0, MaxIs
  <1>7. Rec(f)
    <2>1. \A T \in SUBSET (1..n) : f[T] = IF T = {} THEN <<>> ELSE AddTo(d, reserve, f[T \ {Max(T)}], items[Max(T)])
      <3> TAKE T \in SUBSET (1..n)
      <3>1. CASE T = {}
        BY <1>5, <3>1 DEF Folding
      <3>2. CASE T # {}
        <4>1. f[T \ {Max(T)}] \in V /\ items[Max(T)] \in P
          BY <1>0, <1>5, <1>6, <3>2 DEF Folding
        <4>2. f[T] = step[f[T \ {Max(T)}], items[Max(T)]]
          BY <1>5, <3>2 DEF Folding
        <4> QED BY <1>4, <3>2, <4>1, <4>2
      <3> QED BY <3>1, <3>2
    <2>2. f \in [SUBSET (1..n) -> V]
      BY <1>5 DEF Folding
    <2> QED BY <2>1, <2>2
  <1>8. Rec(iter)
    <2> HIDE DEF Rec
    <2> QED BY <1>7
  <1> HIDE DEF iter
  <1>9. iter[{}] = <<>> /\ \A T \in SUBSET (1..n) : T # {} => iter[T] = AddTo(d, reserve, iter[T \ {Max(T)}], items[Max(T)])
    BY <1>8
  <1> HIDE DEF Rec
  <1>10. \A T \in SUBSET (1..n) : T # {} /\ iter[T \ {Max(T)}] \in V =>
             iter[T] = step[iter[T \ {Max(T)}], items[Max(T)]]
    <2> TAKE T \in SUBSET (1..n)
    <2> HAVE T # {} /\ iter[T \ {Max(T)}] \in V
    <2>1. items[Max(T)] \in P
      BY <1>0, <1>6
    <2> QED BY <1>4, <1>9, <2>1
  <1>11. Keeping(iter, V, <<>>, step, items, n)
    BY <1>9, <1>10 DEF Keeping
  <1>12. PICK g : Steps(g, V, <<>>, step, items, n) /\ g[n] = iter[1..n]
    <2>1. EndsWith(iter[1..n], V, <<>>, step, items, n)
      <3> HIDE DEF n
      <3> QED BY <1>0, <1>3, <1>4, <1>11, FoldSteps
    <2> QED BY <2>1 DEF EndsWith
  <1>13. g \in [0..n -> V] /\ g[n] = Packed(d, items, reserve) /\ g[0] = <<>>
    BY <1>1, <1>12 DEF Steps
  <1>14. \A k \in 1..n : g[k] = AddTo(d, reserve, g[k - 1], items[k])
    <2> TAKE k \in 1..n
    <2>1. k - 1 \in 0..n /\ items[k] \in P
      BY <1>0
    <2>2. g[k] = step[g[k - 1], items[k]] /\ g[k - 1] \in V
      BY <1>12, <2>1 DEF Steps
    <2> QED BY <1>4, <2>1, <2>2
  <1>15. PackSteps(g, d, reserve, items)
    BY <1>13, <1>14 DEF PackSteps, V
  <1> QED BY <1>15

LEMMA PackedIs ==
    ASSUME NEW d, Measured(d), NEW reserve, NEW items \in Seq(SUBSET (1..Len(d)))
    PROVE  Packed(d, items, reserve) \in Seq(Groups(d))
  <1>1. PICK f : PackSteps(f, d, reserve, items)
    BY PackedSteps
  <1>2. Len(items) \in 0..Len(items)
    BY LenProperties
  <1> QED BY <1>1, <1>2 DEF PackSteps

-----------------------------------------------------------------------------
(* Pieces of text.                                                            *)
LEMMA Ordered ==
    ASSUME NEW d, Tree(d), NEW S \in SUBSET (1..Len(d))
    PROVE  /\ InOrder(S) \in Seq(S) /\ Len(InOrder(S)) \in Nat /\ DOMAIN InOrder(S) = 1..Len(InOrder(S))
           /\ \A k \in 1..Len(InOrder(S)) : InOrder(S)[k] \in S
  <1>1. IsFiniteSet(S)
    <2>1. IsFiniteSet(1..Len(d))
      BY FS_Interval DEF Tree
    <2> QED BY <2>1, FS_Subset
  <1>2. S \subseteq Nat
    BY DEF Tree
  <1>3. InOrder(S) \in Seq(S)
    BY <1>1, <1>2, InOrderIs
  <1> DEFINE s == InOrder(S)
  <1> HIDE DEF s
  <1>4. s \in Seq(S) => Len(s) \in Nat /\ DOMAIN s = 1..Len(s) /\ \A k \in 1..Len(s) : s[k] \in S
    OBVIOUS
  <1> QED BY <1>3, <1>4 DEF s

LEMMA PartsOf ==
    ASSUME NEW d, Tree(d), NEW i \in 1..Len(d)
    PROVE  /\ \A tag : FindAll(d, i, tag) \in SUBSET (1..Len(d)) /\ FindAll(d, i, tag) \subseteq Subtree(d, i)
           /\ TextOf(d, i) \in SUBSET (1..Len(d)) /\ TextWithoutTables(d, i) \in SUBSET (1..Len(d))
  <1>1. \A tag : FindAll(d, i, tag) \in SUBSET (1..Len(d)) /\ FindAll(d, i, tag) \subseteq Subtree(d, i)
    BY SubtreeBounds DEF FindAll
  <1>2. \A cut : Texts(d, i, cut) \in SUBSET (1..Len(d))
    BY <1>1 DEF Texts
  <1> QED BY <1>1, <1>2 DEF TextOf, TextWithoutTables

PieceSet(d, W) == [node : W, suffix : Seq(Nat), texts : SUBSET (1..Len(d))]

LEMMA PieceTyped ==
    ASSUME NEW d, NEW W, NEW n \in W, NEW s \in Seq(Nat), NEW t \in SUBSET (1..Len(d))
    PROVE  Piece(n, s, t) \in PieceSet(d, W)
  BY DEF Piece, PieceSet

LEMMA GroupsOf ==
    ASSUME NEW d, Measured(d), NEW reserve, NEW items \in Seq(SUBSET (1..Len(d)))
    PROVE  LET groups == Packed(d, items, reserve)
           IN  /\ Len(groups) \in Nat /\ DOMAIN groups = 1..Len(groups)
               /\ \A g \in 1..Len(groups) : groups[g].texts \in SUBSET (1..Len(d))
  <1> DEFINE groups == Packed(d, items, reserve)
  <1>1. groups \in Seq(Groups(d))
    BY PackedIs
  <1> HIDE DEF groups
  <1>2. Len(groups) \in Nat /\ DOMAIN groups = 1..Len(groups) /\ \A g \in 1..Len(groups) : groups[g] \in Groups(d)
    BY <1>1
  <1>3. \A x \in Groups(d) : x.texts \in SUBSET (1..Len(d))
    BY DEF Groups
  <1> QED BY <1>2, <1>3 DEF groups

LEMMA TablePiecesTyped ==
    ASSUME NEW d, Measured(d), NEW W, NEW node \in W, NEW k \in Nat, NEW table \in 1..Len(d)
    PROVE  TablePieces(d, node, k, table) \in Seq(PieceSet(d, W))
  <1> DEFINE all == SUBSET (1..Len(d))
             rows     == InOrder(FindAll(d, table, "tr"))
             headed   == HasHeader(d, rows)
             header   == IF headed THEN TextOf(d, rows[1]) ELSE {}
             dataRows == [r \in DOMAIN rows |-> TextOf(d, rows[r])]
             items    == IF headed THEN Tail(dataRows) ELSE dataRows
             reserve  == IF headed THEN Size(d, header) + 2 ELSE 1
             groups   == Packed(d, items, reserve)
             parts    == [g \in DOMAIN groups |-> Piece(node, <<k, g>>, header \cup groups[g].texts)]
  <1>0. Tree(d)
    BY DEF Measured
  <1>1. TablePieces(d, node, k, table) =
            IF Size(d, TextOf(d, table)) <= SplitThreshold THEN << Piece(node, <<k>>, TextOf(d, table)) >> ELSE parts
    BY DEF TablePieces
  <1>2. Len(rows) \in Nat /\ DOMAIN rows = 1..Len(rows) /\ \A r \in 1..Len(rows) : rows[r] \in 1..Len(d)
    BY <1>0, Ordered, PartsOf
  <1>3. \A r \in 1..Len(rows) : TextOf(d, rows[r]) \in all
    BY <1>0, <1>2, PartsOf
  <1>4. headed => rows # <<>>
    BY DEF HasHeader
  <1>5. headed => Len(rows) # 0
    BY <1>0, <1>4, Ordered, PartsOf, EmptySeq
  <1>6. header \in all
    BY <1>2, <1>3, <1>5
  <1>7. dataRows \in Seq(all) /\ Len(dataRows) = Len(rows)
    <2> HIDE DEF rows
    <2>1. dataRows \in [1..Len(rows) -> all]
      BY <1>2, <1>3
    <2> HIDE DEF dataRows, all
    <2> QED BY <1>2, <2>1
  <1>8. items \in Seq(all)
    <2> HIDE DEF rows, headed, dataRows, all
    <2>1. headed => Tail(dataRows) \in Seq(all)
      <3>1. headed => dataRows # <<>>
        BY <1>5, <1>7, EmptySeq
      <3> QED BY <1>7, <3>1, HeadTailProperties
    <2> QED BY <1>7, <2>1
  <1> HIDE DEF items, reserve, header
  <1>9. Len(groups) \in Nat /\ DOMAIN groups = 1..Len(groups) /\ \A g \in 1..Len(groups) : groups[g].texts \in all
    BY <1>8, GroupsOf
  <1>10. parts \in Seq(PieceSet(d, W))
    <2> HIDE DEF groups
    <2>1. ASSUME NEW g \in 1..Len(groups) PROVE Piece(node, <<k, g>>, header \cup groups[g].texts) \in PieceSet(d, W)
      <3>1. <<k, g>> \in Seq(Nat)
        BY <1>9
      <3>2. header \cup groups[g].texts \in all
        BY <1>6, <1>9
      <3> QED BY <3>1, <3>2, PieceTyped
    <2>2. parts \in [1..Len(groups) -> PieceSet(d, W)]
      BY <1>9, <2>1
    <2> HIDE DEF parts
    <2> QED BY <1>9, <2>2
  <1>11. << Piece(node, <<k>>, TextOf(d, table)) >> \in Seq(PieceSet(d, W))
    <2>1. <<k>> \in Seq(Nat)
      OBVIOUS
    <2>2. Piece(node, <<k>>, TextOf(d, table)) \in PieceSet(d, W)
      BY <1>0, <2>1, PartsOf, PieceTyped
    <2> QED BY <2>2
  <1> QED BY <1>1, <1>10, <1>11

LEMMA IsSequence ==
    ASSUME NEW V, NEW n \in Nat, NEW f \in [1..n -> V]
    PROVE  f \in Seq(V)
  OBVIOUS

LEMMA FlattenTyped ==
    ASSUME NEW V, NEW ss \in Seq(Seq(V))
    PROVE  FlattenSeq(ss) \in Seq(V)
  <1>1. PICK f : f \in [0..Len(ss) -> Seq(V)] /\ f[Len(ss)] = FlattenSeq(ss)
    BY FlattenIs
  <1>2. Len(ss) \in 0..Len(ss)
    BY LenProperties
  <1> QED BY <1>1, <1>2

LEMMA TableAwareTyped ==
    ASSUME NEW d, Measured(d), NEW W, NEW node \in W, node \in 1..Len(d)
    PROVE  TableAware(d, node) \in Seq(PieceSet(d, W))
  <1> DEFINE tables == InOrder(FindAll(d, node, "table"))
             parts == [k \in DOMAIN tables |-> TablePieces(d, node, k, tables[k])]
  <1>0. Tree(d) /\ <<>> \in Seq(Nat)
    BY EmptySeq DEF Measured
  <1>1. << Piece(node, <<>>, TextOf(d, node)) >> \in Seq(PieceSet(d, W))
    <2>1. Piece(node, <<>>, TextOf(d, node)) \in PieceSet(d, W)
      BY <1>0, PartsOf, PieceTyped
    <2> QED BY <2>1
  <1>2. << Piece(node, <<>>, TextWithoutTables(d, node)) >> \in Seq(PieceSet(d, W))
    <2>1. Piece(node, <<>>, TextWithoutTables(d, node)) \in PieceSet(d, W)
      BY <1>0, PartsOf, PieceTyped
    <2> QED BY <2>1
  <1>3. FlattenSeq(parts) \in Seq(PieceSet(d, W))
    <2>1. Len(tables) \in Nat /\ DOMAIN tables = 1..Len(tables) /\ \A k \in 1..Len(tables) : tables[k] \in 1..Len(d)
      BY <1>0, Ordered, PartsOf
    <2> HIDE DEF tables
    <2>2. \A k \in 1..Len(tables) : TablePieces(d, node, k, tables[k]) \in Seq(PieceSet(d, W))
      <3> TAKE k \in 1..Len(tables)
      <3>1. k \in Nat /\ tables[k] \in 1..Len(d)
        BY <2>1
      <3> QED BY <3>1, TablePiecesTyped
    <2>3. parts \in [1..Len(tables) -> Seq(PieceSet(d, W))]
      BY <2>1, <2>2
    <2> HIDE DEF parts
    <2>4. parts \in Seq(Seq(PieceSet(d, W)))
      BY <2>1, <2>3
    <2> QED BY <2>4, FlattenTyped
  <1>4. << Piece(node, <<>>, TextWithoutTables(d, node)) >> \o FlattenSeq(parts) \in Seq(PieceSet(d, W))
    BY <1>2, <1>3, ConcatProperties
  <1> QED BY <1>1, <1>4 DEF TableAware

-----------------------------------------------------------------------------
(* What is made into chunks stands in the body.                               *)
LEMMA DocIsMeasured == DocInv => Measured(doc)
  <1> SUFFICES ASSUME DocInv PROVE Measured(doc)
    OBVIOUS
  <1> DEFINE nodes == Nodes(DOMAIN corpus.below)
  <1>1. doc \in Seq(nodes)
    BY DEF DocInv
  <1>2. \A node \in nodes : node.len \in Nat
    BY DEF Nodes
  <1> HIDE DEF nodes
  <1>3. \A n \in 1..Len(doc) : doc[n].len \in Nat
    BY <1>1, <1>2
  <1> QED BY <1>3, DocIsTree DEF Measured

LEMMA SourcesTyped ==
    ASSUME NEW d, Tree(d), NEW r \in 1..Len(d), Body(d, r) # NoNode
    PROVE  Sources(d, r) \in Seq(Subtree(d, Body(d, r)))
  <1> DEFINE b == Body(d, r)
             W == Subtree(d, b)
             articles == InOrder(FindAll(d, b, "article"))
             cut(n) == IF Split(d, articles[n]) THEN Paragraphs(d, articles[n]) ELSE {articles[n]}
             parts == [n \in DOMAIN articles |-> InOrder(cut(n))]
  <1>1. b \in 1..Len(d) /\ W \subseteq 1..Len(d)
    BY BodyOf, SubtreeBounds
  <1>2. \A tag : FindAll(d, b, tag) \in SUBSET W /\ FindAll(d, b, tag) \in SUBSET (1..Len(d))
    BY <1>1, PartsOf
  <1>3. \A S \in SUBSET W : InOrder(S) \in Seq(W)
    <2> TAKE S \in SUBSET W
    <2>1. InOrder(S) \in Seq(S)
      BY <1>1, Ordered
    <2> HIDE DEF W
    <2> QED BY <2>1
  <1>4. FlattenSeq(parts) \in Seq(W)
    <2>1. /\ Len(articles) \in Nat /\ DOMAIN articles = 1..Len(articles)
          /\ \A n \in 1..Len(articles) : articles[n] \in W
      BY <1>2, Ordered
    <2>2. \A n \in 1..Len(articles) : cut(n) \in SUBSET W
      <3> TAKE n \in 1..Len(articles)
      <3> DEFINE a == articles[n]
      <3>1. a \in W /\ a \in 1..Len(d)
        BY <1>1, <2>1
      <3> HIDE DEF a
      <3>2. \A c \in Children(d, a) : c \in W
        <4> TAKE c \in Children(d, a)
        <4>1. c \in 1..Len(d) /\ d[c].parent = a
          BY DEF Children, Elements, Tree
        <4>2. c \in Subtree(d, a)
          BY <3>1, <4>1, BelowParent
        <4> QED BY <1>1, <3>1, <4>2, Transitive
      <3>3. Paragraphs(d, a) \subseteq W
        BY <3>2 DEF Paragraphs
      <3> QED BY <3>1, <3>3 DEF a
    <2>3. parts \in [1..Len(articles) -> Seq(W)]
      <3> HIDE DEF articles, cut, W
      <3> QED BY <1>3, <2>1, <2>2
    <2> HIDE DEF parts, articles
    <2>4. parts \in Seq(Seq(W))
      BY <2>1, <2>3
    <2> QED BY <2>4, FlattenTyped
  <1>5. InOrder(LevelLeaves(d, r)) \in Seq(W)
    BY <1>2, <1>3 DEF LevelLeaves
  <1>6. InOrder(FindAll(d, b, "mod")) \in Seq(W)
    BY <1>2, <1>3
  <1>7. <<>> \in Seq(W)
    BY EmptySeq
  <1>8. Sources(d, r) \in {FlattenSeq(parts), InOrder(LevelLeaves(d, r)), InOrder(FindAll(d, b, "mod")), <<>>}
    <2> DEFINE pattern == ClassifyPattern(d, r)
    <2>1. Sources(d, r) = CASE pattern \in {"Structured", "FlatArticles"} -> FlattenSeq(parts)
                            [] pattern = "LevelBased" -> InOrder(LevelLeaves(d, r))
                            [] pattern = "Amendment" -> InOrder(FindAll(d, b, "mod"))
                            [] OTHER -> <<>>
      BY DEF Sources
    <2> HIDE DEF pattern, parts
    <2> QED BY <2>1
  <1> HIDE DEF parts, W
  <1> QED BY <1>4, <1>5, <1>6, <1>7, <1>8 DEF W

LEMMA BodyPiecesTyped ==
    ASSUME NEW d, Measured(d), NEW r \in 1..Len(d), Body(d, r) # NoNode
    PROVE  BodyPieces(d, r) \in Seq(PieceSet(d, {NoNode} \cup Subtree(d, Body(d, r))))
  <1> DEFINE b == Body(d, r)
             W == {NoNode} \cup Subtree(d, b)
             sources == Sources(d, r)
             ps == InOrder(FindAll(d, b, "p"))
             items == [n \in DOMAIN ps |-> TextOf(d, ps[n])]
             groups == Packed(d, items, 0)
             packed == [g \in DOMAIN groups |-> Piece(NoNode, <<>>, groups[g].texts)]
             parts == [n \in DOMAIN sources |-> TableAware(d, sources[n])]
  <1>0. Tree(d) /\ <<>> \in Seq(Nat)
    BY EmptySeq DEF Measured
  <1>1. b \in 1..Len(d) /\ \A n \in Subtree(d, b) : n \in 1..Len(d) /\ n \in W
    BY <1>0, BodyOf, SubtreeBounds
  <1>2. packed \in Seq(PieceSet(d, W))
    <2>1. Len(ps) \in Nat /\ DOMAIN ps = 1..Len(ps) /\ \A n \in 1..Len(ps) : ps[n] \in 1..Len(d)
      BY <1>0, <1>1, Ordered, PartsOf
    <2> HIDE DEF ps
    <2>2. items \in [1..Len(ps) -> SUBSET (1..Len(d))]
      BY <1>0, <2>1, PartsOf
    <2> HIDE DEF items
    <2>3. items \in Seq(SUBSET (1..Len(d)))
      BY <2>1, <2>2
    <2>4. Len(groups) \in Nat /\ DOMAIN groups = 1..Len(groups)
          /\ \A g \in 1..Len(groups) : groups[g].texts \in SUBSET (1..Len(d))
      BY <2>3, GroupsOf
    <2> HIDE DEF groups
    <2>5. \A g \in 1..Len(groups) : Piece(NoNode, <<>>, groups[g].texts) \in PieceSet(d, W)
      BY <1>0, <2>4, PieceTyped
    <2>6. packed \in [1..Len(groups) -> PieceSet(d, W)]
      <3> HIDE DEF W
      <3> QED BY <2>4, <2>5
    <2> HIDE DEF packed
    <2> QED BY <2>4, <2>6, IsSequence
  <1>3. FlattenSeq(parts) \in Seq(PieceSet(d, W))
    <2>1. sources \in Seq(Subtree(d, b))
      BY <1>0, SourcesTyped
    <2> HIDE DEF sources
    <2>2. Len(sources) \in Nat /\ DOMAIN sources = 1..Len(sources)
          /\ \A n \in 1..Len(sources) : sources[n] \in Subtree(d, b)
      BY <2>1
    <2>3. \A n \in 1..Len(sources) : TableAware(d, sources[n]) \in Seq(PieceSet(d, W))
      BY <1>1, <2>2, TableAwareTyped
    <2>4. parts \in [1..Len(sources) -> Seq(PieceSet(d, W))]
      <3> HIDE DEF W
      <3> QED BY <2>2, <2>3
    <2> HIDE DEF parts
    <2>5. parts \in Seq(Seq(PieceSet(d, W)))
      BY <2>2, <2>4, IsSequence
    <2> QED BY <2>5, FlattenTyped
  <1>4. BodyPieces(d, r) \in {packed, FlattenSeq(parts)}
    BY DEF BodyPieces
  <1> HIDE DEF packed, parts, W
  <1> QED BY <1>2, <1>3, <1>4 DEF W

LEMMA PathsLead ==
    ASSUME DocInv, Body(doc, 1) # NoNode, NEW c \in Range(ChunkDocument(doc).chunks)
    PROVE  c.path \subseteq OutlineNodes(doc)
  <1> DEFINE W == {NoNode} \cup Subtree(doc, Body(doc, 1))
             P == PieceSet(doc, W)
             pieces == BodyPieces(doc, 1)
             pushed == Pushed(doc, 1, pieces)
             C == ChunksOf(doc, 1, P)
  <1>0. Measured(doc) /\ Tree(doc) /\ 1 \in 1..Len(doc)
    BY DocIsTree, DocIsMeasured, WholeTree
  <1>1. pieces \in Seq(P)
    BY <1>0, BodyPiecesTyped
  <1>2. pushed \in Seq(C)
    <2> HIDE DEF P, pieces
    <2> QED BY <1>1, PushedIs
  <1> HIDE DEF pushed, C
  <1>3. Roots(doc) = <<1>>
    BY DEF Roots, ClassifyPattern
  <1>4. FlattenSeq([n \in DOMAIN <<1>> |-> Pushed(doc, <<1>>[n], BodyPieces(doc, <<1>>[n]))]) \in Seq(C)
    <2> DEFINE ss == [n \in DOMAIN <<1>> |-> Pushed(doc, <<1>>[n], BodyPieces(doc, <<1>>[n]))]
    <2>1. ss \in [1..1 -> Seq(C)]
      BY <1>2 DEF pushed
    <2> HIDE DEF ss
    <2>2. ss \in Seq(Seq(C))
      BY <2>1, IsSequence
    <2>3. FlattenSeq(ss) \in Seq(C)
      BY <2>2, FlattenTyped
    <2> QED BY <2>3 DEF ss
  <1>5. ChunkDocument(doc).chunks \in Seq(C)
    <2>1. <<>> \in Seq(C)
      BY EmptySeq
    <2> QED BY <1>3, <1>4, <2>1 DEF ChunkDocument
  <1>6. c \in C
    <2> DEFINE cs == ChunkDocument(doc).chunks
    <2> HIDE DEF cs
    <2>1. cs \in Seq(C) => \A x \in Range(cs) : x \in C
      BY DEF Range
    <2> QED BY <1>5, <2>1 DEF cs
  <1>7. PICK p \in P, i \in Nat : c = ChunkOf(doc, 1, p, i)
    BY <1>6 DEF C, ChunksOf
  <1>8. c.path = IF p.node = NoNode THEN {} ELSE SectionPath(doc, 1, p.node)
    BY <1>7 DEF ChunkOf
  <1>9. p.node \in W
    BY DEF PieceSet
  <1>10. CASE p.node # NoNode
    <2>1. p.node \in Subtree(doc, Body(doc, 1)) /\ doc[1].tag \notin HierarchyTags
      BY <1>9, <1>10 DEF DocInv
    <2>2. SectionPath(doc, 1, p.node) = OutlineNodes(doc) \cap Ancestry(doc, p.node)
      BY <1>0, <2>1, PathIsOutline
    <2> QED BY <1>8, <1>10, <2>2
  <1> QED BY <1>8, <1>10

\* Each kind of signpost by itself, put together.
LEMMA SignpostsLeadHolds == DocInv => SignpostsLead
  <1> DEFINE IsWay(f) == f = [n \in {NoNode} \cup OutlineNodes(doc) |->
                                 IF n = NoNode THEN {} ELSE {n} \cup f[OutlineParent(doc, n)]]
             Way == CHOOSE f : IsWay(f)
             Read(e) == GetElementText(doc, e)
             Spoken(m) == \A n \in Subtree(doc, m) \ {m} : doc[n].tag \in {"authorialNote", "foreign"} =>
                             FindAll(doc, n, "quotedStructure") = {}
  <1> SUFFICES ASSUME DocInv
               PROVE  FoundOnce /\ (EidsUnique(doc) =>
                  /\ PlaceholdersLead
                  /\ \A c \in Range(IF Body(doc, 1) # NoNode THEN ChunkDocument(doc).chunks ELSE <<>>) :
                        c.path \subseteq OutlineNodes(doc)
                  /\ EliWork(doc, 1) # None =>
                        /\ \A n \in OutlineNodes(doc) \cap Named(doc) :
                              Read(doc[n].eid).node = n /\ Read(doc[n].eid).path = Way[n]
                        /\ \A r \in GetAllReferences(doc) :
                              r.source # None => r.node \in Subtree(doc, Read(r.source).node)
                        /\ \A m \in GetModifications(doc) :
                              doc[m.mod].eid # None /\ Spoken(m.mod) => m.texts \subseteq Read(doc[m.mod].eid).texts
                        /\ \A t \in ExtractTables(doc, 1) :
                              t.context # None => t \in ExtractTables(doc, Read(t.context).node))
    BY DEF SignpostsLead
  <1>1. FoundOnce /\ PlaceholdersLead /\ Tree(doc)
    BY FoundOnceHolds, PlaceholdersLeadHolds, DocIsTree
  <1>2. ASSUME NEW c \in Range(IF Body(doc, 1) # NoNode THEN ChunkDocument(doc).chunks ELSE <<>>)
        PROVE  c.path \subseteq OutlineNodes(doc)
    <2>1. CASE Body(doc, 1) # NoNode
      BY <1>2, <2>1, PathsLead
    <2>2. CASE Body(doc, 1) = NoNode
      BY <1>2, <2>2 DEF Range
    <2> QED BY <2>1, <2>2
  <1>3. \A n \in OutlineNodes(doc) : SectionPath(doc, 1, n) = Way[n]
    BY WaysLead
  <1> HIDE DEF Way
  <1>4. ASSUME EidsUnique(doc), EliWork(doc, 1) # None, NEW n \in OutlineNodes(doc) \cap Named(doc)
        PROVE  Read(doc[n].eid).node = n /\ Read(doc[n].eid).path = Way[n]
    BY <1>1, <1>3, <1>4, ReadIs
  <1>5. ASSUME EidsUnique(doc), EliWork(doc, 1) # None, NEW r \in GetAllReferences(doc), r.source # None
        PROVE  r.node \in Subtree(doc, Read(r.source).node)
    BY <1>5, ReferencesLead
  <1>6. ASSUME EidsUnique(doc), EliWork(doc, 1) # None, NEW m \in GetModifications(doc),
               doc[m.mod].eid # None, Spoken(m.mod)
        PROVE  m.texts \subseteq Read(doc[m.mod].eid).texts
    BY <1>6, QuotationsLead
  <1>7. ASSUME EidsUnique(doc), EliWork(doc, 1) # None, NEW t \in ExtractTables(doc, 1), t.context # None
        PROVE  t \in ExtractTables(doc, Read(t.context).node)
    BY <1>7, TablesLead
  <1> HIDE DEF Read, Spoken
  <1> QED BY <1>1, <1>2, <1>4, <1>5, <1>6, <1>7

(* get_document_structure, get_article_text, get_all_references,             *)
(* get_modifications, extract_tables, search and the chunks: the eIds and    *)
(* paths they hand out lead to what they stand for, in documents of any      *)
(* length and whatever the sizes at which chunks are split.                  *)
THEOREM SignpostsLeadAlways == Spec => []SignpostsLead
  BY DocumentIsTree, SignpostsLeadHolds, PTL

-----------------------------------------------------------------------------
(* An older version is the beginning of a document, but for lengths of texts. *)
Begins(old, d) ==
    /\ Tree(old) /\ Len(old) <= Len(d)
    /\ \A n \in 1..Len(old) : /\ old[n].tag = d[n].tag /\ old[n].parent = d[n].parent
                              /\ old[n].eid = d[n].eid /\ old[n].frbr = d[n].frbr

LEMMA OlderBegins ==
    ASSUME DocInv, NEW old \in Older
    PROVE  Begins(old, doc)
  <1>1. Tree(doc) /\ Len(doc) \in Nat /\ DOMAIN doc = 1..Len(doc)
    BY DocIsTree DEF Tree
  <1>2. \A n \in 1..Len(doc) : DOMAIN doc[n] = {"tag", "parent", "eid", "frbr", "len"}
    <2> DEFINE nodes == Nodes(DOMAIN corpus.below)
    <2>1. doc \in Seq(nodes)
      BY DEF DocInv
    <2>2. \A node \in nodes : DOMAIN node = {"tag", "parent", "eid", "frbr", "len"}
      BY DEF Nodes
    <2> HIDE DEF nodes
    <2> QED BY <2>1, <2>2
  <1>3. ASSUME NEW o, DOMAIN o = 1..Len(o), Len(o) \in Nat, Len(o) >= 1, Len(o) <= Len(doc),
               \A n \in 1..Len(o) : /\ o[n].tag = doc[n].tag /\ o[n].parent = doc[n].parent
                                    /\ o[n].eid = doc[n].eid /\ o[n].frbr = doc[n].frbr
        PROVE  Begins(o, doc)
    <2>1. \A n \in 1..Len(o) : n \in 1..Len(doc) /\ o[n].parent \in Nat
      BY <1>1, <1>3 DEF Tree
    <2>2. o[1].parent = NoNode
      BY <1>1, <1>3 DEF Tree, InDocumentOrder
    <2>3. ASSUME NEW n \in 2..Len(o)
          PROVE  o[n].parent \in 1..n - 1 /\ \A k \in o[n].parent + 1..n - 1 : o[k].parent >= o[n].parent
      <3>1. n \in 2..Len(doc) /\ n \in 1..Len(o)
        BY <1>1, <1>3
      <3>2. doc[n].parent \in 1..n - 1 /\ \A k \in doc[n].parent + 1..n - 1 : doc[k].parent >= doc[n].parent
        BY <1>1, <3>1 DEF Tree, InDocumentOrder
      <3>3. o[n].parent = doc[n].parent
        BY <1>3, <3>1
      <3>4. ASSUME NEW k \in o[n].parent + 1..n - 1 PROVE o[k].parent >= o[n].parent
        <4>1. k \in 1..Len(o) /\ k \in doc[n].parent + 1..n - 1
          BY <1>3, <3>2, <3>3
        <4>2. o[k].parent = doc[k].parent
          BY <1>3, <4>1
        <4> QED BY <3>2, <3>3, <4>1, <4>2
      <3> QED BY <3>2, <3>3, <3>4
    <2>4. InDocumentOrder(o)
      BY <1>3, <2>2, <2>3 DEF InDocumentOrder
    <2> QED BY <1>3, <2>1, <2>4 DEF Begins, Tree
  <1>4. ASSUME NEW n \in 2..Len(doc), old = SubSeq(doc, 1, n) PROVE Begins(old, doc)
    <2>1. Len(old) = n /\ DOMAIN old = 1..n /\ \A k \in 1..n : old[k] = doc[k]
      <3> DEFINE nodes == Nodes(DOMAIN corpus.below)
      <3>1. doc \in Seq(nodes)
        BY DEF DocInv
      <3> HIDE DEF nodes
      <3>2. 1 \in 1..Len(doc) + 1 /\ n \in 0..Len(doc) /\ n \in Nat /\ n >= 2
        BY <1>1, <1>4
      <3> QED BY <1>4, <3>1, <3>2, SubSeqProperties
    <2>2. n \in Nat /\ n >= 1 /\ n <= Len(doc)
      BY <1>1
    <2> QED BY <1>3, <2>1, <2>2
  <1>5. ASSUME NEW t \in FindAll(doc, 1, "text"), old = [doc EXCEPT ![t].len = @ + 1] PROVE Begins(old, doc)
    <2>1. Len(old) = Len(doc) /\ DOMAIN old = 1..Len(doc)
      BY <1>1, <1>5
    <2>2. ASSUME NEW k \in 1..Len(doc)
          PROVE  old[k].tag = doc[k].tag /\ old[k].parent = doc[k].parent /\ old[k].eid = doc[k].eid /\ old[k].frbr = doc[k].frbr
      <3>1. old[k] = IF k = t THEN [doc[k] EXCEPT !.len = @ + 1] ELSE doc[k]
        BY <1>1, <1>5
      <3> QED BY <1>2, <3>1
    <2>3. Len(doc) >= 1
      BY <1>1 DEF Tree, InDocumentOrder
    <2> QED BY <1>1, <1>3, <2>1, <2>2, <2>3
  <1> QED BY <1>4, <1>5 DEF Older

LEMMA SubtreeBegins ==
    ASSUME NEW d, Tree(d), NEW old, Begins(old, d), NEW i \in 1..Len(old)
    PROVE  Subtree(old, i) = Subtree(d, i) \cap 1..Len(old)
  <1>1. Len(old) \in Nat /\ Len(d) \in Nat /\ Tree(old) /\ Len(old) <= Len(d) /\ i \in 1..Len(d)
    BY DEF Begins, Tree
  <1>2. ASSUME NEW n \in 1..Len(old) PROVE Within(old, i, n) <=> Within(d, i, n)
    <2>1. \A k \in i + 1..n : old[k].parent = d[k].parent
      BY <1>1 DEF Begins
    <2>2. n \in i..Len(old) <=> n \in i..Len(d)
      BY <1>1
    <2> QED BY <2>1, <2>2 DEF Within
  <1>3. \A n : Within(old, i, n) => n \in 1..Len(old)
    BY <1>1 DEF Within
  <1>4. \A n : n \in Subtree(old, i) <=> n \in Subtree(d, i) /\ n \in 1..Len(old)
    BY <1>1, <1>2, <1>3, SubtreeIs
  <1> QED BY <1>4

LEMMA LookupBegins ==
    ASSUME NEW d, Tree(d), NEW old, Begins(old, d), NEW e
    PROVE  LookupEid(old, 1, e) = LookupEid(d, 1, e) \cap 1..Len(old)
  <1>1. Tree(old) /\ 1 \in 1..Len(old)
    BY WholeTree DEF Begins
  <1>2. Subtree(old, 1) = Subtree(d, 1) \cap 1..Len(old)
    BY <1>1, SubtreeBegins
  <1>3. \A n \in 1..Len(old) : old[n].eid = d[n].eid
    BY DEF Begins
  <1> QED BY <1>2, <1>3 DEF LookupEid

LEMMA ChildBegins ==
    ASSUME NEW d, Tree(d), NEW old, Begins(old, d), NEW tag
    PROVE  FindChild(old, 1, tag) = IF FindChild(d, 1, tag) \in 1..Len(old) THEN FindChild(d, 1, tag) ELSE NoNode
  <1> DEFINE found(x) == {c \in Children(x, 1) : x[c].tag = tag}
  <1>1. /\ Len(old) \in Nat /\ Len(d) \in Nat /\ Len(old) <= Len(d) /\ DOMAIN d = 1..Len(d)
        /\ DOMAIN old = 1..Len(old)
    BY DEF Begins, Tree
  <1>2. \A x : FindChild(x, 1, tag) = IF found(x) = {} THEN NoNode ELSE Min(found(x))
    BY DEF FindChild
  <1>3. found(old) = found(d) \cap 1..Len(old) /\ found(d) \subseteq 1..Len(d)
    <2>1. \A c \in 1..Len(old) : c \in 1..Len(d) /\ old[c].tag = d[c].tag /\ old[c].parent = d[c].parent
      BY <1>1 DEF Begins
    <2> QED BY <1>1, <2>1 DEF Children, Elements
  <1> HIDE DEF found
  <1>4. CASE found(d) = {}
    <2>1. NoNode \notin 1..Len(old)
      BY DEF NoNode
    <2> QED BY <1>2, <1>3, <1>4, <2>1
  <1>5. CASE found(d) # {}
    <2>1. Min(found(d)) \in found(d) /\ \A y \in found(d) : Min(found(d)) <= y
      <3>1. found(d) \subseteq Nat
        BY <1>1, <1>3
      <3> QED BY <1>5, <3>1, MinIs
    <2> DEFINE m == Min(found(d))
    <2>2. FindChild(d, 1, tag) = m /\ m \in found(d) /\ m \in 1..Len(d) /\ \A y \in found(d) : m <= y
      BY <1>2, <1>3, <1>5, <2>1
    <2> HIDE DEF m
    <2>3. CASE m \in 1..Len(old)
      <3>1. m \in found(old) /\ found(old) \subseteq Nat /\ found(old) # {}
        BY <1>1, <1>3, <2>2, <2>3
      <3>2. Min(found(old)) \in found(old) /\ Min(found(old)) <= m
        BY <3>1, MinIs
      <3>3. m <= Min(found(old)) /\ Min(found(old)) \in Nat
        BY <1>3, <2>2, <3>1, <3>2
      <3>4. Min(found(old)) = m
        BY <2>2, <3>2, <3>3
      <3> QED BY <1>2, <2>2, <2>3, <3>1, <3>4
    <2>4. CASE m \notin 1..Len(old)
      <3>1. \A y \in found(old) : FALSE
        BY <1>1, <1>3, <2>2, <2>4
      <3>2. found(old) = {}
        BY <3>1
      <3> QED BY <1>2, <2>2, <2>4, <3>2
    <2> QED BY <2>3, <2>4
  <1> QED BY <1>4, <1>5

OneBody(d) ==
    Body(d, 1) # NoNode /\ NoNode \in {FindChild(d, 1, "body"), FindChild(d, 1, "mainBody")}

LEMMA ArticlesBegin ==
    ASSUME NEW d, Tree(d), NEW old, Begins(old, d), OneBody(d)
    PROVE  Flattened(old, "article") = FindAll(d, Body(d, 1), "article") \cap 1..Len(old)
  <1> DEFINE b == Body(d, 1)
  <1>1. /\ Len(old) \in Nat /\ Len(d) \in Nat /\ Len(old) <= Len(d) /\ DOMAIN d = 1..Len(d) /\ Tree(old)
        /\ \A n \in 1..Len(old) : old[n].tag = d[n].tag
    BY DEF Begins, Tree
  <1>2. b \in 1..Len(d) /\ d[b].tag \in {"body", "mainBody"} /\ b # NoNode
    BY BodyIs DEF OneBody
  <1>3. Body(old, 1) = IF b \in 1..Len(old) THEN b ELSE NoNode
    <2>1. \A tag : FindChild(old, 1, tag) = IF FindChild(d, 1, tag) \in 1..Len(old) THEN FindChild(d, 1, tag) ELSE NoNode
      BY ChildBegins
    <2>2. NoNode \notin 1..Len(old)
      BY DEF NoNode
    <2> QED BY <2>1, <2>2 DEF Body, OneBody
  <1> HIDE DEF b
  <1>4. CASE b \in 1..Len(old)
    <2>1. Body(old, 1) = b /\ Subtree(old, b) = Subtree(d, b) \cap 1..Len(old)
      BY <1>3, <1>4, SubtreeBegins
    <2>2. Flattened(old, "article") = {n \in Subtree(old, b) \ {b} : old[n].tag \in HierarchyTags /\ old[n].tag = "article"}
      BY <1>2, <2>1 DEF Flattened, OutlineNodes
    <2>3. "article" \in HierarchyTags
      BY DEF HierarchyTags
    <2>4. \A n : n \in Flattened(old, "article") <=> n \in Subtree(d, b) /\ n \in 1..Len(old) /\ n # b /\ d[n].tag = "article"
      BY <1>1, <2>1, <2>2, <2>3
    <2>5. \A n : n \in Flattened(old, "article") <=> n \in FindAll(d, b, "article") /\ n \in 1..Len(old)
      BY <1>2, <2>4 DEF FindAll
    <2> QED BY <2>5 DEF b
  <1>5. CASE b \notin 1..Len(old)
    <2>1. Flattened(old, "article") = {}
      BY <1>3, <1>5 DEF Flattened, OutlineNodes
    <2>2. \A n \in Subtree(d, b) : n >= b /\ n \in Nat
      BY <1>1, <1>2, SubtreeBounds
    <2>3. b > Len(old)
      BY <1>1, <1>2, <1>5
    <2>4. \A n \in FindAll(d, b, "article") : n \notin 1..Len(old)
      BY <1>1, <1>2, <2>2, <2>3 DEF FindAll
    <2> QED BY <2>1, <2>4 DEF b
  <1> QED BY <1>4, <1>5

LEMMA TextsByEid ==
    ASSUME NEW d, Tree(d)
    PROVE  \A e : e \in DOMAIN ArticleTexts(d) <=>
               EliWork(d, 1) # None /\ e # None /\ \E n \in Flattened(d, "article") : d[n].eid = e
  BY DEF ArticleTexts

LEMMA WordingIs ==
    ASSUME NEW d, Tree(d), NEW e \in DOMAIN ArticleTexts(d)
    PROVE  /\ LookupEid(d, 1, e) # {} /\ LookupEid(d, 1, e) \subseteq 1..Len(d)
           /\ ArticleTexts(d)[e] = Wording(d, Min(LookupEid(d, 1, e)))
  <1> DEFINE hits == LookupEid(d, 1, e)
  <1>1. EliWork(d, 1) # None /\ \E n \in Flattened(d, "article") : d[n].eid = e
    BY TextsByEid
  <1>2. PICK n \in OutlineNodes(d) : d[n].eid = e
    BY <1>1 DEF Flattened
  <1>3. n \in hits /\ hits \subseteq 1..Len(d)
    BY <1>2, OutlineIs, WholeTree DEF LookupEid
  <1>4. ResolveEid(d, 1, e).node = Min(hits)
    BY <1>3 DEF ResolveEid
  <1>5. Min(hits) \in hits /\ Min(hits) # NoNode
    <2>1. hits \subseteq Nat /\ hits # {}
      BY <1>3, WholeTree
    <2>2. Min(hits) \in hits
      <3> HIDE DEF hits
      <3> QED BY <2>1, MinIs
    <2> QED BY <1>3, <2>2 DEF NoNode
  <1> HIDE DEF hits
  <1>6. GetElementText(d, e).node = Min(hits)
    <2>1. GetElementText(d, e) =
              [node |-> Min(hits), texts |-> TextOf(d, Min(hits)), notes |-> CollectNotes(d, Min(hits)),
               path |-> SectionPath(d, 1, Min(hits))]
      BY <1>1, <1>4, <1>5 DEF GetElementText
    <2> QED BY <2>1
  <1>7. ArticleTexts(d)[e] = Wording(d, GetElementText(d, e).node)
    BY DEF ArticleTexts
  <1> QED BY <1>3, <1>6, <1>7 DEF hits

\* Both versions find the same element under an eId that both have.
LEMMA SameElement ==
    ASSUME NEW d, Tree(d), NEW old, Begins(old, d),
           NEW e, e \in DOMAIN ArticleTexts(d), e \in DOMAIN ArticleTexts(old)
    PROVE  LET n == Min(LookupEid(d, 1, e))
           IN  /\ n \in LookupEid(d, 1, e) /\ n \in 1..Len(old)
               /\ ArticleTexts(d)[e] = Wording(d, n) /\ ArticleTexts(old)[e] = Wording(old, n)
  <1> DEFINE hits == LookupEid(d, 1, e)
             was == LookupEid(old, 1, e)
             n == Min(hits)
             m == Min(was)
  <1>1. Tree(old) /\ Len(old) \in Nat /\ Len(d) \in Nat /\ was = hits \cap 1..Len(old)
    BY LookupBegins DEF Begins, Tree
  <1>2. hits # {} /\ hits \subseteq 1..Len(d) /\ ArticleTexts(d)[e] = Wording(d, n)
    BY WordingIs
  <1>3. was # {} /\ ArticleTexts(old)[e] = Wording(old, m)
    BY <1>1, WordingIs
  <1> HIDE DEF hits, was
  <1>4. n \in hits /\ \A y \in hits : n <= y
    <2>1. hits \subseteq Nat
      BY <1>1, <1>2
    <2> QED BY <1>2, <2>1, MinIs
  <1>5. m \in was /\ \A y \in was : m <= y
    <2>1. was \subseteq Nat
      BY <1>1
    <2> QED BY <1>3, <2>1, MinIs
  <1> HIDE DEF n, m
  <1>6. n \in 1..Len(d) /\ m \in 1..Len(old) /\ n <= m
    BY <1>1, <1>2, <1>4, <1>5
  <1>7. n \in was
    BY <1>1, <1>4, <1>6
  <1>8. n = m
    BY <1>1, <1>5, <1>6, <1>7
  <1> QED BY <1>1, <1>2, <1>3, <1>4, <1>7, <1>8 DEF hits, n

\* Where it is told of, an article is the one that its eId finds.
LEMMA ArticleTold ==
    ASSUME NEW d, Tree(d), NEW old, Begins(old, d), EidsUnique(d), EliWork(d, 1) # None, OneBody(d),
           NEW a \in FindAll(d, Body(d, 1), "article"), d[a].eid # None
    PROVE  /\ GetArticleText(d, d[a].eid).node = a /\ LookupEid(d, 1, d[a].eid) = {a}
           /\ d[a].eid \in DOMAIN ArticleTexts(d)
           /\ d[a].eid \in DOMAIN ArticleTexts(old) <=> a \in 1..Len(old)
  <1> DEFINE e == d[a].eid
  <1>1. /\ Len(old) \in Nat /\ Len(d) \in Nat /\ Tree(old) /\ a \in 1..Len(d) /\ a # NoNode /\ Begins(d, d)
        /\ DOMAIN d = 1..Len(d) /\ EliWork(old, 1) = EliWork(d, 1)
    <2>1. a \in 1..Len(d)
      BY BodyIs, PartsOf DEF OneBody
    <2>2. Len(d) \in Nat /\ Len(d) <= Len(d) /\ DOMAIN d = 1..Len(d) /\ Len(old) \in Nat /\ Tree(old) /\ 1 \in 1..Len(old)
      BY WholeTree DEF Begins, Tree
    <2>3. EliWork(old, 1) = EliWork(d, 1)
      BY <2>2 DEF Begins, EliWork
    <2> QED BY <2>1, <2>2, <2>3 DEF Begins, NoNode
  <1>2. a \in Named(d) /\ d[a].tag = "article"
    BY <1>1 DEF Named, FindAll
  <1>3. GetArticleText(d, e).node = a
    BY <1>1, <1>2, ReadIs, ResolvesToItself DEF GetArticleText, EidsUnique
  <1>4. \A n \in 1..Len(d) : d[n].eid = e <=> n = a
    BY <1>1, <1>2 DEF EidsUnique, Named
  <1>5. LookupEid(d, 1, e) = {a}
    BY <1>1, <1>4, WholeTree DEF LookupEid
  <1>6. /\ Flattened(d, "article") = FindAll(d, Body(d, 1), "article") \cap 1..Len(d)
        /\ Flattened(old, "article") = FindAll(d, Body(d, 1), "article") \cap 1..Len(old)
    BY <1>1, ArticlesBegin
  <1>7. e \in DOMAIN ArticleTexts(d)
    BY <1>1, <1>6, TextsByEid
  <1>8. e \in DOMAIN ArticleTexts(old) <=> a \in 1..Len(old)
    <2>1. e \in DOMAIN ArticleTexts(old) <=> \E n \in Flattened(old, "article") : old[n].eid = e
      BY <1>1, TextsByEid
    <2>2. \A n \in 1..Len(old) : n \in 1..Len(d) /\ old[n].eid = d[n].eid
      BY <1>1 DEF Begins
    <2> QED BY <1>4, <1>6, <2>1, <2>2
  <1> QED BY <1>3, <1>5, <1>7, <1>8

LEMMA NothingRemoved ==
    ASSUME NEW d, Tree(d), NEW old, Begins(old, d), EliWork(d, 1) # None, OneBody(d)
    PROVE  DOMAIN ArticleTexts(old) \subseteq DOMAIN ArticleTexts(d)
  <1>1. Tree(old) /\ Begins(d, d) /\ Len(old) <= Len(d) /\ Len(old) \in Nat /\ Len(d) \in Nat
    BY DEF Begins, Tree
  <1>2. /\ Flattened(d, "article") = FindAll(d, Body(d, 1), "article") \cap 1..Len(d)
        /\ Flattened(old, "article") = FindAll(d, Body(d, 1), "article") \cap 1..Len(old)
    BY <1>1, ArticlesBegin
  <1>3. \A n \in Flattened(old, "article") : n \in Flattened(d, "article") /\ old[n].eid = d[n].eid
    BY <1>1, <1>2 DEF Begins
  <1> QED BY <1>1, <1>3, TextsByEid

LEMMA ChangesToldHolds == DocInv => ChangesTold
  <1> DEFINE now == ArticleTexts(doc)
             articles == {a \in FindAll(doc, Body(doc, 1), "article") : doc[a].eid # None}
             telling == /\ EidsUnique(doc) /\ EliWork(doc, 1) # None /\ Body(doc, 1) # NoNode
                        /\ NoNode \in {FindChild(doc, 1, "body"), FindChild(doc, 1, "mainBody")}
             Same(old, n) == n \in DOMAIN old /\ Wording(old, n) = Wording(doc, n)
  <1> SUFFICES ASSUME DocInv, NEW old \in Older
               PROVE  LET was  == ArticleTexts(old)
                          told == Compared(now, was)
                          back == Compared(was, now)
                      IN  /\ told.added = back.removed /\ told.removed = back.added /\ told.changed = back.changed
                          /\ \A e \in told.changed : \E n \in LookupEid(doc, 1, e) : ~Same(old, n)
                          /\ telling =>
                                /\ told.removed = {}
                                /\ \A a \in articles :
                                      LET e == doc[a].eid
                                      IN  /\ GetArticleText(doc, e).node = a
                                          /\ a \notin DOMAIN old <=> e \in told.added
                                          /\ a \in DOMAIN old /\ ~Same(old, a) <=> e \in told.changed
    BY DEF ChangesTold
  <1> DEFINE was == ArticleTexts(old)
             told == Compared(now, was)
             back == Compared(was, now)
  <1>1. Tree(doc) /\ Begins(old, doc) /\ Tree(old) /\ DOMAIN old = 1..Len(old)
    BY DocIsTree, OlderBegins DEF Begins, Tree
  <1>2. /\ told.added = DOMAIN now \ DOMAIN was /\ told.removed = DOMAIN was \ DOMAIN now
        /\ told.changed = {e \in DOMAIN now \cap DOMAIN was : now[e] # was[e]}
        /\ back.added = DOMAIN was \ DOMAIN now /\ back.removed = DOMAIN now \ DOMAIN was
        /\ back.changed = {e \in DOMAIN was \cap DOMAIN now : was[e] # now[e]}
    BY DEF Compared
  <1> HIDE DEF told, back
  <1>3. told.added = back.removed /\ told.removed = back.added /\ told.changed = back.changed
    BY <1>2
  <1>4. ASSUME NEW e \in DOMAIN now \cap DOMAIN was
        PROVE  \E n \in LookupEid(doc, 1, e) : n \in 1..Len(old) /\ now[e] = Wording(doc, n) /\ was[e] = Wording(old, n)
    BY <1>1, SameElement
  <1>5. ASSUME NEW e \in told.changed PROVE \E n \in LookupEid(doc, 1, e) : ~Same(old, n)
    BY <1>2, <1>4
  <1>6. ASSUME telling PROVE told.removed = {}
    BY <1>1, <1>2, <1>6, NothingRemoved DEF OneBody
  <1>7. ASSUME telling, NEW a \in articles
        PROVE  LET e == doc[a].eid
               IN  /\ GetArticleText(doc, e).node = a
                   /\ a \notin DOMAIN old <=> e \in told.added
                   /\ a \in DOMAIN old /\ ~Same(old, a) <=> e \in told.changed
    <2> DEFINE e == doc[a].eid
    <2>1. /\ GetArticleText(doc, e).node = a /\ LookupEid(doc, 1, e) = {a}
          /\ e \in DOMAIN now /\ (e \in DOMAIN was <=> a \in 1..Len(old))
      BY <1>1, <1>7, ArticleTold DEF OneBody
    <2> HIDE DEF now, was
    <2>2. a \notin DOMAIN old <=> e \in told.added
      BY <1>1, <1>2, <2>1
    <2>3. a \in DOMAIN old /\ ~Same(old, a) <=> e \in told.changed
      BY <1>1, <1>2, <1>4, <2>1
    <2> QED BY <2>1, <2>2, <2>3
  <1> HIDE DEF now, was, telling, articles, Same
  <1> QED BY <1>3, <1>5, <1>6, <1>7 DEF told, back, was

(* compare_versions: between an act of any length and an older version of it *)
(* each change of an article is told of, and nothing else is.                *)
THEOREM ChangesToldAlways == Spec => []ChangesTold
  BY DocumentIsTree, ChangesToldHolds, PTL
=============================================================================
