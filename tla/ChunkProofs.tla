---------------------------- MODULE ChunkProofs ----------------------------
(***************************************************************************)
(* What is proved of the chunks of the documents of any corpus: each text  *)
(* reaches them once, parts of a table fit the threshold, rows are whole   *)
(* and have their head, and a chunk leads back to where it was cut from.   *)
(***************************************************************************)
EXTENDS DocumentProofs

-----------------------------------------------------------------------------
(* Sizes.                                                                     *)
LEMMA SumUnique ==
    ASSUME NEW d, NEW S, IsFiniteSet(S), NEW f, Summing(f, d, S), NEW U \in SUBSET S, NEW g, Summing(g, d, U)
    PROVE  g[U] = f[U]
  <1> DEFINE c(T) == CHOOSE x \in T : TRUE
             wrong == {k \in Nat : \E T \in SUBSET U : Cardinality(T) = k /\ g[T] # f[T]}
  <1>1. \A T \in SUBSET U : T \in SUBSET S /\ f[T] = IF T = {} THEN 0 ELSE d[c(T)].len + f[T \ {c(T)}]
    BY DEF Summing
  <1>2. \A T \in SUBSET U : g[T] = IF T = {} THEN 0 ELSE d[c(T)].len + g[T \ {c(T)}]
    BY DEF Summing
  <1>3. IsFiniteSet(U)
    BY FS_Subset
  <1>4. ASSUME wrong # {} PROVE FALSE
    <2>1. PICK k \in wrong : \A j \in wrong : k <= j
      <3>1. wrong \subseteq Nat
        OBVIOUS
      <3> HIDE DEF wrong
      <3> QED BY <1>4, <3>1, LeastOf
    <2>2. PICK T \in SUBSET U : k \in Nat /\ Cardinality(T) = k /\ g[T] # f[T]
      OBVIOUS
    <2>3. T # {}
      BY <1>1, <1>2, <2>2
    <2>4. T \ {c(T)} \in SUBSET U /\ Cardinality(T \ {c(T)}) = k - 1 /\ k \in Nat \ {0}
      BY <1>3, <2>2, <2>3, OneLess
    <2>5. k - 1 \notin wrong /\ k - 1 \in Nat
      <3> HIDE DEF wrong
      <3> QED BY <2>1, <2>4
    <2>6. g[T \ {c(T)}] = f[T \ {c(T)}]
      BY <2>4, <2>5
    <2> HIDE DEF c, wrong
    <2> QED BY <1>1, <1>2, <2>2, <2>3, <2>6
  <1>5. Cardinality(U) \in Nat
    BY <1>3, FS_CardinalityType
  <1> QED BY <1>4, <1>5

\* The size of a set of texts is that of any one of them and of the others.
LEMMA SizeStep ==
    ASSUME NEW d, NEW S, IsFiniteSet(S), \A t \in S : d[t].len \in Nat
    PROVE  /\ Size(d, S) \in Nat
           /\ S = {} => Size(d, S) = 0
           /\ \A T \in SUBSET S : T # {} => LET c == CHOOSE x \in T : TRUE IN Size(d, T) = d[c].len + Size(d, T \ {c})
  <1>1. PICK f : Summing(f, d, S) /\ Size(d, S) = f[S]
    BY SizeIsSum
  <1>2. \A T \in SUBSET S : Size(d, T) = f[T]
    <2> TAKE T \in SUBSET S
    <2>1. IsFiniteSet(T) /\ \A t \in T : d[t].len \in Nat
      BY FS_Subset
    <2>2. PICK g : Summing(g, d, T) /\ Size(d, T) = g[T]
      BY <2>1, SizeIsSum
    <2> QED BY <1>1, <2>2, SumUnique
  <1>3. Size(d, S) \in Nat /\ (S = {} => Size(d, S) = 0)
    BY <1>1 DEF Summing
  <1>4. ASSUME NEW T \in SUBSET S, T # {}
        PROVE  LET c == CHOOSE x \in T : TRUE IN Size(d, T) = d[c].len + Size(d, T \ {c})
    BY <1>1, <1>2, <1>4 DEF Summing
  <1> QED BY <1>3, <1>4

LEMMA SizeOneMore ==
    ASSUME NEW d, NEW S, IsFiniteSet(S), \A t \in S : d[t].len \in Nat, NEW x \in S
    PROVE  Size(d, S) = d[x].len + Size(d, S \ {x})
  <1> DEFINE Claim(T) == \A y \in T : Size(d, T) = d[y].len + Size(d, T \ {y})
             wrong == {k \in Nat : \E T \in SUBSET S : Cardinality(T) = k /\ ~Claim(T)}
  <1>1. \A T \in SUBSET S : T # {} => LET c == CHOOSE y \in T : TRUE IN Size(d, T) = d[c].len + Size(d, T \ {c})
    BY SizeStep
  <1>2. \A T \in SUBSET S : Size(d, T) \in Nat
    BY FS_Subset, SizeStep
  <1>3. ASSUME wrong # {} PROVE FALSE
    <2>1. PICK k \in wrong : \A j \in wrong : k <= j
      <3>1. wrong \subseteq Nat
        OBVIOUS
      <3> HIDE DEF wrong
      <3> QED BY <1>3, <3>1, LeastOf
    <2>2. PICK T \in SUBSET S : k \in Nat /\ Cardinality(T) = k /\ ~Claim(T)
      OBVIOUS
    <2>3. PICK y \in T : ~(Size(d, T) = d[y].len + Size(d, T \ {y}))
      BY <2>2
    <2> DEFINE c == CHOOSE z \in T : TRUE
    <2>4. c \in T /\ Size(d, T) = d[c].len + Size(d, T \ {c})
      BY <1>1
    <2> HIDE DEF c
    <2>5. c # y
      BY <2>3, <2>4
    <2>6. \A z \in T : T \ {z} \in SUBSET S /\ Claim(T \ {z})
      <3> TAKE z \in T
      <3>1. IsFiniteSet(T) /\ Cardinality(T) # 0
        BY FS_Subset, FS_EmptySet
      <3>2. Cardinality(T \ {z}) = k - 1 /\ k - 1 \in Nat /\ T \ {z} \in SUBSET S
        <4>1. Cardinality(T \ {z}) = Cardinality(T) - 1
          BY <3>1, FS_RemoveElement
        <4> QED BY <2>2, <3>1, <4>1
      <3>3. k - 1 \notin wrong
        <4> HIDE DEF wrong
        <4> QED BY <2>1, <2>2, <3>2
      <3> QED BY <3>2, <3>3
    <2>7. Size(d, T \ {c}) = d[y].len + Size(d, (T \ {c}) \ {y})
      BY <2>4, <2>5, <2>6
    <2>8. Size(d, T \ {y}) = d[c].len + Size(d, (T \ {y}) \ {c})
      BY <2>4, <2>5, <2>6
    <2>9. (T \ {c}) \ {y} = (T \ {y}) \ {c}
      OBVIOUS
    <2>10. d[c].len \in Nat /\ d[y].len \in Nat /\ Size(d, (T \ {c}) \ {y}) \in Nat
      BY <1>2, <2>4
    <2> DEFINE a == d[c].len
               b == d[y].len
               rest == Size(d, (T \ {c}) \ {y})
    <2>11. Size(d, T) = a + (b + rest) /\ Size(d, T \ {y}) = a + rest
      BY <2>4, <2>7, <2>8, <2>9
    <2>12. a \in Nat /\ b \in Nat /\ rest \in Nat /\ Size(d, T) # b + Size(d, T \ {y})
      BY <2>3, <2>10
    <2> HIDE DEF a, b, rest
    <2> QED BY <2>11, <2>12
  <1>4. Cardinality(S) \in Nat
    BY FS_CardinalityType
  <1>5. Claim(S)
    BY <1>3, <1>4
  <1> QED BY <1>5

LEMMA PartSize ==
    ASSUME NEW d, Measured(d), NEW S \in SUBSET (1..Len(d))
    PROVE  IsFiniteSet(S) /\ Size(d, S) \in Nat /\ \A t \in S : d[t].len \in Nat
  <1>1. Len(d) \in Nat
    BY DEF Measured, Tree
  <1>2. IsFiniteSet(S)
    <2>1. IsFiniteSet(1..Len(d))
      BY <1>1, FS_Interval
    <2> QED BY <2>1, FS_Subset
  <1>3. \A t \in S : d[t].len \in Nat
    BY DEF Measured
  <1> QED BY <1>2, <1>3, SizeIsNat

LEMMA SizeWithout ==
    ASSUME NEW d, Measured(d), NEW S \in SUBSET (1..Len(d)), NEW x \in S
    PROVE  Size(d, S) = d[x].len + Size(d, S \ {x})
  BY PartSize, SizeOneMore

LEMMA SizeOfOne ==
    ASSUME NEW d, Measured(d), NEW S \in SUBSET (1..Len(d)), NEW x \in S
    PROVE  d[x].len <= Size(d, S) /\ d[x].len \in Nat
  <1>1. Size(d, S) = d[x].len + Size(d, S \ {x})
    BY SizeWithout
  <1>2. Size(d, S \ {x}) \in Nat /\ d[x].len \in Nat
    BY PartSize
  <1> QED BY <1>1, <1>2

LEMMA SizeOfBothStep ==
    ASSUME NEW d, Measured(d), NEW S \in SUBSET (1..Len(d)), NEW U \in SUBSET (1..Len(d)), NEW x \in S,
           Size(d, (S \ {x}) \cup U) <= Size(d, S \ {x}) + Size(d, U)
    PROVE  Size(d, S \cup U) <= Size(d, S) + Size(d, U)
  <1> DEFINE less == S \ {x}
             both == less \cup U
             whole == S \cup U
             a == d[x].len
             b == Size(d, less)
             c == Size(d, both)
             e == Size(d, U)
             g == Size(d, whole)
  <1>1. less \in SUBSET (1..Len(d)) /\ both \in SUBSET (1..Len(d)) /\ whole \in SUBSET (1..Len(d)) /\ x \in whole
    OBVIOUS
  <1>2. Size(d, S) = a + b
    BY SizeWithout
  <1>3. (x \in U /\ whole = both) \/ whole \ {x} = both
    OBVIOUS
  <1> HIDE DEF less, both, whole
  <1>4. b \in Nat /\ c \in Nat /\ e \in Nat /\ g \in Nat /\ a \in Nat
    BY <1>1, PartSize
  <1>5. g = c \/ g = a + c
    <2>1. CASE whole = both
      BY <2>1
    <2>2. CASE whole \ {x} = both
      BY <1>1, <2>2, SizeWithout
    <2> QED BY <1>3, <2>1, <2>2
  <1>6. c <= b + e
    BY DEF less, both
  <1>7. g <= (a + b) + e
    <2> HIDE DEF a, b, c, e, g
    <2> QED BY <1>4, <1>5, <1>6
  <1> QED BY <1>2, <1>7 DEF whole

\* Texts put together are no longer than they are by themselves.
LEMMA SizeOfBoth ==
    ASSUME NEW d, Measured(d), NEW S \in SUBSET (1..Len(d)), NEW U \in SUBSET (1..Len(d))
    PROVE  Size(d, S \cup U) <= Size(d, S) + Size(d, U)
  <1> DEFINE Claim(T) == Size(d, T \cup U) <= Size(d, T) + Size(d, U)
             wrong == {k \in Nat : \E T \in SUBSET S : Cardinality(T) = k /\ ~Claim(T)}
  <1>1. Claim({})
    <2>1. {} \cup U = U
      OBVIOUS
    <2>2. Size(d, {}) = 0
      BY FS_EmptySet, SizeStep
    <2>3. Size(d, U) \in Nat
      BY PartSize
    <2>4. Size(d, {} \cup U) = Size(d, U)
      BY <2>1
    <2> QED BY <2>2, <2>3, <2>4
  <1>2. ASSUME NEW T \in SUBSET S, NEW x \in T, Claim(T \ {x}) PROVE Claim(T)
    <2>1. T \in SUBSET (1..Len(d))
      OBVIOUS
    <2> QED BY <1>2, <2>1, SizeOfBothStep
  <1> HIDE DEF Claim
  <1>3. ASSUME wrong # {} PROVE FALSE
    <2>1. PICK k \in wrong : \A j \in wrong : k <= j
      <3>1. wrong \subseteq Nat
        OBVIOUS
      <3> HIDE DEF wrong
      <3> QED BY <1>3, <3>1, LeastOf
    <2>2. PICK T \in SUBSET S : k \in Nat /\ Cardinality(T) = k /\ ~Claim(T)
      OBVIOUS
    <2>3. PICK x : x \in T
      BY <1>1, <2>2
    <2> DEFINE less == T \ {x}
    <2>4. less \in SUBSET S /\ Cardinality(less) = k - 1 /\ k - 1 \in Nat
      <3>1. IsFiniteSet(T) /\ Cardinality(T) # 0
        BY <2>3, PartSize, FS_EmptySet
      <3>2. Cardinality(less) = Cardinality(T) - 1
        BY <2>3, <3>1, FS_RemoveElement
      <3>3. less \in SUBSET S
        OBVIOUS
      <3> HIDE DEF less, wrong
      <3> QED BY <2>2, <3>1, <3>2, <3>3
    <2>5. k - 1 \notin wrong
      <3> HIDE DEF wrong, less
      <3> QED BY <2>1, <2>2, <2>4
    <2>6. Claim(less)
      <3> HIDE DEF less
      <3> QED BY <2>4, <2>5
    <2> QED BY <1>2, <2>2, <2>3, <2>6
  <1>4. Cardinality(S) \in Nat
    BY PartSize, FS_CardinalityType
  <1>5. Claim(S)
    BY <1>3, <1>4
  <1> QED BY <1>5 DEF Claim

-----------------------------------------------------------------------------
(* Sequences.                                                                 *)
\* A set of numbers that has 0 and with each the next has all of them.
LEMMA Onward ==
    ASSUME NEW n \in Nat, NEW T, 0 \in T, \A k \in 1..n : k - 1 \in T => k \in T
    PROVE  n \in T
  <1> DEFINE wrong == {k \in 0..n : k \notin T}
  <1>1. ASSUME wrong # {} PROVE FALSE
    <2>1. PICK k \in wrong : \A m \in wrong : k <= m
      <3>1. wrong \subseteq Nat
        OBVIOUS
      <3> HIDE DEF wrong
      <3> QED BY <1>1, <3>1, LeastOf
    <2>2. k \in 1..n /\ k - 1 \in 0..n /\ k \notin T
      OBVIOUS
    <2>3. k - 1 \notin wrong
      <3> HIDE DEF wrong
      <3> QED BY <2>1, <2>2
    <2> QED BY <2>2, <2>3
  <1> QED BY <1>1

\* Each two entries, the earlier first, are related.
Apart(s, R) == \A m, n \in 1..Len(s) : m < n => <<s[m], s[n]>> \in R

LEMMA ConcatRange ==
    ASSUME NEW V, NEW s \in Seq(V), NEW t \in Seq(V)
    PROVE  Range(s \o t) = Range(s) \cup Range(t)
  <1>1. /\ Len(s) \in Nat /\ Len(t) \in Nat /\ DOMAIN s = 1..Len(s) /\ DOMAIN t = 1..Len(t)
        /\ DOMAIN (s \o t) = 1..Len(s) + Len(t)
        /\ \A i \in 1..Len(s) + Len(t) : (s \o t)[i] = IF i <= Len(s) THEN s[i] ELSE t[i - Len(s)]
    BY ConcatProperties
  <1>2. ASSUME NEW x \in Range(s \o t) PROVE x \in Range(s) \cup Range(t)
    <2>1. PICK i \in 1..Len(s) + Len(t) : x = (s \o t)[i]
      BY <1>1 DEF Range
    <2>2. CASE i <= Len(s)
      BY <1>1, <2>1, <2>2 DEF Range
    <2>3. CASE ~(i <= Len(s))
      <3>1. i - Len(s) \in 1..Len(t) /\ x = t[i - Len(s)]
        BY <1>1, <2>1, <2>3
      <3> QED BY <1>1, <3>1 DEF Range
    <2> QED BY <2>2, <2>3
  <1>3. ASSUME NEW x \in Range(s) PROVE x \in Range(s \o t)
    <2>1. PICK i \in 1..Len(s) : x = s[i]
      BY <1>1 DEF Range
    <2>2. i \in 1..Len(s) + Len(t) /\ (s \o t)[i] = x
      BY <1>1, <2>1
    <2> QED BY <1>1, <2>2 DEF Range
  <1>4. ASSUME NEW x \in Range(t) PROVE x \in Range(s \o t)
    <2>1. PICK i \in 1..Len(t) : x = t[i]
      BY <1>1 DEF Range
    <2>2. i + Len(s) \in 1..Len(s) + Len(t) /\ (s \o t)[i + Len(s)] = x
      BY <1>1, <2>1
    <2> QED BY <1>1, <2>2 DEF Range
  <1> QED BY <1>2, <1>3, <1>4

LEMMA ConcatApart ==
    ASSUME NEW V, NEW s \in Seq(V), NEW t \in Seq(V), NEW R, Apart(s, R), Apart(t, R),
           \A x \in Range(s), y \in Range(t) : <<x, y>> \in R
    PROVE  Apart(s \o t, R)
  <1>1. /\ Len(s) \in Nat /\ Len(t) \in Nat /\ DOMAIN s = 1..Len(s) /\ DOMAIN t = 1..Len(t)
        /\ Len(s \o t) = Len(s) + Len(t)
        /\ \A i \in 1..Len(s) + Len(t) : (s \o t)[i] = IF i <= Len(s) THEN s[i] ELSE t[i - Len(s)]
    BY ConcatProperties
  <1>2. ASSUME NEW m \in 1..Len(s) + Len(t), NEW n \in 1..Len(s) + Len(t), m < n
        PROVE  <<(s \o t)[m], (s \o t)[n]>> \in R
    <2>1. CASE n <= Len(s)
      <3>1. m \in 1..Len(s) /\ n \in 1..Len(s) /\ (s \o t)[m] = s[m] /\ (s \o t)[n] = s[n]
        BY <1>1, <1>2, <2>1
      <3> QED BY <1>2, <3>1 DEF Apart
    <2>2. CASE m <= Len(s) /\ ~(n <= Len(s))
      <3>1. m \in 1..Len(s) /\ n - Len(s) \in 1..Len(t) /\ (s \o t)[m] = s[m] /\ (s \o t)[n] = t[n - Len(s)]
        BY <1>1, <1>2, <2>2
      <3>2. s[m] \in Range(s) /\ t[n - Len(s)] \in Range(t)
        BY <1>1, <3>1 DEF Range
      <3> QED BY <3>1, <3>2
    <2>3. CASE ~(m <= Len(s))
      <3>1. /\ m - Len(s) \in 1..Len(t) /\ n - Len(s) \in 1..Len(t) /\ m - Len(s) < n - Len(s)
            /\ (s \o t)[m] = t[m - Len(s)] /\ (s \o t)[n] = t[n - Len(s)]
        BY <1>1, <1>2, <2>3
      <3> QED BY <3>1 DEF Apart
    <2> QED BY <1>1, <1>2, <2>1, <2>2, <2>3
  <1> QED BY <1>1, <1>2 DEF Apart

LEMMA FlattenRange ==
    ASSUME NEW V, NEW ss \in Seq(Seq(V))
    PROVE  \A x : x \in Range(FlattenSeq(ss)) <=> \E k \in 1..Len(ss) : x \in Range(ss[k])
  <1>1. PICK f : /\ f \in [0..Len(ss) -> Seq(V)] /\ f[0] = <<>> /\ f[Len(ss)] = FlattenSeq(ss)
                 /\ \A k \in 1..Len(ss) : f[k] = f[k - 1] \o ss[k]
    BY FlattenIs
  <1> DEFINE T == {k \in 0..Len(ss) : \A x : x \in Range(f[k]) <=> \E j \in 1..k : x \in Range(ss[j])}
  <1>2. Len(ss) \in Nat /\ \A k \in 1..Len(ss) : ss[k] \in Seq(V)
    BY LenProperties, ElementOfSeq
  <1>3. 0 \in T
    <2>1. Range(f[0]) = {} /\ 1..0 = {}
      BY <1>1 DEF Range
    <2> QED BY <1>2, <2>1
  <1>4. ASSUME NEW k \in 1..Len(ss), k - 1 \in T PROVE k \in T
    <2>1. k - 1 \in 0..Len(ss) /\ k \in 0..Len(ss)
      BY <1>2
    <2>2. \A x : x \in Range(f[k - 1]) <=> \E j \in 1..k - 1 : x \in Range(ss[j])
      BY <1>4
    <2>3. f[k] = f[k - 1] \o ss[k] /\ f[k - 1] \in Seq(V) /\ ss[k] \in Seq(V)
      BY <1>1, <1>2, <2>1
    <2>4. Range(f[k]) = Range(f[k - 1]) \cup Range(ss[k])
      BY <2>3, ConcatRange
    <2>5. \A j : j \in 1..k <=> j \in 1..k - 1 \/ j = k
      BY <1>2
    <2>6. \A x : x \in Range(f[k]) <=> \E j \in 1..k : x \in Range(ss[j])
      BY <2>2, <2>4, <2>5
    <2> QED BY <2>1, <2>6
  <1>5. Len(ss) \in T
    <2> HIDE DEF T
    <2> QED BY <1>2, <1>3, <1>4, Onward
  <1> QED BY <1>1, <1>5

LEMMA FlattenApart ==
    ASSUME NEW V, NEW ss \in Seq(Seq(V)), NEW R, \A k \in 1..Len(ss) : Apart(ss[k], R),
           \A j, k \in 1..Len(ss) : j < k => \A x \in Range(ss[j]), y \in Range(ss[k]) : <<x, y>> \in R
    PROVE  Apart(FlattenSeq(ss), R)
  <1>1. PICK f : /\ f \in [0..Len(ss) -> Seq(V)] /\ f[0] = <<>> /\ f[Len(ss)] = FlattenSeq(ss)
                 /\ \A k \in 1..Len(ss) : f[k] = f[k - 1] \o ss[k]
    BY FlattenIs
  <1> DEFINE T == {k \in 0..Len(ss) : Apart(f[k], R) /\ \A x \in Range(f[k]) : \E j \in 1..k : x \in Range(ss[j])}
  <1>2. Len(ss) \in Nat /\ \A k \in 1..Len(ss) : ss[k] \in Seq(V)
    BY LenProperties, ElementOfSeq
  <1>3. 0 \in T
    <2>1. Range(f[0]) = {} /\ Apart(f[0], R)
      BY <1>1 DEF Range, Apart
    <2> QED BY <1>2, <2>1
  <1>4. ASSUME NEW k \in 1..Len(ss), k - 1 \in T PROVE k \in T
    <2>1. k - 1 \in 0..Len(ss) /\ k \in 0..Len(ss)
      BY <1>2
    <2>2. Apart(f[k - 1], R) /\ \A x \in Range(f[k - 1]) : \E j \in 1..k - 1 : x \in Range(ss[j])
      BY <1>4
    <2>3. \A x \in Range(f[k - 1]), y \in Range(ss[k]) : <<x, y>> \in R
      <3> TAKE x \in Range(f[k - 1]), y \in Range(ss[k])
      <3>1. PICK j \in 1..k - 1 : x \in Range(ss[j])
        BY <2>2
      <3>2. j \in 1..Len(ss) /\ j < k
        BY <1>2
      <3> QED BY <3>1, <3>2
    <2>4. f[k] = f[k - 1] \o ss[k] /\ f[k - 1] \in Seq(V) /\ ss[k] \in Seq(V)
      BY <1>1, <1>2, <2>1
    <2>5. Apart(f[k], R)
      BY <2>2, <2>3, <2>4, ConcatApart
    <2>6. Range(f[k]) = Range(f[k - 1]) \cup Range(ss[k])
      BY <2>4, ConcatRange
    <2>7. \A x \in Range(f[k]) : \E j \in 1..k : x \in Range(ss[j])
      <3>1. k \in 1..k /\ \A j \in 1..k - 1 : j \in 1..k
        BY <1>2
      <3> QED BY <2>2, <2>6, <3>1
    <2> QED BY <2>1, <2>5, <2>7
  <1>5. Len(ss) \in T
    <2> HIDE DEF T
    <2> QED BY <1>2, <1>3, <1>4, Onward
  <1> QED BY <1>1, <1>5

-----------------------------------------------------------------------------
(* Each chunk is made of one piece, in the order of the pieces.               *)
Holding(cs, d, r, pieces, k) ==
    /\ \A m \in 1..Len(cs) : \E i \in 1..k : cs[m] = ChunkOf(d, r, pieces[i], m - 1)
    /\ \A m, n \in 1..Len(cs) : m < n =>
          \E i, j \in 1..k : i < j /\ cs[m] = ChunkOf(d, r, pieces[i], m - 1) /\ cs[n] = ChunkOf(d, r, pieces[j], n - 1)
    /\ \A i \in 1..k : Size(d, pieces[i].texts) # 0 =>
          \E m \in 1..Len(cs) : cs[m] = ChunkOf(d, r, pieces[i], m - 1)

LEMMA PushHolds ==
    ASSUME NEW d, NEW r, NEW P, NEW pieces \in Seq(P), NEW k \in 1..Len(pieces),
           NEW cs \in Seq(ChunksOf(d, r, P)), Holding(cs, d, r, pieces, k - 1)
    PROVE  Holding(Push(d, r, cs, pieces[k]), d, r, pieces, k)
  <1>0. k \in Nat /\ k >= 1 /\ \A i \in 1..k - 1 : i \in 1..k /\ i < k
    BY LenProperties
  <1>1. CASE Size(d, pieces[k].texts) = 0
    <2>1. Push(d, r, cs, pieces[k]) = cs
      BY <1>1 DEF Push
    <2>2. Holding(cs, d, r, pieces, k)
      <3>1. \A i \in 1..k : Size(d, pieces[i].texts) # 0 => i \in 1..k - 1
        BY <1>0, <1>1
      <3> QED BY <1>0, <3>1 DEF Holding
    <2> QED BY <2>1, <2>2
  <1>2. CASE Size(d, pieces[k].texts) # 0
    <2> DEFINE new == ChunkOf(d, r, pieces[k], Len(cs))
               more == Append(cs, new)
    <2>1. Push(d, r, cs, pieces[k]) = more
      BY <1>2 DEF Push
    <2>2. Len(cs) \in Nat /\ Len(more) = Len(cs) + 1 /\ more[Len(cs) + 1] = new /\ \A m \in 1..Len(cs) : more[m] = cs[m]
      BY AppendProperties
    <2> HIDE DEF more
    <2>3. more[Len(more)] = ChunkOf(d, r, pieces[k], Len(more) - 1)
      BY <2>2 DEF new
    <2>4. \A m \in 1..Len(more) : m = Len(more) \/ (m \in 1..Len(cs) /\ more[m] = cs[m])
      BY <2>2
    <2> HIDE DEF new
    <2>5. ASSUME NEW m \in 1..Len(more) PROVE \E i \in 1..k : more[m] = ChunkOf(d, r, pieces[i], m - 1)
      <3>1. CASE m = Len(more)
        BY <1>0, <2>3, <3>1
      <3>2. CASE m \in 1..Len(cs) /\ more[m] = cs[m]
        BY <1>0, <3>2 DEF Holding
      <3> QED BY <2>4, <3>1, <3>2
    <2>6. ASSUME NEW m \in 1..Len(more), NEW n \in 1..Len(more), m < n
          PROVE  \E i, j \in 1..k : /\ i < j /\ more[m] = ChunkOf(d, r, pieces[i], m - 1)
                                     /\ more[n] = ChunkOf(d, r, pieces[j], n - 1)
      <3>1. m \in 1..Len(cs) /\ more[m] = cs[m]
        BY <2>2, <2>4, <2>6
      <3>2. CASE n = Len(more)
        <4>1. PICK i \in 1..k - 1 : more[m] = ChunkOf(d, r, pieces[i], m - 1)
          BY <3>1 DEF Holding
        <4> QED BY <1>0, <2>3, <3>2, <4>1
      <3>3. CASE n \in 1..Len(cs) /\ more[n] = cs[n]
        BY <1>0, <2>6, <3>1, <3>3 DEF Holding
      <3> QED BY <2>4, <3>2, <3>3
    <2>7. ASSUME NEW i \in 1..k, Size(d, pieces[i].texts) # 0
          PROVE  \E m \in 1..Len(more) : more[m] = ChunkOf(d, r, pieces[i], m - 1)
      <3>1. CASE i = k
        BY <2>2, <2>3, <3>1
      <3>2. CASE i # k
        <4>1. i \in 1..k - 1
          BY <1>0, <3>2
        <4>2. PICK m \in 1..Len(cs) : cs[m] = ChunkOf(d, r, pieces[i], m - 1)
          BY <2>7, <4>1 DEF Holding
        <4> QED BY <2>2, <4>2
      <3> QED BY <3>1, <3>2
    <2>8. Holding(more, d, r, pieces, k)
      BY <2>5, <2>6, <2>7 DEF Holding
    <2> QED BY <2>1, <2>8
  <1> QED BY <1>1, <1>2

LEMMA PushedHolds ==
    ASSUME NEW d, NEW r, NEW P, NEW pieces \in Seq(P)
    PROVE  Holding(Pushed(d, r, pieces), d, r, pieces, Len(pieces))
  <1>1. PICK f : PushSteps(f, d, r, P, pieces)
    BY PushedSteps
  <1> DEFINE T == {k \in 0..Len(pieces) : Holding(f[k], d, r, pieces, k)}
  <1>2. Len(pieces) \in Nat
    BY LenProperties
  <1>3. 0 \in T
    <2>1. f[0] = <<>> /\ 1..0 = {} /\ 1..Len(<<>>) = {}
      BY <1>1 DEF PushSteps
    <2>2. Holding(f[0], d, r, pieces, 0)
      BY <2>1 DEF Holding
    <2> QED BY <1>2, <2>2
  <1>4. ASSUME NEW k \in 1..Len(pieces), k - 1 \in T PROVE k \in T
    <2>1. f[k - 1] \in Seq(ChunksOf(d, r, P)) /\ f[k] = Push(d, r, f[k - 1], pieces[k]) /\ k \in 0..Len(pieces)
      BY <1>1, <1>2 DEF PushSteps
    <2>2. Holding(f[k - 1], d, r, pieces, k - 1)
      BY <1>4
    <2> QED BY <2>1, <2>2, PushHolds
  <1>5. Len(pieces) \in T
    <2> HIDE DEF T
    <2> QED BY <1>2, <1>3, <1>4, Onward
  <1> QED BY <1>1, <1>5 DEF PushSteps

-----------------------------------------------------------------------------
(* Each group is made of items of its own, as many as there is room for.      *)
Together(group, I, d, reserve, items) ==
    /\ I # {} /\ IsFiniteSet(I)
    /\ group.texts = UNION {items[i] : i \in I}
    /\ Size(d, group.texts) + Cardinality(I) <= group.len + 1
    /\ Cardinality(I) = 1 \/ reserve + group.len <= SplitThreshold + 1

LEMMA TogetherOne ==
    ASSUME NEW d, Measured(d), NEW reserve, NEW items, NEW i, items[i] \in SUBSET (1..Len(d))
    PROVE  Together(GroupOf(d, items[i]), {i}, d, reserve, items)
  <1> DEFINE group == GroupOf(d, items[i])
             size == Size(d, items[i])
  <1>1. group.texts = items[i] /\ group.len = size
    BY DEF GroupOf
  <1>2. size \in Nat
    BY PartSize
  <1>3. Cardinality({i}) = 1 /\ IsFiniteSet({i})
    BY FS_Singleton
  <1>4. UNION {items[j] : j \in {i}} = items[i]
    OBVIOUS
  <1> HIDE DEF group, size
  <1>5. Size(d, group.texts) = size
    BY <1>1 DEF size
  <1>6. Size(d, group.texts) + Cardinality({i}) <= group.len + 1
    BY <1>1, <1>2, <1>3, <1>5
  <1>7. group.texts = UNION {items[j] : j \in {i}}
    BY <1>1, <1>4
  <1> QED BY <1>3, <1>6, <1>7 DEF Together, group

LEMMA TogetherMore ==
    ASSUME NEW d, Measured(d), NEW reserve \in Nat, NEW items, NEW i, items[i] \in SUBSET (1..Len(d)),
           NEW l \in Groups(d), NEW I, i \notin I, Together(l, I, d, reserve, items),
           ~(reserve + l.len + Size(d, items[i]) > SplitThreshold)
    PROVE  Together([texts |-> l.texts \cup items[i], len |-> l.len + 1 + Size(d, items[i])], I \cup {i}, d, reserve, items)
  <1> DEFINE size == Size(d, items[i])
             more == [texts |-> l.texts \cup items[i], len |-> l.len + 1 + size]
             old  == Size(d, l.texts)
             new  == Size(d, l.texts \cup items[i])
             n    == Cardinality(I)
             len  == l.len
  <1>1. more.texts = l.texts \cup items[i] /\ more.len = len + 1 + size
    OBVIOUS
  <1>2. l.texts \in SUBSET (1..Len(d)) /\ len \in Nat
    BY DEF Groups
  <1>3. size \in Nat /\ old \in Nat /\ new \in Nat /\ new <= old + size
    <2>1. l.texts \cup items[i] \in SUBSET (1..Len(d))
      BY <1>2
    <2> QED BY <1>2, <2>1, PartSize, SizeOfBoth
  <1>4. IsFiniteSet(I) /\ n \in Nat /\ old + n <= len + 1
    BY FS_CardinalityType DEF Together
  <1>5. Cardinality(I \cup {i}) = n + 1 /\ IsFiniteSet(I \cup {i})
    BY <1>4, FS_AddElement
  <1>6. UNION {items[j] : j \in I \cup {i}} = l.texts \cup items[i]
    BY DEF Together
  <1>7. ~(reserve + len + size > SplitThreshold) /\ SplitThreshold \in Nat
    BY ThresholdsAssumption
  <1>8. new + (n + 1) <= (len + 1 + size) + 1 /\ reserve + (len + 1 + size) <= SplitThreshold + 1
    <2> HIDE DEF size, old, new, n, len
    <2> QED BY <1>2, <1>3, <1>4, <1>7
  <1>9. Size(d, more.texts) = new
    BY <1>1
  <1> HIDE DEF more, size, new, n, len
  <1>10. Size(d, more.texts) + Cardinality(I \cup {i}) <= more.len + 1 /\ reserve + more.len <= SplitThreshold + 1
    BY <1>1, <1>5, <1>8, <1>9
  <1>11. more.texts = UNION {items[j] : j \in I \cup {i}} /\ I \cup {i} # {}
    BY <1>1, <1>6
  <1>12. Together(more, I \cup {i}, d, reserve, items)
    BY <1>5, <1>10, <1>11 DEF Together
  <1> QED BY <1>12 DEF more, size, len

Made(groups, parts, d, reserve, items, k) ==
    /\ parts \in [1..Len(groups) -> SUBSET (1..k)]
    /\ \A g \in 1..Len(groups) : Together(groups[g], parts[g], d, reserve, items)
    /\ \A g, h \in 1..Len(groups) : g # h => parts[g] \cap parts[h] = {}
    /\ \A i \in 1..k : Size(d, items[i]) # 0 => \E g \in 1..Len(groups) : i \in parts[g]

Making(groups, d, reserve, items, k) == \E parts : Made(groups, parts, d, reserve, items, k)

LEMMA GrownIs ==
    ASSUME NEW d, Measured(d), NEW groups \in Seq(Groups(d)), groups # <<>>, NEW i
    PROVE  /\ Len(groups) \in Nat \ {0} /\ Last(groups) = groups[Len(groups)] /\ Last(groups) \in Groups(d)
           /\ Len(Grown(d, groups, i)) = Len(groups)
           /\ Grown(d, groups, i)[Len(groups)] =
                  [texts |-> Last(groups).texts \cup i, len |-> Last(groups).len + 1 + Size(d, i)]
           /\ \A g \in 1..Len(groups) - 1 : Grown(d, groups, i)[g] = groups[g]
  <1>1. Len(groups) \in Nat \ {0}
    BY EmptySeq, LenProperties
  <1>2. Last(groups) = groups[Len(groups)] /\ Last(groups) \in Groups(d)
    BY <1>1, ElementOfSeq DEF Last
  <1> DEFINE front == Front(groups)
             last == [texts |-> Last(groups).texts \cup i, len |-> Last(groups).len + 1 + Size(d, i)]
  <1>3. front \in Seq(Groups(d)) /\ Len(front) = Len(groups) - 1 /\ \A g \in 1..Len(groups) - 1 : front[g] = groups[g]
    <2> DEFINE n == Len(groups) - 1
    <2>1. n \in Nat /\ 1 \in Int /\ n \in Int /\ \A g \in 1..n : groups[g] \in Groups(d)
      BY <1>1, ElementOfSeq
    <2>2. front = SubSeq(groups, 1, n)
      BY DEF Front
    <2> HIDE DEF n, front
    <2>3. /\ front \in Seq(Groups(d)) /\ Len(front) = (IF 1 <= n THEN n - 1 + 1 ELSE 0)
          /\ \A g \in 1..n - 1 + 1 : front[g] = groups[1 + g - 1]
      BY <2>1, <2>2, SubSeqProperties
    <2>4. Len(front) = n /\ \A g \in 1..n : front[g] = groups[g]
      BY <2>1, <2>3
    <2> QED BY <2>3, <2>4 DEF n
  <1>4. Grown(d, groups, i) = Append(front, last)
    BY DEF Grown
  <1> HIDE DEF front, last
  <1>5. Len(Append(front, last)) = Len(front) + 1 /\ Append(front, last)[Len(front) + 1] = last
        /\ \A g \in 1..Len(front) : Append(front, last)[g] = front[g]
    BY <1>3
  <1> QED BY <1>1, <1>2, <1>3, <1>4, <1>5 DEF last

LEMMA MadeSkip ==
    ASSUME NEW d, NEW reserve, NEW items, NEW k \in Nat \ {0}, NEW groups, NEW parts,
           Made(groups, parts, d, reserve, items, k - 1), Size(d, items[k]) = 0
    PROVE  Making(groups, d, reserve, items, k)
  <1>1. \A i \in 1..k : i = k \/ i \in 1..k - 1
    OBVIOUS
  <1>2. parts \in [1..Len(groups) -> SUBSET (1..k)]
    <2>1. \A I \in SUBSET (1..k - 1) : I \in SUBSET (1..k)
      OBVIOUS
    <2> QED BY <2>1 DEF Made
  <1>3. Made(groups, parts, d, reserve, items, k)
    BY <1>1, <1>2 DEF Made
  <1> QED BY <1>3 DEF Making

LEMMA MadeOne ==
    ASSUME NEW d, Measured(d), NEW reserve, NEW items, NEW k \in Nat \ {0}, items[k] \in SUBSET (1..Len(d)),
           NEW groups \in Seq(Groups(d)), NEW parts, Made(groups, parts, d, reserve, items, k - 1)
    PROVE  Making(Append(groups, GroupOf(d, items[k])), d, reserve, items, k)
  <1> DEFINE n == Len(groups)
             more == Append(groups, GroupOf(d, items[k]))
             new == [g \in 1..n + 1 |-> IF g = n + 1 THEN {k} ELSE parts[g]]
  <1>1. n \in Nat /\ Len(more) = n + 1 /\ more[n + 1] = GroupOf(d, items[k]) /\ \A g \in 1..n : more[g] = groups[g]
    <2>1. GroupOf(d, items[k]) \in Groups(d)
      BY PartSize DEF GroupOf, Groups
    <2> QED BY <2>1, AppendProperties, LenProperties
  <1> HIDE DEF more, n
  <1>2. /\ \A g \in 1..n : parts[g] \in SUBSET (1..k - 1)
        /\ \A g \in 1..n : Together(groups[g], parts[g], d, reserve, items)
        /\ \A g, h \in 1..n : g # h => parts[g] \cap parts[h] = {}
        /\ \A i \in 1..k - 1 : Size(d, items[i]) # 0 => \E g \in 1..n : i \in parts[g]
    BY DEF Made, n
  <1>3. new[n + 1] = {k} /\ \A g \in 1..n : new[g] = parts[g] /\ new[g] \in SUBSET (1..k - 1)
    BY <1>1, <1>2
  <1>4. \A g \in 1..n + 1 : g = n + 1 \/ g \in 1..n
    BY <1>1
  <1>5. new \in [1..n + 1 -> SUBSET (1..k)]
    <2>1. \A I \in SUBSET (1..k - 1) : I \in SUBSET (1..k)
      OBVIOUS
    <2>2. {k} \in SUBSET (1..k)
      OBVIOUS
    <2>3. \A g \in 1..n + 1 : new[g] \in SUBSET (1..k)
      BY <1>3, <1>4, <2>1, <2>2
    <2>4. new = [g \in 1..n + 1 |-> new[g]]
      OBVIOUS
    <2> HIDE DEF new
    <2> QED BY <2>3, <2>4
  <1> HIDE DEF new
  <1>6. \A g \in 1..n + 1 : Together(more[g], new[g], d, reserve, items)
    <2>1. Together(GroupOf(d, items[k]), {k}, d, reserve, items)
      BY TogetherOne
    <2>2. Together(more[n + 1], new[n + 1], d, reserve, items)
      BY <1>1, <1>3, <2>1
    <2> QED BY <1>1, <1>2, <1>3, <1>4, <2>2
  <1>7. \A g, h \in 1..n + 1 : g # h => new[g] \cap new[h] = {}
    <2>1. \A I \in SUBSET (1..k - 1) : k \notin I
      OBVIOUS
    <2> QED BY <1>2, <1>3, <1>4, <2>1
  <1>8. \A i \in 1..k : Size(d, items[i]) # 0 => \E g \in 1..n + 1 : i \in new[g]
    <2>1. \A i \in 1..k : i = k \/ i \in 1..k - 1
      OBVIOUS
    <2>2. n + 1 \in 1..n + 1 /\ \A g \in 1..n : g \in 1..n + 1
      BY <1>1
    <2> QED BY <1>2, <1>3, <2>1, <2>2
  <1>9. Made(more, new, d, reserve, items, k)
    BY <1>1, <1>5, <1>6, <1>7, <1>8 DEF Made
  <1> QED BY <1>9 DEF Making, more

LEMMA MadeMore ==
    ASSUME NEW d, Measured(d), NEW reserve \in Nat, NEW items, NEW k \in Nat \ {0}, items[k] \in SUBSET (1..Len(d)),
           NEW groups \in Seq(Groups(d)), NEW parts, Made(groups, parts, d, reserve, items, k - 1),
           groups # <<>>, ~(reserve + Last(groups).len + Size(d, items[k]) > SplitThreshold)
    PROVE  Making(Grown(d, groups, items[k]), d, reserve, items, k)
  <1> DEFINE n == Len(groups)
             more == Grown(d, groups, items[k])
             last == [texts |-> Last(groups).texts \cup items[k], len |-> Last(groups).len + 1 + Size(d, items[k])]
             new == [g \in 1..n |-> IF g = n THEN parts[g] \cup {k} ELSE parts[g]]
  <1>1. n \in Nat \ {0} /\ Last(groups) = groups[n] /\ Last(groups) \in Groups(d)
        /\ Len(more) = n /\ more[n] = last /\ \A g \in 1..n - 1 : more[g] = groups[g]
    BY GrownIs
  <1>2. /\ \A g \in 1..n : parts[g] \in SUBSET (1..k - 1)
        /\ \A g \in 1..n : Together(groups[g], parts[g], d, reserve, items)
        /\ \A g, h \in 1..n : g # h => parts[g] \cap parts[h] = {}
        /\ \A i \in 1..k - 1 : Size(d, items[i]) # 0 => \E g \in 1..n : i \in parts[g]
    BY DEF Made
  <1> HIDE DEF more
  <1>3. new[n] = parts[n] \cup {k} /\ \A g \in 1..n - 1 : new[g] = parts[g]
    <2> HIDE DEF n
    <2> QED BY <1>1
  <1>4. \A g \in 1..n : g = n \/ g \in 1..n - 1
    BY <1>1
  <1>0. n \in 1..n /\ (\A g \in 1..n - 1 : g \in 1..n) /\ \A g \in 1..n : k \notin parts[g]
    <2>1. \A I \in SUBSET (1..k - 1) : k \notin I
      OBVIOUS
    <2> QED BY <1>1, <1>2, <2>1
  <1>5. new \in [1..n -> SUBSET (1..k)]
    <2>1. \A I \in SUBSET (1..k - 1) : I \in SUBSET (1..k) /\ I \cup {k} \in SUBSET (1..k)
      OBVIOUS
    <2>3. \A g \in 1..n : new[g] \in SUBSET (1..k)
      <3> HIDE DEF n
      <3> QED BY <1>0, <1>2, <1>3, <1>4, <2>1
    <2>4. new = [g \in 1..n |-> new[g]]
      OBVIOUS
    <2> HIDE DEF new, n
    <2> QED BY <2>3, <2>4
  <1> HIDE DEF new
  <1>6. \A g \in 1..n : Together(more[g], new[g], d, reserve, items)
    <2>1. Together(last, parts[n] \cup {k}, d, reserve, items)
      <3> DEFINE l == Last(groups)
                 I == parts[n]
      <3>1. l \in Groups(d) /\ k \notin I /\ Together(l, I, d, reserve, items)
        BY <1>0, <1>1, <1>2
      <3>2. ~(reserve + l.len + Size(d, items[k]) > SplitThreshold)
        OBVIOUS
      <3>3. last = [texts |-> l.texts \cup items[k], len |-> l.len + 1 + Size(d, items[k])]
        OBVIOUS
      <3> HIDE DEF l, I, last, n
      <3>4. Together([texts |-> l.texts \cup items[k], len |-> l.len + 1 + Size(d, items[k])], I \cup {k}, d, reserve, items)
        BY <3>1, <3>2, TogetherMore
      <3> QED BY <3>3, <3>4 DEF I
    <2>2. Together(more[n], new[n], d, reserve, items)
      <3> HIDE DEF last, n
      <3> QED BY <1>1, <1>3, <2>1
    <2> HIDE DEF last, n
    <2> QED BY <1>0, <1>1, <1>2, <1>3, <1>4, <2>2
  <1> HIDE DEF last, n
  <1>7. \A g, h \in 1..n : g # h => new[g] \cap new[h] = {}
    BY <1>0, <1>2, <1>3, <1>4
  <1>8. \A i \in 1..k : Size(d, items[i]) # 0 => \E g \in 1..n : i \in new[g]
    <2>1. \A i \in 1..k : i = k \/ i \in 1..k - 1
      OBVIOUS
    <2>2. \A g \in 1..n : parts[g] \subseteq new[g]
      BY <1>3, <1>4
    <2> QED BY <1>0, <1>2, <1>3, <2>1, <2>2
  <1>9. Made(more, new, d, reserve, items, k)
    BY <1>1, <1>5, <1>6, <1>7, <1>8 DEF Made
  <1> QED BY <1>9 DEF Making, more

LEMMA PackedMade ==
    ASSUME NEW d, Measured(d), NEW reserve \in Nat, NEW items \in Seq(SUBSET (1..Len(d)))
    PROVE  Making(Packed(d, items, reserve), d, reserve, items, Len(items))
  <1>1. PICK f : PackSteps(f, d, reserve, items)
    BY PackedSteps
  <1> DEFINE T == {k \in 0..Len(items) : Making(f[k], d, reserve, items, k)}
  <1>2. Len(items) \in Nat /\ \A k \in 1..Len(items) : items[k] \in SUBSET (1..Len(d))
    BY LenProperties, ElementOfSeq
  <1>3. 0 \in T
    <2> DEFINE none == [g \in 1..0 |-> {}]
    <2>1. f[0] = <<>> /\ 1..0 = {} /\ Len(<<>>) = 0
      BY <1>1 DEF PackSteps
    <2>2. none \in [1..0 -> SUBSET (1..0)]
      OBVIOUS
    <2> HIDE DEF none
    <2>3. Made(<<>>, none, d, reserve, items, 0)
      BY <2>1, <2>2 DEF Made
    <2> QED BY <1>2, <2>1, <2>3 DEF Making
  <1>4. ASSUME NEW k \in 1..Len(items), k - 1 \in T PROVE k \in T
    <2> DEFINE before == f[k - 1]
    <2>0. k \in 0..Len(items) /\ k \in Nat \ {0} /\ k - 1 \in 0..Len(items)
      BY <1>2
    <2>1. before \in Seq(Groups(d)) /\ f[k] = AddTo(d, reserve, before, items[k]) /\ k \in 0..Len(items)
          /\ k \in Nat \ {0} /\ items[k] \in SUBSET (1..Len(d))
      BY <1>1, <1>2, <2>0 DEF PackSteps
    <2>2. PICK parts : Made(before, parts, d, reserve, items, k - 1)
      BY <1>4 DEF Making
    <2> HIDE DEF before
    <2>3. Making(AddTo(d, reserve, before, items[k]), d, reserve, items, k)
      <3>1. CASE Size(d, items[k]) = 0
        <4>1. AddTo(d, reserve, before, items[k]) = before
          BY <3>1 DEF AddTo
        <4>2. Making(before, d, reserve, items, k)
          BY <2>1, <2>2, <3>1, MadeSkip
        <4> QED BY <4>1, <4>2
      <3>2. CASE Size(d, items[k]) # 0 /\ (before = <<>> \/ reserve + Last(before).len + Size(d, items[k]) > SplitThreshold)
        <4>1. AddTo(d, reserve, before, items[k]) = Append(before, GroupOf(d, items[k]))
          BY <3>2 DEF AddTo
        <4>2. Making(Append(before, GroupOf(d, items[k])), d, reserve, items, k)
          BY <2>1, <2>2, MadeOne
        <4> QED BY <4>1, <4>2
      <3>3. CASE Size(d, items[k]) # 0 /\ before # <<>> /\ ~(reserve + Last(before).len + Size(d, items[k]) > SplitThreshold)
        <4>1. AddTo(d, reserve, before, items[k]) = Grown(d, before, items[k])
          BY <3>3 DEF AddTo
        <4>2. Making(Grown(d, before, items[k]), d, reserve, items, k)
          BY <2>1, <2>2, <3>3, MadeMore
        <4> QED BY <4>1, <4>2
      <3> QED BY <3>1, <3>2, <3>3
    <2> QED BY <2>1, <2>3
  <1>5. Len(items) \in T
    <2> HIDE DEF T
    <2> QED BY <1>2, <1>3, <1>4, Onward
  <1> QED BY <1>1, <1>5 DEF PackSteps

-----------------------------------------------------------------------------
(* The parts a table is split into: each repeats the head and has rows of its *)
(* own.                                                                       *)
LEMMA ImageIs ==
    ASSUME NEW I, IsFiniteSet(I), NEW T, NEW f \in [I -> T]
    PROVE  IsFiniteSet({f[i] : i \in I}) /\ Cardinality({f[i] : i \in I}) <= Cardinality(I)
  <1> DEFINE J == {f[i] : i \in I}
  <1>1. f \in Surjection(I, J)
    BY DEF Surjection
  <1> HIDE DEF J
  <1>2. IsFiniteSet(J) /\ Cardinality(J) <= Cardinality(I)
    BY <1>1, FS_Surjection
  <1> QED BY <1>2 DEF J

LEMMA OrderedAll ==
    ASSUME NEW d, Tree(d), NEW S \in SUBSET (1..Len(d))
    PROVE  /\ \A x \in S : \E i \in 1..Len(InOrder(S)) : InOrder(S)[i] = x
           /\ \A i, j \in 1..Len(InOrder(S)) : i < j => InOrder(S)[i] < InOrder(S)[j]
           /\ \A i, j \in 1..Len(InOrder(S)) : i # j => InOrder(S)[i] # InOrder(S)[j]
  <1>1. IsFiniteSet(S) /\ S \subseteq Nat
    <2>1. IsFiniteSet(1..Len(d)) /\ 1..Len(d) \subseteq Nat
      BY FS_Interval DEF Tree
    <2> QED BY <2>1, FS_Subset
  <1> DEFINE s == InOrder(S)
  <1>2. /\ \A x \in S : \E i \in 1..Len(s) : s[i] = x
        /\ \A i, j \in 1..Len(s) : i < j => s[i] < s[j]
    BY <1>1, InOrderIs
  <1>3. Len(s) \in Nat /\ \A i \in 1..Len(s) : s[i] \in Nat
    BY <1>1, Ordered
  <1> HIDE DEF s
  <1>4. \A i, j \in 1..Len(s) : i # j => s[i] # s[j]
    BY <1>2, <1>3
  <1> QED BY <1>2, <1>4 DEF s

Rows(d, table) == InOrder(FindAll(d, table, "tr"))

Header(d, table) == IF HasHeader(d, Rows(d, table)) THEN TextOf(d, Rows(d, table)[1]) ELSE {}

DataRows(d, table) ==
    IF HasHeader(d, Rows(d, table)) THEN FindAll(d, table, "tr") \ {Rows(d, table)[1]} ELSE FindAll(d, table, "tr")

\* The newlines that are counted are one for each data row, or one less.
Newlines(d, table, I) == Cardinality(I) - (IF HasHeader(d, Rows(d, table)) THEN 0 ELSE 1)

PartOf(d, table, texts, I) ==
    /\ I # {} /\ IsFiniteSet(I) /\ I \subseteq DataRows(d, table)
    /\ texts = Header(d, table) \cup UNION {TextOf(d, row) : row \in I}
    /\ Cardinality(I) <= 1 \/ Size(d, texts) + Newlines(d, table, I) <= SplitThreshold

PartsAre(pieces, d, node, k, table, parts) ==
    /\ DOMAIN pieces = 1..Len(pieces) /\ Len(pieces) \in Nat
    /\ \A g \in 1..Len(pieces) : pieces[g] = Piece(node, <<k, g>>, pieces[g].texts) /\ PartOf(d, table, pieces[g].texts, parts[g])
    /\ \A g, h \in 1..Len(pieces) : g # h => parts[g] \cap parts[h] = {}
    /\ \A row \in DataRows(d, table) : Size(d, TextOf(d, row)) # 0 => \E g \in 1..Len(pieces) : row \in parts[g]

\* Rows and what is packed of them: all that are no header.
ItemsAre(items, d, table, shift) ==
    /\ items \in Seq(SUBSET (1..Len(d)))
    /\ shift = IF HasHeader(d, Rows(d, table)) THEN 1 ELSE 0
    /\ \A i \in 1..Len(items) : /\ i + shift \in 1..Len(Rows(d, table)) /\ Rows(d, table)[i + shift] \in DataRows(d, table)
                                /\ items[i] = TextOf(d, Rows(d, table)[i + shift])
    /\ \A row \in DataRows(d, table) : \E i \in 1..Len(items) : row = Rows(d, table)[i + shift]
    /\ \A i, j \in 1..Len(items) : i # j => Rows(d, table)[i + shift] # Rows(d, table)[j + shift]

Texted(d, table) == [r \in DOMAIN Rows(d, table) |-> TextOf(d, Rows(d, table)[r])]

Items(d, table) == IF HasHeader(d, Rows(d, table)) THEN Tail(Texted(d, table)) ELSE Texted(d, table)

LEMMA RowsOf ==
    ASSUME NEW d, Tree(d), NEW table \in 1..Len(d)
    PROVE  /\ Len(Rows(d, table)) \in Nat /\ DOMAIN Rows(d, table) = 1..Len(Rows(d, table))
           /\ \A r \in 1..Len(Rows(d, table)) : /\ Rows(d, table)[r] \in FindAll(d, table, "tr")
                                                /\ Rows(d, table)[r] \in 1..Len(d)
           /\ \A row \in FindAll(d, table, "tr") : \E r \in 1..Len(Rows(d, table)) : Rows(d, table)[r] = row
           /\ \A r, s \in 1..Len(Rows(d, table)) : r # s => Rows(d, table)[r] # Rows(d, table)[s]
           /\ HasHeader(d, Rows(d, table)) => 1 \in 1..Len(Rows(d, table))
           /\ Header(d, table) \in SUBSET (1..Len(d))
  <1> DEFINE rows == Rows(d, table)
             all == FindAll(d, table, "tr")
  <1>1. all \in SUBSET (1..Len(d))
    BY PartsOf
  <1>2. Len(rows) \in Nat /\ DOMAIN rows = 1..Len(rows) /\ rows \in Seq(all) /\ \A r \in 1..Len(rows) : rows[r] \in all
    BY <1>1, Ordered DEF Rows
  <1>3. /\ \A row \in all : \E r \in 1..Len(rows) : rows[r] = row
        /\ \A r, s \in 1..Len(rows) : r # s => rows[r] # rows[s]
    BY <1>1, OrderedAll DEF Rows
  <1>4. HasHeader(d, rows) => 1 \in 1..Len(rows)
    <2>1. HasHeader(d, rows) => rows # <<>>
      BY DEF HasHeader
    <2> HIDE DEF rows, all
    <2> QED BY <1>2, <2>1, EmptySeq
  <1>5. Header(d, table) \in SUBSET (1..Len(d))
    <2>1. HasHeader(d, rows) => rows[1] \in 1..Len(d)
      BY <1>1, <1>2, <1>4
    <2> QED BY <2>1, PartsOf DEF Header
  <1> HIDE DEF all
  <1> QED BY <1>1, <1>2, <1>3, <1>4, <1>5 DEF all

LEMMA ItemsOf ==
    ASSUME NEW d, Tree(d), NEW table \in 1..Len(d)
    PROVE  \E shift \in 0..1 : ItemsAre(Items(d, table), d, table, shift)
  <1> DEFINE rows == Rows(d, table)
             n == Len(rows)
             all == SUBSET (1..Len(d))
             texted == Texted(d, table)
             items == Items(d, table)
             headed == HasHeader(d, Rows(d, table))
             shift == IF headed THEN 1 ELSE 0
             data == DataRows(d, table)
  <1>1. /\ n \in Nat /\ DOMAIN rows = 1..n
        /\ \A r \in 1..n : rows[r] \in FindAll(d, table, "tr") /\ rows[r] \in 1..Len(d)
        /\ \A row \in FindAll(d, table, "tr") : \E r \in 1..n : rows[r] = row
        /\ \A r, s \in 1..n : r # s => rows[r] # rows[s]
        /\ headed => 1 \in 1..n
    BY RowsOf
  <1>2. texted \in [1..n -> all] /\ \A r \in 1..n : texted[r] = TextOf(d, rows[r])
    BY <1>1, PartsOf DEF Texted
  <1>3. data = IF headed THEN FindAll(d, table, "tr") \ {rows[1]} ELSE FindAll(d, table, "tr")
    BY DEF DataRows
  <1>4. items = IF headed THEN Tail(texted) ELSE texted
    BY DEF Items
  <1> HIDE DEF rows, n, all, texted, items, headed, data
  <1>5. texted \in Seq(all) /\ Len(texted) = n
    BY <1>1, <1>2
  <1>6. /\ items \in Seq(all) /\ Len(items) \in Nat /\ Len(items) + shift = n
        /\ \A i \in 1..Len(items) : items[i] = texted[i + shift]
    <2>1. CASE headed
      <3>1. texted # <<>>
        BY <1>1, <1>5, <2>1
      <3>2. Tail(texted) \in Seq(all) /\ Len(Tail(texted)) = n - 1 /\ \A i \in 1..Len(Tail(texted)) : Tail(texted)[i] = texted[i + 1]
        BY <1>5, <3>1, HeadTailProperties
      <3> QED BY <1>1, <1>4, <2>1, <3>2
    <2>2. CASE ~headed
      BY <1>1, <1>4, <1>5, <2>2
    <2> QED BY <2>1, <2>2
  <1>7. \A i \in 1..Len(items) : i + shift \in 1..n /\ (headed => i + shift # 1)
    BY <1>1, <1>6
  <1>8. \A i \in 1..Len(items) : i + shift \in 1..n /\ rows[i + shift] \in data /\ items[i] = TextOf(d, rows[i + shift])
    BY <1>1, <1>2, <1>3, <1>6, <1>7
  <1>9. \A row \in data : \E i \in 1..Len(items) : row = rows[i + shift]
    <2> TAKE row \in data
    <2>1. PICK r \in 1..n : rows[r] = row
      BY <1>1, <1>3
    <2>2. headed => r # 1
      BY <1>3, <2>1
    <2>3. r - shift \in 1..Len(items) /\ (r - shift) + shift = r
      BY <1>1, <1>6, <2>2
    <2> QED BY <2>1, <2>3
  <1>10. \A i, j \in 1..Len(items) : i # j => rows[i + shift] # rows[j + shift]
    BY <1>1, <1>6, <1>7
  <1> HIDE DEF shift
  <1>11. ItemsAre(items, d, table, shift)
    BY <1>6, <1>8, <1>9, <1>10 DEF ItemsAre, rows, n, all, headed, data, shift
  <1> QED BY <1>11 DEF items, shift

Reserve(d, table) == IF HasHeader(d, Rows(d, table)) THEN Size(d, Header(d, table)) + 2 ELSE 1

TableGroups(d, table) == Packed(d, Items(d, table), Reserve(d, table))

LEMMA TablePiecesAre ==
    ASSUME NEW d, NEW node, NEW k, NEW table, ~(Size(d, TextOf(d, table)) <= SplitThreshold)
    PROVE  TablePieces(d, node, k, table) =
               [g \in DOMAIN TableGroups(d, table) |->
                    Piece(node, <<k, g>>, Header(d, table) \cup TableGroups(d, table)[g].texts)]
  BY DEF TablePieces, TableGroups, Reserve, Items, Texted, Header, Rows

\* A group of items as the rows it is made of.
LEMMA GroupIsPart ==
    ASSUME NEW d, Measured(d), NEW table \in 1..Len(d), NEW shift \in 0..1, NEW items, ItemsAre(items, d, table, shift),
           NEW group \in Groups(d), NEW I \in SUBSET (1..Len(items)),
           Together(group, I, d, Reserve(d, table), items)
    PROVE  PartOf(d, table, Header(d, table) \cup group.texts, {Rows(d, table)[i + shift] : i \in I})
  <1> DEFINE rows == Rows(d, table)
             f == [i \in I |-> rows[i + shift]]
             J == {rows[i + shift] : i \in I}
             header == Header(d, table)
             texts == header \cup group.texts
             headed == HasHeader(d, Rows(d, table))
  <1>1. I # {} /\ IsFiniteSet(I) /\ \A i \in I : i \in 1..Len(items)
    BY DEF Together
  <1>2. J = {f[i] : i \in I}
    OBVIOUS
  <1>3. \A i \in I : rows[i + shift] \in DataRows(d, table) /\ items[i] = TextOf(d, rows[i + shift])
    BY <1>1 DEF ItemsAre
  <1>4. J \subseteq DataRows(d, table) /\ J # {}
    BY <1>1, <1>3
  <1>5. IsFiniteSet(J) /\ Cardinality(J) <= Cardinality(I)
    <2>1. f \in [I -> DataRows(d, table)]
      BY <1>3
    <2> HIDE DEF f, J
    <2>2. IsFiniteSet({f[i] : i \in I}) /\ Cardinality({f[i] : i \in I}) <= Cardinality(I)
      BY <1>1, <2>1, ImageIs
    <2> QED BY <1>2, <2>2
  <1>6. group.texts = UNION {TextOf(d, row) : row \in J}
    <2>1. group.texts = UNION {items[i] : i \in I}
      BY DEF Together
    <2>2. {items[i] : i \in I} = {TextOf(d, row) : row \in J}
      BY <1>3
    <2> QED BY <2>1, <2>2
  <1>7. Cardinality(J) <= 1 \/ Size(d, texts) + Newlines(d, table, J) <= SplitThreshold
    <2> DEFINE old == Size(d, group.texts)
               whole == Size(d, texts)
               head == Size(d, header)
               m == Cardinality(I)
               n == Cardinality(J)
               len == group.len
               reserve == Reserve(d, table)
    <2>1. header \in SUBSET (1..Len(d)) /\ group.texts \in SUBSET (1..Len(d)) /\ len \in Nat
      <3>1. Tree(d)
        BY DEF Measured
      <3> QED BY <3>1, RowsOf DEF Groups
    <2>2. old \in Nat /\ whole \in Nat /\ head \in Nat /\ whole <= head + old
      <3>1. texts \in SUBSET (1..Len(d))
        BY <2>1
      <3> QED BY <2>1, <3>1, PartSize, SizeOfBoth
    <2>3. m \in Nat /\ n \in Nat /\ n <= m
      BY <1>1, <1>5, FS_CardinalityType
    <2>4. old + m <= len + 1 /\ (m = 1 \/ reserve + len <= SplitThreshold + 1)
      BY DEF Together
    <2>5. reserve = IF headed THEN head + 2 ELSE 1
      BY DEF Reserve
    <2>6. ~headed => head = 0
      <3>1. ~headed => header = {}
        BY DEF Header
      <3>2. {} \in SUBSET (1..Len(d))
        OBVIOUS
      <3>3. Size(d, {}) = 0
        BY SizeStep, FS_EmptySet
      <3> QED BY <3>1, <3>3
    <2>7. Newlines(d, table, J) = n - (IF headed THEN 0 ELSE 1)
      BY DEF Newlines
    <2>8. SplitThreshold \in Nat
      BY ThresholdsAssumption
    <2> HIDE DEF old, whole, head, m, n, len, reserve, headed
    <2>9. n <= 1 \/ whole + (n - (IF headed THEN 0 ELSE 1)) <= SplitThreshold
      <3>1. CASE headed
        BY <2>1, <2>2, <2>3, <2>4, <2>5, <2>8, <3>1
      <3>2. CASE ~headed
        BY <2>1, <2>2, <2>3, <2>4, <2>5, <2>6, <2>8, <3>2
      <3> QED BY <3>1, <3>2
    <2>10. n <= 1 \/ whole + Newlines(d, table, J) <= SplitThreshold
      BY <2>7, <2>9
    <2> QED BY <2>10 DEF n, whole
  <1>8. texts = Header(d, table) \cup UNION {TextOf(d, row) : row \in J}
    BY <1>6
  <1> HIDE DEF J, texts
  <1>9. PartOf(d, table, texts, J)
    BY <1>4, <1>5, <1>7, <1>8 DEF PartOf
  <1> QED BY <1>9 DEF J, texts

LEMMA TablePartsAre ==
    ASSUME NEW d, Measured(d), NEW node, NEW k, NEW table \in 1..Len(d), ~(Size(d, TextOf(d, table)) <= SplitThreshold)
    PROVE  \E parts : PartsAre(TablePieces(d, node, k, table), d, node, k, table, parts)
  <1> DEFINE items == Items(d, table)
             reserve == Reserve(d, table)
             groups == TableGroups(d, table)
             rows == Rows(d, table)
             pieces == TablePieces(d, node, k, table)
             header == Header(d, table)
  <1>0. Tree(d)
    BY DEF Measured
  <1>1. PICK shift \in 0..1 : ItemsAre(items, d, table, shift)
    BY <1>0, ItemsOf
  <1>2. items \in Seq(SUBSET (1..Len(d))) /\ Len(items) \in Nat
    BY <1>1 DEF ItemsAre
  <1>3. reserve \in Nat
    <2>1. Size(d, header) \in Nat
      BY <1>0, RowsOf, PartSize
    <2> QED BY <2>1 DEF Reserve
  <1>4. groups \in Seq(Groups(d)) /\ Making(groups, d, reserve, items, Len(items))
    <2> HIDE DEF items, reserve
    <2>1. Packed(d, items, reserve) \in Seq(Groups(d)) /\ Making(Packed(d, items, reserve), d, reserve, items, Len(items))
      BY <1>2, <1>3, PackedIs, PackedMade
    <2> QED BY <2>1 DEF TableGroups, items, reserve
  <1> DEFINE n == Len(groups)
  <1>5. pieces = [g \in DOMAIN groups |-> Piece(node, <<k, g>>, header \cup groups[g].texts)]
    BY TablePiecesAre
  <1> HIDE DEF groups, pieces, items, reserve
  <1>6. n \in Nat /\ DOMAIN groups = 1..n /\ \A g \in 1..n : groups[g] \in Groups(d)
    BY <1>4
  <1>7. PICK made : Made(groups, made, d, reserve, items, Len(items))
    BY <1>4 DEF Making
  <1>8. /\ \A g \in 1..n : made[g] \in SUBSET (1..Len(items)) /\ Together(groups[g], made[g], d, reserve, items)
        /\ \A g, h \in 1..n : g # h => made[g] \cap made[h] = {}
        /\ \A i \in 1..Len(items) : Size(d, items[i]) # 0 => \E g \in 1..n : i \in made[g]
    BY <1>7 DEF Made
  <1>9. /\ \A i \in 1..Len(items) : items[i] = TextOf(d, rows[i + shift])
        /\ \A row \in DataRows(d, table) : \E i \in 1..Len(items) : row = rows[i + shift]
        /\ \A i, j \in 1..Len(items) : i # j => rows[i + shift] # rows[j + shift]
    BY <1>1 DEF ItemsAre
  <1> DEFINE parts == [g \in 1..n |-> {rows[i + shift] : i \in made[g]}]
  <1>10. DOMAIN pieces = 1..n /\ pieces \in Seq({pieces[g] : g \in 1..n}) /\ Len(pieces) = n
    <2>1. DOMAIN pieces = 1..n /\ pieces = [g \in 1..n |-> pieces[g]]
      BY <1>5, <1>6
    <2> DEFINE V == {pieces[g] : g \in 1..n}
    <2>2. pieces \in [1..n -> V]
      <3>1. \A g \in 1..n : pieces[g] \in V
        OBVIOUS
      <3> HIDE DEF V
      <3> QED BY <2>1, <3>1
    <2> HIDE DEF n, V
    <2>3. pieces \in Seq(V)
      BY <1>6, <2>2, IsSequence
    <2> QED BY <1>6, <2>1, <2>3 DEF V
  <1>11. \A g \in 1..n : pieces[g] = Piece(node, <<k, g>>, pieces[g].texts) /\ PartOf(d, table, pieces[g].texts, parts[g])
    <2> TAKE g \in 1..n
    <2>1. pieces[g] = Piece(node, <<k, g>>, header \cup groups[g].texts)
      BY <1>5, <1>6
    <2>2. pieces[g].texts = header \cup groups[g].texts
      BY <2>1 DEF Piece
    <2>3. parts[g] = {rows[i + shift] : i \in made[g]}
      OBVIOUS
    <2> DEFINE group == groups[g]
               I == made[g]
    <2>4. group \in Groups(d) /\ I \in SUBSET (1..Len(items)) /\ Together(group, I, d, Reserve(d, table), items)
      BY <1>6, <1>8 DEF reserve
    <2> HIDE DEF group, I, parts
    <2>5. PartOf(d, table, Header(d, table) \cup group.texts, {Rows(d, table)[i + shift] : i \in I})
      BY <1>1, <2>4, GroupIsPart
    <2>6. PartOf(d, table, pieces[g].texts, parts[g])
      BY <2>2, <2>3, <2>5 DEF group, I
    <2> QED BY <2>1, <2>2, <2>6
  <1>12. \A g, h \in 1..n : g # h => parts[g] \cap parts[h] = {}
    <2> SUFFICES ASSUME NEW g \in 1..n, NEW h \in 1..n, g # h, NEW x, x \in parts[g], x \in parts[h] PROVE FALSE
      OBVIOUS
    <2>1. PICK i \in made[g], j \in made[h] : x = rows[i + shift] /\ x = rows[j + shift]
      OBVIOUS
    <2>2. i \in 1..Len(items) /\ j \in 1..Len(items) /\ i # j
      BY <1>8
    <2> HIDE DEF rows
    <2> QED BY <1>9, <2>1, <2>2
  <1>13. \A row \in DataRows(d, table) : Size(d, TextOf(d, row)) # 0 => \E g \in 1..n : row \in parts[g]
    <2> SUFFICES ASSUME NEW row \in DataRows(d, table), Size(d, TextOf(d, row)) # 0 PROVE \E g \in 1..n : row \in parts[g]
      OBVIOUS
    <2>1. PICK i \in 1..Len(items) : row = rows[i + shift]
      BY <1>9
    <2>2. Size(d, items[i]) # 0
      BY <1>9, <2>1
    <2>3. PICK g \in 1..n : i \in made[g]
      BY <1>8, <2>2
    <2> QED BY <2>1, <2>3
  <1> HIDE DEF parts
  <1>14. PartsAre(pieces, d, node, k, table, parts)
    BY <1>6, <1>10, <1>11, <1>12, <1>13 DEF PartsAre
  <1> QED BY <1>14 DEF pieces

-----------------------------------------------------------------------------
(* The roots: the act, or bodies of components, each once.                    *)
Different == {pair \in (1..Len(doc)) \X (1..Len(doc)) : pair[1] # pair[2]}

RootOf(r) ==
    /\ r \in 1..Len(doc) /\ Body(doc, r) # NoNode
    /\ Roots(doc) = <<1>> \/ (doc[r].parent \in 1..Len(doc) /\ doc[doc[r].parent].tag = "component")

LEMMA RootsAre ==
    ASSUME DocInv
    PROVE  /\ Roots(doc) \in Seq(1..Len(doc)) /\ Apart(Roots(doc), Different)
           /\ \A r \in Range(Roots(doc)) : RootOf(r)
  <1> DEFINE N == 1..Len(doc)
             cs == InOrder(FindAll(doc, 1, "component"))
             inner == ComponentDocs(doc)
             of(n) == IF IsEmptyStub(doc, inner[n]) THEN <<>> ELSE <<inner[n]>>
             ss == [n \in DOMAIN inner |-> of(n)]
  <1>0. Tree(doc) /\ 1 \in N /\ Len(doc) \in Nat
    BY DocIsTree, WholeTree
  <1>1. CASE ClassifyPattern(doc, 1) # "NoBody"
    <2>1. Roots(doc) = <<1>>
      BY <1>1 DEF Roots
    <2>2. Body(doc, 1) # NoNode
      BY <1>1 DEF ClassifyPattern
    <2>3. Range(<<1>>) = {1} /\ Apart(<<1>>, Different)
      BY DEF Range, Apart
    <2>4. RootOf(1)
      BY <1>0, <2>1, <2>2 DEF RootOf
    <2> QED BY <1>0, <2>1, <2>3, <2>4
  <1>2. CASE ~(ClassifyPattern(doc, 1) # "NoBody")
    <2>1. Roots(doc) = FlattenSeq(ss)
      BY <1>2 DEF Roots
    <2>2. /\ Len(cs) \in Nat /\ DOMAIN cs = 1..Len(cs)
          /\ \A k \in 1..Len(cs) : cs[k] \in FindAll(doc, 1, "component") /\ cs[k] \in N
          /\ \A j, k \in 1..Len(cs) : j # k => cs[j] # cs[k]
      <3>1. FindAll(doc, 1, "component") \in SUBSET N
        BY <1>0, PartsOf
      <3> QED BY <1>0, <3>1, Ordered, OrderedAll
    <2>3. DOMAIN inner = 1..Len(cs) /\ \A k \in 1..Len(cs) : inner[k] = FindChild(doc, cs[k], "doc")
      BY <2>2 DEF ComponentDocs
    <2> DEFINE m == Len(cs)
    <2>4. ASSUME NEW k \in 1..m, ~IsEmptyStub(doc, inner[k])
          PROVE  /\ inner[k] \in N /\ Body(doc, inner[k]) # NoNode
                 /\ doc[inner[k]].parent = cs[k] /\ doc[cs[k]].tag = "component" /\ cs[k] \in N
      <3> DEFINE x == inner[k]
      <3>1. x # NoNode /\ FindChild(doc, x, "mainBody") # NoNode
        BY <2>4 DEF IsEmptyStub
      <3>2. x = FindChild(doc, cs[k], "doc") /\ cs[k] \in N /\ cs[k] \in FindAll(doc, 1, "component")
        BY <2>2, <2>3
      <3> HIDE DEF x, cs
      <3>3. x \in Subtree(doc, cs[k]) /\ doc[x].parent = cs[k]
        BY <1>0, <3>1, <3>2, ChildIs
      <3>4. x \in N
        BY <1>0, <3>2, <3>3, SubtreeBounds
      <3>5. Body(doc, x) # NoNode
        BY <3>1 DEF Body
      <3>6. doc[cs[k]].tag = "component"
        BY <3>2 DEF FindAll
      <3> QED BY <3>2, <3>3, <3>4, <3>5, <3>6 DEF x
    <2> HIDE DEF cs, inner
    <2>5. \A k \in 1..m : of(k) \in Seq(N) /\ Apart(of(k), Different)
          /\ \A r \in Range(of(k)) : ~IsEmptyStub(doc, inner[k]) /\ r = inner[k]
      <3> TAKE k \in 1..m
      <3>1. CASE IsEmptyStub(doc, inner[k])
        <4>1. of(k) = <<>> /\ <<>> \in Seq(N) /\ Apart(<<>>, Different) /\ Range(<<>>) = {}
          BY <3>1, EmptySeq DEF Apart, Range
        <4> HIDE DEF of
        <4> QED BY <4>1
      <3>2. CASE ~IsEmptyStub(doc, inner[k])
        <4>1. of(k) = <<inner[k]>> /\ inner[k] \in N
          BY <2>4, <3>2
        <4>2. \A x \in N : <<x>> \in Seq(N) /\ Apart(<<x>>, Different) /\ Range(<<x>>) = {x}
          BY DEF Apart, Range
        <4> HIDE DEF of
        <4> QED BY <3>2, <4>1, <4>2
      <3> QED BY <3>1, <3>2
    <2> HIDE DEF of
    <2>6. ss \in Seq(Seq(N)) /\ Len(ss) = m /\ \A k \in 1..m : ss[k] = of(k)
      <3>1. ss \in [1..m -> Seq(N)] /\ \A k \in 1..m : ss[k] = of(k)
        BY <2>3, <2>5
      <3> HIDE DEF ss, m
      <3>2. ss \in Seq(Seq(N)) /\ Len(ss) = m
        <4> DEFINE V == Seq(N)
        <4>1. ss \in [1..m -> V] /\ m \in Nat
          BY <2>2, <3>1 DEF m
        <4> HIDE DEF V
        <4>2. ss \in Seq(V) /\ Len(ss) = m
          BY <4>1
        <4> QED BY <4>2 DEF V
      <3> QED BY <3>1, <3>2
    <2> HIDE DEF ss
    <2>7. \A j, k \in 1..Len(ss) : j < k => \A x \in Range(ss[j]), y \in Range(ss[k]) : <<x, y>> \in Different
      <3> SUFFICES ASSUME NEW j \in 1..m, NEW k \in 1..m, j < k, NEW x \in Range(of(j)), NEW y \in Range(of(k))
                   PROVE  <<x, y>> \in Different
        BY <2>6
      <3>1. /\ x = inner[j] /\ x \in N /\ doc[x].parent = cs[j]
            /\ y = inner[k] /\ y \in N /\ doc[y].parent = cs[k]
        BY <2>4, <2>5
      <3>2. cs[j] # cs[k]
        BY <2>2
      <3> QED BY <3>1, <3>2 DEF Different
    <2>8. Apart(FlattenSeq(ss), Different) /\ FlattenSeq(ss) \in Seq(N)
      <3> HIDE DEF N, m
      <3>1. \A k \in 1..Len(ss) : Apart(ss[k], Different)
        BY <2>5, <2>6
      <3> QED BY <2>6, <2>7, <3>1, FlattenApart, FlattenTyped
    <2>9. \A r \in Range(FlattenSeq(ss)) : RootOf(r)
      <3> TAKE r \in Range(FlattenSeq(ss))
      <3>1. PICK k \in 1..Len(ss) : r \in Range(ss[k])
        BY <2>6, FlattenRange
      <3>2. k \in 1..m /\ r \in Range(of(k))
        BY <2>6, <3>1
      <3>3. ~IsEmptyStub(doc, inner[k]) /\ r = inner[k]
        BY <2>5, <3>2
      <3> QED BY <2>4, <3>2, <3>3 DEF RootOf
    <2> QED BY <2>1, <2>8, <2>9
  <1> QED BY <1>1, <1>2

-----------------------------------------------------------------------------
(* Each chunk is one of a root, made of one of its pieces.                    *)
Cut == PieceSet(doc, Nat)

AnyChunk == UNION {ChunksOf(doc, r, Cut) : r \in 1..Len(doc)}

Lists == [n \in DOMAIN Roots(doc) |-> Pushed(doc, Roots(doc)[n], BodyPieces(doc, Roots(doc)[n]))]

LEMMA PiecesOfRoot ==
    ASSUME DocInv, NEW r \in 1..Len(doc), Body(doc, r) # NoNode
    PROVE  BodyPieces(doc, r) \in Seq(Cut) /\ Pushed(doc, r, BodyPieces(doc, r)) \in Seq(AnyChunk)
  <1> DEFINE W == {NoNode} \cup Subtree(doc, Body(doc, r))
             P == PieceSet(doc, W)
             pieces == BodyPieces(doc, r)
             pushed == Pushed(doc, r, pieces)
             C == ChunksOf(doc, r, Cut)
  <1>0. Measured(doc) /\ Tree(doc) /\ Len(doc) \in Nat
    BY DocIsTree, DocIsMeasured, WholeTree
  <1>1. pieces \in Seq(P)
    BY <1>0, BodyPiecesTyped
  <1>2. W \subseteq Nat
    <2>1. Body(doc, r) \in 1..Len(doc)
      BY <1>0, BodyOf
    <2>2. \A n \in Subtree(doc, Body(doc, r)) : n \in Nat
      BY <1>0, <2>1, SubtreeBounds
    <2> QED BY <2>2 DEF NoNode
  <1>3. P \subseteq Cut
    BY <1>2 DEF PieceSet, Cut
  <1> HIDE DEF pieces, P, W
  <1>4. pieces \in Seq(Cut)
    BY <1>1, <1>3
  <1>5. pushed \in Seq(C)
    BY <1>4, PushedIs
  <1>6. C \subseteq AnyChunk
    BY DEF AnyChunk
  <1> HIDE DEF pushed, C
  <1>7. pushed \in Seq(AnyChunk)
    BY <1>5, <1>6
  <1> QED BY <1>4, <1>7 DEF pieces, pushed

LEMMA ListsAre ==
    ASSUME DocInv
    PROVE  /\ Lists \in Seq(Seq(AnyChunk)) /\ Len(Lists) = Len(Roots(doc)) /\ Len(Roots(doc)) \in Nat
           /\ \A k \in 1..Len(Roots(doc)) :
                 /\ Lists[k] = Pushed(doc, Roots(doc)[k], BodyPieces(doc, Roots(doc)[k]))
                 /\ Roots(doc)[k] \in Range(Roots(doc)) /\ RootOf(Roots(doc)[k])
                 /\ BodyPieces(doc, Roots(doc)[k]) \in Seq(Cut)
  <1> DEFINE roots == Roots(doc)
             m == Len(roots)
             V == Seq(AnyChunk)
  <1>1. roots \in Seq(1..Len(doc)) /\ \A r \in Range(roots) : RootOf(r)
    BY RootsAre
  <1> HIDE DEF roots
  <1>2. m \in Nat /\ DOMAIN roots = 1..m /\ \A k \in 1..m : roots[k] \in 1..Len(doc)
    BY <1>1
  <1>3. \A k \in 1..m : roots[k] \in Range(roots) /\ RootOf(roots[k])
    BY <1>1, <1>2 DEF Range
  <1>4. \A k \in 1..m : BodyPieces(doc, roots[k]) \in Seq(Cut) /\ Pushed(doc, roots[k], BodyPieces(doc, roots[k])) \in V
    BY <1>2, <1>3, PiecesOfRoot DEF RootOf
  <1>5. Lists = [k \in 1..m |-> Pushed(doc, roots[k], BodyPieces(doc, roots[k]))]
    BY <1>2 DEF Lists, roots
  <1> HIDE DEF V, m
  <1>6. Lists \in [1..m -> V] /\ \A k \in 1..m : Lists[k] = Pushed(doc, roots[k], BodyPieces(doc, roots[k]))
    BY <1>4, <1>5
  <1>7. Lists \in Seq(V) /\ Len(Lists) = m
    BY <1>2, <1>6
  <1> QED BY <1>2, <1>3, <1>4, <1>6, <1>7 DEF V, m, roots

LEMMA ChunkDocumentIs ==
    ASSUME DocInv
    PROVE  /\ ChunkDocument(doc).ok => /\ ChunkDocument(doc).chunks = FlattenSeq(Lists)
                                       /\ \A r \in Range(Roots(doc)) : EliWork(doc, r) # None
           /\ ~ChunkDocument(doc).ok => ChunkDocument(doc).chunks = <<>>
  <1>1. CASE \E r \in {1} \cup Range(Roots(doc)) : EliWork(doc, r) = None
    <2>1. ChunkDocument(doc) = [ok |-> FALSE, chunks |-> <<>>]
      BY <1>1 DEF ChunkDocument
    <2> QED BY <2>1
  <1>2. CASE ~(\E r \in {1} \cup Range(Roots(doc)) : EliWork(doc, r) = None)
    <2>1. ChunkDocument(doc) = [ok |-> TRUE, chunks |-> FlattenSeq(Lists)]
      BY <1>2 DEF ChunkDocument, Lists
    <2>2. ChunkDocument(doc).ok = TRUE /\ ChunkDocument(doc).chunks = FlattenSeq(Lists)
      <3>1. \A b, s : [ok |-> b, chunks |-> s].ok = b /\ [ok |-> b, chunks |-> s].chunks = s
        OBVIOUS
      <3> QED BY <2>1, <3>1, Zenon
    <2>3. \A r \in Range(Roots(doc)) : EliWork(doc, r) # None
      BY <1>2
    <2> QED BY <2>2, <2>3, Zenon
  <1> QED BY <1>1, <1>2

LEMMA ChunkFrom ==
    ASSUME DocInv, NEW c \in Range(ChunkDocument(doc).chunks)
    PROVE  /\ ChunkDocument(doc).ok
           /\ \E r \in Range(Roots(doc)) : \E p \in Range(BodyPieces(doc, r)), i \in Nat :
                  c = ChunkOf(doc, r, p, i) /\ RootOf(r) /\ EliWork(doc, r) # None
  <1>1. ChunkDocument(doc).ok
    <2>1. Range(<<>>) = {}
      BY DEF Range
    <2> QED BY <2>1, ChunkDocumentIs
  <1>2. c \in Range(FlattenSeq(Lists))
    BY <1>1, ChunkDocumentIs
  <1>3. PICK k \in 1..Len(Lists) : c \in Range(Lists[k])
    BY <1>2, ListsAre, FlattenRange
  <1> DEFINE r == Roots(doc)[k]
             pieces == BodyPieces(doc, r)
             cs == Pushed(doc, r, pieces)
  <1>4. Lists[k] = cs /\ r \in Range(Roots(doc)) /\ RootOf(r) /\ pieces \in Seq(Cut)
    BY ListsAre
  <1> HIDE DEF r, pieces
  <1>5. cs \in Seq(ChunksOf(doc, r, Cut)) /\ Holding(cs, doc, r, pieces, Len(pieces))
    BY <1>4, PushedIs, PushedHolds
  <1> HIDE DEF cs
  <1>6. PICK m \in 1..Len(cs) : c = cs[m]
    <2>1. DOMAIN cs = 1..Len(cs)
      BY <1>5
    <2> QED BY <1>3, <1>4, <2>1 DEF Range
  <1>7. PICK i \in 1..Len(pieces) : cs[m] = ChunkOf(doc, r, pieces[i], m - 1)
    BY <1>5 DEF Holding
  <1>8. pieces[i] \in Range(pieces) /\ m - 1 \in Nat
    <2>1. DOMAIN pieces = 1..Len(pieces) /\ Len(cs) \in Nat
      BY <1>4, <1>5
    <2> QED BY <2>1 DEF Range
  <1>9. EliWork(doc, r) # None
    BY <1>1, <1>4, ChunkDocumentIs
  <1> QED BY <1>1, <1>4, <1>6, <1>7, <1>8, <1>9 DEF pieces

-----------------------------------------------------------------------------
(* What a node is cut into: all of it, or what is outside of its tables and   *)
(* the tables, whole or in parts.                                             *)
CutFrom(node, p) ==
    /\ p.node = node
    /\ \/ p.suffix = <<>> /\ p.texts \in {TextOf(doc, node), TextWithoutTables(doc, node)}
       \/ \E table \in FindAll(doc, node, "table") : \E k :
             \/ p.suffix = <<k>> /\ p.texts = TextOf(doc, table)
             \/ \E g, I : p.suffix = <<k, g>> /\ PartOf(doc, table, p.texts, I)

Tables(node) == InOrder(FindAll(doc, node, "table"))

TableLists(node) == [k \in DOMAIN Tables(node) |-> TablePieces(doc, node, k, Tables(node)[k])]

LEMMA TablesOf ==
    ASSUME DocInv, NEW node \in 1..Len(doc)
    PROVE  /\ TableLists(node) \in Seq(Seq(Cut)) /\ Len(TableLists(node)) = Len(Tables(node))
           /\ Len(Tables(node)) \in Nat
           /\ \A k \in 1..Len(Tables(node)) :
                 /\ Tables(node)[k] \in FindAll(doc, node, "table") /\ Tables(node)[k] \in 1..Len(doc)
                 /\ TableLists(node)[k] = TablePieces(doc, node, k, Tables(node)[k])
                 /\ TableLists(node)[k] \in Seq(Cut)
           /\ \A j, k \in 1..Len(Tables(node)) : j # k => Tables(node)[j] # Tables(node)[k]
           /\ \A table \in FindAll(doc, node, "table") : \E k \in 1..Len(Tables(node)) : Tables(node)[k] = table
  <1> DEFINE tables == Tables(node)
             m == Len(tables)
             lists == TableLists(node)
             V == Seq(Cut)
             all == FindAll(doc, node, "table")
  <1>0. Measured(doc) /\ Tree(doc) /\ node \in Nat
    BY DocIsTree, DocIsMeasured
  <1>1. all \in SUBSET (1..Len(doc))
    BY <1>0, PartsOf
  <1>2. /\ m \in Nat /\ DOMAIN tables = 1..m /\ \A k \in 1..m : tables[k] \in all
        /\ \A j, k \in 1..m : j # k => tables[j] # tables[k]
        /\ \A table \in all : \E k \in 1..m : tables[k] = table
    BY <1>0, <1>1, Ordered, OrderedAll DEF Tables
  <1>3. \A k \in 1..m : tables[k] \in 1..Len(doc)
    BY <1>1, <1>2
  <1>4. \A k \in 1..m : TablePieces(doc, node, k, tables[k]) \in V
    <2> TAKE k \in 1..m
    <2>1. k \in Nat /\ tables[k] \in 1..Len(doc)
      BY <1>2, <1>3
    <2> HIDE DEF tables
    <2>2. TablePieces(doc, node, k, tables[k]) \in Seq(PieceSet(doc, Nat))
      BY <1>0, <2>1, TablePiecesTyped
    <2> QED BY <2>2 DEF Cut
  <1>5. lists = [k \in 1..m |-> TablePieces(doc, node, k, tables[k])]
    BY <1>2 DEF TableLists
  <1> HIDE DEF tables, lists, m, V, all
  <1>6. lists \in [1..m -> V] /\ \A k \in 1..m : lists[k] = TablePieces(doc, node, k, tables[k]) /\ lists[k] \in V
    BY <1>4, <1>5
  <1>7. lists \in Seq(V) /\ Len(lists) = m
    BY <1>2, <1>6
  <1> QED BY <1>2, <1>3, <1>6, <1>7 DEF tables, lists, m, V, all

LEMMA TableAwareIs ==
    ASSUME DocInv, NEW node \in 1..Len(doc)
    PROVE  \/ TableAware(doc, node) = << Piece(node, <<>>, TextOf(doc, node)) >>
           \/ /\ ~(Size(doc, TextOf(doc, node)) <= SplitThreshold)
              /\ TableAware(doc, node) = << Piece(node, <<>>, TextWithoutTables(doc, node)) >> \o FlattenSeq(TableLists(node))
  BY DEF TableAware, TableLists, Tables

\* A part of a table in one piece, or in parts that are told apart.
LEMMA TableListsAre ==
    ASSUME DocInv, NEW node \in 1..Len(doc), NEW k \in 1..Len(Tables(node))
    PROVE  \/ TableLists(node)[k] = << Piece(node, <<k>>, TextOf(doc, Tables(node)[k])) >>
           \/ /\ ~(Size(doc, TextOf(doc, Tables(node)[k])) <= SplitThreshold)
              /\ \E parts : PartsAre(TableLists(node)[k], doc, node, k, Tables(node)[k], parts)
  <1> DEFINE table == Tables(node)[k]
  <1>0. Measured(doc) /\ table \in 1..Len(doc) /\ TableLists(node)[k] = TablePieces(doc, node, k, table)
    BY DocIsMeasured, TablesOf
  <1> HIDE DEF table
  <1>1. CASE Size(doc, TextOf(doc, table)) <= SplitThreshold
    <2>1. TablePieces(doc, node, k, table) = << Piece(node, <<k>>, TextOf(doc, table)) >>
      BY <1>1 DEF TablePieces
    <2> QED BY <1>0, <2>1 DEF table
  <1>2. CASE ~(Size(doc, TextOf(doc, table)) <= SplitThreshold)
    <2>1. \E parts : PartsAre(TablePieces(doc, node, k, table), doc, node, k, table, parts)
      BY <1>0, <1>2, TablePartsAre
    <2> QED BY <1>0, <1>2, <2>1 DEF table
  <1> QED BY <1>1, <1>2

LEMMA TableListCut ==
    ASSUME DocInv, NEW node \in 1..Len(doc), NEW k \in 1..Len(Tables(node)), NEW p \in Range(TableLists(node)[k])
    PROVE  /\ p.node = node /\ p.suffix # <<>> /\ p.suffix[1] = k
           /\ \/ p.suffix = <<k>> /\ p.texts = TextOf(doc, Tables(node)[k])
              \/ \E g, I : p.suffix = <<k, g>> /\ PartOf(doc, Tables(node)[k], p.texts, I)
  <1> DEFINE table == Tables(node)[k]
             list == TableLists(node)[k]
  <1>1. CASE list = << Piece(node, <<k>>, TextOf(doc, table)) >>
    <2>1. p = Piece(node, <<k>>, TextOf(doc, table))
      BY <1>1 DEF Range
    <2>2. p.node = node /\ p.suffix = <<k>> /\ p.texts = TextOf(doc, table)
      BY <2>1 DEF Piece
    <2>3. <<k>> # <<>> /\ <<k>>[1] = k
      OBVIOUS
    <2> QED BY <2>2, <2>3
  <1>2. CASE \E parts : PartsAre(list, doc, node, k, table, parts)
    <2>1. PICK parts : PartsAre(list, doc, node, k, table, parts)
      BY <1>2
    <2>2. DOMAIN list = 1..Len(list)
      BY <2>1 DEF PartsAre
    <2>3. PICK g \in 1..Len(list) : p = list[g]
      BY <2>2 DEF Range
    <2> HIDE DEF list, table
    <2>4. list[g] = Piece(node, <<k, g>>, list[g].texts) /\ PartOf(doc, table, list[g].texts, parts[g])
      BY <2>1 DEF PartsAre
    <2>5. p = Piece(node, <<k, g>>, p.texts) /\ PartOf(doc, table, p.texts, parts[g])
      BY <2>3, <2>4
    <2>6. p.node = node /\ p.suffix = <<k, g>>
      <3>1. \A t : Piece(node, <<k, g>>, t).node = node /\ Piece(node, <<k, g>>, t).suffix = <<k, g>>
        BY DEF Piece
      <3> QED BY <2>5, <3>1, Zenon
    <2>7. <<k, g>> # <<>> /\ <<k, g>>[1] = k
      OBVIOUS
    <2> QED BY <2>5, <2>6, <2>7 DEF table
  <1> HIDE DEF list, table
  <1>3. list = << Piece(node, <<k>>, TextOf(doc, table)) >> \/ \E parts : PartsAre(list, doc, node, k, table, parts)
    BY TableListsAre DEF list, table
  <1> QED BY <1>1, <1>2, <1>3

LEMMA TableAwareCut ==
    ASSUME DocInv, NEW node \in 1..Len(doc), NEW p \in Range(TableAware(doc, node))
    PROVE  CutFrom(node, p)
  <1> DEFINE whole == Piece(node, <<>>, TextOf(doc, node))
             bare == Piece(node, <<>>, TextWithoutTables(doc, node))
             lists == TableLists(node)
             aware == TableAware(doc, node)
  <1>1. CutFrom(node, whole)
    BY DEF CutFrom, Piece
  <1>2. CutFrom(node, bare)
    BY DEF CutFrom, Piece
  <1>3. CASE aware = <<whole>>
    <2>1. p = whole
      BY <1>3 DEF Range
    <2> QED BY <1>1, <2>1
  <1>4. CASE aware = <<bare>> \o FlattenSeq(lists)
    <2>1. lists \in Seq(Seq(Cut)) /\ Len(lists) = Len(Tables(node))
      BY TablesOf
    <2>2. bare \in Cut
      <3>1. TextWithoutTables(doc, node) \in SUBSET (1..Len(doc)) /\ node \in Nat /\ <<>> \in Seq(Nat)
        BY DocIsTree, PartsOf, EmptySeq
      <3> QED BY <3>1, PieceTyped DEF Cut
    <2> HIDE DEF bare, lists
    <2>3. <<bare>> \in Seq(Cut) /\ FlattenSeq(lists) \in Seq(Cut)
      BY <2>1, <2>2, FlattenTyped
    <2> DEFINE one == <<bare>>
               flat == FlattenSeq(lists)
    <2>4. Range(one \o flat) = Range(one) \cup Range(flat)
      <3>1. one \in Seq(Cut) /\ flat \in Seq(Cut)
        BY <2>3
      <3> HIDE DEF one, flat
      <3> QED BY <3>1, ConcatRange
    <2>5. Range(<<bare>>) = {bare}
      BY DEF Range
    <2>6. p = bare \/ p \in Range(FlattenSeq(lists))
      BY <1>4, <2>4, <2>5
    <2>7. ASSUME p \in Range(FlattenSeq(lists)) PROVE CutFrom(node, p)
      <3>1. PICK k \in 1..Len(lists) : p \in Range(lists[k])
        BY <2>1, <2>7, FlattenRange
      <3>2. k \in 1..Len(Tables(node)) /\ p \in Range(TableLists(node)[k])
        BY <2>1, <3>1 DEF lists
      <3>3. Tables(node)[k] \in FindAll(doc, node, "table")
        BY <3>2, TablesOf
      <3>4. /\ p.node = node
            /\ \/ p.suffix = <<k>> /\ p.texts = TextOf(doc, Tables(node)[k])
               \/ \E g, I : p.suffix = <<k, g>> /\ PartOf(doc, Tables(node)[k], p.texts, I)
        BY <3>2, TableListCut
      <3> QED BY <3>3, <3>4 DEF CutFrom
    <2> QED BY <1>2, <2>6, <2>7
  <1> HIDE DEF whole, bare, lists, aware
  <1>5. aware = <<whole>> \/ aware = <<bare>> \o FlattenSeq(lists)
    BY TableAwareIs DEF whole, bare, lists, aware
  <1> QED BY <1>3, <1>4, <1>5

-----------------------------------------------------------------------------
(* The nodes that become chunks have no text in common that is not in both of *)
(* two elements of one kind.                                                  *)
Excused(t) == IsHeader(t) \/ InBoth(t)

Separate ==
    {pair \in (1..Len(doc)) \X (1..Len(doc)) :
        pair[1] # pair[2] /\ \A t \in Subtree(doc, pair[1]) \cap Subtree(doc, pair[2]) : Excused(t)}

LEMMA Twice ==
    ASSUME NEW S, IsFiniteSet(S), NEW a \in S, NEW b \in S, a # b
    PROVE  Cardinality(S) > 1
  <1>1. Cardinality({a, b}) = 2 /\ {a, b} \in SUBSET S
    <2>1. IsFiniteSet({a}) /\ Cardinality({a}) = 1
      BY FS_Singleton
    <2>2. Cardinality({a} \cup {b}) = 2
      BY <2>1, FS_AddElement
    <2>3. {a} \cup {b} = {a, b}
      OBVIOUS
    <2> QED BY <2>2, <2>3
  <1>2. Cardinality({a, b}) <= Cardinality(S) /\ Cardinality(S) \in Nat
    BY <1>1, FS_Subset, FS_CardinalityType
  <1> QED BY <1>1, <1>2

LEMMA AncestryFinite ==
    ASSUME DocInv, NEW t \in 1..Len(doc)
    PROVE  IsFiniteSet(Ancestry(doc, t))
  <1>1. Ancestry(doc, t) \in SUBSET (1..Len(doc)) /\ IsFiniteSet(1..Len(doc))
    <2>1. Tree(doc) /\ Len(doc) \in Nat /\ t \in 0..Len(doc)
      BY DocIsTree DEF Tree
    <2> QED BY <2>1, AboveIs, FS_Interval
  <1> QED BY <1>1, FS_Subset

LEMMA InTwo ==
    ASSUME DocInv, NEW tag \in {"article", "mod", "table", "component"}, NEW a \in 1..Len(doc), NEW b \in 1..Len(doc), a # b,
           doc[a].tag = tag, doc[b].tag = tag, NEW t, t \in Subtree(doc, a), t \in Subtree(doc, b)
    PROVE  Excused(t)
  <1> DEFINE S == {x \in Ancestry(doc, t) : doc[x].tag = tag}
  <1>1. Tree(doc) /\ t \in 1..Len(doc) /\ t \in 0..Len(doc)
    BY DocIsTree, SubtreeBounds
  <1>2. a \in S /\ b \in S
    BY <1>1, AboveIs
  <1>3. IsFiniteSet(S)
    BY <1>1, AncestryFinite, FS_Subset
  <1>4. Cardinality(S) > 1
    <2> HIDE DEF S
    <2> QED BY <1>2, <1>3, Twice
  <1> QED BY <1>4 DEF Excused, InBoth

LEMMA OfTwo ==
    ASSUME DocInv, NEW tag \in {"tr", "p"}, NEW a \in 1..Len(doc), NEW b \in 1..Len(doc), a # b,
           doc[a].tag = tag, doc[b].tag = tag, NEW t, t \in TextOf(doc, a), t \in TextOf(doc, b)
    PROVE  Excused(t)
  <1> DEFINE S == {x \in Ancestry(doc, t) : doc[x].tag = tag /\ t \in TextOf(doc, x)}
  <1>1. t \in Subtree(doc, a) /\ t \in Subtree(doc, b)
    BY DEF TextOf, Texts, FindAll
  <1>2. Tree(doc) /\ t \in 1..Len(doc) /\ t \in 0..Len(doc)
    BY <1>1, DocIsTree, SubtreeBounds
  <1>3. a \in S /\ b \in S
    BY <1>1, <1>2, AboveIs
  <1>4. IsFiniteSet(S)
    BY <1>2, AncestryFinite, FS_Subset
  <1>5. Cardinality(S) > 1
    <2> HIDE DEF S
    <2> QED BY <1>3, <1>4, Twice
  <1> QED BY <1>5 DEF Excused, InBoth

LEMMA SiblingsApart ==
    ASSUME DocInv, NEW a \in 1..Len(doc), NEW m \in 1..Len(doc), NEW n \in 1..Len(doc), m < n,
           doc[m].parent = a, doc[n].parent = a, NEW t, t \in Subtree(doc, m), t \in Subtree(doc, n)
    PROVE  FALSE
  <1>1. Tree(doc) /\ a \in Nat /\ m \in Nat /\ n \in Nat
    BY DocIsTree
  <1>2. n \in Subtree(doc, m)
    BY <1>1, Nested
  <1>3. Within(doc, m, n)
    BY <1>1, <1>2, SubtreeIs
  <1>4. doc[n].parent >= m
    BY <1>1, <1>3 DEF Within
  <1>5. m \in 2..Len(doc) \/ a = NoNode
    BY <1>1 DEF Tree, InDocumentOrder
  <1>6. a < m
    BY <1>1, <1>5 DEF Tree, InDocumentOrder, NoNode
  <1> QED BY <1>1, <1>4, <1>6

LEMMA OrderedApart ==
    ASSUME DocInv, NEW S \in SUBSET (1..Len(doc)), NEW R, \A x, y \in S : x < y => <<x, y>> \in R
    PROVE  Apart(InOrder(S), R)
  <1> DEFINE s == InOrder(S)
  <1>1. /\ \A k \in 1..Len(s) : s[k] \in S
        /\ \A i, j \in 1..Len(s) : i < j => s[i] < s[j]
    BY DocIsTree, Ordered, OrderedAll
  <1> HIDE DEF s
  <1>2. Apart(s, R)
    BY <1>1 DEF Apart
  <1> QED BY <1>2 DEF s

LEMMA InOrderRange ==
    ASSUME DocInv, NEW S \in SUBSET (1..Len(doc))
    PROVE  Range(InOrder(S)) = S
  <1> DEFINE s == InOrder(S)
  <1>1. /\ DOMAIN s = 1..Len(s) /\ \A k \in 1..Len(s) : s[k] \in S
        /\ \A x \in S : \E i \in 1..Len(s) : s[i] = x
    BY DocIsTree, Ordered, OrderedAll
  <1> HIDE DEF s
  <1>2. Range(s) = S
    BY <1>1 DEF Range
  <1> QED BY <1>2 DEF s

\* An article, or its paragraphs if it is split.
Divided(a) == IF Split(doc, a) THEN Paragraphs(doc, a) ELSE {a}

SourceOf(r, n) ==
    n \in 1..Len(doc) /\ n \in Subtree(doc, Body(doc, r)) /\ doc[n].tag \in {"article", "paragraph", "level", "mod"}

LEMMA DividedIs ==
    ASSUME DocInv, NEW r \in 1..Len(doc), Body(doc, r) # NoNode, NEW a \in FindAll(doc, Body(doc, r), "article")
    PROVE  /\ Divided(a) \in SUBSET (1..Len(doc)) /\ a \in 1..Len(doc) /\ doc[a].tag = "article"
           /\ \A n \in Divided(a) : SourceOf(r, n) /\ n \in Subtree(doc, a)
           /\ \A m, n \in Divided(a) : m < n => <<m, n>> \in Separate
  <1> DEFINE b == Body(doc, r)
  <1>0. Tree(doc) /\ b \in 1..Len(doc)
    BY DocIsTree, BodyOf
  <1>1. a \in Subtree(doc, b) /\ a \in 1..Len(doc) /\ doc[a].tag = "article"
    BY <1>0, PartsOf DEF FindAll
  <1>2. \A n \in Paragraphs(doc, a) : n \in 1..Len(doc) /\ doc[n].parent = a /\ doc[n].tag = "paragraph"
    BY <1>0 DEF Paragraphs, Children, Elements, Tree
  <1>3. \A n \in Paragraphs(doc, a) : n \in Subtree(doc, a) /\ n \in Subtree(doc, b)
    <2> TAKE n \in Paragraphs(doc, a)
    <2>1. n \in Subtree(doc, a)
      BY <1>0, <1>1, <1>2, BelowParent
    <2> HIDE DEF b
    <2>2. n \in Subtree(doc, b)
      BY <1>0, <1>1, <2>1, Transitive
    <2> QED BY <2>1, <2>2
  <1>4. a \in Subtree(doc, a)
    BY <1>0, <1>1, SubtreeBounds
  <1>5. \A n \in Divided(a) : n \in Subtree(doc, a) /\ SourceOf(r, n)
    BY <1>1, <1>2, <1>3, <1>4 DEF Divided, SourceOf
  <1>6. Divided(a) \in SUBSET (1..Len(doc))
    BY <1>1, <1>2 DEF Divided
  <1>7. ASSUME NEW m \in Divided(a), NEW n \in Divided(a), m < n PROVE <<m, n>> \in Separate
    <2>1. m \in Nat /\ n \in Nat /\ m # n /\ a \in Nat
      BY <1>1, <1>6, <1>7
    <2>2. m \in Paragraphs(doc, a) /\ n \in Paragraphs(doc, a)
      BY <2>1 DEF Divided
    <2>3. \A t : ~(t \in Subtree(doc, m) /\ t \in Subtree(doc, n))
      BY <1>1, <1>2, <1>7, <2>2, SiblingsApart
    <2> QED BY <1>2, <2>1, <2>2, <2>3 DEF Separate
  <1> QED BY <1>1, <1>5, <1>6, <1>7

Articles(r) == InOrder(FindAll(doc, Body(doc, r), "article"))

DividedLists(r) == [n \in DOMAIN Articles(r) |-> InOrder(Divided(Articles(r)[n]))]

LEMMA ArticlesDivided ==
    ASSUME DocInv, NEW r \in 1..Len(doc), Body(doc, r) # NoNode
    PROVE  /\ FlattenSeq(DividedLists(r)) \in Seq(1..Len(doc)) /\ Apart(FlattenSeq(DividedLists(r)), Separate)
           /\ \A n \in Range(FlattenSeq(DividedLists(r))) : SourceOf(r, n)
           /\ \A a \in FindAll(doc, Body(doc, r), "article") : \A n \in Divided(a) : n \in Range(FlattenSeq(DividedLists(r)))
  <1> DEFINE b == Body(doc, r)
             N == 1..Len(doc)
             all == FindAll(doc, b, "article")
             as == Articles(r)
             m == Len(as)
             lists == DividedLists(r)
             flat == FlattenSeq(lists)
  <1>0. Tree(doc) /\ b \in N
    BY DocIsTree, BodyOf
  <1>1. all \in SUBSET N
    BY <1>0, PartsOf
  <1>2. /\ m \in Nat /\ DOMAIN as = 1..m /\ \A k \in 1..m : as[k] \in all
        /\ \A j, k \in 1..m : j # k => as[j] # as[k]
        /\ \A a \in all : \E k \in 1..m : as[k] = a
    BY <1>0, <1>1, Ordered, OrderedAll DEF Articles
  <1>3. \A a \in all : /\ Divided(a) \in SUBSET N /\ a \in N /\ doc[a].tag = "article"
                       /\ \A n \in Divided(a) : SourceOf(r, n) /\ n \in Subtree(doc, a)
                       /\ \A x, y \in Divided(a) : x < y => <<x, y>> \in Separate
    BY DividedIs
  <1>4. \A S \in SUBSET N : InOrder(S) \in Seq(N) /\ Range(InOrder(S)) = S
    <2> TAKE S \in SUBSET N
    <2>1. InOrder(S) \in Seq(S) /\ Range(InOrder(S)) = S
      BY <1>0, Ordered, InOrderRange
    <2> HIDE DEF N
    <2> QED BY <2>1
  <1>5. lists = [k \in 1..m |-> InOrder(Divided(as[k]))]
    BY <1>2 DEF DividedLists
  <1> HIDE DEF N, all, as, m, lists
  <1>6. \A k \in 1..m : lists[k] = InOrder(Divided(as[k])) /\ lists[k] \in Seq(N) /\ Range(lists[k]) = Divided(as[k])
    BY <1>2, <1>3, <1>4, <1>5
  <1>7. lists \in Seq(Seq(N)) /\ Len(lists) = m
    <2> DEFINE V == Seq(N)
    <2>1. \A k \in 1..m : lists[k] \in V
      BY <1>6
    <2>2. lists = [k \in 1..m |-> lists[k]]
      BY <1>5
    <2> HIDE DEF V
    <2>3. lists \in [1..m -> V]
      BY <2>1, <2>2
    <2>4. lists \in Seq(V) /\ Len(lists) = m
      BY <1>2, <2>3
    <2> QED BY <2>4 DEF V
  <1>8. \A k \in 1..Len(lists) : Apart(lists[k], Separate)
    <2> TAKE k \in 1..Len(lists)
    <2> DEFINE S == Divided(as[k])
    <2>1. k \in 1..m
      BY <1>7
    <2>2. S \in SUBSET (1..Len(doc)) /\ \A x, y \in S : x < y => <<x, y>> \in Separate
      BY <1>2, <1>3, <2>1 DEF N
    <2> HIDE DEF S
    <2>3. Apart(InOrder(S), Separate)
      BY <2>2, OrderedApart
    <2> QED BY <1>6, <2>1, <2>3 DEF S
  <1>9. \A j, k \in 1..Len(lists) : j < k => \A x \in Range(lists[j]), y \in Range(lists[k]) : <<x, y>> \in Separate
    <2> SUFFICES ASSUME NEW j \in 1..m, NEW k \in 1..m, j < k, NEW x \in Divided(as[j]), NEW y \in Divided(as[k])
                 PROVE  <<x, y>> \in Separate
      BY <1>6, <1>7
    <2> DEFINE p == as[j]
               q == as[k]
    <2>0. \A i \in 1..m : i \in Nat
      OBVIOUS
    <2>1. p \in all /\ q \in all /\ p # q
      <3>1. j # k
        BY <2>0
      <3> QED BY <1>2, <3>1
    <2>2. /\ x \in N /\ x \in Subtree(doc, p) /\ p \in N /\ doc[p].tag = "article"
          /\ y \in N /\ y \in Subtree(doc, q) /\ q \in N /\ doc[q].tag = "article"
      BY <1>3, <2>1
    <2> HIDE DEF p, q
    <2>3. ASSUME NEW t \in Subtree(doc, x) \cap Subtree(doc, y) PROVE Excused(t)
      <3>1. t \in Subtree(doc, p) /\ t \in Subtree(doc, q)
        BY <1>0, <2>2, <2>3, Transitive DEF N
      <3> QED BY <2>1, <2>2, <3>1, InTwo DEF N
    <2>4. x # y
      <3>1. ASSUME x = y PROVE FALSE
        <4>1. doc[x].tag \in {"article", "paragraph", "level", "mod"}
          BY <1>3, <2>1, <2>2 DEF SourceOf, p
        <4>2. CASE doc[x].tag = "article"
          <5>1. x = p /\ y = q
            <6>1. \A a \in all : \A n \in Divided(a) : doc[n].tag = "article" => n = a
              BY DEF Divided, Paragraphs
            <6> QED BY <2>1, <3>1, <4>2, <6>1 DEF p, q
          <5> QED BY <2>1, <3>1, <5>1
        <4>3. CASE doc[x].tag # "article"
          <5>1. \A a \in all : \A n \in Divided(a) : doc[n].tag # "article" => doc[n].parent = a
            BY <1>3 DEF Divided, Paragraphs, Children
          <5>2. doc[x].parent = p /\ doc[y].parent = q
            BY <2>1, <3>1, <4>3, <5>1 DEF p, q
          <5> QED BY <2>1, <3>1, <5>2
        <4> QED BY <4>2, <4>3
      <3> QED BY <3>1
    <2> QED BY <2>2, <2>3, <2>4 DEF Separate, N
  <1>10. flat \in Seq(N) /\ Apart(flat, Separate)
    BY <1>7, <1>8, <1>9, FlattenApart, FlattenTyped
  <1>11. \A n : n \in Range(flat) <=> \E k \in 1..Len(lists) : n \in Range(lists[k])
    BY <1>7, FlattenRange
  <1>12. \A n \in Range(flat) : SourceOf(r, n)
    <2> TAKE n \in Range(flat)
    <2>1. PICK k \in 1..m : n \in Divided(as[k])
      BY <1>6, <1>7, <1>11
    <2> QED BY <1>2, <1>3, <2>1
  <1>13. \A a \in all : \A n \in Divided(a) : n \in Range(flat)
    <2> TAKE a \in all
    <2> TAKE n \in Divided(a)
    <2>1. PICK k \in 1..m : as[k] = a
      BY <1>2
    <2>2. n \in Range(lists[k]) /\ k \in 1..Len(lists)
      BY <1>6, <1>7, <2>1
    <2> QED BY <1>11, <2>2
  <1> QED BY <1>10, <1>12, <1>13 DEF N, all, lists

LEMMA SourcesAre ==
    ASSUME DocInv, NEW r \in 1..Len(doc), Body(doc, r) # NoNode
    PROVE  /\ Sources(doc, r) \in Seq(1..Len(doc)) /\ Apart(Sources(doc, r), Separate)
           /\ \A n \in Range(Sources(doc, r)) : SourceOf(r, n)
           /\ ClassifyPattern(doc, r) \in {"Structured", "FlatArticles"} =>
                 \A a \in FindAll(doc, Body(doc, r), "article") : \A n \in Divided(a) : n \in Range(Sources(doc, r))
           /\ ClassifyPattern(doc, r) = "LevelBased" => Range(Sources(doc, r)) = LevelLeaves(doc, r)
           /\ ClassifyPattern(doc, r) = "Amendment" => Range(Sources(doc, r)) = FindAll(doc, Body(doc, r), "mod")
  <1> DEFINE b == Body(doc, r)
             N == 1..Len(doc)
             flat == FlattenSeq(DividedLists(r))
             leaves == LevelLeaves(doc, r)
             mods == FindAll(doc, b, "mod")
             pattern == ClassifyPattern(doc, r)
             sources == Sources(doc, r)
  <1>0. Tree(doc) /\ b \in N /\ \A n \in N : n \in Nat
    BY DocIsTree, BodyOf
  <1>1. \A tag : FindAll(doc, b, tag) \in SUBSET N /\ \A n \in FindAll(doc, b, tag) : n \in Subtree(doc, b) /\ doc[n].tag = tag
    BY <1>0, PartsOf DEF FindAll
  <1>2. sources = CASE pattern \in {"Structured", "FlatArticles"} -> flat
                    [] pattern = "LevelBased" -> InOrder(leaves)
                    [] pattern = "Amendment" -> InOrder(mods)
                    [] OTHER -> <<>>
    BY DEF Sources, DividedLists, Articles, Divided
  <1>3. /\ flat \in Seq(N) /\ Apart(flat, Separate) /\ \A n \in Range(flat) : SourceOf(r, n)
        /\ \A a \in FindAll(doc, b, "article") : \A n \in Divided(a) : n \in Range(flat)
    BY ArticlesDivided
  <1>4. /\ leaves \in SUBSET N /\ \A n \in leaves : SourceOf(r, n)
        /\ \A l \in leaves : l \in N /\ doc[l].tag = "level" /\ FindAll(doc, l, "level") = {l}
    BY <1>1 DEF LevelLeaves, SourceOf
  <1>5. \A x, y \in leaves : x < y => <<x, y>> \in Separate
    <2> SUFFICES ASSUME NEW x \in leaves, NEW y \in leaves, x < y PROVE <<x, y>> \in Separate
      OBVIOUS
    <2> HIDE DEF leaves
    <2>1. x \in N /\ y \in N /\ x \in Nat /\ y \in Nat /\ x # y
      BY <1>0, <1>4
    <2>2. ASSUME NEW t, t \in Subtree(doc, x), t \in Subtree(doc, y) PROVE FALSE
      <3>1. y \in Subtree(doc, x)
        BY <1>0, <2>1, <2>2, Nested
      <3>2. y \in FindAll(doc, x, "level")
        BY <1>4, <3>1 DEF FindAll
      <3> QED BY <1>4, <2>1, <3>2
    <2> QED BY <2>1, <2>2 DEF Separate
  <1>6. mods \in SUBSET N /\ \A n \in mods : SourceOf(r, n)
    BY <1>1 DEF SourceOf
  <1>7. \A x, y \in mods : x < y => <<x, y>> \in Separate
    <2> SUFFICES ASSUME NEW x \in mods, NEW y \in mods, x < y PROVE <<x, y>> \in Separate
      OBVIOUS
    <2>1. x \in N /\ y \in N /\ x # y /\ doc[x].tag = "mod" /\ doc[y].tag = "mod"
      BY <1>0, <1>1
    <2>2. \A t \in Subtree(doc, x) \cap Subtree(doc, y) : Excused(t)
      BY <2>1, InTwo
    <2> QED BY <2>1, <2>2 DEF Separate
  <1>8. ASSUME NEW S \in SUBSET N, \A n \in S : SourceOf(r, n), \A x, y \in S : x < y => <<x, y>> \in Separate
        PROVE  /\ InOrder(S) \in Seq(N) /\ Apart(InOrder(S), Separate)
               /\ Range(InOrder(S)) = S /\ \A n \in Range(InOrder(S)) : SourceOf(r, n)
    <2>1. InOrder(S) \in Seq(S) /\ Range(InOrder(S)) = S /\ Apart(InOrder(S), Separate)
      BY <1>0, <1>8, Ordered, InOrderRange, OrderedApart
    <2>2. InOrder(S) \in Seq(N)
      <3> HIDE DEF N
      <3> QED BY <2>1
    <2> QED BY <1>8, <2>1, <2>2
  <1> HIDE DEF b, N, flat, leaves, mods, sources
  <1>9. CASE pattern \in {"Structured", "FlatArticles"}
    <2>1. sources = flat /\ pattern # "LevelBased" /\ pattern # "Amendment"
      BY <1>2, <1>9
    <2> QED BY <1>3, <2>1 DEF b, N, sources
  <1>10. CASE pattern = "LevelBased"
    <2>1. sources = InOrder(leaves) /\ pattern \notin {"Structured", "FlatArticles"} /\ pattern # "Amendment"
      BY <1>2, <1>10
    <2>2. /\ InOrder(leaves) \in Seq(N) /\ Apart(InOrder(leaves), Separate)
          /\ Range(InOrder(leaves)) = leaves /\ \A n \in Range(InOrder(leaves)) : SourceOf(r, n)
      BY <1>4, <1>5, <1>8
    <2> QED BY <2>1, <2>2 DEF leaves, N, sources
  <1>11. CASE pattern = "Amendment"
    <2>1. sources = InOrder(mods) /\ pattern \notin {"Structured", "FlatArticles"} /\ pattern # "LevelBased"
      BY <1>2, <1>11
    <2>2. /\ InOrder(mods) \in Seq(N) /\ Apart(InOrder(mods), Separate)
          /\ Range(InOrder(mods)) = mods /\ \A n \in Range(InOrder(mods)) : SourceOf(r, n)
      BY <1>6, <1>7, <1>8
    <2> QED BY <2>1, <2>2 DEF mods, b, N, sources
  <1>12. CASE pattern \notin {"Structured", "FlatArticles", "LevelBased", "Amendment"}
    <2>1. sources = <<>>
      BY <1>2, <1>12
    <2>2. <<>> \in Seq(N) /\ Apart(<<>>, Separate) /\ Range(<<>>) = {}
      BY EmptySeq DEF Apart, Range
    <2> QED BY <1>12, <2>1, <2>2 DEF N, sources
  <1> QED BY <1>9, <1>10, <1>11, <1>12

-----------------------------------------------------------------------------
(* Pieces are told apart by their nodes and suffixes, and share no text that  *)
(* is not excused.                                                            *)
Unlike ==
    {pair \in Cut \X Cut :
        /\ pair[1].node = pair[2].node /\ pair[1].node # NoNode => pair[1].suffix # pair[2].suffix
        /\ \A t \in pair[1].texts \cap pair[2].texts : Excused(t)}

LEMMA HeaderIs ==
    ASSUME DocInv, NEW table \in 1..Len(doc), doc[table].tag = "table", NEW t \in Header(doc, table)
    PROVE  IsHeader(t)
  <1>1. table \in FindAll(doc, 1, "table")
    BY DocIsTree, WholeTree DEF FindAll
  <1>2. HasHeader(doc, Rows(doc, table)) /\ t \in TextOf(doc, Rows(doc, table)[1])
    BY DEF Header
  <1> QED BY <1>1, <1>2 DEF IsHeader, Rows

LEMMA TextWithin ==
    ASSUME DocInv, NEW i \in 1..Len(doc)
    PROVE  /\ TextOf(doc, i) \subseteq Subtree(doc, i) /\ TextWithoutTables(doc, i) \subseteq TextOf(doc, i)
  BY DEF TextOf, TextWithoutTables, Texts, FindAll

LEMMA PartWithin ==
    ASSUME DocInv, NEW table \in 1..Len(doc), NEW texts, NEW I, PartOf(doc, table, texts, I)
    PROVE  /\ texts \subseteq Subtree(doc, table)
           /\ \A t \in texts : \E row \in FindAll(doc, table, "tr") : t \in TextOf(doc, row)
  <1>0. Tree(doc)
    BY DocIsTree
  <1>1. \A row \in DataRows(doc, table) : row \in FindAll(doc, table, "tr")
    BY DEF DataRows
  <1>2. \A t \in Header(doc, table) : \E row \in FindAll(doc, table, "tr") : t \in TextOf(doc, row)
    <2> TAKE t \in Header(doc, table)
    <2>1. HasHeader(doc, Rows(doc, table)) /\ t \in TextOf(doc, Rows(doc, table)[1])
      BY DEF Header
    <2>2. Rows(doc, table)[1] \in FindAll(doc, table, "tr")
      BY <1>0, <2>1, RowsOf
    <2> QED BY <2>1, <2>2
  <1>3. \A t \in texts : \E row \in FindAll(doc, table, "tr") : t \in TextOf(doc, row)
    BY <1>1, <1>2 DEF PartOf
  <1>4. \A row \in FindAll(doc, table, "tr") : TextOf(doc, row) \subseteq Subtree(doc, table)
    <2> TAKE row \in FindAll(doc, table, "tr")
    <2>1. row \in Subtree(doc, table) /\ row \in 1..Len(doc)
      BY <1>0, PartsOf
    <2>2. \A t \in Subtree(doc, row) : t \in Subtree(doc, table)
      BY <1>0, <2>1, Transitive
    <2> QED BY <2>1, <2>2, TextWithin
  <1> QED BY <1>3, <1>4

LEMMA PartsApart ==
    ASSUME DocInv, NEW node, NEW k, NEW table \in 1..Len(doc), doc[table].tag = "table",
           NEW pieces \in Seq(Cut), NEW parts, PartsAre(pieces, doc, node, k, table, parts)
    PROVE  Apart(pieces, Unlike)
  <1>0. Tree(doc)
    BY DocIsTree
  <1> SUFFICES ASSUME NEW g \in 1..Len(pieces), NEW h \in 1..Len(pieces), g < h
               PROVE  <<pieces[g], pieces[h]>> \in Unlike
    BY DEF Apart
  <1>1. /\ pieces[g] = Piece(node, <<k, g>>, pieces[g].texts) /\ PartOf(doc, table, pieces[g].texts, parts[g])
        /\ pieces[h] = Piece(node, <<k, h>>, pieces[h].texts) /\ PartOf(doc, table, pieces[h].texts, parts[h])
    BY DEF PartsAre
  <1>2. g # h /\ parts[g] \cap parts[h] = {}
    <2>1. g # h
      BY LenProperties
    <2> QED BY <2>1 DEF PartsAre
  <1>3. pieces[g].suffix = <<k, g>> /\ pieces[h].suffix = <<k, h>>
    <2>1. \A s, t : Piece(node, s, t).suffix = s
      BY DEF Piece
    <2> QED BY <1>1, <2>1, Zenon
  <1>4. pieces[g].suffix # pieces[h].suffix
    <2>1. <<k, g>> # <<k, h>>
      BY <1>2
    <2> QED BY <1>3, <2>1
  <1>5. ASSUME NEW t \in pieces[g].texts \cap pieces[h].texts PROVE Excused(t)
    <2>1. CASE t \in Header(doc, table)
      BY <2>1, HeaderIs DEF Excused
    <2>2. CASE t \notin Header(doc, table)
      <3>1. PICK x \in parts[g] : t \in TextOf(doc, x)
        BY <1>1, <1>5, <2>2 DEF PartOf
      <3>2. PICK y \in parts[h] : t \in TextOf(doc, y)
        BY <1>1, <1>5, <2>2 DEF PartOf
      <3>3. x # y
        BY <1>2
      <3>4. x \in FindAll(doc, table, "tr") /\ y \in FindAll(doc, table, "tr")
        BY <1>1 DEF PartOf, DataRows
      <3>5. x \in 1..Len(doc) /\ y \in 1..Len(doc) /\ doc[x].tag = "tr" /\ doc[y].tag = "tr"
        BY <1>0, <3>4, PartsOf DEF FindAll
      <3> QED BY <3>1, <3>2, <3>3, <3>5, OfTwo
    <2> QED BY <2>1, <2>2
  <1>6. pieces[g] \in Cut /\ pieces[h] \in Cut
    BY ElementOfSeq
  <1> QED BY <1>4, <1>5, <1>6 DEF Unlike

LEMMA TableAwareInCut ==
    ASSUME DocInv, NEW node \in 1..Len(doc)
    PROVE  /\ TableAware(doc, node) \in Seq(Cut)
           /\ Piece(node, <<>>, TextOf(doc, node)) \in Cut /\ Piece(node, <<>>, TextWithoutTables(doc, node)) \in Cut
  <1>1. /\ TextOf(doc, node) \in SUBSET (1..Len(doc)) /\ TextWithoutTables(doc, node) \in SUBSET (1..Len(doc))
        /\ node \in Nat /\ <<>> \in Seq(Nat) /\ Measured(doc)
    BY DocIsTree, DocIsMeasured, PartsOf, EmptySeq
  <1>2. TableAware(doc, node) \in Seq(PieceSet(doc, Nat))
    BY <1>1, TableAwareTyped
  <1> QED BY <1>1, <1>2, PieceTyped DEF Cut

\* The parts of one table are unlike, and those of two tables.
LEMMA ListsUnlike ==
    ASSUME DocInv, NEW node \in 1..Len(doc)
    PROVE  Apart(FlattenSeq(TableLists(node)), Unlike)
  <1> DEFINE lists == TableLists(node)
             tables == Tables(node)
             m == Len(lists)
  <1>0. Tree(doc) /\ lists \in Seq(Seq(Cut)) /\ m = Len(tables) /\ m \in Nat
    BY DocIsTree, TablesOf
  <1>1. ASSUME NEW k \in 1..m
        PROVE  /\ k \in 1..Len(tables) /\ lists[k] \in Seq(Cut) /\ tables[k] \in 1..Len(doc)
               /\ doc[tables[k]].tag = "table"
    BY <1>0, TablesOf DEF FindAll
  <1>2. ASSUME NEW k \in 1..m PROVE Apart(lists[k], Unlike)
    <2> DEFINE table == tables[k]
               list == lists[k]
    <2>1. list \in Seq(Cut) /\ table \in 1..Len(doc) /\ doc[table].tag = "table" /\ k \in 1..Len(Tables(node))
      BY <1>1
    <2>2. list = << Piece(node, <<k>>, TextOf(doc, table)) >> \/ \E parts : PartsAre(list, doc, node, k, table, parts)
      BY <2>1, TableListsAre
    <2> HIDE DEF list, table
    <2>3. Apart(list, Unlike)
      <3>1. CASE list = << Piece(node, <<k>>, TextOf(doc, table)) >>
        BY <3>1 DEF Apart
      <3>2. CASE \E parts : PartsAre(list, doc, node, k, table, parts)
        <4>1. PICK parts : PartsAre(list, doc, node, k, table, parts)
          BY <3>2
        <4> QED BY <2>1, <4>1, PartsApart
      <3> QED BY <2>2, <3>1, <3>2
    <2> QED BY <2>3 DEF list
  <1>3. ASSUME NEW k \in 1..m, NEW p \in Range(lists[k])
        PROVE  p.suffix[1] = k /\ p.suffix # <<>> /\ p.texts \subseteq Subtree(doc, tables[k]) /\ p \in Cut
    <2> DEFINE table == tables[k]
    <2>1. k \in 1..Len(Tables(node)) /\ table \in 1..Len(doc) /\ lists[k] \in Seq(Cut)
      BY <1>1
    <2>2. /\ p.suffix # <<>> /\ p.suffix[1] = k
          /\ \/ p.suffix = <<k>> /\ p.texts = TextOf(doc, table)
             \/ \E g, I : p.suffix = <<k, g>> /\ PartOf(doc, table, p.texts, I)
      BY <2>1, TableListCut
    <2>3. p \in Cut
      <3> DEFINE list == lists[k]
      <3>1. list \in Seq(Cut) /\ p \in Range(list)
        BY <1>3, <2>1
      <3> HIDE DEF list
      <3> QED BY <3>1 DEF Range
    <2> HIDE DEF table
    <2>4. p.texts \subseteq Subtree(doc, table)
      BY <2>1, <2>2, TextWithin, PartWithin
    <2> QED BY <2>2, <2>3, <2>4 DEF table
  <1>4. ASSUME NEW j \in 1..m, NEW k \in 1..m, j < k, NEW p \in Range(lists[j]), NEW q \in Range(lists[k])
        PROVE  <<p, q>> \in Unlike
    <2>1. p.suffix[1] = j /\ p.texts \subseteq Subtree(doc, tables[j]) /\ p \in Cut
      BY <1>3
    <2>2. q.suffix[1] = k /\ q.texts \subseteq Subtree(doc, tables[k]) /\ q \in Cut
      BY <1>3
    <2>3. j # k
      BY <1>0, <1>4
    <2>4. tables[j] # tables[k]
      BY <1>0, <2>3, TablesOf
    <2>5. ASSUME NEW t \in p.texts \cap q.texts PROVE Excused(t)
      <3> DEFINE x == tables[j]
                 y == tables[k]
      <3>1. x \in 1..Len(doc) /\ y \in 1..Len(doc) /\ doc[x].tag = "table" /\ doc[y].tag = "table"
        BY <1>1
      <3>2. t \in Subtree(doc, x) /\ t \in Subtree(doc, y) /\ x # y
        BY <2>1, <2>2, <2>4, <2>5
      <3> HIDE DEF x, y
      <3> QED BY <3>1, <3>2, InTwo
    <2>6. p.suffix # q.suffix
      BY <2>1, <2>2, <2>3
    <2> QED BY <2>1, <2>2, <2>5, <2>6 DEF Unlike
  <1> HIDE DEF lists
  <1>5. Apart(FlattenSeq(lists), Unlike)
    BY <1>0, <1>2, <1>4, FlattenApart
  <1> QED BY <1>5 DEF lists

LEMMA OutsideTables ==
    ASSUME DocInv, NEW node \in 1..Len(doc), NEW table \in FindAll(doc, node, "table"), table # node,
           NEW t \in TextWithoutTables(doc, node)
    PROVE  t \notin Subtree(doc, table)
  <1>1. table \in Subtree(doc, node) /\ doc[table].tag = "table" /\ Tree(doc)
    BY DocIsTree DEF FindAll
  <1>2. \A c \in Subtree(doc, node) : c # node /\ t \in Subtree(doc, c) => doc[c].tag \notin {"authorialNote", "foreign", "table"}
    BY <1>1, TextsAre DEF TextWithoutTables
  <1> QED BY <1>1, <1>2

LEMMA TableAwareUnlike ==
    ASSUME DocInv, NEW node \in 1..Len(doc), doc[node].tag # "table"
    PROVE  /\ TableAware(doc, node) \in Seq(Cut) /\ Apart(TableAware(doc, node), Unlike)
           /\ \A p \in Range(TableAware(doc, node)) : p.node = node /\ p.texts \subseteq Subtree(doc, node)
  <1> DEFINE whole == Piece(node, <<>>, TextOf(doc, node))
             bare == Piece(node, <<>>, TextWithoutTables(doc, node))
             lists == TableLists(node)
             flat == FlattenSeq(lists)
             aware == TableAware(doc, node)
  <1>0. /\ Tree(doc) /\ aware \in Seq(Cut) /\ whole \in Cut /\ bare \in Cut
        /\ lists \in Seq(Seq(Cut)) /\ Len(lists) = Len(Tables(node)) /\ flat \in Seq(Cut)
    BY DocIsTree, TableAwareInCut, TablesOf, FlattenTyped
  <1>1. ASSUME NEW p \in Range(aware) PROVE p.node = node /\ p.texts \subseteq Subtree(doc, node)
    <2>1. CutFrom(node, p)
      BY <1>1, TableAwareCut
    <2>2. CASE p.texts \in {TextOf(doc, node), TextWithoutTables(doc, node)}
      BY <2>1, <2>2, TextWithin DEF CutFrom
    <2>3. CASE \E table \in FindAll(doc, node, "table") : p.texts = TextOf(doc, table) \/ \E I : PartOf(doc, table, p.texts, I)
      <3>1. PICK table \in FindAll(doc, node, "table") : p.texts = TextOf(doc, table) \/ \E I : PartOf(doc, table, p.texts, I)
        BY <2>3
      <3>2. table \in Subtree(doc, node) /\ table \in 1..Len(doc)
        BY <1>0, PartsOf
      <3>3. p.texts \subseteq Subtree(doc, table)
        BY <3>1, <3>2, TextWithin, PartWithin
      <3>4. \A t \in Subtree(doc, table) : t \in Subtree(doc, node)
        BY <1>0, <3>2, Transitive
      <3> QED BY <2>1, <3>3, <3>4 DEF CutFrom
    <2> QED BY <2>1, <2>2, <2>3 DEF CutFrom
  <1>2. Apart(flat, Unlike)
    BY ListsUnlike
  <1>3. ASSUME NEW q \in Range(flat) PROVE <<bare, q>> \in Unlike
    <2>1. PICK k \in 1..Len(lists) : q \in Range(lists[k])
      BY <1>0, <1>3, FlattenRange
    <2> DEFINE table == Tables(node)[k]
    <2>2. k \in 1..Len(Tables(node)) /\ table \in FindAll(doc, node, "table") /\ table \in 1..Len(doc)
      BY <1>0, <2>1, TablesOf
    <2>3. /\ q.suffix # <<>>
          /\ \/ q.texts = TextOf(doc, table)
             \/ \E I : PartOf(doc, table, q.texts, I)
      BY <2>1, <2>2, TableListCut
    <2>4. table # node
      BY <2>2 DEF FindAll
    <2>5. q \in Cut
      <3> HIDE DEF flat
      <3> QED BY <1>0, <1>3 DEF Range
    <2> HIDE DEF table
    <2>6. q.texts \subseteq Subtree(doc, table)
      BY <2>2, <2>3, TextWithin, PartWithin
    <2>7. bare.suffix = <<>> /\ bare.texts = TextWithoutTables(doc, node)
      BY DEF Piece
    <2>8. \A t \in bare.texts \cap q.texts : FALSE
      BY <2>2, <2>4, <2>6, <2>7, OutsideTables
    <2> HIDE DEF bare
    <2> QED BY <1>0, <2>3, <2>5, <2>7, <2>8 DEF Unlike
  <1>4. Apart(aware, Unlike)
    <2>1. aware = <<whole>> \/ aware = <<bare>> \o flat
      BY TableAwareIs
    <2> HIDE DEF whole, bare, flat, aware
    <2>2. CASE aware = <<whole>>
      BY <2>2 DEF Apart
    <2>3. CASE aware = <<bare>> \o flat
      <3>1. <<bare>> \in Seq(Cut) /\ Apart(<<bare>>, Unlike) /\ Range(<<bare>>) = {bare}
        BY <1>0 DEF Apart, Range
      <3>2. \A x \in Range(<<bare>>), y \in Range(flat) : <<x, y>> \in Unlike
        BY <1>3, <3>1
      <3>3. Apart(<<bare>> \o flat, Unlike)
        BY <1>0, <1>2, <3>1, <3>2, ConcatApart
      <3> QED BY <2>3, <3>3
    <2> QED BY <2>1, <2>2, <2>3
  <1> QED BY <1>0, <1>1, <1>4

Ps(r) == InOrder(FindAll(doc, Body(doc, r), "p"))

PsItems(r) == [n \in DOMAIN Ps(r) |-> TextOf(doc, Ps(r)[n])]

\* Paragraphs that are packed are pieces without a node.
LEMMA OtherPieces ==
    ASSUME DocInv, NEW r \in 1..Len(doc), Body(doc, r) # NoNode, ClassifyPattern(doc, r) = "Other"
    PROVE  /\ Apart(BodyPieces(doc, r), Unlike)
           /\ \A q \in Range(BodyPieces(doc, r)) :
                 q.node = NoNode /\ q.suffix = <<>> /\ q.texts \subseteq Subtree(doc, Body(doc, r))
           /\ \A e \in FindAll(doc, Body(doc, r), "p") : Size(doc, TextOf(doc, e)) # 0 =>
                 \E q \in Range(BodyPieces(doc, r)) : TextOf(doc, e) \subseteq q.texts
  <1> DEFINE b == Body(doc, r)
             N == 1..Len(doc)
             all == FindAll(doc, b, "p")
             ps == Ps(r)
             m == Len(ps)
             items == PsItems(r)
             groups == Packed(doc, items, 0)
             n == Len(groups)
             pieces == BodyPieces(doc, r)
  <1>0. Tree(doc) /\ Measured(doc) /\ b \in N
    BY DocIsTree, DocIsMeasured, BodyOf
  <1>1. all \in SUBSET N /\ \A e \in all : e \in Subtree(doc, b) /\ e \in N /\ doc[e].tag = "p"
    BY <1>0, PartsOf DEF FindAll
  <1>2. /\ m \in Nat /\ DOMAIN ps = 1..m /\ \A k \in 1..m : ps[k] \in all
        /\ \A j, k \in 1..m : j # k => ps[j] # ps[k]
        /\ \A e \in all : \E k \in 1..m : ps[k] = e
    BY <1>0, <1>1, Ordered, OrderedAll DEF Ps
  <1>3. items \in Seq(SUBSET N) /\ Len(items) = m /\ \A k \in 1..m : items[k] = TextOf(doc, ps[k])
    <2> DEFINE V == SUBSET N
    <2>1. items = [k \in 1..m |-> TextOf(doc, ps[k])]
      BY <1>2 DEF PsItems
    <2>2. \A k \in 1..m : TextOf(doc, ps[k]) \in V
      BY <1>0, <1>1, <1>2, PartsOf
    <2> HIDE DEF V, ps, m, items
    <2>3. items \in [1..m -> V] /\ \A k \in 1..m : items[k] = TextOf(doc, ps[k])
      BY <2>1, <2>2
    <2>4. items \in Seq(V) /\ Len(items) = m
      BY <1>2, <2>3
    <2> QED BY <2>3, <2>4 DEF V
  <1>4. pieces = [g \in DOMAIN groups |-> Piece(NoNode, <<>>, groups[g].texts)]
    BY DEF BodyPieces, PsItems, Ps
  <1> HIDE DEF b, N, all, ps, m, items, pieces
  <1>5. groups \in Seq(Groups(doc)) /\ Making(groups, doc, 0, items, Len(items))
    BY <1>0, <1>3, PackedIs, PackedMade DEF N
  <1> HIDE DEF groups
  <1>6. n \in Nat /\ DOMAIN groups = 1..n /\ \A g \in 1..n : groups[g] \in Groups(doc)
    BY <1>5
  <1>7. PICK made : Made(groups, made, doc, 0, items, Len(items))
    BY <1>5 DEF Making
  <1>8. /\ \A g \in 1..n : /\ made[g] \in SUBSET (1..m)
                           /\ groups[g].texts = UNION {items[i] : i \in made[g]}
        /\ \A g, h \in 1..n : g # h => made[g] \cap made[h] = {}
        /\ \A i \in 1..m : Size(doc, items[i]) # 0 => \E g \in 1..n : i \in made[g]
    BY <1>3, <1>7 DEF Made, Together
  <1>9. /\ DOMAIN pieces = 1..n /\ pieces \in Seq(Cut) /\ Len(pieces) = n
        /\ \A g \in 1..n : pieces[g].node = NoNode /\ pieces[g].suffix = <<>> /\ pieces[g].texts = groups[g].texts
    <2>1. pieces = [g \in 1..n |-> Piece(NoNode, <<>>, groups[g].texts)]
      BY <1>4, <1>6
    <2>2. \A g \in 1..n : Piece(NoNode, <<>>, groups[g].texts) \in Cut
      <3>1. NoNode \in Nat /\ <<>> \in Seq(Nat)
        BY EmptySeq DEF NoNode
      <3>2. \A g \in 1..n : groups[g].texts \in SUBSET (1..Len(doc))
        BY <1>6 DEF Groups
      <3> QED BY <3>1, <3>2, PieceTyped DEF Cut
    <2>3. \A t : Piece(NoNode, <<>>, t).node = NoNode /\ Piece(NoNode, <<>>, t).suffix = <<>> /\ Piece(NoNode, <<>>, t).texts = t
      BY DEF Piece
    <2>4. \A g \in 1..n : pieces[g] = Piece(NoNode, <<>>, groups[g].texts)
      BY <2>1
    <2> HIDE DEF n
    <2>5. pieces \in [1..n -> Cut] /\ DOMAIN pieces = 1..n
      BY <2>1, <2>2
    <2>6. pieces \in Seq(Cut) /\ Len(pieces) = n
      BY <1>6, <2>5, IsSequence
    <2> QED BY <2>3, <2>4, <2>5, <2>6
  <1>10. Apart(pieces, Unlike)
    <2> SUFFICES ASSUME NEW g \in 1..n, NEW h \in 1..n, g < h PROVE <<pieces[g], pieces[h]>> \in Unlike
      BY <1>9 DEF Apart
    <2>1. g # h /\ made[g] \cap made[h] = {}
      <3>1. g # h
        BY <1>6
      <3> QED BY <1>8, <3>1
    <2>2. ASSUME NEW t \in pieces[g].texts \cap pieces[h].texts PROVE Excused(t)
      <3>1. PICK i \in made[g] : t \in items[i]
        BY <1>8, <1>9, <2>2
      <3>2. PICK j \in made[h] : t \in items[j]
        BY <1>8, <1>9, <2>2
      <3>3. i \in 1..m /\ j \in 1..m /\ i # j
        BY <1>8, <2>1
      <3> DEFINE x == ps[i]
                 y == ps[j]
      <3>4. /\ x \in 1..Len(doc) /\ y \in 1..Len(doc) /\ doc[x].tag = "p" /\ doc[y].tag = "p" /\ x # y
            /\ t \in TextOf(doc, x) /\ t \in TextOf(doc, y)
        BY <1>1, <1>2, <1>3, <3>1, <3>2, <3>3 DEF N
      <3> HIDE DEF x, y
      <3> QED BY <3>4, OfTwo
    <2>3. pieces[g] \in Cut /\ pieces[h] \in Cut /\ pieces[g].node = NoNode
      BY <1>9, ElementOfSeq
    <2> QED BY <2>2, <2>3 DEF Unlike
  <1>11. \A q \in Range(pieces) : q.node = NoNode /\ q.suffix = <<>> /\ q.texts \subseteq Subtree(doc, b)
    <2> TAKE q \in Range(pieces)
    <2>1. PICK g \in 1..n : q = pieces[g]
      BY <1>9 DEF Range
    <2>2. \A i \in 1..m : items[i] \subseteq Subtree(doc, b)
      <3> TAKE i \in 1..m
      <3> DEFINE x == ps[i]
      <3>1. x \in Subtree(doc, b) /\ x \in 1..Len(doc) /\ b \in 1..Len(doc) /\ items[i] = TextOf(doc, x)
        BY <1>0, <1>1, <1>2, <1>3 DEF N
      <3> HIDE DEF x
      <3>2. \A t \in Subtree(doc, x) : t \in Subtree(doc, b)
        BY <1>0, <3>1, Transitive
      <3> QED BY <3>1, <3>2, TextWithin
    <2>3. groups[g].texts \subseteq Subtree(doc, b)
      BY <1>8, <2>2
    <2> QED BY <1>9, <2>1, <2>3
  <1>12. \A e \in all : Size(doc, TextOf(doc, e)) # 0 => \E q \in Range(pieces) : TextOf(doc, e) \subseteq q.texts
    <2> SUFFICES ASSUME NEW e \in all, Size(doc, TextOf(doc, e)) # 0 PROVE \E q \in Range(pieces) : TextOf(doc, e) \subseteq q.texts
      OBVIOUS
    <2>1. PICK k \in 1..m : ps[k] = e
      BY <1>2
    <2>2. items[k] = TextOf(doc, e)
      BY <1>3, <2>1
    <2>3. PICK g \in 1..n : k \in made[g]
      BY <1>8, <2>2
    <2>4. items[k] \subseteq pieces[g].texts
      BY <1>8, <1>9, <2>3
    <2>5. pieces[g] \in Range(pieces)
      BY <1>9 DEF Range
    <2> QED BY <2>2, <2>4, <2>5
  <1> QED BY <1>10, <1>11, <1>12 DEF b, all, pieces

AwareLists(r) == [n \in DOMAIN Sources(doc, r) |-> TableAware(doc, Sources(doc, r)[n])]

PieceOf(r, p) ==
    /\ p.texts \subseteq Subtree(doc, r)
    /\ \/ p.node = NoNode /\ p.suffix = <<>>
       \/ SourceOf(r, p.node) /\ CutFrom(p.node, p)

LEMMA SourcePieces ==
    ASSUME DocInv, NEW r \in 1..Len(doc), Body(doc, r) # NoNode
    PROVE  /\ Apart(FlattenSeq(AwareLists(r)), Unlike)
           /\ \A p \in Range(FlattenSeq(AwareLists(r))) : PieceOf(r, p)
           /\ \A n \in Range(Sources(doc, r)) : \A p \in Range(TableAware(doc, n)) : p \in Range(FlattenSeq(AwareLists(r)))
  <1> DEFINE sources == Sources(doc, r)
             m == Len(sources)
             lists == AwareLists(r)
             b == Body(doc, r)
  <1>0. Tree(doc) /\ b \in 1..Len(doc) /\ b \in Subtree(doc, r)
    BY DocIsTree, BodyOf
  <1>1. /\ sources \in Seq(1..Len(doc)) /\ Apart(sources, Separate)
        /\ \A n \in Range(sources) : SourceOf(r, n)
    BY SourcesAre
  <1> HIDE DEF sources
  <1>2. m \in Nat /\ DOMAIN sources = 1..m /\ \A k \in 1..m : sources[k] \in Range(sources)
    BY <1>1 DEF Range
  <1>3. \A n \in Range(sources) : n \in 1..Len(doc) /\ n \in Subtree(doc, b) /\ doc[n].tag # "table"
    BY <1>1 DEF SourceOf
  <1>4. \A n \in Range(sources) :
            /\ TableAware(doc, n) \in Seq(Cut) /\ Apart(TableAware(doc, n), Unlike)
            /\ \A p \in Range(TableAware(doc, n)) : p.node = n /\ p.texts \subseteq Subtree(doc, n) /\ CutFrom(n, p)
    BY <1>3, TableAwareUnlike, TableAwareCut
  <1>5. /\ lists \in Seq(Seq(Cut)) /\ Len(lists) = m
        /\ \A k \in 1..m : lists[k] = TableAware(doc, sources[k])
    <2> DEFINE V == Seq(Cut)
    <2>1. lists = [k \in 1..m |-> TableAware(doc, sources[k])]
      BY <1>2 DEF AwareLists, sources
    <2>2. \A k \in 1..m : TableAware(doc, sources[k]) \in V
      BY <1>2, <1>4
    <2> HIDE DEF V, lists, m
    <2>3. lists \in [1..m -> V] /\ \A k \in 1..m : lists[k] = TableAware(doc, sources[k])
      BY <2>1, <2>2
    <2>4. lists \in Seq(V) /\ Len(lists) = m
      BY <1>2, <2>3
    <2> QED BY <2>3, <2>4 DEF V
  <1> HIDE DEF lists, m, b
  <1>6. \A k \in 1..Len(lists) : Apart(lists[k], Unlike)
    BY <1>2, <1>4, <1>5
  <1>7. ASSUME NEW k \in 1..m, NEW p \in Range(lists[k])
        PROVE  /\ p \in Cut /\ p.node = sources[k] /\ p.texts \subseteq Subtree(doc, sources[k]) /\ CutFrom(sources[k], p)
    <2> DEFINE n == sources[k]
               list == lists[k]
    <2>1. n \in Range(sources) /\ list = TableAware(doc, n)
      BY <1>2, <1>5
    <2>2. list \in Seq(Cut) /\ p.node = n /\ p.texts \subseteq Subtree(doc, n) /\ CutFrom(n, p)
      BY <1>4, <1>7, <2>1
    <2> HIDE DEF n, list
    <2>3. p \in Cut
      BY <1>7, <2>2 DEF Range, list
    <2> QED BY <2>2, <2>3 DEF n
  <1>8. ASSUME NEW j \in 1..m, NEW k \in 1..m, j < k, NEW p \in Range(lists[j]), NEW q \in Range(lists[k])
        PROVE  <<p, q>> \in Unlike
    <2> DEFINE x == sources[j]
               y == sources[k]
    <2>1. /\ p \in Cut /\ p.node = x /\ p.texts \subseteq Subtree(doc, x)
          /\ q \in Cut /\ q.node = y /\ q.texts \subseteq Subtree(doc, y)
      BY <1>7
    <2>2. <<x, y>> \in Separate
      BY <1>1, <1>8 DEF Apart, m
    <2> HIDE DEF x, y
    <2>3. x # y /\ \A t \in Subtree(doc, x) \cap Subtree(doc, y) : Excused(t)
      BY <2>2 DEF Separate
    <2> QED BY <2>1, <2>3 DEF Unlike
  <1>9. Apart(FlattenSeq(lists), Unlike)
    <2>1. \A j, k \in 1..Len(lists) : j < k => \A x \in Range(lists[j]), y \in Range(lists[k]) : <<x, y>> \in Unlike
      BY <1>5, <1>8
    <2> QED BY <1>5, <1>6, <2>1, FlattenApart
  <1>10. \A p : p \in Range(FlattenSeq(lists)) <=> \E k \in 1..Len(lists) : p \in Range(lists[k])
    BY <1>5, FlattenRange
  <1>11. \A p \in Range(FlattenSeq(lists)) : PieceOf(r, p)
    <2> TAKE p \in Range(FlattenSeq(lists))
    <2>1. PICK k \in 1..m : p \in Range(lists[k])
      BY <1>5, <1>10
    <2> DEFINE n == sources[k]
    <2>2. p.node = n /\ p.texts \subseteq Subtree(doc, n) /\ CutFrom(n, p)
      BY <1>7, <2>1
    <2>3. SourceOf(r, n) /\ n \in Subtree(doc, b) /\ n \in 1..Len(doc)
      BY <1>1, <1>2, <1>3
    <2> HIDE DEF n
    <2>4. \A t \in Subtree(doc, n) : t \in Subtree(doc, r)
      <3>1. n \in Subtree(doc, r)
        BY <1>0, <2>3, Transitive
      <3> QED BY <1>0, <3>1, Transitive
    <2> QED BY <2>2, <2>3, <2>4 DEF PieceOf
  <1>12. \A n \in Range(sources) : \A p \in Range(TableAware(doc, n)) : p \in Range(FlattenSeq(lists))
    <2> TAKE n \in Range(sources)
    <2> TAKE p \in Range(TableAware(doc, n))
    <2>1. PICK k \in 1..m : n = sources[k]
      BY <1>2 DEF Range
    <2>2. p \in Range(lists[k]) /\ k \in 1..Len(lists)
      BY <1>5, <2>1
    <2> QED BY <1>10, <2>2
  <1> QED BY <1>9, <1>11, <1>12 DEF lists, sources

LEMMA BodyPiecesAre ==
    ASSUME DocInv, NEW r \in 1..Len(doc), Body(doc, r) # NoNode
    PROVE  /\ Apart(BodyPieces(doc, r), Unlike)
           /\ \A p \in Range(BodyPieces(doc, r)) : PieceOf(r, p)
           /\ ClassifyPattern(doc, r) # "Other" => BodyPieces(doc, r) = FlattenSeq(AwareLists(r))
  <1>1. CASE ClassifyPattern(doc, r) = "Other"
    <2>1. \A t \in Subtree(doc, Body(doc, r)) : t \in Subtree(doc, r)
      BY DocIsTree, BodyOf, Transitive
    <2> QED BY <1>1, <2>1, OtherPieces DEF PieceOf
  <1>2. CASE ClassifyPattern(doc, r) # "Other"
    <2>1. BodyPieces(doc, r) = FlattenSeq(AwareLists(r))
      BY <1>2 DEF BodyPieces, AwareLists
    <2> QED BY <1>2, <2>1, SourcePieces
  <1> QED BY <1>1, <1>2

\* Where a chunk comes from.
LEMMA ChunkIsCut ==
    ASSUME DocInv, NEW c \in Range(ChunkDocument(doc).chunks)
    PROVE  \E r \in Range(Roots(doc)), p \in Cut, i \in Nat :
               /\ c = ChunkOf(doc, r, p, i) /\ RootOf(r) /\ EliWork(doc, r) # None /\ PieceOf(r, p)
               /\ p.node # NoNode => c.eid = doc[p.node].eid
               /\ p.node = NoNode => c.eid = None
               /\ c.suffix = p.suffix /\ c.texts = p.texts /\ c.eli = WorkEliPath(EliWork(doc, r))
  <1>1. PICK r \in Range(Roots(doc)) : \E p \in Range(BodyPieces(doc, r)), i \in Nat :
            c = ChunkOf(doc, r, p, i) /\ RootOf(r) /\ EliWork(doc, r) # None
    BY ChunkFrom
  <1>2. PICK p \in Range(BodyPieces(doc, r)), i \in Nat :
            c = ChunkOf(doc, r, p, i) /\ RootOf(r) /\ EliWork(doc, r) # None
    BY <1>1
  <1>3. PieceOf(r, p)
    BY <1>2, BodyPiecesAre DEF RootOf
  <1>4. p \in Cut
    <2> DEFINE pieces == BodyPieces(doc, r)
    <2>1. pieces \in Seq(Cut) /\ p \in Range(pieces)
      BY <1>2, PiecesOfRoot DEF RootOf
    <2> HIDE DEF pieces
    <2> QED BY <2>1 DEF Range
  <1>5. /\ c.eli = WorkEliPath(EliWork(doc, r)) /\ c.suffix = p.suffix /\ c.texts = p.texts
        /\ c.eid = IF p.node = NoNode THEN None ELSE doc[p.node].eid
    BY <1>2 DEF ChunkOf
  <1> QED BY <1>2, <1>3, <1>4, <1>5

-----------------------------------------------------------------------------
(* Parts fit the threshold.                                                   *)
Outermost(r) == \A a \in Ancestry(doc, r) \ {r} : doc[a].tag # "tr"

\* At most one row that stands in no other is above a node.
LEMMA OneOutermost ==
    ASSUME DocInv, NEW x \in 1..Len(doc), NEW y \in 1..Len(doc), doc[x].tag = "tr", doc[y].tag = "tr",
           Outermost(x), Outermost(y), NEW n, n \in Subtree(doc, x), n \in Subtree(doc, y)
    PROVE  x = y
  <1>0. Tree(doc) /\ Len(doc) \in Nat /\ x \in 0..Len(doc) /\ y \in 0..Len(doc)
    BY DocIsTree DEF Tree
  <1>1. x <= y => y \in Subtree(doc, x)
    BY <1>0, Nested
  <1>2. y <= x => x \in Subtree(doc, y)
    BY <1>0, Nested
  <1>3. y \in Subtree(doc, x) => x \in Ancestry(doc, y)
    BY <1>0, AboveIs
  <1>4. x \in Subtree(doc, y) => y \in Ancestry(doc, x)
    BY <1>0, AboveIs
  <1>5. x <= y \/ y <= x
    BY <1>0
  <1> QED BY <1>1, <1>2, <1>3, <1>4, <1>5 DEF Outermost

\* A row that shares a text with an outermost one is below it.
LEMMA BelowOutermost ==
    ASSUME DocInv, NEW x \in 1..Len(doc), NEW y \in 1..Len(doc), doc[x].tag = "tr", doc[y].tag = "tr",
           Outermost(x), NEW t, t \in TextOf(doc, x), t \in TextOf(doc, y)
    PROVE  y \in Subtree(doc, x)
  <1>0. Tree(doc) /\ Len(doc) \in Nat /\ x \in 0..Len(doc)
    BY DocIsTree DEF Tree
  <1>1. t \in Subtree(doc, x) /\ t \in Subtree(doc, y)
    BY TextWithin
  <1>2. x <= y => y \in Subtree(doc, x)
    BY <1>0, <1>1, Nested
  <1>3. y <= x => x \in Subtree(doc, y)
    BY <1>0, <1>1, Nested
  <1>4. x \in Subtree(doc, y) => y \in Ancestry(doc, x)
    BY <1>0, AboveIs
  <1>5. x \in Subtree(doc, x) /\ (x <= y \/ y <= x)
    BY <1>0, SubtreeBounds
  <1> QED BY <1>2, <1>3, <1>4, <1>5 DEF Outermost

LEMMA PartFits ==
    ASSUME DocInv, NEW table \in 1..Len(doc), doc[table].tag = "table", NEW texts \in SUBSET (1..Len(doc)), NEW I,
           PartOf(doc, table, texts, I)
    PROVE  LET rows == {r \in FindAll(doc, 1, "tr") :
                           /\ TextOf(doc, r) \cap texts # {} /\ Size(doc, TextOf(doc, r)) > 0
                           /\ \A a \in Ancestry(doc, r) \ {r} : doc[a].tag # "tr"}
               data == {r \in rows : \A t \in TextOf(doc, r) : ~IsHeader(t)}
           IN  \/ Size(doc, texts) + Cardinality(rows) - 1 <= SplitThreshold
               \/ Cardinality(data) <= 1
  <1> DEFINE rows == {r \in FindAll(doc, 1, "tr") :
                         /\ TextOf(doc, r) \cap texts # {} /\ Size(doc, TextOf(doc, r)) > 0
                         /\ \A a \in Ancestry(doc, r) \ {r} : doc[a].tag # "tr"}
             data == {r \in rows : \A t \in TextOf(doc, r) : ~IsHeader(t)}
             headed == HasHeader(doc, Rows(doc, table))
             head == Rows(doc, table)[1]
             J == IF headed THEN I \cup {head} ELSE I
             above == [j \in J |-> CHOOSE x \in rows : j \in Subtree(doc, x)]
  <1>0. Tree(doc) /\ Measured(doc) /\ 1 \in 1..Len(doc)
    BY DocIsTree, DocIsMeasured, WholeTree
  <1>1. \A x \in rows : x \in 1..Len(doc) /\ doc[x].tag = "tr" /\ Outermost(x) /\ TextOf(doc, x) \cap texts # {}
    BY <1>0, PartsOf DEF FindAll, Outermost
  <1>2. /\ I # {} /\ IsFiniteSet(I) /\ I \subseteq DataRows(doc, table)
        /\ texts = Header(doc, table) \cup UNION {TextOf(doc, row) : row \in I}
        /\ Cardinality(I) <= 1 \/ Size(doc, texts) + Newlines(doc, table, I) <= SplitThreshold
    BY DEF PartOf
  <1>3. \A j \in J : j \in 1..Len(doc) /\ doc[j].tag = "tr"
    <2>1. \A j \in FindAll(doc, table, "tr") : j \in 1..Len(doc) /\ doc[j].tag = "tr"
      BY <1>0, PartsOf DEF FindAll
    <2>2. headed => head \in FindAll(doc, table, "tr")
      BY <1>0, RowsOf
    <2> QED BY <1>2, <2>1, <2>2 DEF DataRows
  <1>4. texts = UNION {TextOf(doc, j) : j \in J}
    BY <1>2 DEF Header
  <1> HIDE DEF rows
  <1>5. ASSUME NEW x \in rows, NEW j \in J, NEW t \in TextOf(doc, x), t \in TextOf(doc, j)
        PROVE  x = CHOOSE y \in rows : j \in Subtree(doc, y)
    <2>1. j \in Subtree(doc, x)
      BY <1>1, <1>3, <1>5, BelowOutermost
    <2> DEFINE y == CHOOSE z \in rows : j \in Subtree(doc, z)
    <2>2. y \in rows /\ j \in Subtree(doc, y)
      BY <2>1
    <2> HIDE DEF y
    <2>3. x = y
      BY <1>1, <2>1, <2>2, OneOutermost
    <2> QED BY <2>3 DEF y
  <1>6. IsFiniteSet(J) /\ Cardinality(J) <= Cardinality(I) + (IF headed THEN 1 ELSE 0) /\ Cardinality(I) \in Nat /\ Cardinality(J) \in Nat
    <2>1. IsFiniteSet(I \cup {head}) /\ Cardinality(I \cup {head}) = IF head \in I THEN Cardinality(I) ELSE Cardinality(I) + 1
      BY <1>2, FS_AddElement
    <2>2. Cardinality(I) \in Nat
      BY <1>2, FS_CardinalityType
    <2>3. IsFiniteSet(J)
      BY <1>2, <2>1
    <2>4. Cardinality(J) \in Nat
      BY <2>3, FS_CardinalityType
    <2>5. CASE headed
      BY <2>1, <2>2, <2>3, <2>4, <2>5
    <2>6. CASE ~headed
      BY <2>2, <2>3, <2>4, <2>6
    <2> QED BY <2>5, <2>6
  <1> HIDE DEF J, headed, head
  <1>7. IsFiniteSet(rows) /\ Cardinality(rows) \in Nat /\ Cardinality(rows) <= Cardinality(J)
    <2> DEFINE T == {above[j] : j \in J}
    <2>1. above \in [J -> {above[j] : j \in J}]
      OBVIOUS
    <2>2. IsFiniteSet(T) /\ Cardinality(T) <= Cardinality(J)
      <3> HIDE DEF above
      <3> QED BY <1>6, <2>1, ImageIs
    <2>3. rows \in SUBSET T
      <3> SUFFICES ASSUME NEW x \in rows PROVE x \in T
        OBVIOUS
      <3>1. PICK t \in TextOf(doc, x) : t \in texts
        BY <1>1
      <3>2. PICK j \in J : t \in TextOf(doc, j)
        BY <1>4, <3>1
      <3>3. x = above[j]
        BY <1>5, <3>1, <3>2
      <3> QED BY <3>2, <3>3
    <2> HIDE DEF T
    <2>4. IsFiniteSet(rows) /\ Cardinality(rows) <= Cardinality(T)
      BY <2>2, <2>3, FS_Subset
    <2>5. Cardinality(rows) \in Nat /\ Cardinality(T) \in Nat
      BY <2>2, <2>4, FS_CardinalityType
    <2> QED BY <1>6, <2>2, <2>4, <2>5
  <1>8. CASE Cardinality(I) <= 1
    <2>1. PICK i : I = {i}
      <3>1. Cardinality(I) = 1
        <4>1. Cardinality(I) # 0
          BY <1>2, FS_EmptySet
        <4> QED BY <1>6, <1>8, <4>1
      <3> QED BY <1>2, <3>1, FS_Singleton
    <2> DEFINE y == CHOOSE z \in rows : i \in Subtree(doc, z)
    <2>2. \A x \in data : x = y
      <3> TAKE x \in data
      <3>1. x \in rows /\ \A t \in TextOf(doc, x) : ~IsHeader(t)
        OBVIOUS
      <3>2. PICK t \in TextOf(doc, x) : t \in texts
        BY <1>1, <3>1
      <3>3. t \notin Header(doc, table)
        BY <3>1, <3>2, HeaderIs
      <3>4. t \in TextOf(doc, i)
        BY <1>2, <2>1, <3>2, <3>3
      <3>5. i \in J
        BY <2>1 DEF J
      <3> QED BY <1>5, <3>1, <3>2, <3>4, <3>5
    <2> HIDE DEF y, data
    <2>3. data \in SUBSET {y}
      BY <2>2
    <2>4. Cardinality(data) <= 1
      <3>1. IsFiniteSet({y}) /\ Cardinality({y}) = 1
        BY FS_Singleton
      <3> QED BY <2>3, <3>1, FS_Subset
    <2> QED BY <2>4 DEF data, rows
  <1>9. CASE ~(Cardinality(I) <= 1)
    <2> DEFINE size == Size(doc, texts)
               n == Cardinality(rows)
               i == Cardinality(I)
    <2>1. size \in Nat
      BY <1>0, PartSize
    <2>2. size + Newlines(doc, table, I) <= SplitThreshold /\ Newlines(doc, table, I) = i - (IF headed THEN 0 ELSE 1)
      BY <1>2, <1>9 DEF Newlines, headed
    <2>3. n <= i + (IF headed THEN 1 ELSE 0)
      BY <1>6, <1>7
    <2>4. SplitThreshold \in Nat /\ n \in Nat /\ i \in Nat
      BY <1>6, <1>7, ThresholdsAssumption
    <2> HIDE DEF size, n, i
    <2>5. size + n - 1 <= SplitThreshold
      BY <2>1, <2>2, <2>3, <2>4
    <2>6. Size(doc, texts) + Cardinality(rows) - 1 <= SplitThreshold
      BY <2>5 DEF size, n
    <2> QED BY <2>6 DEF rows
  <1> QED BY <1>8, <1>9

LEMMA PartsFitHolds == DocInv => PartsFit
  <1> SUFFICES ASSUME DocInv PROVE PartsFit
    OBVIOUS
  <1>1. ASSUME NEW c \in Range(ChunkDocument(doc).chunks), Len(c.suffix) = 2
        PROVE  \E table \in 1..Len(doc) : /\ doc[table].tag = "table" /\ c.texts \in SUBSET (1..Len(doc))
                                          /\ \E I : PartOf(doc, table, c.texts, I)
    <2>1. PICK r \in Range(Roots(doc)), p \in Cut : PieceOf(r, p) /\ c.suffix = p.suffix /\ c.texts = p.texts
      BY <1>1, ChunkIsCut
    <2>2. p.suffix # <<>> /\ \A k : p.suffix # <<k>>
      <3>1. Len(<<>>) = 0 /\ (\A k : Len(<<k>>) = 1) /\ Len(p.suffix) = 2 /\ 0 # 2 /\ 1 # 2
        BY <1>1, <2>1
      <3> QED BY <3>1, Zenon
    <2>3. CutFrom(p.node, p) /\ p.node \in 1..Len(doc)
      BY <2>1, <2>2, Zenon DEF PieceOf, SourceOf
    <2>4. PICK table \in FindAll(doc, p.node, "table") : \E k, g, I : p.suffix = <<k, g>> /\ PartOf(doc, table, p.texts, I)
      BY <2>2, <2>3, Zenon DEF CutFrom
    <2>5. table \in 1..Len(doc) /\ doc[table].tag = "table"
      BY <2>3, DocIsTree, PartsOf DEF FindAll
    <2>6. p.texts \in SUBSET (1..Len(doc))
      BY DEF Cut, PieceSet
    <2> QED BY <2>1, <2>4, <2>5, <2>6
  <1>2. ASSUME NEW c \in Range(ChunkDocument(doc).chunks), Len(c.suffix) = 2
        PROVE  LET rows == {r \in FindAll(doc, 1, "tr") :
                               /\ TextOf(doc, r) \cap c.texts # {} /\ Size(doc, TextOf(doc, r)) > 0
                               /\ \A a \in Ancestry(doc, r) \ {r} : doc[a].tag # "tr"}
                   data == {r \in rows : \A t \in TextOf(doc, r) : ~IsHeader(t)}
               IN  \/ Size(doc, c.texts) + Cardinality(rows) - 1 <= SplitThreshold
                   \/ Cardinality(data) <= 1
    <2> DEFINE texts == c.texts
    <2>1. PICK table \in 1..Len(doc) : /\ doc[table].tag = "table" /\ texts \in SUBSET (1..Len(doc))
                                       /\ \E I : PartOf(doc, table, texts, I)
      BY <1>1, <1>2
    <2> HIDE DEF texts
    <2>2. LET rows == {r \in FindAll(doc, 1, "tr") :
                          /\ TextOf(doc, r) \cap texts # {} /\ Size(doc, TextOf(doc, r)) > 0
                          /\ \A a \in Ancestry(doc, r) \ {r} : doc[a].tag # "tr"}
              data == {r \in rows : \A t \in TextOf(doc, r) : ~IsHeader(t)}
          IN  \/ Size(doc, texts) + Cardinality(rows) - 1 <= SplitThreshold
              \/ Cardinality(data) <= 1
      BY <2>1, PartFits
    <2> QED BY <2>2 DEF texts
  <1> QED BY <1>2 DEF PartsFit

(* "Jeder Teil bleibt unter der Schwelle" (chunking.rs): a part of a table   *)
(* with its header and its newlines fits the threshold, whatever that is, or *)
(* it is a single row, in documents of any length and any nesting of tables. *)
THEOREM PartsFitAlways == Spec => []PartsFit
  BY DocumentIsTree, PartsFitHolds, PTL

-----------------------------------------------------------------------------
(* Rows stay whole.                                                           *)

\* What has a text of an element it contains has all of it.
LEMMA WholeBelow ==
    ASSUME DocInv, NEW n \in 1..Len(doc), NEW row \in 1..Len(doc), row \in Subtree(doc, n), NEW cut,
           NEW t, t \in Texts(doc, n, cut), t \in Subtree(doc, row)
    PROVE  Texts(doc, row, cut) \subseteq Texts(doc, n, cut)
  <1>0. Tree(doc) /\ n \in Nat /\ row \in Nat
    BY DocIsTree
  <1> SUFFICES ASSUME NEW u \in Texts(doc, row, cut) PROVE u \in Texts(doc, n, cut)
    OBVIOUS
  <1>1. /\ u \in FindAll(doc, row, "text")
        /\ \A c \in Subtree(doc, row) : c # row /\ u \in Subtree(doc, c) => doc[c].tag \notin cut
    BY <1>0, TextsAre
  <1>2. /\ t \in FindAll(doc, n, "text")
        /\ \A c \in Subtree(doc, n) : c # n /\ t \in Subtree(doc, c) => doc[c].tag \notin cut
    BY <1>0, TextsAre
  <1>3. u \in FindAll(doc, n, "text")
    BY <1>0, <1>1, Transitive DEF FindAll
  <1>4. ASSUME NEW c \in Subtree(doc, n), c # n, u \in Subtree(doc, c) PROVE doc[c].tag \notin cut
    <2>1. c \in 1..Len(doc) /\ c \in Nat /\ u \in Subtree(doc, row)
      BY <1>0, <1>1, <1>4, SubtreeBounds DEF FindAll
    <2>2. CASE c <= row
      <3>1. row \in Subtree(doc, c)
        BY <1>0, <1>4, <2>1, <2>2, Nested
      <3>2. t \in Subtree(doc, c)
        BY <1>0, <2>1, <3>1, Transitive
      <3> QED BY <1>2, <1>4, <3>2
    <2>3. CASE row < c
      <3>1. c \in Subtree(doc, row)
        BY <1>0, <1>4, <2>1, <2>3, Nested
      <3> QED BY <1>0, <1>1, <1>4, <2>3, <3>1
    <2> QED BY <1>0, <2>1, <2>2, <2>3
  <1> QED BY <1>0, <1>3, <1>4, TextsAre

\* Of two elements with a text in common one is in the other.
LEMMA OneInOther ==
    ASSUME DocInv, NEW x \in 1..Len(doc), NEW y \in 1..Len(doc), NEW t, t \in Subtree(doc, x), t \in Subtree(doc, y)
    PROVE  y \in Subtree(doc, x) \/ (x \in Subtree(doc, y) /\ x # y)
  <1>0. Tree(doc) /\ x \in Nat /\ y \in Nat /\ x \in Subtree(doc, x)
    BY DocIsTree, SubtreeBounds
  <1>1. x <= y => y \in Subtree(doc, x)
    BY <1>0, Nested
  <1>2. y <= x => x \in Subtree(doc, y)
    BY <1>0, Nested
  <1> QED BY <1>0, <1>1, <1>2

Pieced == {"article", "paragraph", "level", "mod"}

LEMMA PieceHasRow ==
    ASSUME DocInv, NEW node \in 1..Len(doc), doc[node].tag \in Pieced, NEW p, CutFrom(node, p),
           NEW row \in 1..Len(doc), doc[row].tag = "tr", InOnePiece(row, {"table", "tr"}), TextOf(doc, row) \cap p.texts # {}
    PROVE  TextOf(doc, row) \subseteq p.texts
  <1>0. Tree(doc)
    BY DocIsTree
  <1>1. \A m \in Subtree(doc, row) : m # row => doc[m].tag \notin Pieced \cup {"table", "tr"}
    BY DEF InOnePiece, Pieced
  <1>2. PICK t : t \in TextOf(doc, row) /\ t \in p.texts
    OBVIOUS
  <1>3. t \in Subtree(doc, row) /\ t \in Subtree(doc, 1)
    BY <1>0, <1>2, TextWithin, WholeTree, SubtreeBounds
  <1>4. CASE p.texts = TextOf(doc, node)
    <2>1. t \in Subtree(doc, node)
      BY <1>2, <1>4, TextWithin
    <2>2. row \in Subtree(doc, node)
      BY <1>1, <1>3, <2>1, OneInOther
    <2> QED BY <1>2, <1>3, <1>4, <2>2, WholeBelow DEF TextOf
  <1>5. CASE p.texts = TextWithoutTables(doc, node)
    <2>1. t \in Subtree(doc, node)
      BY <1>2, <1>5, TextWithin
    <2>2. row \in Subtree(doc, node)
      BY <1>1, <1>3, <2>1, OneInOther
    <2>3. TextWithoutTables(doc, row) \subseteq TextWithoutTables(doc, node)
      BY <1>2, <1>3, <1>5, <2>2, WholeBelow DEF TextWithoutTables
    <2>4. TextOf(doc, row) \subseteq TextWithoutTables(doc, row)
      BY <1>1 DEF TextOf, TextWithoutTables, Texts
    <2> QED BY <1>5, <2>3, <2>4
  <1>6. ASSUME NEW table \in FindAll(doc, node, "table"), p.texts = TextOf(doc, table) PROVE TextOf(doc, row) \subseteq p.texts
    <2>0. table \in 1..Len(doc) /\ doc[table].tag = "table"
      BY <1>0, PartsOf DEF FindAll
    <2>1. t \in Subtree(doc, table)
      BY <1>2, <1>6, <2>0, TextWithin
    <2>2. row \in Subtree(doc, table)
      BY <1>1, <1>3, <2>0, <2>1, OneInOther
    <2> QED BY <1>2, <1>3, <1>6, <2>0, <2>2, WholeBelow DEF TextOf
  <1>7. ASSUME NEW table \in FindAll(doc, node, "table"), NEW I, PartOf(doc, table, p.texts, I)
        PROVE  TextOf(doc, row) \subseteq p.texts
    <2>0. table \in 1..Len(doc)
      BY <1>0, PartsOf
    <2>1. PICK x \in FindAll(doc, table, "tr") : t \in TextOf(doc, x) /\ TextOf(doc, x) \subseteq p.texts
      <3>1. CASE t \in Header(doc, table)
        <4>1. HasHeader(doc, Rows(doc, table)) /\ t \in TextOf(doc, Rows(doc, table)[1])
              /\ Header(doc, table) = TextOf(doc, Rows(doc, table)[1])
          BY <3>1 DEF Header
        <4>2. Rows(doc, table)[1] \in FindAll(doc, table, "tr")
          BY <1>0, <2>0, <4>1, RowsOf
        <4>3. Header(doc, table) \subseteq p.texts
          BY <1>7 DEF PartOf
        <4> QED BY <4>1, <4>2, <4>3
      <3>2. CASE t \notin Header(doc, table)
        <4>1. PICK x \in I : t \in TextOf(doc, x)
          BY <1>2, <1>7, <3>2 DEF PartOf
        <4>2. x \in FindAll(doc, table, "tr") /\ TextOf(doc, x) \subseteq p.texts
          BY <1>7 DEF PartOf, DataRows
        <4> QED BY <4>1, <4>2
      <3> QED BY <3>1, <3>2
    <2>2. x \in 1..Len(doc) /\ doc[x].tag = "tr"
      BY <1>0, <2>0, PartsOf DEF FindAll
    <2>3. t \in Subtree(doc, x)
      BY <2>1, <2>2, TextWithin
    <2>4. row \in Subtree(doc, x)
      BY <1>1, <1>3, <2>2, <2>3, OneInOther
    <2>5. TextOf(doc, row) \subseteq TextOf(doc, x)
      BY <1>3, <2>1, <2>2, <2>4, WholeBelow DEF TextOf
    <2> QED BY <2>1, <2>5
  <1> QED BY <1>4, <1>5, <1>6, <1>7 DEF CutFrom

\* The text of a cell is text of its row.
LEMMA CellInRow ==
    ASSUME DocInv, NEW row \in 1..Len(doc), NEW tag \in {"th", "td"}, NEW cell \in Cells(doc, row, tag)
    PROVE  TextOf(doc, cell) \subseteq TextOf(doc, row) /\ cell \in 1..Len(doc) /\ cell \in Subtree(doc, row)
  <1>0. Tree(doc)
    BY DocIsTree
  <1>1. cell \in 1..Len(doc) /\ doc[cell].parent = row /\ doc[cell].tag = tag
    BY <1>0 DEF Cells, Children, Elements, Tree
  <1>2. cell \in Subtree(doc, row)
    BY <1>0, <1>1, BelowParent
  <1> SUFFICES ASSUME NEW u \in TextOf(doc, cell) PROVE u \in TextOf(doc, row)
    BY <1>1, <1>2
  <1>3. /\ u \in FindAll(doc, cell, "text")
        /\ \A c \in Subtree(doc, cell) : c # cell /\ u \in Subtree(doc, c) => doc[c].tag \notin {"authorialNote", "foreign"}
    BY <1>0, <1>1, TextsAre DEF TextOf
  <1>4. u \in Subtree(doc, cell) /\ u \in FindAll(doc, row, "text")
    BY <1>0, <1>2, <1>3, Transitive DEF FindAll
  <1>5. ASSUME NEW c \in Subtree(doc, row), c # row, u \in Subtree(doc, c) PROVE doc[c].tag \notin {"authorialNote", "foreign"}
    <2>1. c \in Subtree(doc, cell)
      BY <1>0, <1>1, <1>4, <1>5, BelowChild
    <2> QED BY <1>1, <1>3, <1>5, <2>1
  <1> QED BY <1>0, <1>4, <1>5, TextsAre DEF TextOf

LEMMA SameTable ==
    ASSUME DocInv, NEW table \in 1..Len(doc), doc[table].tag = "table", Plain(table),
           NEW other \in 1..Len(doc), doc[other].tag = "table", NEW t, t \in Subtree(doc, table), t \in Subtree(doc, other)
    PROVE  other = table
  <1>0. Tree(doc) /\ Len(doc) \in Nat /\ table \in 0..Len(doc)
    BY DocIsTree DEF Tree
  <1>1. other \in Subtree(doc, table) \/ table \in Subtree(doc, other)
    BY OneInOther
  <1>2. other \in Subtree(doc, table) => other = table
    BY DEF Plain, InOnePiece
  <1>3. table \in Subtree(doc, other) => other \in Ancestry(doc, table)
    BY <1>0, AboveIs
  <1> QED BY <1>1, <1>2, <1>3 DEF Plain

LEMMA PieceHasHead ==
    ASSUME DocInv, NEW node \in 1..Len(doc), doc[node].tag \in Pieced, NEW p, CutFrom(node, p),
           NEW table \in 1..Len(doc), doc[table].tag = "table", Plain(table), HasHeader(doc, Rows(doc, table)),
           NEW t \in p.texts, NEW row \in FindAll(doc, table, "tr"), t \in TextOf(doc, row)
    PROVE  TextOf(doc, Rows(doc, table)[1]) \subseteq p.texts
  <1> DEFINE head == Rows(doc, table)[1]
  <1>0. Tree(doc) /\ row \in Subtree(doc, table) /\ row \in 1..Len(doc)
    BY DocIsTree, PartsOf
  <1>1. t \in TextOf(doc, table) /\ t \in Subtree(doc, table)
    BY TextWithin DEF Plain
  <1>2. head \in FindAll(doc, table, "tr") /\ TextOf(doc, head) \subseteq TextOf(doc, table)
    <2>1. head \in FindAll(doc, table, "tr")
      BY <1>0, RowsOf
    <2> HIDE DEF head
    <2> QED BY <2>1 DEF Plain
  <1>3. t \in Subtree(doc, node) => table \in Subtree(doc, node) /\ table # node
    <2>1. table # node
      BY DEF Pieced
    <2>2. node \notin Subtree(doc, table)
      BY <2>1 DEF Plain, InOnePiece, Pieced
    <2> QED BY <1>1, <2>1, <2>2, OneInOther
  <1>4. CASE p.texts = TextOf(doc, node)
    <2>1. table \in Subtree(doc, node)
      BY <1>3, <1>4, TextWithin
    <2>2. TextOf(doc, table) \subseteq TextOf(doc, node)
      BY <1>1, <1>4, <2>1, WholeBelow DEF TextOf
    <2> QED BY <1>2, <1>4, <2>2
  <1>5. CASE p.texts = TextWithoutTables(doc, node)
    <2>1. table \in Subtree(doc, node) /\ table # node
      BY <1>3, <1>5, TextWithin
    <2>2. table \in FindAll(doc, node, "table")
      BY <2>1 DEF FindAll
    <2> QED BY <1>1, <1>5, <2>1, <2>2, OutsideTables
  <1>6. ASSUME NEW other \in FindAll(doc, node, "table"), p.texts = TextOf(doc, other)
        PROVE  TextOf(doc, head) \subseteq p.texts
    <2>1. other \in 1..Len(doc) /\ doc[other].tag = "table"
      BY <1>0, PartsOf DEF FindAll
    <2>2. t \in Subtree(doc, other)
      BY <1>6, <2>1, TextWithin
    <2>3. other = table
      BY <1>1, <2>1, <2>2, SameTable
    <2> QED BY <1>2, <1>6, <2>3
  <1>7. ASSUME NEW other \in FindAll(doc, node, "table"), NEW I, PartOf(doc, other, p.texts, I)
        PROVE  TextOf(doc, head) \subseteq p.texts
    <2>1. other \in 1..Len(doc) /\ doc[other].tag = "table"
      BY <1>0, PartsOf DEF FindAll
    <2>2. t \in Subtree(doc, other)
      BY <1>7, <2>1, PartWithin
    <2>3. other = table
      BY <1>1, <2>1, <2>2, SameTable
    <2>4. Header(doc, table) = TextOf(doc, head) /\ Header(doc, table) \subseteq p.texts
      BY <1>7, <2>3 DEF Header, PartOf
    <2> QED BY <2>4
  <1> QED BY <1>4, <1>5, <1>6, <1>7 DEF CutFrom

LEMMA RowsWholeHolds == DocInv => RowsWhole
  <1> SUFFICES ASSUME DocInv PROVE RowsWhole
    OBVIOUS
  <1>0. Tree(doc) /\ 1 \in 1..Len(doc)
    BY DocIsTree, WholeTree
  <1>1. ASSUME NEW c \in Range(ChunkDocument(doc).chunks), c.eid # None
        PROVE  \E p : c.texts = p.texts /\ CutFrom(p.node, p) /\ p.node \in 1..Len(doc) /\ doc[p.node].tag \in Pieced
    <2>1. PICK r \in Range(Roots(doc)), p \in Cut : PieceOf(r, p) /\ c.texts = p.texts /\ p.node # NoNode
      BY <1>1, ChunkIsCut
    <2> QED BY <2>1 DEF PieceOf, SourceOf, Pieced
  <1>2. ASSUME NEW c \in Range(ChunkDocument(doc).chunks), c.eid # None, NEW row \in FindAll(doc, 1, "tr"),
               InOnePiece(row, {"table", "tr"}), TextOf(doc, row) \cap c.texts # {}
        PROVE  TextOf(doc, row) \subseteq c.texts
    <2>1. PICK p : c.texts = p.texts /\ CutFrom(p.node, p) /\ p.node \in 1..Len(doc) /\ doc[p.node].tag \in Pieced
      BY <1>1, <1>2
    <2>2. row \in 1..Len(doc) /\ doc[row].tag = "tr"
      BY <1>0, PartsOf DEF FindAll
    <2> QED BY <1>2, <2>1, <2>2, PieceHasRow
  <1>3. ASSUME NEW c \in Range(ChunkDocument(doc).chunks), c.eid # None, NEW t \in ExtractTables(doc, 1),
               Plain(t.node), NEW n \in t.data, TextOf(doc, n) \cap c.texts # {}, NEW h \in t.header
        PROVE  TextOf(doc, h) \subseteq c.texts
    <2>1. PICK p : c.texts = p.texts /\ CutFrom(p.node, p) /\ p.node \in 1..Len(doc) /\ doc[p.node].tag \in Pieced
      BY <1>1, <1>3
    <2>2. PICK table \in FindAll(doc, 1, "table") :
              t = [node    |-> table,
                   context |-> NearestEid(doc, table),
                   header  |-> IF HasHeader(doc, Rows(doc, table)) THEN Cells(doc, Rows(doc, table)[1], "th") ELSE {},
                   data    |-> DataCells(doc, Rows(doc, table))]
      BY DEF ExtractTables, Rows
    <2> DEFINE rows == Rows(doc, table)
    <2>3. t.node = table /\ t.data = DataCells(doc, rows)
          /\ t.header = IF HasHeader(doc, rows) THEN Cells(doc, rows[1], "th") ELSE {}
      BY <2>2
    <2>4. table \in 1..Len(doc) /\ doc[table].tag = "table" /\ Plain(table)
      BY <1>0, <1>3, <2>3, PartsOf DEF FindAll
    <2>5. HasHeader(doc, rows) /\ h \in Cells(doc, rows[1], "th")
      BY <2>3
    <2>6. PICK i \in DOMAIN rows : n \in Cells(doc, rows[i], "td")
      BY <2>3 DEF DataCells
    <2> DEFINE row == rows[i]
               head == rows[1]
    <2>7. /\ row \in FindAll(doc, table, "tr") /\ row \in 1..Len(doc) /\ n \in Cells(doc, row, "td")
          /\ head \in 1..Len(doc) /\ h \in Cells(doc, head, "th")
      BY <1>0, <2>4, <2>5, <2>6, RowsOf
    <2> HIDE DEF row
    <2>8. TextOf(doc, n) \subseteq TextOf(doc, row)
      BY <2>7, CellInRow
    <2>9. PICK u : u \in TextOf(doc, n) /\ u \in p.texts
      BY <1>3, <2>1
    <2>10. TextOf(doc, head) \subseteq p.texts
      BY <2>1, <2>4, <2>5, <2>7, <2>8, <2>9, PieceHasHead
    <2> HIDE DEF head
    <2>11. TextOf(doc, h) \subseteq TextOf(doc, head)
      BY <2>7, CellInRow
    <2> QED BY <2>1, <2>10, <2>11
  <1> QED BY <1>2, <1>3 DEF RowsWhole

(* "Tabellen nie mitten in der Zeile splitten" (chunking.rs): a chunk has a  *)
(* row whole or not at all, and with cells of a table the head of it, in     *)
(* documents of any length; the exceptions are those RowsWhole names.        *)
THEOREM RowsWholeAlways == Spec => []RowsWhole
  BY DocumentIsTree, RowsWholeHolds, PTL

-----------------------------------------------------------------------------
(* Chunks are told apart by their ids, and share no text that is not excused. *)
Told ==
    {pair \in AnyChunk \X AnyChunk :
        /\ UniqueEids /\ UniqueWorks => ChunkId(pair[1]) # ChunkId(pair[2])
        /\ \A t \in pair[1].texts \cap pair[2].texts : Excused(t)}

LEMMA ChunkIdIs ==
    ASSUME NEW c, NEW e, ChunkId(c) = ChunkId(e)
    PROVE  /\ c.eli = e.eli /\ c.eid = e.eid /\ c.suffix = e.suffix
           /\ c.eid = None => c.idx = e.idx
  <1>1. \A a1, a2, a3, a4, b1, b2, b3, b4 : <<a1, a2, a3, a4>> = <<b1, b2, b3, b4>> => a1 = b1 /\ a2 = b2 /\ a3 = b3 /\ a4 = b4
    OBVIOUS
  <1>2. /\ c.eli = e.eli /\ c.eid = e.eid /\ c.suffix = e.suffix
        /\ (IF c.eid # None THEN 0 ELSE c.idx) = (IF e.eid # None THEN 0 ELSE e.idx)
    BY <1>1 DEF ChunkId
  <1> QED BY <1>2

\* The chunks of one root.
LEMMA OfOneRoot ==
    ASSUME DocInv, NEW r \in 1..Len(doc), Body(doc, r) # NoNode, NEW p, NEW q, <<p, q>> \in Unlike,
           PieceOf(r, p), PieceOf(r, q), NEW i \in Nat, NEW j \in Nat, i # j
    PROVE  <<ChunkOf(doc, r, p, i), ChunkOf(doc, r, q, j)>> \in Told
  <1> DEFINE c == ChunkOf(doc, r, p, i)
             e == ChunkOf(doc, r, q, j)
  <1>1. /\ c.eid = (IF p.node = NoNode THEN None ELSE doc[p.node].eid) /\ c.suffix = p.suffix /\ c.texts = p.texts /\ c.idx = i
        /\ e.eid = (IF q.node = NoNode THEN None ELSE doc[q.node].eid) /\ e.suffix = q.suffix /\ e.texts = q.texts /\ e.idx = j
    BY DEF ChunkOf
  <1>2. /\ p \in Cut /\ q \in Cut
        /\ p.node = q.node /\ p.node # NoNode => p.suffix # q.suffix
        /\ \A t \in p.texts \cap q.texts : Excused(t)
    BY DEF Unlike
  <1>3. c \in AnyChunk /\ e \in AnyChunk
    BY <1>2 DEF AnyChunk, ChunksOf
  <1> HIDE DEF c, e
  <1>4. ASSUME UniqueEids, ChunkId(c) = ChunkId(e) PROVE FALSE
    <2>1. c.eid = e.eid /\ c.suffix = e.suffix /\ (c.eid = None => c.idx = e.idx)
      BY <1>4, ChunkIdIs
    <2>2. c.eid # None
      BY <1>1, <2>1
    <2>3. p.node # NoNode /\ q.node # NoNode /\ doc[p.node].eid = doc[q.node].eid /\ doc[p.node].eid # None
      BY <1>1, <2>1, <2>2
    <2>4. p.node \in DOMAIN doc /\ q.node \in DOMAIN doc
      BY <2>3, DocIsTree DEF PieceOf, SourceOf, Tree
    <2>5. p.node = q.node
      BY <1>4, <2>3, <2>4 DEF UniqueEids
    <2> QED BY <1>1, <1>2, <2>1, <2>3, <2>5
  <1>5. \A t \in c.texts \cap e.texts : Excused(t)
    BY <1>1, <1>2
  <1>6. <<c, e>> \in Told
    BY <1>3, <1>4, <1>5 DEF Told
  <1> QED BY <1>6 DEF c, e

LEMMA ListTold ==
    ASSUME DocInv, NEW r \in 1..Len(doc), Body(doc, r) # NoNode
    PROVE  /\ Apart(Pushed(doc, r, BodyPieces(doc, r)), Told)
           /\ \A c \in Range(Pushed(doc, r, BodyPieces(doc, r))) :
                 c \in AnyChunk /\ c.texts \subseteq Subtree(doc, r) /\ c.eli = WorkEliPath(EliWork(doc, r))
           /\ \A p \in Range(BodyPieces(doc, r)) : Size(doc, p.texts) # 0 =>
                 \E c \in Range(Pushed(doc, r, BodyPieces(doc, r))) : c.texts = p.texts
  <1> DEFINE pieces == BodyPieces(doc, r)
             cs == Pushed(doc, r, pieces)
  <1>1. /\ pieces \in Seq(Cut) /\ cs \in Seq(AnyChunk) /\ Apart(pieces, Unlike)
        /\ \A p \in Range(pieces) : PieceOf(r, p)
    BY PiecesOfRoot, BodyPiecesAre
  <1> HIDE DEF pieces
  <1>2. Holding(cs, doc, r, pieces, Len(pieces))
    BY <1>1, PushedHolds
  <1> HIDE DEF cs
  <1>3. /\ Len(pieces) \in Nat /\ DOMAIN pieces = 1..Len(pieces) /\ Len(cs) \in Nat /\ DOMAIN cs = 1..Len(cs)
        /\ \A i \in 1..Len(pieces) : pieces[i] \in Range(pieces)
        /\ \A m \in 1..Len(cs) : cs[m] \in Range(cs) /\ cs[m] \in AnyChunk
    BY <1>1 DEF Range
  <1>4. Apart(cs, Told)
    <2> SUFFICES ASSUME NEW m \in 1..Len(cs), NEW n \in 1..Len(cs), m < n PROVE <<cs[m], cs[n]>> \in Told
      BY DEF Apart
    <2>1. PICK i \in 1..Len(pieces), j \in 1..Len(pieces) :
              i < j /\ cs[m] = ChunkOf(doc, r, pieces[i], m - 1) /\ cs[n] = ChunkOf(doc, r, pieces[j], n - 1)
      BY <1>2 DEF Holding
    <2> DEFINE p == pieces[i]
               q == pieces[j]
    <2>2. <<p, q>> \in Unlike /\ PieceOf(r, p) /\ PieceOf(r, q)
      BY <1>1, <1>3, <2>1 DEF Apart
    <2>3. m - 1 \in Nat /\ n - 1 \in Nat /\ m - 1 # n - 1
      BY <1>3
    <2> HIDE DEF p, q
    <2>4. <<ChunkOf(doc, r, p, m - 1), ChunkOf(doc, r, q, n - 1)>> \in Told
      BY <2>2, <2>3, OfOneRoot
    <2> QED BY <2>1, <2>4 DEF p, q
  <1>5. \A c \in Range(cs) : c \in AnyChunk /\ c.texts \subseteq Subtree(doc, r) /\ c.eli = WorkEliPath(EliWork(doc, r))
    <2> TAKE c \in Range(cs)
    <2>1. PICK m \in 1..Len(cs) : c = cs[m]
      BY <1>3 DEF Range
    <2>2. PICK i \in 1..Len(pieces) : cs[m] = ChunkOf(doc, r, pieces[i], m - 1)
      BY <1>2 DEF Holding
    <2>3. c.texts = pieces[i].texts /\ c.eli = WorkEliPath(EliWork(doc, r))
      BY <2>1, <2>2 DEF ChunkOf
    <2>4. PieceOf(r, pieces[i])
      BY <1>1, <1>3
    <2> QED BY <1>3, <2>1, <2>3, <2>4 DEF PieceOf
  <1>6. \A p \in Range(pieces) : Size(doc, p.texts) # 0 => \E c \in Range(cs) : c.texts = p.texts
    <2> SUFFICES ASSUME NEW p \in Range(pieces), Size(doc, p.texts) # 0 PROVE \E c \in Range(cs) : c.texts = p.texts
      OBVIOUS
    <2>1. PICK i \in 1..Len(pieces) : p = pieces[i]
      BY <1>3 DEF Range
    <2>2. PICK m \in 1..Len(cs) : cs[m] = ChunkOf(doc, r, pieces[i], m - 1)
      BY <1>2, <2>1 DEF Holding
    <2>3. cs[m].texts = p.texts
      BY <2>1, <2>2 DEF ChunkOf
    <2> QED BY <1>3, <2>3
  <1> QED BY <1>4, <1>5, <1>6 DEF cs, pieces

\* All chunks of the document.
LEMMA ChunksTold ==
    ASSUME DocInv, ChunkDocument(doc).ok
    PROVE  /\ ChunkDocument(doc).chunks \in Seq(AnyChunk) /\ Apart(ChunkDocument(doc).chunks, Told)
           /\ \A r \in Range(Roots(doc)) : \A p \in Range(BodyPieces(doc, r)) : Size(doc, p.texts) # 0 =>
                 \E c \in Range(ChunkDocument(doc).chunks) : c.texts = p.texts
  <1> DEFINE roots == Roots(doc)
             m == Len(roots)
             lists == Lists
             chunks == ChunkDocument(doc).chunks
  <1>1. chunks = FlattenSeq(lists)
    BY ChunkDocumentIs
  <1>2. /\ lists \in Seq(Seq(AnyChunk)) /\ Len(lists) = m /\ m \in Nat
        /\ \A k \in 1..m : /\ lists[k] = Pushed(doc, roots[k], BodyPieces(doc, roots[k]))
                           /\ roots[k] \in Range(roots) /\ RootOf(roots[k])
    BY ListsAre
  <1>3. roots \in Seq(1..Len(doc)) /\ Apart(roots, Different)
    BY RootsAre
  <1> HIDE DEF lists, chunks
  <1>4. \A k \in 1..m :
           /\ Apart(lists[k], Told)
           /\ \A c \in Range(lists[k]) : /\ c \in AnyChunk /\ c.texts \subseteq Subtree(doc, roots[k])
                                         /\ c.eli = WorkEliPath(EliWork(doc, roots[k]))
           /\ \A p \in Range(BodyPieces(doc, roots[k])) : Size(doc, p.texts) # 0 =>
                 \E c \in Range(lists[k]) : c.texts = p.texts
    <2> TAKE k \in 1..m
    <2> DEFINE r == roots[k]
    <2>1. r \in 1..Len(doc) /\ Body(doc, r) # NoNode /\ lists[k] = Pushed(doc, r, BodyPieces(doc, r))
      BY <1>2 DEF RootOf
    <2> HIDE DEF r
    <2>2. /\ Apart(Pushed(doc, r, BodyPieces(doc, r)), Told)
          /\ \A c \in Range(Pushed(doc, r, BodyPieces(doc, r))) :
                c \in AnyChunk /\ c.texts \subseteq Subtree(doc, r) /\ c.eli = WorkEliPath(EliWork(doc, r))
          /\ \A p \in Range(BodyPieces(doc, r)) : Size(doc, p.texts) # 0 =>
                \E c \in Range(Pushed(doc, r, BodyPieces(doc, r))) : c.texts = p.texts
      BY <2>1, ListTold
    <2> QED BY <2>1, <2>2 DEF r
  <1>5. ASSUME NEW j \in 1..m, NEW k \in 1..m, j < k, NEW c \in Range(lists[j]), NEW e \in Range(lists[k])
        PROVE  <<c, e>> \in Told
    <2> DEFINE r == roots[j]
               s == roots[k]
    <2>1. <<r, s>> \in Different
      BY <1>3, <1>5 DEF Apart
    <2>2. r \in Range(roots) /\ s \in Range(roots) /\ RootOf(r) /\ RootOf(s)
      BY <1>2
    <2>3. /\ c \in AnyChunk /\ c.texts \subseteq Subtree(doc, r) /\ c.eli = WorkEliPath(EliWork(doc, r))
          /\ e \in AnyChunk /\ e.texts \subseteq Subtree(doc, s) /\ e.eli = WorkEliPath(EliWork(doc, s))
      BY <1>4
    <2>4. roots # <<1>>
      <3>1. Len(<<1>>) = 1
        OBVIOUS
      <3>2. m # 1
        <4> HIDE DEF m
        <4>1. j \in Nat /\ k \in Nat /\ 1 <= j /\ k <= m
          BY <1>2
        <4> QED BY <1>2, <1>5, <4>1
      <3> QED BY <3>1, <3>2
    <2> HIDE DEF r, s
    <2>5. r # s
      BY <2>1 DEF Different
    <2>6. ASSUME UniqueWorks, ChunkId(c) = ChunkId(e) PROVE FALSE
      <3>1. WorkEliPath(EliWork(doc, r)) = WorkEliPath(EliWork(doc, s))
        BY <2>3, <2>6, ChunkIdIs
      <3> QED BY <2>2, <2>5, <2>6, <3>1 DEF UniqueWorks
    <2>7. ASSUME NEW t \in c.texts \cap e.texts PROVE Excused(t)
      <3> DEFINE x == doc[r].parent
                 y == doc[s].parent
      <3>1. /\ x \in 1..Len(doc) /\ doc[x].tag = "component" /\ y \in 1..Len(doc) /\ doc[y].tag = "component"
            /\ r \in 1..Len(doc) /\ s \in 1..Len(doc)
        BY <2>2, <2>4 DEF RootOf
      <3>2. t \in Subtree(doc, r) /\ t \in Subtree(doc, s)
        BY <2>3, <2>7
      <3>3. r \in Subtree(doc, x) /\ s \in Subtree(doc, y)
        BY <3>1, DocIsTree, BelowParent
      <3>4. t \in Subtree(doc, x) /\ t \in Subtree(doc, y)
        BY <3>1, <3>2, <3>3, DocIsTree, Transitive
      <3>5. CASE x # y
        <4> HIDE DEF x, y
        <4> QED BY <3>1, <3>4, <3>5, InTwo
      <3>6. CASE x = y
        <4>1. r \in Nat /\ s \in Nat /\ (r < s \/ s < r)
          BY <2>5, <3>1, DocIsTree DEF Tree
        <4> QED BY <3>1, <3>2, <3>6, <4>1, SiblingsApart
      <3> QED BY <3>5, <3>6
    <2> QED BY <2>3, <2>6, <2>7 DEF Told
  <1> HIDE DEF roots, m
  <1>6. chunks \in Seq(AnyChunk) /\ Apart(chunks, Told)
    <2>1. FlattenSeq(lists) \in Seq(AnyChunk)
      BY <1>2, FlattenTyped
    <2>2. \A k \in 1..Len(lists) : Apart(lists[k], Told)
      BY <1>2, <1>4
    <2>3. \A j, k \in 1..Len(lists) : j < k => \A c \in Range(lists[j]), e \in Range(lists[k]) : <<c, e>> \in Told
      BY <1>2, <1>5
    <2>4. Apart(FlattenSeq(lists), Told)
      BY <1>2, <2>2, <2>3, FlattenApart
    <2> QED BY <1>1, <2>1, <2>4
  <1>7. \A r \in Range(roots) : \A p \in Range(BodyPieces(doc, r)) : Size(doc, p.texts) # 0 =>
            \E c \in Range(chunks) : c.texts = p.texts
    <2> SUFFICES ASSUME NEW r \in Range(roots), NEW p \in Range(BodyPieces(doc, r)), Size(doc, p.texts) # 0
                 PROVE  \E c \in Range(chunks) : c.texts = p.texts
      OBVIOUS
    <2>1. PICK k \in 1..m : r = roots[k]
      <3>1. DOMAIN roots = 1..m
        BY <1>3 DEF m
      <3> QED BY <3>1 DEF Range
    <2>2. PICK c \in Range(lists[k]) : c.texts = p.texts
      BY <1>4, <2>1
    <2>3. c \in Range(chunks)
      BY <1>1, <1>2, <2>2, FlattenRange
    <2> QED BY <2>2, <2>3
  <1> QED BY <1>6, <1>7 DEF chunks, roots

LEMMA NoTextTwiceHolds == DocInv => NoTextTwice
  <1> SUFFICES ASSUME DocInv PROVE NoTextTwice
    OBVIOUS
  <1> DEFINE chunks == ChunkDocument(doc).chunks
  <1>1. CASE ~ChunkDocument(doc).ok
    <2>1. chunks = <<>> /\ DOMAIN <<>> = {}
      BY <1>1, ChunkDocumentIs
    <2> QED BY <2>1 DEF NoTextTwice
  <1>2. CASE ChunkDocument(doc).ok
    <2>1. chunks \in Seq(AnyChunk) /\ Apart(chunks, Told)
      BY <1>2, ChunksTold
    <2> HIDE DEF chunks
    <2>2. DOMAIN chunks = 1..Len(chunks)
      BY <2>1
    <2>3. \A m, n \in DOMAIN chunks : m < n => \A t \in chunks[m].texts \cap chunks[n].texts : Excused(t)
      BY <2>1, <2>2 DEF Apart, Told
    <2> QED BY <2>3 DEF NoTextTwice, Excused, chunks
  <1> QED BY <1>1, <1>2

-----------------------------------------------------------------------------
(* What is missing from the chunks.                                           *)

\* A text of an element is one of what is between the element and it.
LEMMA TextBelow ==
    ASSUME DocInv, NEW u \in 1..Len(doc), NEW n \in Subtree(doc, u), NEW t \in TextOf(doc, u), t \in Subtree(doc, n)
    PROVE  t \in TextOf(doc, n)
  <1>0. Tree(doc) /\ u \in Nat /\ n \in Nat /\ n \in 1..Len(doc) /\ n >= u
    BY DocIsTree, SubtreeBounds
  <1>1. /\ t \in FindAll(doc, u, "text")
        /\ \A c \in Subtree(doc, u) : c # u /\ t \in Subtree(doc, c) => doc[c].tag \notin {"authorialNote", "foreign"}
    BY <1>0, TextsAre DEF TextOf
  <1>2. t \in FindAll(doc, n, "text")
    BY <1>1 DEF FindAll
  <1>3. ASSUME NEW c \in Subtree(doc, n), c # n, t \in Subtree(doc, c) PROVE doc[c].tag \notin {"authorialNote", "foreign"}
    <2>1. c \in Subtree(doc, u) /\ c \in Nat /\ c >= n
      BY <1>0, <1>3, SubtreeBounds, Transitive
    <2>2. c # u
      BY <1>0, <1>3, <2>1
    <2> QED BY <1>1, <1>3, <2>1, <2>2
  <1> QED BY <1>0, <1>2, <1>3, TextsAre DEF TextOf

\* A table too long for a chunk has the text in none of its rows, or in a head alone.
LostIn(table, t) ==
    /\ Size(doc, TextOf(doc, table)) > SplitThreshold
    /\ t \in Subtree(doc, table)
    /\ \A row \in FindAll(doc, table, "tr") : t \in Subtree(doc, row) => HeadAlone(Rows(doc, table))

LEMMA TableVanish ==
    ASSUME DocInv, NEW node \in 1..Len(doc), NEW k \in 1..Len(Tables(node)), NEW t \in TextOf(doc, Tables(node)[k]),
           doc[t].len # 0, \A p \in Range(TableLists(node)[k]) : t \notin p.texts
    PROVE  LostIn(Tables(node)[k], t)
  <1> DEFINE table == Tables(node)[k]
             pieces == TableLists(node)[k]
             rows == Rows(doc, table)
             headed == HasHeader(doc, rows)
  <1>0. Measured(doc) /\ Tree(doc) /\ table \in 1..Len(doc)
    BY DocIsTree, DocIsMeasured, TablesOf
  <1>1. pieces # << Piece(node, <<k>>, TextOf(doc, table)) >>
    <2>1. Range(<< Piece(node, <<k>>, TextOf(doc, table)) >>) = {Piece(node, <<k>>, TextOf(doc, table))}
      BY DEF Range
    <2>2. Piece(node, <<k>>, TextOf(doc, table)).texts = TextOf(doc, table)
      BY DEF Piece
    <2> QED BY <2>1, <2>2
  <1>2. /\ ~(Size(doc, TextOf(doc, table)) <= SplitThreshold)
        /\ \E parts : PartsAre(pieces, doc, node, k, table, parts)
    BY <1>1, TableListsAre
  <1>3. PICK parts : PartsAre(pieces, doc, node, k, table, parts)
    BY <1>2
  <1>4. t \in TextOf(doc, table) /\ \A p \in Range(pieces) : t \notin p.texts
    OBVIOUS
  <1> HIDE DEF table, pieces, rows, headed
  <1>5. Size(doc, TextOf(doc, table)) > SplitThreshold
    BY <1>0, <1>2, PartsOf, PartSize, ThresholdsAssumption
  <1>6. t \in Subtree(doc, table)
    BY <1>0, <1>4, TextWithin
  <1>7. /\ DOMAIN pieces = 1..Len(pieces) /\ Len(pieces) \in Nat
        /\ \A g \in 1..Len(pieces) : PartOf(doc, table, pieces[g].texts, parts[g]) /\ t \notin pieces[g].texts
        /\ \A row \in DataRows(doc, table) : Size(doc, TextOf(doc, row)) # 0 => \E g \in 1..Len(pieces) : row \in parts[g]
    BY <1>3, <1>4 DEF PartsAre, Range
  <1>8. ASSUME NEW row \in FindAll(doc, table, "tr"), t \in Subtree(doc, row) PROVE HeadAlone(rows)
    <2>1. row \in 1..Len(doc) /\ row \in Subtree(doc, table)
      BY <1>0, PartsOf
    <2>2. t \in TextOf(doc, row)
      BY <1>0, <1>4, <1>8, <2>1, TextBelow
    <2>3. row \notin DataRows(doc, table)
      <3>1. ASSUME row \in DataRows(doc, table) PROVE FALSE
        <4>1. Size(doc, TextOf(doc, row)) # 0
          <5>1. TextOf(doc, row) \in SUBSET (1..Len(doc))
            BY <1>0, <2>1, PartsOf
          <5>2. doc[t].len <= Size(doc, TextOf(doc, row)) /\ doc[t].len \in Nat
            BY <1>0, <2>2, <5>1, SizeOfOne
          <5> QED BY <5>2
        <4>2. PICK g \in 1..Len(pieces) : row \in parts[g]
          BY <1>7, <3>1, <4>1
        <4>3. TextOf(doc, row) \subseteq pieces[g].texts
          BY <1>7, <4>2 DEF PartOf
        <4> QED BY <1>7, <2>2, <4>3
      <3> QED BY <3>1
    <2>4. headed /\ row = rows[1]
      BY <1>8, <2>3 DEF DataRows, headed, rows
    <2>5. t \in Header(doc, table)
      BY <2>2, <2>4 DEF Header, headed, rows
    <2>6. \A g \in 1..Len(pieces) : FALSE
      BY <1>7, <2>5 DEF PartOf
    <2>7. \A x \in DataRows(doc, table) : Size(doc, TextOf(doc, x)) = 0
      BY <1>7, <2>6
    <2>8. \A n \in DOMAIN rows \ {1} : rows[n] \in DataRows(doc, table)
      <3>1. /\ DOMAIN rows = 1..Len(rows) /\ 1 \in 1..Len(rows)
            /\ \A n \in 1..Len(rows) : rows[n] \in FindAll(doc, table, "tr")
            /\ \A m, n \in 1..Len(rows) : m # n => rows[m] # rows[n]
        BY <1>0, <2>4, RowsOf DEF rows, headed
      <3>2. \A n \in DOMAIN rows \ {1} : rows[n] \in FindAll(doc, table, "tr") /\ rows[n] # rows[1]
        BY <3>1
      <3> QED BY <2>4, <3>2 DEF DataRows, rows, headed
    <2> QED BY <2>4, <2>7, <2>8 DEF HeadAlone, headed
  <1>9. LostIn(table, t)
    BY <1>5, <1>6, <1>8 DEF LostIn, rows
  <1> QED BY <1>9 DEF table

\* What a node that is chunked loses.
LEMMA NodeVanish ==
    ASSUME DocInv, NEW node \in 1..Len(doc), NEW t \in TextOf(doc, node), doc[t].len # 0,
           \A p \in Range(TableAware(doc, node)) : t \notin p.texts
    PROVE  \E table \in FindAll(doc, node, "table") : LostIn(table, t)
  <1> DEFINE whole == Piece(node, <<>>, TextOf(doc, node))
             bare == Piece(node, <<>>, TextWithoutTables(doc, node))
             lists == TableLists(node)
             flat == FlattenSeq(lists)
             aware == TableAware(doc, node)
  <1>0. /\ Tree(doc) /\ bare \in Cut /\ flat \in Seq(Cut)
        /\ lists \in Seq(Seq(Cut)) /\ Len(lists) = Len(Tables(node))
    BY DocIsTree, TableAwareInCut, TablesOf, FlattenTyped
  <1>1. whole.texts = TextOf(doc, node) /\ bare.texts = TextWithoutTables(doc, node)
    BY DEF Piece
  <1>2. aware = <<whole>> \/ aware = <<bare>> \o flat
    BY TableAwareIs
  <1> HIDE DEF whole, bare, flat, aware
  <1>3. aware # <<whole>>
    <2>1. Range(<<whole>>) = {whole}
      BY DEF Range
    <2> QED BY <1>1, <2>1 DEF aware
  <1>4. Range(aware) = {bare} \cup Range(flat)
    <2>1. <<bare>> \in Seq(Cut) /\ Range(<<bare>>) = {bare}
      BY <1>0 DEF Range
    <2> DEFINE one == <<bare>>
    <2> HIDE DEF one
    <2>2. one \in Seq(Cut) /\ flat \in Seq(Cut)
      BY <1>0, <2>1 DEF one
    <2>3. Range(one \o flat) = Range(one) \cup Range(flat)
      BY <2>2, ConcatRange
    <2> QED BY <1>2, <1>3, <2>1, <2>3 DEF one
  <1>5. t \notin TextWithoutTables(doc, node)
    BY <1>1, <1>4 DEF aware
  <1>6. \E c \in FindAll(doc, node, "table") : t \in Subtree(doc, c)
    <2>1. /\ t \in FindAll(doc, node, "text")
          /\ \A c \in Subtree(doc, node) : c # node /\ t \in Subtree(doc, c) => doc[c].tag \notin {"authorialNote", "foreign"}
      BY <1>0, TextsAre DEF TextOf
    <2>2. PICK c \in Subtree(doc, node) :
              c # node /\ t \in Subtree(doc, c) /\ doc[c].tag \in {"authorialNote", "foreign", "table"}
      BY <1>0, <1>5, <2>1, TextsAre DEF TextWithoutTables
    <2> QED BY <2>1, <2>2 DEF FindAll
  <1>7. PICK table \in FindAll(doc, node, "table") : t \in Subtree(doc, table)
    BY <1>6
  <1>8. table \in Subtree(doc, node)
    BY DEF FindAll
  <1>9. t \in TextOf(doc, table)
    BY <1>7, <1>8, TextBelow
  <1>10. PICK k \in 1..Len(Tables(node)) : Tables(node)[k] = table
    BY TablesOf
  <1>11. \A p \in Range(lists[k]) : p \in Range(aware)
    <2> HIDE DEF lists
    <2>1. k \in 1..Len(lists)
      BY <1>0
    <2>2. \A p \in Range(lists[k]) : p \in Range(FlattenSeq(lists))
      BY <1>0, <2>1, FlattenRange
    <2> QED BY <1>4, <2>2 DEF flat
  <1>12. \A p \in Range(TableLists(node)[k]) : t \notin p.texts
    BY <1>11 DEF aware
  <1>13. LostIn(Tables(node)[k], t)
    BY <1>9, <1>10, <1>12, TableVanish
  <1> QED BY <1>10, <1>13

\* The texts of all chunks.
Chunked == UNION {c.texts : c \in Range(ChunkDocument(doc).chunks)}

LEMMA PieceChunked ==
    ASSUME DocInv, ChunkDocument(doc).ok, NEW r \in Range(Roots(doc)), NEW p \in Range(BodyPieces(doc, r)),
           NEW t \in p.texts, doc[t].len # 0
    PROVE  t \in Chunked
  <1>1. r \in 1..Len(doc) /\ Body(doc, r) # NoNode
    BY RootsAre DEF RootOf
  <1>2. p \in Cut
    <2> DEFINE pieces == BodyPieces(doc, r)
    <2>1. pieces \in Seq(Cut) /\ p \in Range(pieces)
      BY <1>1, PiecesOfRoot
    <2> HIDE DEF pieces
    <2> QED BY <2>1 DEF Range
  <1>3. p.texts \in SUBSET (1..Len(doc))
    BY <1>2 DEF Cut, PieceSet
  <1>4. Size(doc, p.texts) # 0
    <2>1. doc[t].len <= Size(doc, p.texts) /\ doc[t].len \in Nat
      BY <1>3, DocIsMeasured, SizeOfOne
    <2> QED BY <2>1
  <1>5. PICK c \in Range(ChunkDocument(doc).chunks) : c.texts = p.texts
    BY <1>4, ChunksTold
  <1> QED BY <1>5 DEF Chunked

\* What is lost of a node that is chunked is lost in a table of it.
LEMMA SourceVanish ==
    ASSUME DocInv, ChunkDocument(doc).ok, NEW r \in Range(Roots(doc)), ClassifyPattern(doc, r) # "Other",
           NEW u \in 1..Len(doc), NEW n \in Range(Sources(doc, r)), n \in Subtree(doc, u),
           NEW t \in TextOf(doc, n), doc[t].len # 0, t \notin Chunked
    PROVE  \E table \in FindAll(doc, u, "table") : LostIn(table, t)
  <1>1. r \in 1..Len(doc) /\ Body(doc, r) # NoNode
    BY RootsAre DEF RootOf
  <1>2. n \in 1..Len(doc)
    BY <1>1, SourcesAre DEF SourceOf
  <1>3. \A p \in Range(TableAware(doc, n)) : p \in Range(BodyPieces(doc, r))
    BY <1>1, SourcePieces, BodyPiecesAre
  <1>4. \A p \in Range(TableAware(doc, n)) : t \notin p.texts
    BY <1>3, PieceChunked
  <1>5. PICK table \in FindAll(doc, n, "table") : LostIn(table, t)
    BY <1>2, <1>4, NodeVanish
  <1>6. table \in FindAll(doc, u, "table")
    BY DocIsTree, Transitive DEF FindAll
  <1> QED BY <1>5, <1>6

LEMMA UnitVanish ==
    ASSUME DocInv, ChunkDocument(doc).ok, NEW r \in Range(Roots(doc)), NEW u \in Units(r),
           NEW t \in TextOf(doc, u), doc[t].len # 0, t \notin Chunked
    PROVE  \/ /\ doc[u].tag = "article" /\ Split(doc, u) /\ Paragraphs(doc, u) # {}
              /\ \A q \in Paragraphs(doc, u) : t \notin Subtree(doc, q)
           \/ \E table \in FindAll(doc, u, "table") : LostIn(table, t)
  <1> DEFINE b == Body(doc, r)
             pattern == ClassifyPattern(doc, r)
  <1>0. Tree(doc) /\ r \in 1..Len(doc) /\ b # NoNode /\ b \in 1..Len(doc)
    BY DocIsTree, RootsAre, BodyOf DEF RootOf
  <1>1. pattern \in {"Structured", "FlatArticles", "LevelBased", "Amendment", "Other"}
    BY <1>0 DEF ClassifyPattern
  <1>2. \A tag : FindAll(doc, b, tag) \in SUBSET (1..Len(doc))
    BY <1>0, PartsOf
  <1>3. CASE pattern \in {"Structured", "FlatArticles"}
    <2>1. u \in FindAll(doc, b, "article")
      BY <1>3 DEF Units
    <2>2. u \in 1..Len(doc) /\ doc[u].tag = "article" /\ pattern # "Other" /\ u \in Subtree(doc, u)
      BY <1>0, <1>2, <1>3, <2>1, SubtreeBounds DEF FindAll
    <2>3. \A n \in Divided(u) : n \in Range(Sources(doc, r))
      BY <1>0, <1>3, <2>1, SourcesAre
    <2>4. CASE ~Split(doc, u)
      <3>1. u \in Range(Sources(doc, r))
        BY <2>3, <2>4 DEF Divided
      <3> QED BY <2>2, <3>1, SourceVanish
    <2>5. CASE Split(doc, u) /\ \E q \in Paragraphs(doc, u) : t \in Subtree(doc, q)
      <3>1. PICK q \in Paragraphs(doc, u) : t \in Subtree(doc, q)
        BY <2>5
      <3>2. q \in Subtree(doc, u) /\ q \in Range(Sources(doc, r))
        <4>1. q \in Divided(u)
          BY <2>5 DEF Divided
        <4> QED BY <1>0, <2>1, <2>3, <4>1, DividedIs
      <3>3. t \in TextOf(doc, q)
        BY <2>2, <3>1, <3>2, TextBelow
      <3> QED BY <2>2, <3>2, <3>3, SourceVanish
    <2>6. CASE Split(doc, u) /\ ~(\E q \in Paragraphs(doc, u) : t \in Subtree(doc, q))
      BY <2>2, <2>6 DEF Split
    <2> QED BY <2>4, <2>5, <2>6
  <1>4. CASE pattern \in {"LevelBased", "Amendment"}
    <2>1. u \in Range(Sources(doc, r))
      BY <1>0, <1>4, SourcesAre DEF Units
    <2>2. u \in 1..Len(doc) /\ pattern # "Other"
      BY <1>0, <1>4, <2>1, SourcesAre DEF SourceOf
    <2>3. u \in Subtree(doc, u)
      BY <1>0, <2>2, SubtreeBounds
    <2> QED BY <2>1, <2>2, <2>3, SourceVanish
  <1>5. CASE pattern = "Other"
    <2>1. u \in FindAll(doc, b, "p") /\ u \in 1..Len(doc)
      BY <1>2, <1>5 DEF Units
    <2>2. Size(doc, TextOf(doc, u)) # 0
      <3>1. TextOf(doc, u) \in SUBSET (1..Len(doc))
        BY <1>0, <2>1, PartsOf
      <3>2. doc[t].len <= Size(doc, TextOf(doc, u)) /\ doc[t].len \in Nat
        BY <3>1, DocIsMeasured, SizeOfOne
      <3> QED BY <3>2
    <2>3. PICK q \in Range(BodyPieces(doc, r)) : TextOf(doc, u) \subseteq q.texts
      BY <1>0, <1>5, <2>1, <2>2, OtherPieces
    <2> QED BY <2>3, PieceChunked
  <1> QED BY <1>1, <1>3, <1>4, <1>5

LEMMA OnlyTheseVanishHolds == DocInv => OnlyTheseVanish
  <1> SUFFICES ASSUME DocInv PROVE OnlyTheseVanish
    OBVIOUS
  <1>1. ASSUME ChunkDocument(doc).ok, NEW r \in Range(Roots(doc)), NEW u \in Units(r), NEW t \in TextOf(doc, u) \ Chunked
        PROVE  \/ doc[t].len = 0
               \/ /\ doc[u].tag = "article" /\ Split(doc, u) /\ Paragraphs(doc, u) # {}
                  /\ \A q \in Paragraphs(doc, u) : t \notin Subtree(doc, q)
               \/ \E table \in FindAll(doc, u, "table") : LostIn(table, t)
    BY <1>1, UnitVanish
  <1> QED BY <1>1 DEF OnlyTheseVanish, Chunked, LostIn, Rows

LEMMA ChunkedOnceHolds == DocInv => ChunkedOnce
  BY NoTextTwiceHolds, OnlyTheseVanishHolds DEF ChunkedOnce

(* "jeden Satz 3-4x im Index", "stillschweigend verschwinden" (chunking.rs): *)
(* no text of a document is in two chunks and none that is to be chunked is  *)
(* in none, but for the cases ChunkedOnce names: in documents of any length, *)
(* nested in any way, and for any threshold.                                 *)
THEOREM ChunkedOnceAlways == Spec => []ChunkedOnce
  BY DocumentIsTree, ChunkedOnceHolds, PTL

-----------------------------------------------------------------------------
(* Chunks cite.                                                               *)

\* As many ids as chunks, if no two are the same.
LEMMA AsManyAs ==
    ASSUME NEW n \in Nat, NEW J, NEW f \in [1..n -> J], \A y \in J : \E i \in 1..n : f[i] = y,
           \A i, j \in 1..n : i < j => f[i] # f[j]
    PROVE  Cardinality(J) = n
  <1> DEFINE S == 1..n
  <1>1. IsFiniteSet(S) /\ Cardinality(S) = n
    BY FS_Interval
  <1>2. f \in [S -> J]
    OBVIOUS
  <1>3. \A i, j \in S : i # j => f[i] # f[j]
    <2> TAKE i \in S, j \in S
    <2>1. i # j => i < j \/ j < i
      OBVIOUS
    <2> QED BY <2>1
  <1>4. \A y \in J : \E i \in S : f[i] = y
    OBVIOUS
  <1> HIDE DEF S
  <1>5. f \in Surjection(S, J) /\ f \in Injection(S, J)
    BY <1>2, <1>3, <1>4 DEF Surjection, Injection, IsInjective
  <1>6. Cardinality(J) = Cardinality(S)
    BY <1>1, <1>5, FS_Surjection
  <1> QED BY <1>1, <1>6

LEMMA IdsDiffer ==
    ASSUME DocInv, ChunkDocument(doc).ok, UniqueEids, UniqueWorks
    PROVE  Cardinality({ChunkId(c) : c \in Range(ChunkDocument(doc).chunks)}) = Len(ChunkDocument(doc).chunks)
  <1> DEFINE chunks == ChunkDocument(doc).chunks
  <1>1. chunks \in Seq(AnyChunk) /\ Apart(chunks, Told)
    BY ChunksTold
  <1> HIDE DEF chunks
  <1> DEFINE n == Len(chunks)
             T == {ChunkId(c) : c \in Range(chunks)}
             f == [i \in 1..n |-> ChunkId(chunks[i])]
  <1>2. n \in Nat /\ DOMAIN chunks = 1..n
    BY <1>1
  <1>3. \A i, j \in 1..n : i < j => ChunkId(chunks[i]) # ChunkId(chunks[j])
    BY <1>1 DEF Apart, Told
  <1>4. f \in [1..n -> T]
    BY <1>2 DEF Range
  <1>5. \A y \in T : \E i \in 1..n : f[i] = y
    BY <1>2 DEF Range
  <1>6. \A i, j \in 1..n : i < j => f[i] # f[j]
    BY <1>3
  <1> HIDE DEF n, f, T
  <1>7. Cardinality(T) = n
    BY <1>2, <1>4, <1>5, <1>6, AsManyAs
  <1> QED BY <1>7 DEF T, n, chunks

\* An eId that is given once leads to its element, in either spelling.
LEMMA Cited ==
    ASSUME DocInv, UniqueEids, NEW r \in 1..Len(doc), NEW n \in Subtree(doc, r), doc[n].eid # None,
           NEW e \in {doc[n].eid, NormalizeEid(doc[n].eid)}
    PROVE  ResolveEid(doc, r, e).node = n /\ ResolveEid(doc, r, e).duplicates = 0
  <1>0. Tree(doc) /\ DOMAIN doc = 1..Len(doc) /\ n \in 1..Len(doc) /\ n \in Nat
    BY DocIsTree, SubtreeBounds DEF Tree
  <1>1. \A i \in 1..Len(doc) : doc[i].eid \in EidValues \cup {None}
    BY NodesOf DEF DocInv
  <1>2. \A x \in EidValues : /\ NormalizeEid(x).num = x.num /\ NormalizeEid(x) \in EidValues
                             /\ NormalizeEid(NormalizeEid(x)) = NormalizeEid(x)
    <2>1. \A b \in BOOLEAN : \A x \in EidValues :
              LET y == [x EXCEPT !.underscore = b]
              IN  y.num = x.num /\ y \in EidValues /\ [y EXCEPT !.underscore = b] = y
      BY DEF EidValues
    <2>2. FALSE \in BOOLEAN
      OBVIOUS
    <2> QED BY <2>1, <2>2, Zenon DEF NormalizeEid
  <1>3. doc[n].eid \in EidValues
    BY <1>0, <1>1
  <1>4. e \in EidValues /\ e # None /\ e.num = doc[n].eid.num /\ NormalizeEid(e) = NormalizeEid(doc[n].eid)
    BY <1>2, <1>3, NoneAssumption
  <1> DEFINE exact == LookupEid(doc, r, e)
             other == {i \in Subtree(doc, r) : doc[i].eid # None /\ NormalizeEid(doc[i].eid) = NormalizeEid(e)}
             hits == IF exact # {} THEN exact ELSE other
  <1>5. \A i \in Subtree(doc, r) : i \in 1..Len(doc)
    BY <1>0, SubtreeBounds
  <1>6. \A i \in exact : i = n
    <2> TAKE i \in exact
    <2>1. i \in 1..Len(doc) /\ doc[i].eid = e
      BY <1>5 DEF LookupEid
    <2>2. doc[i].eid # None /\ doc[i].eid.num = doc[n].eid.num
      BY <1>4, <2>1
    <2> QED BY <1>0, <2>1, <2>2 DEF UniqueEids
  <1>7. \A i \in other : i = n
    <2> TAKE i \in other
    <2>1. i \in 1..Len(doc) /\ doc[i].eid # None /\ NormalizeEid(doc[i].eid) = NormalizeEid(e)
      BY <1>5
    <2>2. doc[i].eid \in EidValues
      BY <1>1, <2>1
    <2>3. doc[i].eid.num = doc[n].eid.num
      BY <1>2, <1>3, <1>4, <2>1, <2>2
    <2> QED BY <1>0, <2>1, <2>3 DEF UniqueEids
  <1>8. n \in other
    BY <1>4
  <1>9. hits = {n}
    BY <1>6, <1>7, <1>8
  <1>10. Min({n}) = n /\ Cardinality({n}) = 1 /\ {n} # {}
    <2>1. {n} \subseteq Nat /\ {n} # {} /\ Cardinality({n}) = 1
      BY <1>0, FS_Singleton
    <2>2. Min({n}) \in {n}
      BY <2>1, MinIs
    <2> QED BY <2>1, <2>2
  <1>11. ResolveEid(doc, r, e) = [node |-> IF hits = {} THEN NoNode ELSE Min(hits), duplicates |-> Cardinality(hits) - 1]
    BY DEF ResolveEid
  <1> HIDE DEF hits
  <1>12. ResolveEid(doc, r, e) = [node |-> n, duplicates |-> 0]
    BY <1>9, <1>10, <1>11
  <1> QED BY <1>12

\* What a node is cut into stands in it, or in a table or a row of it.
LEMMA CutHolds ==
    ASSUME DocInv, NEW node \in 1..Len(doc), NEW p, CutFrom(node, p), NEW t \in p.texts
    PROVE  \E n \in Subtree(doc, node) : (n = node \/ doc[n].tag \in {"table", "tr"}) /\ t \in TextOf(doc, n)
  <1>0. Tree(doc) /\ node \in Subtree(doc, node)
    BY DocIsTree, SubtreeBounds
  <1>1. CASE p.texts \in {TextOf(doc, node), TextWithoutTables(doc, node)}
    BY <1>0, <1>1, TextWithin
  <1>2. ASSUME NEW table \in FindAll(doc, node, "table"), p.texts = TextOf(doc, table) \/ \E I : PartOf(doc, table, p.texts, I)
        PROVE  \E n \in Subtree(doc, node) : (n = node \/ doc[n].tag \in {"table", "tr"}) /\ t \in TextOf(doc, n)
    <2>1. table \in Subtree(doc, node) /\ table \in 1..Len(doc) /\ doc[table].tag = "table"
      BY <1>0, PartsOf DEF FindAll
    <2>2. CASE p.texts = TextOf(doc, table)
      BY <2>1, <2>2
    <2>3. CASE \E I : PartOf(doc, table, p.texts, I)
      <3>1. PICK row \in FindAll(doc, table, "tr") : t \in TextOf(doc, row)
        BY <2>1, <2>3, PartWithin
      <3>2. row \in Subtree(doc, node) /\ doc[row].tag = "tr"
        BY <1>0, <2>1, Transitive DEF FindAll
      <3> QED BY <3>1, <3>2
    <2> QED BY <1>2, <2>2, <2>3
  <1> QED BY <1>1, <1>2 DEF CutFrom

LEMMA ChunksCiteHolds == DocInv => ChunksCite
  <1> SUFFICES ASSUME DocInv, ChunkDocument(doc).ok, UniqueEids, UniqueWorks, NEW c \in Range(ChunkDocument(doc).chunks)
               PROVE  \E r \in Range(Roots(doc)) :
                         /\ EliWork(doc, r) # None /\ c.eli = WorkEliPath(EliWork(doc, r))
                         /\ c.texts \subseteq Subtree(doc, r)
                         /\ c.eid # None =>
                               \A e \in {c.eid, NormalizeEid(c.eid)} :
                                  LET hit == ResolveEid(doc, r, e)
                                  IN  /\ hit.node # NoNode /\ hit.duplicates = 0
                                      /\ \A t \in c.texts : \E n \in Subtree(doc, hit.node) :
                                            (n = hit.node \/ doc[n].tag \in {"table", "tr"}) /\ t \in TextOf(doc, n)
    BY IdsDiffer DEF ChunksCite
  <1>1. PICK r \in Range(Roots(doc)), p \in Cut, i \in Nat :
            /\ c = ChunkOf(doc, r, p, i) /\ RootOf(r) /\ EliWork(doc, r) # None /\ PieceOf(r, p)
            /\ p.node # NoNode => c.eid = doc[p.node].eid
            /\ p.node = NoNode => c.eid = None
            /\ c.suffix = p.suffix /\ c.texts = p.texts /\ c.eli = WorkEliPath(EliWork(doc, r))
    BY ChunkIsCut
  <1>2. c.texts \subseteq Subtree(doc, r)
    BY <1>1 DEF PieceOf
  <1>3. ASSUME c.eid # None, NEW e \in {c.eid, NormalizeEid(c.eid)}
        PROVE  LET hit == ResolveEid(doc, r, e)
               IN  /\ hit.node # NoNode /\ hit.duplicates = 0
                   /\ \A t \in c.texts : \E n \in Subtree(doc, hit.node) :
                         (n = hit.node \/ doc[n].tag \in {"table", "tr"}) /\ t \in TextOf(doc, n)
    <2> DEFINE node == p.node
    <2>1. node # NoNode /\ c.eid = doc[node].eid
      BY <1>1, <1>3
    <2>2. SourceOf(r, node) /\ CutFrom(node, p)
      BY <1>1, <2>1 DEF PieceOf
    <2>3. r \in 1..Len(doc) /\ node \in 1..Len(doc) /\ node \in Subtree(doc, r)
      <3>1. r \in 1..Len(doc) /\ Body(doc, r) # NoNode /\ node \in 1..Len(doc) /\ node \in Subtree(doc, Body(doc, r))
        BY <1>1, <2>2 DEF RootOf, SourceOf
      <3>2. Body(doc, r) \in Subtree(doc, r)
        BY <3>1, DocIsTree, BodyOf
      <3> QED BY <3>1, <3>2, DocIsTree, Transitive
    <2> HIDE DEF node
    <2>4. ResolveEid(doc, r, e).node = node /\ ResolveEid(doc, r, e).duplicates = 0
      BY <1>3, <2>1, <2>3, Cited
    <2>5. \A t \in c.texts : \E n \in Subtree(doc, node) :
              (n = node \/ doc[n].tag \in {"table", "tr"}) /\ t \in TextOf(doc, n)
      BY <1>1, <2>2, <2>3, CutHolds
    <2> QED BY <2>1, <2>4, <2>5
  <1> QED BY <1>1, <1>2, <1>3

(* "Stabile ID", "eId der Chunk-Quelle" (chunking.rs): chunk_ids differ, and *)
(* a chunk leads back to the document it was cut from and, in either         *)
(* spelling of its eId, to the element that holds its text, where eIds are   *)
(* unique and components are works of their own; in documents of any length, *)
(* with any number of components.                                            *)
THEOREM ChunksCiteAlways == Spec => []ChunksCite
  BY DocumentIsTree, ChunksCiteHolds, PTL

=============================================================================
