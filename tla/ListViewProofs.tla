--------------------------- MODULE ListViewProofs ---------------------------
(***************************************************************************)
(* Proofs about a list of the web administration tool, for any number of   *)
(* rows, any size of a page, any filters and sorts, and an administrator   *)
(* who waits for the answers: its types, that what is drawn is what was    *)
(* asked for, and that the selection is what is counted and shown.         *)
(***************************************************************************)
EXTENDS ListView, SequenceTheorems, FiniteSetTheorems, TLAPS

(***************************************************************************)
(* Numbers and sequences.  The induction of the library takes an operator; *)
(* here it is about a set, by way of its least-number principle.           *)
(***************************************************************************)
\* A set of numbers with 0, and with each number the next, has them all.
LEMMA Upward ==
  ASSUME NEW A, 0 \in A, \A n \in Nat : n \in A => n + 1 \in A
  PROVE  Nat \subseteq A
<1> DEFINE R == OpToRel(<, Nat)
           T == Nat \ A
<1>1. IsWellFoundedOn(R, Nat)
  BY NatLessThanWellFounded
<1>2. R = {ss \in Nat \X Nat : ss[1] < ss[2]}
  BY DEF OpToRel
<1> HIDE DEF R
<1> SUFFICES ASSUME T # {} PROVE FALSE
  OBVIOUS
<1>3. PICK x \in T : \A y \in T : ~(<<y, x>> \in R)
  BY <1>1, WFMin
<1>4. x # 0 /\ x - 1 \in Nat /\ (x - 1) + 1 = x
  BY <1>3
<1>5. x - 1 \in A
  <2>1. \A y \in T : ~(y < x)
    BY <1>2, <1>3
  <2> QED BY <1>3, <1>4, <2>1
<1> QED BY <1>3, <1>4, <1>5

\* A set of numbers has a least one.
LEMMA MinFacts ==
  ASSUME NEW T \in SUBSET Nat, T # {}
  PROVE  Min(T) \in T /\ \A y \in T : Min(T) <= y
<1> SUFFICES ASSUME \A x \in T : \E y \in T : y < x PROVE FALSE
  <2>1. (\E x \in T : \A y \in T : x <= y) => Min(T) \in T /\ \A y \in T : Min(T) <= y
    BY DEF Min
  <2> QED BY <2>1
<1> DEFINE A == {n \in Nat : \A m \in 0..n : m \notin T}
<1>1. 0 \in A
  BY SMT
<1>2. \A n \in Nat : n \in A => n + 1 \in A
  <2> SUFFICES ASSUME NEW n \in Nat, n \in A, NEW m \in 0..(n + 1), m \in T PROVE FALSE
    OBVIOUS
  <2>1. PICK y \in T : y < m
    OBVIOUS
  <2>2. y \in 0..n
    BY <2>1
  <2> QED BY <2>2
<1>3. Nat \subseteq A
  <2> HIDE DEF A
  <2> QED BY <1>1, <1>2, Upward
<1>4. PICK x : x \in T /\ x \in Nat
  OBVIOUS
<1>5. \A m \in 0..x : m \notin T
  <2>1. x \in A
    BY <1>3, <1>4
  <2> QED BY <2>1
<1> QED BY <1>4, <1>5

\* The number of pages that n rows make: there are no pages without rows, no more pages
\* than rows, and a row that comes after k full pages is on another one.
LEMMA CeilFacts ==
  ASSUME NEW n \in Nat
  PROVE  /\ Ceil(n, Block) \in 0..n
         /\ n > 0 => Ceil(n, Block) > 0
         /\ \A k \in Nat : k * Block < n => k < Ceil(n, Block)
<1> DEFINE m == Block
           q == (n + m - 1) \div m
<1>1. m \in Nat /\ m > 0
  BY ListAssumption
<1> HIDE DEF m
<1>2. q \in Int /\ m * q <= n + m - 1 /\ n + m - 1 < m * q + m
  BY <1>1
<1>3. q >= 0
  BY <1>1, <1>2
<1>4. q <= n
  BY <1>1, <1>2
<1>5. \A k \in Nat : k * m < n => k < q
  BY <1>1, <1>2
<1>6. n > 0 => q > 0
  BY <1>1, <1>5, 0 * m = 0, 0 \in Nat
<1> QED BY <1>2, <1>3, <1>4, <1>5, <1>6 DEF Ceil, m

\* The elements of a sequence.
LEMMA ToSetFacts ==
  ASSUME NEW X, NEW s \in Seq(X)
  PROVE  /\ ToSet(s) \subseteq X
         /\ \A e : e \in ToSet(s) <=> \E i \in 1..Len(s) : s[i] = e
  BY LenProperties DEF ToSet

\* A sequence grows at its end.
LEMMA AppendFacts ==
  ASSUME NEW X, NEW s \in Seq(X), NEW e \in X
  PROVE  /\ Append(s, e) \in Seq(X)
         /\ Len(Append(s, e)) = Len(s) + 1
         /\ ToSet(Append(s, e)) = ToSet(s) \cup {e}
         /\ (IsInjective(s) /\ e \notin ToSet(s)) => IsInjective(Append(s, e))
<1> DEFINE t == Append(s, e)
           n == Len(s)
<1>1. /\ t \in Seq(X) /\ Len(t) = n + 1
      /\ \A i \in 1..n : t[i] = s[i]
      /\ t[n + 1] = e
  BY AppendProperties
<1>2. n \in Nat /\ DOMAIN s = 1..n /\ DOMAIN t = 1..(n + 1)
  BY <1>1, LenProperties
<1> HIDE DEF t, n
<1>3. ToSet(t) = ToSet(s) \cup {e}
  BY <1>1, <1>2 DEF ToSet
<1>4. ASSUME IsInjective(s), e \notin ToSet(s) PROVE IsInjective(t)
  <2> SUFFICES ASSUME NEW a \in 1..(n + 1), NEW b \in 1..(n + 1), t[a] = t[b] PROVE a = b
    BY <1>2 DEF IsInjective
  <2>1. \A i \in 1..n : s[i] # e
    BY <1>2, <1>4 DEF ToSet
  <2>2. CASE a \in 1..n /\ b \in 1..n
    BY <1>1, <1>2, <1>4, <2>2 DEF IsInjective
  <2>3. CASE a = n + 1 \/ b = n + 1
    BY <1>1, <1>2, <2>1, <2>3
  <2> QED BY <1>2, <2>2, <2>3
<1> QED BY <1>1, <1>3, <1>4 DEF t, n

\* A part of a sequence.
LEMMA SubSeqFacts ==
  ASSUME NEW X, NEW s \in Seq(X), NEW a \in Int, NEW b \in Int, a >= 1, b <= Len(s)
  PROVE  /\ SubSeq(s, a, b) \in Seq(X)
         /\ Len(SubSeq(s, a, b)) = IF a <= b THEN b - a + 1 ELSE 0
         /\ \A i \in 1..(b - a + 1) : SubSeq(s, a, b)[i] = s[a + i - 1]
         /\ ToSet(SubSeq(s, a, b)) \subseteq ToSet(s)
         /\ IsInjective(s) => IsInjective(SubSeq(s, a, b))
<1> DEFINE t == SubSeq(s, a, b)
           n == Len(s)
<1>0. n \in Nat /\ DOMAIN s = 1..n /\ s \in [1..n -> X]
  BY LenProperties
<1>1. /\ t \in Seq(X)
      /\ Len(t) = IF a <= b THEN b - a + 1 ELSE 0
      /\ \A i \in 1..(b - a + 1) : t[i] = s[a + i - 1]
  <2>1. \A i \in a..b : s[i] \in X
    BY <1>0
  <2> QED BY <2>1, SubSeqProperties
<1>2. DOMAIN t = 1..(b - a + 1)
  BY <1>1, LenProperties
<1> HIDE DEF t, n
<1>3. \A i \in 1..(b - a + 1) : a + i - 1 \in 1..n
  BY <1>0 DEF n
<1>4. ToSet(t) \subseteq ToSet(s)
  BY <1>0, <1>1, <1>2, <1>3 DEF ToSet
<1>5. ASSUME IsInjective(s) PROVE IsInjective(t)
  <2> SUFFICES ASSUME NEW i \in 1..(b - a + 1), NEW j \in 1..(b - a + 1), t[i] = t[j]
               PROVE  i = j
    BY <1>2 DEF IsInjective
  <2>1. s[a + i - 1] = s[a + j - 1]
    BY <1>1
  <2>2. a + i - 1 = a + j - 1
    BY <1>0, <1>3, <1>5, <2>1 DEF IsInjective
  <2> QED BY <2>2
<1> QED BY <1>1, <1>4, <1>5 DEF t

\* An element is taken out at position k.
LEMMA RemoveAtFacts ==
  ASSUME NEW X, NEW s \in Seq(X), NEW k \in 1..Len(s)
  PROVE  /\ RemoveAt(s, k) \in Seq(X)
         /\ Len(RemoveAt(s, k)) = Len(s) - 1
         /\ \A i \in 1..(Len(s) - 1) : RemoveAt(s, k)[i] = s[IF i < k THEN i ELSE i + 1]
         /\ ToSet(RemoveAt(s, k)) \subseteq ToSet(s)
         /\ IsInjective(s) => /\ IsInjective(RemoveAt(s, k))
                              /\ s[k] \notin ToSet(RemoveAt(s, k))
<1> DEFINE t == RemoveAt(s, k)
           n == Len(s)
           u == SubSeq(s, 1, k - 1)
           v == SubSeq(s, k + 1, n)
<1>0. n \in Nat /\ DOMAIN s = 1..n /\ k \in 1..n
  BY LenProperties
<1>1. /\ u \in Seq(X) /\ Len(u) = k - 1 /\ \A i \in 1..(k - 1) : u[i] = s[i]
  <2>1. Len(u) = IF 1 <= k - 1 THEN (k - 1) - 1 + 1 ELSE 0
    BY <1>0, SubSeqFacts
  <2>2. u \in Seq(X) /\ \A i \in 1..((k - 1) - 1 + 1) : u[i] = s[1 + i - 1]
    BY <1>0, SubSeqFacts
  <2> HIDE DEF u, v, n
  <2> QED BY <1>0, <2>1, <2>2
<1>2. /\ v \in Seq(X) /\ Len(v) = n - k /\ \A i \in 1..(n - k) : v[i] = s[k + i]
  <2>1. Len(v) = IF k + 1 <= n THEN n - (k + 1) + 1 ELSE 0
    BY <1>0, SubSeqFacts
  <2>2. v \in Seq(X) /\ \A i \in 1..(n - (k + 1) + 1) : v[i] = s[(k + 1) + i - 1]
    BY <1>0, SubSeqFacts
  <2> HIDE DEF u, v, n
  <2> QED BY <1>0, <2>1, <2>2
<1>3. t = u \o v
  BY DEF RemoveAt
<1> HIDE DEF t, u, v, n
<1>4. /\ t \in Seq(X) /\ Len(t) = n - 1
      /\ \A i \in 1..(n - 1) : t[i] = s[IF i < k THEN i ELSE i + 1]
  <2>1. /\ t \in Seq(X) /\ Len(t) = (k - 1) + (n - k)
        /\ \A i \in 1..((k - 1) + (n - k)) : t[i] = IF i <= k - 1 THEN u[i] ELSE v[i - (k - 1)]
    BY <1>1, <1>2, <1>3, ConcatProperties
  <2>2. ASSUME NEW i \in 1..(n - 1) PROVE t[i] = s[IF i < k THEN i ELSE i + 1]
    <3>1. CASE i < k
      BY <1>0, <1>1, <2>1, <3>1
    <3>2. CASE i >= k
      <4>1. i - (k - 1) \in 1..(n - k) /\ k + (i - (k - 1)) = i + 1
        BY <1>0, <3>2
      <4>2. t[i] = v[i - (k - 1)]
        BY <1>0, <2>1, <3>2
      <4> QED BY <1>2, <3>2, <4>1, <4>2
    <3> QED BY <1>0, <3>1, <3>2
  <2> QED BY <1>0, <2>1, <2>2
<1>5. DOMAIN t = 1..(n - 1)
  BY <1>4, LenProperties
<1>6. \A i \in 1..(n - 1) : (IF i < k THEN i ELSE i + 1) \in (1..n) \ {k}
  BY <1>0
<1>7. ToSet(t) \subseteq ToSet(s)
  BY <1>0, <1>4, <1>5, <1>6 DEF ToSet
<1>8. ASSUME IsInjective(s) PROVE IsInjective(t) /\ s[k] \notin ToSet(t)
  <2>1. ASSUME NEW i \in 1..(n - 1), NEW j \in 1..(n - 1), t[i] = t[j] PROVE i = j
    <3>1. s[IF i < k THEN i ELSE i + 1] = s[IF j < k THEN j ELSE j + 1]
      BY <1>4, <2>1
    <3>2. (IF i < k THEN i ELSE i + 1) = (IF j < k THEN j ELSE j + 1)
      BY <1>0, <1>6, <1>8, <3>1 DEF IsInjective
    <3> QED BY <1>0, <3>2
  <2>2. \A i \in 1..(n - 1) : t[i] # s[k]
    BY <1>0, <1>4, <1>6, <1>8 DEF IsInjective
  <2> QED BY <1>5, <2>1, <2>2 DEF IsInjective, ToSet
<1> QED BY <1>4, <1>7, <1>8 DEF t, n

(***************************************************************************)
(* The rows that pass a filter, and a page of them.                        *)
(***************************************************************************)
\* The recursion of Kept has a solution.
LEMMA KeptDefined ==
  ASSUME NEW l, NEW S, Len(l) \in Nat
  PROVE  \E kept : kept = [n \in 0..Len(l) |->
                             IF n = 0 THEN <<>>
                             ELSE IF l[n] \in S THEN Append(kept[n - 1], l[n])
                             ELSE kept[n - 1]]
<1> DEFINE G(m, g) == g = [n \in 0..m |-> IF n = 0 THEN <<>>
                                          ELSE IF l[n] \in S THEN Append(g[n - 1], l[n])
                                          ELSE g[n - 1]]
           A == {m \in Nat : \E g : G(m, g)}
<1>1. 0 \in A
  <2>1. G(0, [n \in 0..0 |-> <<>>])
    OBVIOUS
  <2> QED BY <2>1
<1>2. ASSUME NEW m \in Nat, m \in A PROVE m + 1 \in A
  <2>1. PICK g : G(m, g)
    BY <1>2
  <2> DEFINE h == [n \in 0..(m + 1) |->
                     IF n <= m THEN g[n]
                     ELSE IF l[n] \in S THEN Append(g[n - 1], l[n]) ELSE g[n - 1]]
  <2>2. \A n \in 0..m : h[n] = g[n]
    OBVIOUS
  <2>3. ASSUME NEW n \in 0..(m + 1)
        PROVE  h[n] = IF n = 0 THEN <<>>
                      ELSE IF l[n] \in S THEN Append(h[n - 1], l[n]) ELSE h[n - 1]
    <3>1. CASE n = 0
      BY <2>1, <2>2, <3>1
    <3>2. CASE n \in 1..m
      <4>1. n - 1 \in 0..m
        BY <3>2
      <4>2. n \in 0..m /\ n # 0
        BY <3>2
      <4>3. g[n] = IF l[n] \in S THEN Append(g[n - 1], l[n]) ELSE g[n - 1]
        BY <2>1, <4>2
      <4> QED BY <2>2, <4>1, <4>2, <4>3
    <3>3. CASE n = m + 1
      <4>1. n - 1 \in 0..m
        BY <3>3
      <4> QED BY <2>2, <3>3, <4>1
    <3> QED BY <3>1, <3>2, <3>3
  <2>4. G(m + 1, h)
    <3>1. h = [n \in 0..(m + 1) |-> h[n]]
      OBVIOUS
    <3> HIDE DEF h
    <3> QED BY <2>3, <3>1
  <2> HIDE DEF G, h
  <2> QED BY <2>4
<1>3. Len(l) \in A
  <2> HIDE DEF A
  <2> QED BY <1>1, <1>2, Upward
<1> QED BY <1>3

\* What is kept is in the sequence, in S, and not there more often.
LEMMA KeptFacts ==
  ASSUME NEW X, NEW l \in Seq(X), NEW S, IsInjective(l)
  PROVE  /\ Kept(l, S) \in Seq(X)
         /\ Len(Kept(l, S)) <= Len(l)
         /\ IsInjective(Kept(l, S))
<1> DEFINE K == CHOOSE kept : kept = [n \in 0..Len(l) |->
                  IF n = 0 THEN <<>>
                  ELSE IF l[n] \in S THEN Append(kept[n - 1], l[n]) ELSE kept[n - 1]]
           N == Len(l)
<1>0. N \in Nat /\ DOMAIN l = 1..N /\ \A i \in 1..N : l[i] \in X
  BY LenProperties
<1>1. K = [n \in 0..N |-> IF n = 0 THEN <<>>
                          ELSE IF l[n] \in S THEN Append(K[n - 1], l[n]) ELSE K[n - 1]]
  BY <1>0, KeptDefined
<1>2. Kept(l, S) = K[N]
  BY DEF Kept
<1> HIDE DEF K, N
<1> DEFINE A == {n \in Nat : n <= N =>
                   /\ K[n] \in Seq(X) /\ Len(K[n]) <= n /\ IsInjective(K[n])
                   /\ \A e \in ToSet(K[n]) : \E i \in 1..n : l[i] = e}
<1>3. 0 \in A
  <2>1. K[0] = <<>>
    BY <1>0, <1>1
  <2>2. <<>> \in Seq(X) /\ Len(<<>>) = 0 /\ IsInjective(<<>>) /\ ToSet(<<>>) = {}
    BY EmptySeq DEF IsInjective, ToSet
  <2>3. /\ K[0] \in Seq(X) /\ Len(K[0]) <= 0 /\ IsInjective(K[0])
        /\ \A e \in ToSet(K[0]) : \E i \in 1..0 : l[i] = e
    BY <2>1, <2>2
  <2> QED BY <2>3
<1>4. ASSUME NEW n \in Nat, n \in A PROVE n + 1 \in A
  <2> SUFFICES ASSUME n + 1 <= N
               PROVE  /\ K[n + 1] \in Seq(X) /\ Len(K[n + 1]) <= n + 1 /\ IsInjective(K[n + 1])
                      /\ \A e \in ToSet(K[n + 1]) : \E i \in 1..(n + 1) : l[i] = e
    OBVIOUS
  <2>1. /\ K[n] \in Seq(X) /\ Len(K[n]) <= n /\ IsInjective(K[n])
        /\ \A e \in ToSet(K[n]) : \E i \in 1..n : l[i] = e
    BY <1>0, <1>4
  <2>2. n + 1 \in 1..N /\ (n + 1) - 1 = n
    BY <1>0
  <2>3. K[n + 1] = IF l[n + 1] \in S THEN Append(K[n], l[n + 1]) ELSE K[n]
    <3>1. \A j \in 0..N : K[j] = IF j = 0 THEN <<>>
                                 ELSE IF l[j] \in S THEN Append(K[j - 1], l[j]) ELSE K[j - 1]
      BY <1>1
    <3>2. n + 1 \in 0..N /\ n + 1 # 0
      BY <2>2
    <3> HIDE DEF A
    <3> QED BY <2>2, <3>1, <3>2
  <2>4. CASE l[n + 1] \in S
    <3>1. l[n + 1] \in X
      BY <1>0, <2>2
    <3>2. l[n + 1] \notin ToSet(K[n])
      <4> SUFFICES ASSUME NEW i \in 1..n, l[i] = l[n + 1] PROVE FALSE
        BY <2>1
      <4> QED BY <1>0, <2>2 DEF IsInjective
    <3>3. /\ Append(K[n], l[n + 1]) \in Seq(X)
          /\ Len(Append(K[n], l[n + 1])) = Len(K[n]) + 1
          /\ ToSet(Append(K[n], l[n + 1])) = ToSet(K[n]) \cup {l[n + 1]}
          /\ IsInjective(Append(K[n], l[n + 1]))
      BY <2>1, <3>1, <3>2, AppendFacts
    <3>4. Len(K[n]) \in Nat
      BY <2>1, LenProperties
    <3>5. \A e \in ToSet(K[n]) \cup {l[n + 1]} : \E i \in 1..(n + 1) : l[i] = e
      BY <2>1
    <3> QED BY <2>1, <2>3, <2>4, <3>3, <3>4, <3>5
  <2>5. CASE l[n + 1] \notin S
    <3>1. Len(K[n]) \in Nat
      BY <2>1, LenProperties
    <3>2. \A e \in ToSet(K[n]) : \E i \in 1..(n + 1) : l[i] = e
      BY <2>1
    <3> QED BY <2>1, <2>3, <2>5, <3>1, <3>2
  <2> QED BY <2>4, <2>5
<1>5. N \in A
  <2> HIDE DEF A
  <2> QED BY <1>0, <1>3, <1>4, Upward
<1> QED BY <1>0, <1>2, <1>5 DEF N

\* There are finitely many rows, at least one, and each sort has each of them once.
LEMMA OrderFacts ==
  /\ IsFiniteSet(Ids) /\ Cardinality(Ids) \in Nat \ {0}
  /\ \A s \in Sorts : Len(Order[s]) = Cardinality(Ids)
<1>1. ASSUME NEW s \in Sorts
      PROVE  IsFiniteSet(Ids) /\ Cardinality(Ids) = Len(Order[s]) /\ Len(Order[s]) \in Nat
  <2> DEFINE o == Order[s]
             n == Len(o)
  <2>1. o \in Seq(Ids) /\ ToSet(o) = Ids /\ IsInjective(o)
    BY ListAssumption
  <2>2. n \in Nat /\ DOMAIN o = 1..n /\ o \in [1..n -> Ids]
    BY <2>1, LenProperties
  <2> HIDE DEF o, n
  <2>3. o \in Surjection(1..n, Ids) /\ o \in Injection(1..n, Ids)
    <3>1. \A e \in Ids : \E i \in 1..n : o[i] = e
      BY <2>1, <2>2 DEF ToSet
    <3> QED BY <2>1, <2>2, <3>1 DEF Surjection, Injection, IsInjective
  <2>4. IsFiniteSet(1..n) /\ Cardinality(1..n) = n
    BY <2>2, FS_Interval
  <2>5. IsFiniteSet(Ids) /\ Cardinality(Ids) = n
    BY <2>3, <2>4, FS_Surjection
  <2> QED BY <2>2, <2>5 DEF o, n
<1>2. PICK s \in Sorts : TRUE
  BY ListAssumption
<1>3. Cardinality(Ids) # 0
  BY <1>1, <1>2, FS_EmptySet, ListAssumption
<1> QED BY <1>1, <1>2, <1>3

\* The rows that the API lists.
LEMMA ListedFacts ==
  ASSUME NEW t, NEW f, NEW s \in Sorts
  PROVE  /\ Listed(t, f, s) \in Seq(Ids)
         /\ Len(Listed(t, f, s)) \in 0..Cardinality(Ids)
         /\ IsInjective(Listed(t, f, s))
<1>1. Order[s] \in Seq(Ids) /\ IsInjective(Order[s])
  BY ListAssumption
<1>2. /\ Listed(t, f, s) \in Seq(Ids) /\ Len(Listed(t, f, s)) <= Len(Order[s])
      /\ IsInjective(Listed(t, f, s))
  BY <1>1, KeptFacts DEF Listed
<1>3. Len(Listed(t, f, s)) \in Nat
  BY <1>2, LenProperties
<1> QED BY <1>2, <1>3, OrderFacts

\* A page of them; a page after the first that has rows is preceded by full pages.
LEMMA PageFacts ==
  ASSUME NEW t, NEW q \in Queries
  PROVE  /\ PageOf(t, q) \in Seq(Ids)
         /\ IsInjective(PageOf(t, q))
         /\ (q.offset > 1 /\ PageOf(t, q) # <<>>)
               => (q.offset - 1) * Block < Len(Listed(t, q.filters, q.sort))
<1> DEFINE l == Listed(t, q.filters, q.sort)
           from == (IF q.offset < 1 THEN 0 ELSE q.offset - 1) * Block
           to == IF from + Block < Len(l) THEN from + Block ELSE Len(l)
<1>1. l \in Seq(Ids) /\ Len(l) \in Nat /\ IsInjective(l)
  BY ListedFacts, OrderFacts DEF Queries
<1>2. from \in Nat /\ Block \in Nat
  <2>1. Block \in Nat /\ q.offset \in Nat
    BY ListAssumption DEF Queries
  <2>2. \A n \in Nat : n * Block \in Nat
    BY <2>1
  <2> QED BY <2>1, <2>2
<1>3. PageOf(t, q) = SubSeq(l, from + 1, to)
  BY DEF PageOf
<1>4. q.offset > 1 => from = (q.offset - 1) * Block
  BY DEF Queries
<1> HIDE DEF l, from
<1>5. to \in Int /\ to <= Len(l)
  BY <1>1, <1>2
<1>6. /\ SubSeq(l, from + 1, to) \in Seq(Ids)
      /\ IsInjective(SubSeq(l, from + 1, to))
      /\ Len(SubSeq(l, from + 1, to)) = IF from + 1 <= to THEN to - (from + 1) + 1 ELSE 0
  BY <1>1, <1>2, <1>5, SubSeqFacts
<1>7. SubSeq(l, from + 1, to) # <<>> => from < Len(l)
  <2> SUFFICES ASSUME SubSeq(l, from + 1, to) # <<>> PROVE from < Len(l)
    OBVIOUS
  <2>1. Len(SubSeq(l, from + 1, to)) # 0
    BY <1>6, EmptySeq
  <2> QED BY <1>1, <1>2, <1>5, <1>6, <2>1
<1> QED BY <1>3, <1>4, <1>6, <1>7 DEF l

(***************************************************************************)
(* What is true of a view, whatever is being done to it.                   *)
(***************************************************************************)
\* The pages that there are not, or the page the list is on, are of full pages only.
InPages(c) == c.offset > 1 => (c.offset - 1) * Block < c.total

\* No answer stands behind the collection, which fetchList has emptied.
Unanswered(c) == c.models = <<>> /\ c.from = NULL

\* The collection has no other rows than those that its query gave.
Asked(c) == c.from = Query(c) \/ Unanswered(c)

\* The list was drawn from its collection, and nothing has happened since.
Rendered(S) ==
  /\ ~S.busy /\ S.rows = S.coll.models /\ S.live = ToSet(S.rows) /\ S.head = "full"
  /\ S.off = Disabled(S.coll)
  /\ S.pages = IF S.coll.total = 0 THEN 1 ELSE Ceil(S.coll.total, Block)
  /\ Asked(S.coll) /\ InPages(S.coll)
  /\ ToSet(S.items) \cap ToSet(S.rows) \subseteq S.checked
  /\ S.menu = Len(S.items)

\* The view has its types, and no row twice.
Base(S) ==
  /\ S \in Views /\ ~S.threw
  /\ S.checked \subseteq ToSet(S.rows)
  /\ IsInjective(S.items) /\ IsInjective(S.rows) /\ IsInjective(S.coll.models)
  /\ S.coll.offset >= 1

\* Nothing is on its way, and the requests kept to be aborted are over.
Free(S) == S.wire = <<>> /\ S.requests \in Seq({Done})

\* One request is on its way, for the view as it is; a list is for its query, and none
\* is there until it comes.
Asks(S, x) ==
  /\ x \in Xhrs /\ S.wire = <<x>> /\ S.requests \in Seq({Done, x.id})
  /\ x.sel = NULL
  /\ x.kind \in {"first", "list"} => x.q = Query(S.coll)
  /\ x.kind = "first" => S.coll.offset = 1 /\ S.screen # "list"
  /\ x.kind = "list" => Unanswered(S.coll)

\* A view that rests, and one that waits for a list.
Resting(S) == Base(S) /\ Free(S) /\ (S.screen = "list" => Rendered(S))
Fetching(S) == Base(S) /\ \E x : Asks(S, x) /\ x.kind \in {"first", "list"}

\* Everything but the requests is the same.
SameView(S, T) ==
  /\ T.coll = S.coll /\ T.items = S.items /\ T.all = S.all /\ T.box = S.box
  /\ T.screen = S.screen /\ T.busy = S.busy /\ T.rows = S.rows /\ T.checked = S.checked
  /\ T.allBox = S.allBox /\ T.head = S.head /\ T.off = S.off /\ T.pages = S.pages
  /\ T.menu = S.menu /\ T.live = S.live /\ T.threw = S.threw

\* The views that differ in their requests only are drawn alike.
LEMMA SameViewFacts ==
  ASSUME NEW S, NEW T \in Views, SameView(S, T)
  PROVE  /\ Base(S) => Base(T)
         /\ Rendered(S) => Rendered(T)
  BY DEF SameView, Base, Rendered

\* A request is sent when none is on its way.
LEMMA SendFacts ==
  ASSUME NEW S \in Views, Free(S), NEW kind \in {"first", "list", "all"} \cup MassActions,
         NEW q \in Queries, NEW ids \in Seq(Ids), NEW of, of.copy \in BOOLEAN, of.sel = NULL,
         NEW stored \in Nat, kind \in {"first", "list"} => q = Query(S.coll),
         kind = "first" => S.coll.offset = 1 /\ S.screen # "list",
         kind = "list" => Unanswered(S.coll),
         NEW W, W = Send(S, kind, q, ids, of, stored)
  PROVE  /\ W \in Views /\ SameView(S, W)
         /\ \E x : Asks(W, x) /\ x.kind = kind /\ x.q = q /\ x.ids = ids
<1> DEFINE x == [id |-> FreshXhr(S), kind |-> kind, q |-> q, ids |-> ids,
                 copy |-> of.copy, sel |-> of.sel]
           e == [k \in 1..stored |-> x.id]
           T == [S EXCEPT !.wire = Append(@, x), !.requests = @ \o e]
<1>1. FreshXhr(S) = 1
  <2>1. S.wire = <<>> /\ Len(S.wire) = 0 /\ DOMAIN S.wire = {}
    BY EmptySeq DEF Free
  <2>2. FreshXhr(S) = CHOOSE n \in 1..1 : TRUE
    BY <2>1 DEF FreshXhr
  <2> QED BY <2>2
<1>2. x \in Xhrs /\ x.id = 1
  BY <1>1 DEF Xhrs, Done
<1>3. Append(S.wire, x) = <<x>>
  BY DEF Free
<1>4. S.requests \o e \in Seq({Done, 1}) /\ S.requests \o e \in Seq(Nat)
  <2>1. e \in Seq({Done, 1}) /\ e \in Seq(Nat)
    BY <1>2
  <2>2. S.requests \in Seq({Done, 1}) /\ S.requests \in Seq(Nat)
    BY DEF Free, Done
  <2> QED BY <2>1, <2>2, ConcatProperties
<1>5. Send(S, kind, q, ids, of, stored) = T
  BY DEF Send
<1>6. <<x>> \in Seq(Xhrs)
  BY <1>2
<1> HIDE DEF x, e
<1>7. T \in Views /\ SameView(S, T)
  BY <1>3, <1>4, <1>6 DEF Views, SameView
<1>8. T.wire = <<x>> /\ T.requests = S.requests \o e /\ T.coll = S.coll /\ T.screen = S.screen
  BY <1>3 DEF Views
<1> HIDE DEF T
<1>9. Asks(T, x)
  <2>1. x.sel = NULL /\ x.kind = kind /\ x.q = q
    BY DEF x
  <2> QED BY <1>2, <1>4, <1>8, <2>1 DEF Asks, Query
<1>10. x.kind = kind /\ x.q = q /\ x.ids = ids
  BY DEF x
<1> QED BY <1>5, <1>7, <1>9, <1>10

\* What the view asks for.
LEMMA QueryFacts ==
  ASSUME NEW c \in Colls
  PROVE  Query(c) \in Queries
  BY OrderFacts DEF Query, Colls, Queries

\* The list is fetched.
LEMMA FetchListFacts ==
  ASSUME NEW S, Base(S), Free(S), NEW of, of.copy \in BOOLEAN, of.sel = NULL
  PROVE  Fetching(FetchList(S, of))
<1> DEFINE c == [S.coll EXCEPT !.models = <<>>, !.from = NULL]
           U == [S EXCEPT !.coll = c]
           T == Send(U, "list", Query(c), <<>>, of, 1)
<1>1. S \in Views /\ S.coll \in Colls
  BY DEF Base, Views
<1>2. /\ c \in Colls /\ c.models = <<>> /\ c.from = NULL /\ c.offset = S.coll.offset
  <2>1. <<>> \in Seq(Ids)
    BY EmptySeq
  <2> QED BY <1>1, <2>1 DEF Colls
<1> HIDE DEF c
<1>3. U \in Views /\ U.coll = c /\ Free(U) /\ Base(U)
  <2>1. U \in Views /\ U.coll = c
    BY <1>1, <1>2 DEF Views
  <2>2. Free(U)
    BY <1>1 DEF Free, Views
  <2>3. IsInjective(c.models)
    BY <1>2 DEF IsInjective
  <2> QED BY <1>1, <1>2, <2>1, <2>2, <2>3 DEF Base, Views
<1>4. Query(c) \in Queries /\ <<>> \in Seq(Ids)
  BY <1>2, QueryFacts, EmptySeq
<1> HIDE DEF U
<1>5. T \in Views /\ SameView(U, T) /\ \E x : Asks(T, x) /\ x.kind = "list"
  <2> DEFINE k == "list"
             q == Query(c)
             ids == <<>>
             W == Send(U, k, q, ids, of, 1)
  <2>1. /\ k \in {"first", "list", "all"} \cup MassActions /\ k # "first"
        /\ q = Query(U.coll) /\ 1 \in Nat /\ Unanswered(U.coll)
    BY <1>2, <1>3 DEF Unanswered
  <2>2. q \in Queries /\ ids \in Seq(Ids)
    BY <1>4
  <2> HIDE DEF k, q, ids
  <2>3. W = Send(U, k, q, ids, of, 1)
    OBVIOUS
  <2> HIDE DEF W
  <2>4. W \in Views /\ SameView(U, W) /\ \E x : Asks(W, x) /\ x.kind = k
    BY <1>3, <2>1, <2>2, <2>3, SendFacts
  <2> QED BY <2>4 DEF W, k, q, ids
<1>6. FetchList(S, of) = T
  BY DEF FetchList, U, c
<1> QED BY <1>3, <1>5, <1>6, SameViewFacts DEF Fetching

\* A fetch is for the view or a copy, and holds no items yet.
LEMMA ForFacts ==
  /\ TheView.copy \in BOOLEAN /\ TheView.sel = NULL
  /\ ACopy.copy \in BOOLEAN /\ ACopy.sel = NULL
  BY DEF TheView, ACopy

\* A request is over.
LEMMA OverFacts ==
  ASSUME NEW S \in Views, NEW x, Asks(S, x), NEW completed,
         NEW W, W = Over(S, x, completed)
  PROVE  W \in Views /\ SameView(S, W) /\ Free(W)
<1> DEFINE left == IF completed /\ x.kind # "list"
                   THEN RemoveFirst(S.requests, x.id) ELSE S.requests
           w == RemoveAt(S.wire, SelectInSeq(S.wire, LAMBDA y : y.id = x.id))
           r == [e \in DOMAIN left |-> IF left[e] = x.id THEN Done ELSE left[e]]
           T == [S EXCEPT !.wire = w, !.requests = r]
<1>1. w = <<>>
  <2>1. /\ S.wire = <<x>> /\ Len(S.wire) = 1 /\ S.wire[1] = x
        /\ x \in Xhrs /\ S.wire \in Seq(Xhrs)
    BY DEF Asks
  <2>2. SelectInSeq(S.wire, LAMBDA y : y.id = x.id) = 1
    <3>1. {i \in 1..Len(S.wire) : S.wire[i].id = x.id} = {1}
      BY <2>1
    <3>2. Min({1}) = 1
      BY DEF Min
    <3> QED BY <3>1, <3>2 DEF SelectInSeq
  <2>3. RemoveAt(S.wire, 1) \in Seq(Xhrs) /\ Len(RemoveAt(S.wire, 1)) = 0
    <3>1. 1 \in 1..Len(S.wire)
      BY <2>1
    <3>2. RemoveAt(S.wire, 1) \in Seq(Xhrs) /\ Len(RemoveAt(S.wire, 1)) = Len(S.wire) - 1
      BY <2>1, <3>1, RemoveAtFacts
    <3> QED BY <2>1, <3>2
  <2> QED BY <2>2, <2>3, EmptySeq
<1>2. left \in Seq({Done, x.id})
  <2>1. S.requests \in Seq({Done, x.id})
    BY DEF Asks
  <2>2. ASSUME \E i \in 1..Len(S.requests) : S.requests[i] = x.id
        PROVE  RemoveFirst(S.requests, x.id) \in Seq({Done, x.id})
    <3> DEFINE I == {i \in 1..Len(S.requests) : S.requests[i] = x.id}
    <3>1. I # {} /\ I \in SUBSET Nat
      BY <2>2
    <3>2. Min(I) \in I
      BY <3>1, MinFacts
    <3>3. SelectInSeq(S.requests, LAMBDA v : v = x.id) = Min(I)
      BY <3>1 DEF SelectInSeq
    <3>4. Min(I) \in 1..Len(S.requests)
      BY <3>2
    <3> HIDE DEF I
    <3>5. RemoveAt(S.requests, Min(I)) \in Seq({Done, x.id})
      BY <2>1, <3>4, RemoveAtFacts
    <3> QED BY <2>2, <3>3, <3>5 DEF RemoveFirst
  <2>3. RemoveFirst(S.requests, x.id) \in Seq({Done, x.id})
    BY <2>1, <2>2 DEF RemoveFirst
  <2> QED BY <2>1, <2>3
<1>3. r \in Seq({Done}) /\ r \in Seq(Nat)
  <2> HIDE DEF left
  <2>1. /\ Len(left) \in Nat /\ DOMAIN left = 1..Len(left)
        /\ \A i \in 1..Len(left) : left[i] \in {Done, x.id}
    BY <1>2, LenProperties
  <2>2. r \in [1..Len(left) -> {Done}] /\ r \in [1..Len(left) -> Nat]
    BY <2>1 DEF Done
  <2> QED BY <2>1, <2>2
<1>4. Over(S, x, completed) = T
  BY DEF Over
<1> HIDE DEF w, r, left
<1>5. <<>> \in Seq(Xhrs)
  BY EmptySeq
<1>6. T \in Views /\ SameView(S, T)
  BY <1>1, <1>3, <1>5 DEF Views, SameView
<1>7. T.wire = <<>> /\ T.requests = r
  BY <1>1 DEF Views
<1> QED BY <1>3, <1>4, <1>6, <1>7 DEF Free

\* The empty sequence has nothing twice.
LEMMA EmptyFacts ==
  /\ \A X : <<>> \in Seq(X)
  /\ Len(<<>>) = 0 /\ DOMAIN <<>> = {}
  /\ IsInjective(<<>>) /\ ToSet(<<>>) = {}
  BY EmptySeq DEF IsInjective, ToSet

\* The rows give way to an animation or a message.
LEMMA LoadingFacts ==
  ASSUME NEW S, Base(S), Free(S), NEW head \in {"none", "full", "unsortable"},
         NEW W, W = Loading(S, head)
  PROVE  /\ Base(W) /\ Free(W)
         /\ W.coll = S.coll /\ W.off = S.off /\ W.items = S.items /\ W.head = head
         /\ W.screen = S.screen
<1>1. /\ W = [S EXCEPT !.rows = <<>>, !.checked = {}, !.busy = TRUE, !.head = head]
      /\ S \in Views /\ <<>> \in Seq(Ids)
  BY EmptyFacts DEF Loading, Base
<1>2. /\ W \in Views /\ W.coll = S.coll /\ W.off = S.off /\ W.items = S.items
      /\ W.head = head /\ W.screen = S.screen /\ W.threw = S.threw /\ W.wire = S.wire
      /\ W.requests = S.requests /\ W.rows = <<>> /\ W.checked = {}
  BY <1>1 DEF Views
<1> QED BY <1>2, EmptyFacts DEF Base, Free

\* Another page is asked for.
LEMMA OffsetFacts ==
  ASSUME NEW S, Base(S), Free(S), NEW n \in 1..Cardinality(Ids),
         NEW W, W = [S EXCEPT !.coll.offset = n]
  PROVE  Base(W) /\ Free(W) /\ W.off = S.off /\ W.coll.total = S.coll.total
<1> DEFINE c == [S.coll EXCEPT !.offset = n]
<1>1. S \in Views /\ S.coll \in Colls /\ n \in 0..Cardinality(Ids) /\ n >= 1
  BY OrderFacts DEF Base, Views
<1>2. /\ c \in Colls /\ c.models = S.coll.models /\ c.offset = n
      /\ c.total = S.coll.total
  BY <1>1 DEF Colls
<1>3. W = [S EXCEPT !.coll = c]
  OBVIOUS
<1> HIDE DEF c
<1>4. /\ W \in Views /\ W.coll = c /\ W.off = S.off /\ W.items = S.items
      /\ W.threw = S.threw /\ W.wire = S.wire
      /\ W.requests = S.requests /\ W.rows = S.rows /\ W.checked = S.checked
  BY <1>1, <1>2, <1>3 DEF Views
<1> QED BY <1>1, <1>2, <1>4 DEF Base, Free

\* Another sort or other filters are taken.
LEMMA CollFacts ==
  ASSUME NEW S, Base(S), Free(S), NEW c \in Colls, IsInjective(c.models), c.offset >= 1,
         NEW W, W = [S EXCEPT !.coll = c]
  PROVE  Base(W) /\ Free(W) /\ W.off = S.off /\ W.coll = c /\ W.head = S.head /\ W.screen = S.screen
<1>1. S \in Views
  BY DEF Base
<1>4. /\ W \in Views /\ W.coll = c /\ W.off = S.off /\ W.items = S.items
      /\ W.threw = S.threw /\ W.wire = S.wire /\ W.head = S.head /\ W.screen = S.screen
      /\ W.requests = S.requests /\ W.rows = S.rows /\ W.checked = S.checked
  BY <1>1 DEF Views
<1> QED BY <1>1, <1>4 DEF Base, Free

\* Without requests, new items are all that is new.
LEMMA SetItemsFacts ==
  ASSUME NEW S, Base(S), Free(S), NEW items \in Seq(Ids)
  PROVE  SetItems(S, items) = [S EXCEPT !.items = items]
<1> DEFINE w == [k \in DOMAIN S.wire |->
                   IF S.wire[k].copy /\ S.wire[k].sel = NULL
                   THEN [S.wire[k] EXCEPT !.sel = S.items] ELSE S.wire[k]]
           W == [S EXCEPT !.items = items, !.wire = w]
           V == [S EXCEPT !.items = items]
<1>1. S.wire = <<>> /\ DOMAIN S.wire = {}
  BY EmptyFacts DEF Free
<1>2. w = <<>>
  <2>1. w = [k \in {} |-> 0]
    BY <1>1
  <2>2. \A f : f = [k \in {} |-> 0] => f = <<>>
    BY EmptySeq
  <2> QED BY <2>1, <2>2
<1>3. SetItems(S, items) = W
  BY DEF SetItems
<1> HIDE DEF w
<1>4. W = V
  BY <1>1, <1>2 DEF Base, Views
<1> QED BY <1>3, <1>4

\* The selection is reset.
LEMMA ResetFacts ==
  ASSUME NEW S, Base(S), Free(S), NEW W, W = ResetSelectedItems(S)
  PROVE  /\ Base(W) /\ Free(W) /\ W.items = <<>> /\ W.checked = {}
         /\ W.menu = IF S.items # <<>> THEN 0 ELSE S.menu
         /\ W.coll = S.coll /\ W.off = S.off /\ W.screen = S.screen /\ W.head = S.head
         /\ W.rows = S.rows /\ W.live = S.live /\ W.busy = S.busy /\ W.pages = S.pages
<1> DEFINE V == [S EXCEPT !.items = <<>>]
<1>1. <<>> \in Seq(Ids) /\ S \in Views
  BY EmptyFacts DEF Base
<1>2. SetItems(S, <<>>) = V
  BY <1>1, SetItemsFacts
<1>3. /\ W = [V EXCEPT !.all = FALSE, !.checked = {}, !.allBox = FALSE,
                       !.menu = IF S.items # <<>> THEN 0 ELSE V.menu]
      /\ V.menu = S.menu
  BY <1>1, <1>2 DEF ResetSelectedItems, Views
<1>4. V \in Views /\ (IF S.items # <<>> THEN 0 ELSE V.menu) \in Nat
  BY <1>1, <1>3 DEF Views
<1>5. /\ V.items = <<>> /\ V.threw = S.threw /\ V.wire = S.wire /\ V.requests = S.requests
      /\ V.coll = S.coll /\ V.off = S.off /\ V.screen = S.screen /\ V.head = S.head
      /\ V.rows = S.rows /\ V.live = S.live /\ V.busy = S.busy /\ V.pages = S.pages
  BY <1>1 DEF Views
<1> HIDE DEF V
<1>6. /\ W \in Views /\ W.items = V.items /\ W.checked = {} /\ W.threw = V.threw
      /\ W.menu = (IF S.items # <<>> THEN 0 ELSE S.menu)
      /\ W.wire = V.wire /\ W.requests = V.requests
      /\ W.coll = V.coll /\ W.off = V.off /\ W.screen = V.screen /\ W.head = V.head
      /\ W.rows = V.rows /\ W.live = V.live /\ W.busy = V.busy /\ W.pages = V.pages
  BY <1>3, <1>4 DEF Views
<1> QED BY <1>5, <1>6, EmptyFacts DEF Base, Free

\* The rows of the page are selected.
LEMMA VisibleFacts ==
  ASSUME NEW S, Base(S), Free(S), NEW W, W = SelectVisible(S)
  PROVE  /\ Base(W) /\ Free(W) /\ W.items = S.rows /\ W.checked = ToSet(S.rows)
         /\ W.menu = Len(S.rows)
         /\ W.coll = S.coll /\ W.off = S.off /\ W.screen = S.screen /\ W.head = S.head
         /\ W.rows = S.rows /\ W.live = S.live /\ W.busy = S.busy /\ W.pages = S.pages
<1> DEFINE U == [S EXCEPT !.checked = ToSet(S.rows)]
           V == [U EXCEPT !.items = S.rows]
<1>1. S \in Views /\ S.rows \in Seq(Ids) /\ ToSet(S.rows) \subseteq Ids /\ Len(S.rows) \in Nat
  <2>1. S \in Views /\ S.rows \in Seq(Ids)
    BY DEF Base, Views
  <2> QED BY <2>1, ToSetFacts, LenProperties
<1>2. /\ U \in Views /\ U.items = S.items /\ U.checked = ToSet(S.rows) /\ U.rows = S.rows
      /\ U.coll = S.coll /\ U.threw = S.threw /\ U.wire = S.wire /\ U.requests = S.requests
      /\ U.off = S.off /\ U.screen = S.screen /\ U.head = S.head
      /\ U.live = S.live /\ U.busy = S.busy /\ U.pages = S.pages
  BY <1>1 DEF Views
<1> HIDE DEF U
<1>3. Base(U) /\ Free(U)
  BY <1>2 DEF Base, Free
<1>4. SetItems(U, S.rows) = V
  BY <1>1, <1>3, SetItemsFacts
<1>5. /\ V \in Views /\ V.items = S.rows /\ V.checked = U.checked /\ V.rows = U.rows
      /\ V.coll = U.coll /\ V.threw = U.threw /\ V.wire = U.wire /\ V.requests = U.requests
      /\ V.off = U.off /\ V.screen = U.screen /\ V.head = U.head
      /\ V.live = U.live /\ V.busy = U.busy /\ V.pages = U.pages
  BY <1>1, <1>2 DEF Views
<1>6. W = [V EXCEPT !.menu = Len(V.items)]
  BY <1>4 DEF SelectVisible, UpdateMenu, U
<1> HIDE DEF V
<1>m. Len(V.items) \in Nat
  BY <1>1, <1>5
<1>7. /\ W \in Views /\ W.items = V.items /\ W.checked = V.checked /\ W.rows = V.rows
      /\ W.coll = V.coll /\ W.threw = V.threw /\ W.wire = V.wire /\ W.requests = V.requests
      /\ W.off = V.off /\ W.screen = V.screen /\ W.head = V.head /\ W.menu = Len(V.items)
      /\ W.live = V.live /\ W.busy = V.busy /\ W.pages = V.pages
  BY <1>5, <1>m, <1>6 DEF Views
<1> QED BY <1>2, <1>5, <1>7 DEF Base, Free

\* A button that is not disabled fetches another page, and there is that page.
LEMMA MoveFacts ==
  ASSUME NEW S, Base(S), Free(S), S.off = Disabled(S.coll), InPages(S.coll),
         NEW dir \in Buttons \ S.off
  PROVE  Fetching(PaginationMove(S, dir))
<1> DEFINE pages == Ceil(S.coll.total, Block)
           page == S.coll.offset
           n == CASE dir = "first" -> 1 [] dir = "prev" -> page - 1
                  [] dir = "next" -> page + 1 [] dir = "last" -> pages
           shown == Loading(S, S.head)
           V == [shown EXCEPT !.coll.offset = n]
<1>1. /\ S.coll.total \in 0..Cardinality(Ids) /\ page \in 1..Cardinality(Ids)
      /\ S.head \in {"none", "full", "unsortable"} /\ Cardinality(Ids) \in Nat
  BY OrderFacts DEF Base, Views, Colls
<1>2. pages \in 0..S.coll.total /\ \A k \in Nat : k * Block < S.coll.total => k < pages
  BY <1>1, CeilFacts
<1>3. page <= pages \/ page = 1
  <2> SUFFICES ASSUME page > 1 PROVE page <= pages
    BY <1>1
  <2>1. page - 1 \in Nat /\ (page - 1) * Block < S.coll.total
    BY <1>1 DEF InPages
  <2>2. page - 1 < pages
    BY <1>2, <2>1
  <2> QED BY <1>1, <1>2, <2>2
<1>4. /\ pages > 1
      /\ dir \in {"first", "prev"} => page # 1
      /\ dir \in {"next", "last"} => page # pages
  BY <1>1, <1>2 DEF Disabled, Buttons
<1>5. n \in 1..Cardinality(Ids)
  <2> HIDE DEF pages, page
  <2>1. CASE dir = "first"
    BY <1>1, <2>1
  <2>2. CASE dir = "prev"
    BY <1>1, <1>4, <2>2
  <2>3. CASE dir = "next"
    BY <1>1, <1>2, <1>3, <1>4, <2>3
  <2>4. CASE dir = "last"
    BY <1>1, <1>2, <1>4, <2>4
  <2> QED BY <2>1, <2>2, <2>3, <2>4 DEF Buttons
<1>6. PaginationMove(S, dir) = FetchList(V, TheView)
  BY <1>4 DEF PaginationMove
<1> HIDE DEF n, shown
<1>7. Base(shown) /\ Free(shown)
  BY <1>1, LoadingFacts DEF shown
<1>8. Base(V) /\ Free(V)
  BY <1>5, <1>7, OffsetFacts
<1> HIDE DEF V
<1> QED BY <1>6, <1>8, ForFacts, FetchListFacts

\* On another page than the first, the button for the first is not disabled.
LEMMA FirstFacts ==
  ASSUME NEW c \in Colls, c.offset >= 1, c.offset # 1, InPages(c)
  PROVE  "first" \in Buttons \ Disabled(c)
<1>1. c.total \in Nat /\ c.offset \in Nat
  BY OrderFacts DEF Colls
<1>2. \A k \in Nat : k * Block < c.total => k < Ceil(c.total, Block)
  BY <1>1, CeilFacts
<1>3. c.offset - 1 < Ceil(c.total, Block)
  <2>1. c.offset - 1 \in Nat /\ (c.offset - 1) * Block < c.total
    BY <1>1 DEF InPages
  <2> QED BY <1>2, <2>1
<1>4. Ceil(c.total, Block) \in Nat /\ Ceil(c.total, Block) > 1
  <2>1. Ceil(c.total, Block) \in 0..c.total
    BY <1>1, CeilFacts
  <2> QED BY <1>1, <1>3, <2>1
<1>5. Disabled(c) \in {{"next", "last"}, {}}
  BY <1>4 DEF Disabled
<1> QED BY <1>5 DEF Buttons

\* A list that has come is drawn; or the page is empty, and the one before it fetched.
LEMMA RenderListFacts ==
  ASSUME NEW S, Base(S), Free(S), NEW x \in Xhrs, x.sel = NULL,
         S.screen = "list" => Asked(S.coll) /\ InPages(S.coll)
  PROVE  Resting(RenderList(S, x))
<1>0. CASE S.screen # "list"
  BY <1>0 DEF RenderList, Resting
<1>1. CASE S.screen = "list"
  <2> DEFINE m == S.coll.models
             ch == ToSet(S.items) \cap ToSet(S.coll.models)
             all == IF x.copy THEN FALSE ELSE S.all
             pg == IF S.coll.total = 0 THEN 1 ELSE Ceil(S.coll.total, Block)
             off == Disabled(S.coll)
             n == Len(S.items)
             W == [S EXCEPT !.rows = m, !.checked = ch, !.allBox = all, !.busy = FALSE,
                            !.head = "full", !.off = off, !.pages = pg, !.menu = n,
                            !.live = ToSet(m)]
  <2>1. RenderList(S, x) = W
    BY <1>1 DEF RenderList
  <2>2. /\ S \in Views /\ S.coll \in Colls /\ S.items \in Seq(Ids) /\ m \in Seq(Ids)
        /\ S.coll.total \in 0..Cardinality(Ids) /\ x.copy \in BOOLEAN /\ S.all \in BOOLEAN
    BY DEF Base, Views, Colls, Xhrs
  <2>3. /\ ch \subseteq Ids /\ ToSet(m) \subseteq Ids /\ ch \subseteq ToSet(m) /\ n \in Nat
        /\ all \in BOOLEAN
    BY <2>2, ToSetFacts, LenProperties
  <2>4. pg \in 1..Cardinality(Ids)
    <3>1. /\ S.coll.total \in Nat /\ S.coll.total <= Cardinality(Ids)
          /\ Cardinality(Ids) \in Nat /\ Cardinality(Ids) >= 1
      BY <2>2, OrderFacts
    <3>2. /\ Ceil(S.coll.total, Block) \in 0..S.coll.total
          /\ S.coll.total > 0 => Ceil(S.coll.total, Block) > 0
      BY <3>1, CeilFacts
    <3> QED BY <3>1, <3>2
  <2>5. off \subseteq Buttons
    BY DEF Disabled, Buttons
  <2>6. IsInjective(m) /\ IsInjective(S.items) /\ S.coll.offset >= 1 /\ ~S.threw
    BY DEF Base
  <2>7. ch = ToSet(S.items) \cap ToSet(m)
    OBVIOUS
  <2> HIDE DEF m, ch, all, pg, off, n
  <2>8. /\ W \in Views /\ W.rows = m /\ W.checked = ch /\ W.busy = FALSE /\ W.head = "full"
        /\ W.off = off /\ W.pages = pg /\ W.menu = n /\ W.live = ToSet(m)
        /\ W.coll = S.coll /\ W.items = S.items /\ W.threw = S.threw
        /\ W.wire = S.wire /\ W.requests = S.requests
    BY <2>2, <2>3, <2>4, <2>5 DEF Views
  <2> HIDE DEF W
  <2>9. m = S.coll.models /\ off = Disabled(S.coll) /\ n = Len(S.items)
        /\ pg = (IF S.coll.total = 0 THEN 1 ELSE Ceil(S.coll.total, Block))
    BY DEF m, off, n, pg
  <2>10. Base(W)
    BY <2>3, <2>6, <2>8, <2>9 DEF Base
  <2>11. Free(W)
    BY <2>8 DEF Free
  <2>12. Rendered(W)
    BY <1>1, <2>7, <2>8, <2>9 DEF Rendered
  <2> QED BY <2>1, <2>10, <2>11, <2>12 DEF Resting
<1> QED BY <1>0, <1>1

\* The complete callback of fetchList ends in a view that rests or fetches.
LEMMA CompleteFacts ==
  ASSUME NEW S, Base(S), Free(S), NEW x \in Xhrs, x.sel = NULL,
         S.screen = "list" =>
            /\ Asked(S.coll)
            /\ (S.coll.offset > 1 /\ S.coll.models # <<>>) => InPages(S.coll)
  PROVE  Resting(Complete(S, x)) \/ Fetching(Complete(S, x))
<1>1. CASE S.coll.offset > 1 /\ S.coll.models = <<>>
  <2> DEFINE V == [S EXCEPT !.coll.offset = S.coll.offset - 1]
  <2>1. Complete(S, x) = FetchList(V, x)
    BY <1>1 DEF Complete
  <2>2. S.coll.offset - 1 \in 1..Cardinality(Ids)
    BY <1>1, OrderFacts DEF Base, Views, Colls
  <2>3. Base(V) /\ Free(V)
    BY <2>2, OffsetFacts
  <2> HIDE DEF V
  <2>4. x.copy \in BOOLEAN
    BY DEF Xhrs
  <2> QED BY <2>1, <2>3, <2>4, FetchListFacts
<1>2. CASE ~(S.coll.offset > 1 /\ S.coll.models = <<>>)
  <2>1. Complete(S, x) = RenderList(S, x)
    BY <1>2 DEF Complete
  <2>2. S.screen = "list" => Asked(S.coll) /\ InPages(S.coll)
    BY <1>2 DEF InPages
  <2> QED BY <2>1, <2>2, RenderListFacts
<1> QED BY <1>1, <1>2

(***************************************************************************)
(* Requests that are over.                                                 *)
(***************************************************************************)
\* The recursion of Purged has a solution.
LEMMA PurgedDefined ==
  ASSUME NEW r, NEW N \in Nat
  PROVE  \E left : left = [i \in 0..N |->
                             IF i = 0 THEN r
                             ELSE LET l == left[i - 1]
                                  IN  IF i > Len(l) THEN l ELSE RemoveAt(l, i)]
<1> DEFINE G(m, g) == g = [i \in 0..m |->
                             IF i = 0 THEN r
                             ELSE IF i > Len(g[i - 1]) THEN g[i - 1] ELSE RemoveAt(g[i - 1], i)]
           A == {m \in Nat : \E g : G(m, g)}
<1>1. 0 \in A
  <2>1. G(0, [i \in 0..0 |-> r])
    OBVIOUS
  <2> QED BY <2>1
<1>2. ASSUME NEW m \in Nat, m \in A PROVE m + 1 \in A
  <2>1. PICK g : G(m, g)
    BY <1>2
  <2> DEFINE h == [i \in 0..(m + 1) |->
                     IF i <= m THEN g[i]
                     ELSE IF i > Len(g[i - 1]) THEN g[i - 1] ELSE RemoveAt(g[i - 1], i)]
  <2>2. \A i \in 0..m : h[i] = g[i]
    OBVIOUS
  <2>3. ASSUME NEW i \in 0..(m + 1)
        PROVE  h[i] = IF i = 0 THEN r
                      ELSE IF i > Len(h[i - 1]) THEN h[i - 1] ELSE RemoveAt(h[i - 1], i)
    <3>1. CASE i = 0
      BY <2>1, <2>2, <3>1
    <3>2. CASE i \in 1..m
      <4>1. i - 1 \in 0..m /\ i \in 0..m /\ i # 0
        BY <3>2
      <4>2. g[i] = IF i > Len(g[i - 1]) THEN g[i - 1] ELSE RemoveAt(g[i - 1], i)
        BY <2>1, <4>1
      <4> QED BY <2>2, <4>1, <4>2
    <3>3. CASE i = m + 1
      <4>1. i - 1 \in 0..m
        BY <3>3
      <4> QED BY <2>2, <3>3, <4>1
    <3> QED BY <3>1, <3>2, <3>3
  <2>4. G(m + 1, h)
    <3>1. h = [i \in 0..(m + 1) |-> h[i]]
      OBVIOUS
    <3> HIDE DEF h
    <3> QED BY <2>3, <3>1
  <2> HIDE DEF G, h
  <2> QED BY <2>4
<1>3. N \in A
  <2> HIDE DEF A
  <2> QED BY <1>1, <1>2, Upward
<1> QED BY <1>3

\* Of dead entries, dead entries are left.
LEMMA PurgedFacts ==
  ASSUME NEW X, NEW r \in Seq(X)
  PROVE  Purged(r) \in Seq(X)
<1> DEFINE N == Len(r)
           K == CHOOSE left : left = [i \in 0..Len(r) |->
                   IF i = 0 THEN r
                   ELSE LET l == left[i - 1] IN IF i > Len(l) THEN l ELSE RemoveAt(l, i)]
<1>0. N \in Nat
  BY LenProperties
<1>1. K = [i \in 0..N |-> IF i = 0 THEN r
                          ELSE LET l == K[i - 1] IN IF i > Len(l) THEN l ELSE RemoveAt(l, i)]
  BY <1>0, PurgedDefined
<1>2. Purged(r) = K[N]
  BY DEF Purged
<1> HIDE DEF K, N
<1> DEFINE A == {n \in Nat : n <= N => K[n] \in Seq(X)}
<1>3. 0 \in A
  <2>1. K[0] = r
    BY <1>0, <1>1
  <2> QED BY <2>1
<1>4. ASSUME NEW n \in Nat, n \in A PROVE n + 1 \in A
  <2> SUFFICES ASSUME n + 1 <= N PROVE K[n + 1] \in Seq(X)
    OBVIOUS
  <2>1. K[n] \in Seq(X)
    BY <1>0, <1>4
  <2>2. K[n + 1] = IF n + 1 > Len(K[n]) THEN K[n] ELSE RemoveAt(K[n], n + 1)
    <3>1. n + 1 \in 0..N /\ n + 1 # 0 /\ (n + 1) - 1 = n
      BY <1>0
    <3>2. \A i \in 0..N : i # 0 => K[i] = IF i > Len(K[i - 1]) THEN K[i - 1]
                                          ELSE RemoveAt(K[i - 1], i)
      BY <1>1
    <3> HIDE DEF A
    <3> QED BY <3>1, <3>2
  <2>3. Len(K[n]) \in Nat
    BY <2>1, LenProperties
  <2>4. CASE n + 1 <= Len(K[n])
    <3>1. n + 1 \in 1..Len(K[n])
      BY <2>3, <2>4
    <3>2. RemoveAt(K[n], n + 1) \in Seq(X)
      BY <2>1, <3>1, RemoveAtFacts
    <3> QED BY <2>2, <2>3, <2>4, <3>2
  <2> QED BY <2>1, <2>2, <2>3, <2>4
<1>5. N \in A
  <2> HIDE DEF A
  <2> QED BY <1>0, <1>3, <1>4, Upward
<1> QED BY <1>0, <1>2, <1>5

\* With no request on its way, there is nothing to abort, and only dead entries go.
LEMMA AbortFacts ==
  ASSUME NEW S, Base(S), Free(S), NEW W, W = AbortRequests(S)
  PROVE  Base(W) /\ Free(W) /\ SameView(S, W)
<1> DEFINE N == Len(S.requests)
           K == CHOOSE after : after = [i \in 0..Len(S.requests) |->
                   IF i = 0 THEN S ELSE AbortOne(after[i - 1], i)]
           V == [S EXCEPT !.requests = Purged(S.requests)]
<1>1. /\ S.requests \in Seq({Done}) /\ N \in Nat /\ S \in Views /\ ~S.threw
      /\ \A i \in 1..N : S.requests[i] = Done
  <2>1. S.requests \in Seq({Done}) /\ S \in Views /\ ~S.threw
    BY DEF Free, Base
  <2> QED BY <2>1, LenProperties
<1>2. \A i \in 1..N : AbortOne(S, i) = S
  BY <1>1 DEF AbortOne
<1>3. K = [i \in 0..N |-> IF i = 0 THEN S ELSE AbortOne(K[i - 1], i)]
  <2> DEFINE h == [i \in 0..N |-> S]
  <2>1. \A i \in 0..N : i # 0 => i \in 1..N /\ i - 1 \in 0..N
    BY <1>1
  <2>2. h = [i \in 0..N |-> IF i = 0 THEN S ELSE AbortOne(h[i - 1], i)]
    BY <1>2, <2>1
  <2> QED BY <2>2
<1>4. AbortRequests(S) = IF K[N].threw THEN K[N]
                         ELSE [K[N] EXCEPT !.requests = Purged(K[N].requests)]
  BY DEF AbortRequests
<1> HIDE DEF K, N
<1>5. K[N] = S
  <2> DEFINE A == {n \in Nat : n <= N => K[n] = S}
  <2>1. 0 \in A
    BY <1>1, <1>3
  <2>2. ASSUME NEW n \in Nat, n \in A PROVE n + 1 \in A
    <3> SUFFICES ASSUME n + 1 <= N PROVE K[n + 1] = S
      OBVIOUS
    <3>1. K[n] = S
      BY <1>1, <2>2
    <3>2. n + 1 \in 0..N /\ n + 1 # 0 /\ (n + 1) - 1 = n /\ n + 1 \in 1..N
      BY <1>1
    <3>3. K[n + 1] = AbortOne(K[n], n + 1)
      BY <1>3, <3>2
    <3> QED BY <1>2, <3>1, <3>2, <3>3
  <2>3. N \in A
    <3> HIDE DEF A
    <3> QED BY <1>1, <2>1, <2>2, Upward
  <2> QED BY <1>1, <2>3
<1>6. W = V
  BY <1>1, <1>4, <1>5
<1>7. Purged(S.requests) \in Seq({Done}) /\ Purged(S.requests) \in Seq(Nat)
  <2>1. Purged(S.requests) \in Seq({Done})
    BY <1>1, PurgedFacts
  <2> QED BY <2>1 DEF Done
<1>8. V \in Views /\ SameView(S, V) /\ V.wire = S.wire /\ V.requests = Purged(S.requests)
  BY <1>1, <1>7 DEF Views, SameView
<1> HIDE DEF V
<1>9. Base(V)
  BY <1>8, SameViewFacts
<1> QED BY <1>6, <1>7, <1>8, <1>9 DEF Free

\* What is forgotten matters to nothing that is said here.
LEMMA ForgetFacts ==
  ASSUME NEW S, NEW W \in Forget(S), Resting(S) \/ Fetching(S)
  PROVE  Resting(W) \/ Fetching(W)
<1>1. CASE W = S
  BY <1>1
<1>2. CASE S.wire = <<>> /\ Resting(S)
  <2>1. PICK r \in {<<>>, <<Done>>} : W = [S EXCEPT !.requests = r]
    BY <1>2 DEF Forget
  <2>2. r \in Seq({Done}) /\ r \in Seq(Nat)
    <3>1. <<>> \in Seq({Done}) /\ <<>> \in Seq(Nat)
      BY EmptyFacts
    <3>2. <<Done>> \in Seq({Done}) /\ <<Done>> \in Seq(Nat)
      BY DEF Done
    <3> QED BY <3>1, <3>2
  <2>3. S \in Views
    BY <1>2 DEF Resting, Base
  <2>4. W \in Views /\ SameView(S, W) /\ W.wire = S.wire /\ W.requests = r
    BY <2>1, <2>2, <2>3 DEF Views, SameView
  <2>5. Base(W) /\ (Rendered(S) => Rendered(W))
    BY <1>2, <2>4, SameViewFacts DEF Resting
  <2>6. Free(W) /\ W.screen = S.screen
    BY <1>2, <2>2, <2>4 DEF Free, SameView
  <2> QED BY <1>2, <2>5, <2>6 DEF Resting
<1>3. CASE S.wire # <<>>
  BY <1>3 DEF Forget
<1>4. CASE S.wire = <<>> /\ Fetching(S)
  <2>1. PICK x : S.wire = <<x>>
    BY <1>4 DEF Fetching, Asks
  <2>2. Len(S.wire) = 1 /\ Len(S.wire) = 0
    BY <1>4, <2>1, EmptyFacts
  <2> QED BY <2>2
<1> QED BY <1>2, <1>3, <1>4

(***************************************************************************)
(* The selection.                                                          *)
(***************************************************************************)
\* An item that is taken out is not selected any more, and no other becomes so.
LEMMA SplicedFacts ==
  ASSUME NEW items \in Seq(Ids), IsInjective(items), NEW i
  PROVE  /\ Spliced(items, i) \in Seq(Ids) /\ IsInjective(Spliced(items, i))
         /\ ToSet(Spliced(items, i)) \subseteq ToSet(items)
         /\ i \notin ToSet(Spliced(items, i))
<1> DEFINE I == {j \in 1..Len(items) : items[j] = i}
           k == SelectInSeq(items, LAMBDA e : e = i)
<1>0. Len(items) \in Nat /\ DOMAIN items = 1..Len(items)
  BY LenProperties
<1>1. k = IF I = {} THEN 0 ELSE Min(I)
  BY DEF SelectInSeq
<1>2. Spliced(items, i) = IF k > 0 THEN RemoveAt(items, k)
                          ELSE IF items = <<>> THEN items ELSE Front(items)
  BY DEF Spliced
<1>3. i \in ToSet(items) <=> I # {}
  BY <1>0 DEF ToSet
<1> HIDE DEF k
<1>4. CASE I # {}
  <2>1. Min(I) \in I
    <3>1. I \in SUBSET Nat
      OBVIOUS
    <3> HIDE DEF I
    <3> QED BY <1>4, <3>1, MinFacts
  <2>2. k \in 1..Len(items) /\ items[k] = i
    BY <1>1, <1>4, <2>1
  <2>3. Spliced(items, i) = RemoveAt(items, k)
    BY <1>2, <2>2
  <2> QED BY <2>2, <2>3, RemoveAtFacts
<1>5. CASE I = {} /\ items = <<>>
  <2>1. Spliced(items, i) = items
    BY <1>1, <1>2, <1>5
  <2> QED BY <1>3, <1>5, <2>1
<1>6. CASE I = {} /\ items # <<>>
  <2>1. Spliced(items, i) = SubSeq(items, 1, Len(items) - 1)
    BY <1>1, <1>2, <1>6 DEF Front
  <2>2. /\ SubSeq(items, 1, Len(items) - 1) \in Seq(Ids)
        /\ ToSet(SubSeq(items, 1, Len(items) - 1)) \subseteq ToSet(items)
        /\ IsInjective(SubSeq(items, 1, Len(items) - 1))
    BY <1>0, SubSeqFacts
  <2> QED BY <1>3, <1>6, <2>1, <2>2
<1> QED BY <1>4, <1>5, <1>6

\* The rows of a set, in some order.
LEMMA SetToSeqFacts ==
  ASSUME NEW T \in SUBSET Ids
  PROVE  SetToSeq(T) \in Seq(Ids) /\ IsInjective(SetToSeq(T))
<1>1. IsFiniteSet(T)
  BY OrderFacts, FS_Subset
<1>2. Cardinality(T) \in Nat /\ ExistsBijection(1..Cardinality(T), T)
  BY <1>1, FS_CardinalityType
<1>3. \E f \in [1..Cardinality(T) -> T] : IsInjective(f)
  BY <1>2 DEF ExistsBijection, Bijection, Injection, IsInjective
<1>4. SetToSeq(T) \in [1..Cardinality(T) -> T] /\ IsInjective(SetToSeq(T))
  BY <1>3 DEF SetToSeq
<1> QED BY <1>2, <1>4

\* The ids for "Select all" are stored for a dialog that still asks.
LEMMA StoreFacts ==
  ASSUME NEW S, Base(S), Free(S), S.checked = ToSet(S.rows), S.screen = "list" => Rendered(S),
         NEW ids \in Seq(Ids), IsInjective(ids), dialog.kind = "all",
         NEW W, W = StoreAllSelectedIds(S, ids)
  PROVE  Resting(W)
<1> DEFINE n == IF Len(ids) > MaxSelectable THEN MaxSelectable ELSE Len(ids)
           items == SubSeq(ids, 1, n)
           V == [S EXCEPT !.items = items, !.menu = Len(items), !.all = TRUE]
<1>1. Len(ids) \in Nat /\ n \in Int /\ n <= Len(ids)
  <2>1. MaxSelectable \in Nat /\ Len(ids) \in Nat
    BY LenProperties, ListAssumption
  <2> QED BY <2>1
<1>2. items \in Seq(Ids) /\ IsInjective(items) /\ Len(items) \in Nat
  <2>1. items \in Seq(Ids) /\ IsInjective(items)
    BY <1>1, SubSeqFacts
  <2> QED BY <2>1, LenProperties
<1>3. W = V
  <2>1. SetItems(S, items) = [S EXCEPT !.items = items]
    BY <1>2, SetItemsFacts
  <2> QED BY <2>1 DEF StoreAllSelectedIds, UpdateMenu, Base, Views
<1> HIDE DEF items, n
<1>4. S \in Views
  BY DEF Base
<1>5. /\ W \in Views /\ W.items = items /\ W.menu = Len(items) /\ W.checked = S.checked
      /\ W.rows = S.rows /\ W.coll = S.coll /\ W.threw = S.threw /\ W.wire = S.wire
      /\ W.requests = S.requests /\ W.off = S.off /\ W.screen = S.screen
      /\ W.head = S.head /\ W.live = S.live /\ W.busy = S.busy /\ W.pages = S.pages
  BY <1>2, <1>3, <1>4 DEF Views
<1>6. Base(W) /\ Free(W)
  BY <1>2, <1>5 DEF Base, Free
<1>7. Rendered(S) => Rendered(W)
  BY <1>5 DEF Rendered
<1> QED BY <1>5, <1>6, <1>7 DEF Resting

(***************************************************************************)
(* The inductive invariant: the view rests, waits for a list, for the ids  *)
(* of "Select all", or for an action, and never for two of them.           *)
(***************************************************************************)
Selecting(S) ==
  /\ Base(S) /\ (S.screen = "list" => Rendered(S)) /\ S.checked = ToSet(S.rows)
  /\ \E x : Asks(S, x) /\ x.kind = "all"

Acting(S) == Base(S) /\ \E x : Asks(S, x) /\ x.kind \in MassActions

Dialogs == [kind : {"none", "choose", "all", "confirm", "depend"},
            act : {NULL} \cup MassActions, ids : Seq(Ids)]

Phase(S, d) == \/ Resting(S) \/ Fetching(S) \/ Acting(S)
               \/ Selecting(S) /\ d.kind = "all"

LInv ==
  /\ table \subseteq Ids /\ dialog \in Dialogs
  /\ Phase(view, dialog)
  /\ dialog.kind = "confirm" => Resting(view) /\ dialog.act \in MassActions

Patient == "impatient" \notin Faults

\* Without requests on their way, the view rests.
LEMMA QuietFacts ==
  ASSUME LInv, view.wire = <<>>
  PROVE  Resting(view)
<1>1. \A x : view.wire # <<x>>
  BY EmptyFacts
<1> QED BY <1>1 DEF LInv, Phase, Fetching, Selecting, Acting, Asks

\* Whoever uses the list has it drawn.
LEMMA UsableFacts ==
  ASSUME LInv, Patient, NEW n, Usable(n)
  PROVE  /\ Resting(view) /\ Rendered(view) /\ Base(view) /\ Free(view) /\ view \in Views
         /\ dialog.kind = "none"
<1>1. Resting(view) /\ view.screen = "list" /\ dialog.kind = "none"
  BY QuietFacts DEF Usable, Patience, Patient, NoDialog, Dialog
<1> QED BY <1>1 DEF Resting, Base

\* One lemma for each action of Next.
LEMMA paginationMoveStep ==
  ASSUME LInv, Patient, NEW dir \in Buttons, paginationMove(dir)
  PROVE  LInv'
<1>1. Base(view) /\ Free(view) /\ Rendered(view) /\ dialog.kind = "none" /\ dir \notin view.off
  BY UsableFacts DEF paginationMove
<1>2. Fetching(PaginationMove(view, dir))
  BY <1>1, MoveFacts DEF Rendered
<1>3. Resting(view') \/ Fetching(view')
  BY <1>2, ForgetFacts DEF paginationMove
<1>4. table' = table /\ dialog' = dialog
  BY DEF paginationMove
<1> QED BY <1>1, <1>3, <1>4 DEF LInv, Phase

\* A page number is typed.
LEMMA pressPageStep ==
  ASSUME LInv, Patient, NEW n, pressPage(n)
  PROVE  LInv'
<1> DEFINE V == Loading(view, view.head)
           W == [V EXCEPT !.coll.offset = n]
<1>1. /\ Base(view) /\ Free(view) /\ view \in Views /\ dialog.kind = "none"
      /\ n \in 1..view.pages
  BY UsableFacts DEF pressPage
<1>2. view.head \in {"none", "full", "unsortable"} /\ n \in 1..Cardinality(Ids)
  BY <1>1, OrderFacts DEF Views
<1>3. Base(V) /\ Free(V)
  BY <1>1, <1>2, LoadingFacts
<1> HIDE DEF V
<1>4. Base(W) /\ Free(W)
  BY <1>2, <1>3, OffsetFacts
<1>5. view' = FetchList(W, TheView) /\ table' = table /\ dialog' = dialog
  BY DEF pressPage, V
<1> HIDE DEF W
<1>6. Fetching(view')
  BY <1>4, <1>5, FetchListFacts, ForFacts
<1> QED BY <1>1, <1>5, <1>6 DEF LInv, Phase

\* Back to the first page, or the list again.
LEMMA AgainFacts ==
  ASSUME NEW S, Base(S), Free(S), S.off = Disabled(S.coll), InPages(S.coll),
         NEW of, of.copy \in BOOLEAN, of.sel = NULL,
         NEW W, W = IF S.coll.offset # 1 THEN PaginationMove(S, "first") ELSE FetchList(S, of)
  PROVE  Fetching(W)
<1>1. CASE S.coll.offset # 1
  <2>1. S.coll \in Colls /\ S.coll.offset >= 1
    BY DEF Base, Views
  <2>2. "first" \in Buttons \ S.off
    BY <1>1, <2>1, FirstFacts
  <2> QED BY <1>1, <2>2, MoveFacts
<1>2. CASE S.coll.offset = 1
  BY <1>2, FetchListFacts
<1> QED BY <1>1, <1>2

\* A column is clicked.
LEMMA sortStep ==
  ASSUME LInv, Patient, NEW s \in Sorts, sort(s)
  PROVE  LInv'
<1> DEFINE V == Loading(view, "unsortable")
           c == [V.coll EXCEPT !.sort = s]
           W == [V EXCEPT !.coll = c]
           R == IF W.coll.offset # 1 THEN PaginationMove(W, "first") ELSE FetchList(W, TheView)
<1>1. Base(view) /\ Free(view) /\ Rendered(view) /\ dialog.kind = "none"
  BY UsableFacts DEF sort
<1>2. Base(V) /\ Free(V) /\ V.coll = view.coll /\ V.off = view.off
  BY <1>1, LoadingFacts
<1>3. view' \in Forget(R) /\ table' = table /\ dialog' = dialog
  BY DEF sort
<1> HIDE DEF V
<1>4. V.coll \in Colls /\ IsInjective(V.coll.models) /\ V.coll.offset >= 1
  BY <1>2 DEF Base, Views
<1>5. /\ c \in Colls /\ c.models = V.coll.models /\ c.offset = V.coll.offset
      /\ c.total = V.coll.total
  BY <1>4 DEF Colls
<1> HIDE DEF c
<1>6. Base(W) /\ Free(W) /\ W.off = V.off /\ W.coll = c
  BY <1>2, <1>4, <1>5, CollFacts
<1>7. W.off = Disabled(W.coll) /\ InPages(W.coll)
  BY <1>1, <1>2, <1>5, <1>6 DEF Rendered, Disabled, InPages
<1> HIDE DEF W
<1>8. Fetching(R)
  BY <1>6, <1>7, AgainFacts, ForFacts
<1> HIDE DEF R
<1>9. Resting(view') \/ Fetching(view')
  BY <1>3, <1>8, ForgetFacts
<1> QED BY <1>1, <1>3, <1>9 DEF LInv, Phase

\* The filter control changes.
LEMMA filterStep ==
  ASSUME LInv, Patient, NEW f \in Filters, filter(f)
  PROVE  LInv'
<1> DEFINE B == [view EXCEPT !.box = f]
           A == AbortRequests(B)
           V == Loading(A, "none")
           c == [V.coll EXCEPT !.filters = f]
           U == [V EXCEPT !.coll = c]
           W == ResetSelectedItems(U)
           R == IF W.coll.offset # 1 THEN PaginationMove(W, "first") ELSE FetchList(W, ACopy)
<1>1. Base(view) /\ Free(view) /\ Rendered(view) /\ dialog.kind = "none" /\ view \in Views
  BY UsableFacts DEF filter
<1>2. Base(B) /\ Free(B) /\ B.coll = view.coll /\ B.off = view.off
  <2>1. /\ B \in Views /\ B.coll = view.coll /\ B.off = view.off /\ B.threw = view.threw
        /\ B.checked = view.checked /\ B.rows = view.rows /\ B.items = view.items
        /\ B.wire = view.wire /\ B.requests = view.requests
    BY <1>1 DEF Views
  <2> HIDE DEF B
  <2> QED BY <1>1, <2>1 DEF Base, Free
<1> HIDE DEF B
<1>3. Base(A) /\ Free(A) /\ A.coll = view.coll /\ A.off = view.off /\ ~A.threw
  BY <1>2, AbortFacts DEF SameView, Base
<1>4. view' \in Forget(R) /\ table' = table /\ dialog' = dialog
  BY <1>3 DEF filter, B
<1> HIDE DEF A
<1>5. Base(V) /\ Free(V) /\ V.coll = view.coll /\ V.off = view.off
  BY <1>3, LoadingFacts
<1> HIDE DEF V
<1>6. V.coll \in Colls /\ IsInjective(V.coll.models) /\ V.coll.offset >= 1
  BY <1>5 DEF Base, Views
<1>7. /\ c \in Colls /\ c.models = V.coll.models /\ c.offset = V.coll.offset
      /\ c.total = V.coll.total
  BY <1>6 DEF Colls
<1> HIDE DEF c
<1>8. Base(U) /\ Free(U) /\ U.off = V.off /\ U.coll = c
  BY <1>5, <1>6, <1>7, CollFacts
<1> HIDE DEF U
<1>9. Base(W) /\ Free(W) /\ W.off = U.off /\ W.coll = U.coll
  BY <1>8, ResetFacts
<1>10. W.off = Disabled(W.coll) /\ InPages(W.coll)
  BY <1>1, <1>5, <1>7, <1>8, <1>9 DEF Rendered, Disabled, InPages
<1> HIDE DEF W
<1>11. Fetching(R)
  BY <1>9, <1>10, AgainFacts, ForFacts
<1> HIDE DEF R
<1>12. Resting(view') \/ Fetching(view')
  BY <1>4, <1>11, ForgetFacts
<1> QED BY <1>1, <1>4, <1>12 DEF LInv, Phase

\* A box is clicked.
LEMMA checkOneStep ==
  ASSUME LInv, Patient, NEW i \in Ids, checkOne(i)
  PROVE  LInv'
<1> DEFINE on == i \notin view.checked
           items == IF on THEN Append(view.items, i) ELSE Spliced(view.items, i)
           ch == IF on THEN view.checked \cup {i} ELSE view.checked \ {i}
           whole == Len(items) = view.coll.total
           U == [view EXCEPT !.checked = ch, !.items = items, !.all = whole, !.allBox = whole]
<1>1. /\ Base(view) /\ Free(view) /\ Rendered(view) /\ view \in Views /\ dialog.kind = "none"
      /\ i \in ToSet(view.rows)
  BY UsableFacts DEF checkOne
<1>2. /\ view.items \in Seq(Ids) /\ IsInjective(view.items) /\ view.checked \subseteq Ids
      /\ ToSet(view.items) \cap ToSet(view.rows) \subseteq view.checked
      /\ view.checked \subseteq ToSet(view.rows)
  BY <1>1 DEF Base, Views, Rendered
<1>3. /\ items \in Seq(Ids) /\ IsInjective(items)
      /\ ToSet(items) \cap ToSet(view.rows) \subseteq ch
  <2>1. CASE on
    <3>1. i \notin ToSet(view.items)
      BY <1>1, <1>2, <2>1
    <3>2. /\ Append(view.items, i) \in Seq(Ids) /\ IsInjective(Append(view.items, i))
          /\ ToSet(Append(view.items, i)) = ToSet(view.items) \cup {i}
      BY <1>2, <3>1, AppendFacts
    <3> QED BY <1>2, <2>1, <3>2
  <2>2. CASE ~on
    <3>1. /\ Spliced(view.items, i) \in Seq(Ids) /\ IsInjective(Spliced(view.items, i))
          /\ ToSet(Spliced(view.items, i)) \subseteq ToSet(view.items)
          /\ i \notin ToSet(Spliced(view.items, i))
      BY <1>2, SplicedFacts
    <3> QED BY <1>2, <2>2, <3>1
  <2> QED BY <2>1, <2>2
<1>4. /\ ch \subseteq Ids /\ ch \subseteq ToSet(view.rows) /\ whole \in BOOLEAN
      /\ Len(items) \in Nat
  <2>1. Len(items) \in Nat
    BY <1>3, LenProperties
  <2> QED BY <1>1, <1>2, <2>1
<1>5. view' = [U EXCEPT !.menu = Len(U.items)] /\ table' = table /\ dialog' = dialog
  BY DEF checkOne, UpdateMenu
<1> HIDE DEF items, ch, whole, on
<1>6. /\ U \in Views /\ U.items = items /\ U.checked = ch /\ U.rows = view.rows
      /\ U.coll = view.coll /\ U.threw = view.threw /\ U.wire = view.wire
      /\ U.requests = view.requests /\ U.off = view.off /\ U.screen = view.screen
      /\ U.head = view.head /\ U.live = view.live /\ U.busy = view.busy /\ U.pages = view.pages
  BY <1>1, <1>3, <1>4 DEF Views
<1> HIDE DEF U
<1> DEFINE W == [U EXCEPT !.menu = Len(items)]
<1>7. /\ W \in Views /\ W.items = items /\ W.checked = ch /\ W.rows = view.rows
      /\ W.coll = view.coll /\ W.threw = view.threw /\ W.wire = view.wire
      /\ W.requests = view.requests /\ W.off = view.off /\ W.screen = view.screen
      /\ W.head = view.head /\ W.live = view.live /\ W.busy = view.busy
      /\ W.pages = view.pages /\ W.menu = Len(items)
  BY <1>4, <1>6 DEF Views
<1>8. view' = W
  BY <1>5, <1>6
<1> HIDE DEF W
<1>9. Base(W) /\ Free(W) /\ Rendered(W)
  BY <1>1, <1>3, <1>4, <1>7 DEF Base, Free, Rendered
<1>10. Resting(view')
  BY <1>8, <1>9 DEF Resting
<1> QED BY <1>1, <1>5, <1>10 DEF LInv, Phase

\* Reset or made visible, the selection of a drawn list is drawn.
LEMMA DrawnFacts ==
  ASSUME NEW S, Base(S), Free(S), S.screen = "list" => Rendered(S),
         NEW W, Base(W), Free(W),
         W.coll = S.coll, W.off = S.off, W.screen = S.screen, W.head = S.head,
         W.rows = S.rows, W.live = S.live, W.busy = S.busy, W.pages = S.pages,
         W.menu = Len(W.items), ToSet(W.items) \cap ToSet(W.rows) \subseteq W.checked
  PROVE  Resting(W)
  BY DEF Resting, Rendered

\* "Unselect all" in the menu.
LEMMA uncheckAllStep ==
  ASSUME LInv, Patient, uncheckAll
  PROVE  LInv'
<1> DEFINE W == ResetSelectedItems(view)
<1>1. Base(view) /\ Free(view) /\ Rendered(view) /\ dialog.kind = "none"
  BY UsableFacts DEF uncheckAll
<1>2. view' = W /\ table' = table /\ dialog' = dialog
  BY DEF uncheckAll
<1>3. /\ Base(W) /\ Free(W) /\ W.items = <<>> /\ W.checked = {}
      /\ W.menu = IF view.items # <<>> THEN 0 ELSE view.menu
      /\ W.coll = view.coll /\ W.off = view.off /\ W.screen = view.screen
      /\ W.head = view.head /\ W.rows = view.rows /\ W.live = view.live
      /\ W.busy = view.busy /\ W.pages = view.pages
  BY <1>1, ResetFacts
<1> HIDE DEF W
<1>4. W.menu = Len(W.items) /\ ToSet(W.items) \cap ToSet(W.rows) \subseteq W.checked
  BY <1>1, <1>3, EmptyFacts DEF Rendered
<1>5. Resting(W)
  BY <1>1, <1>3, <1>4, DrawnFacts
<1> QED BY <1>1, <1>2, <1>5 DEF LInv, Phase

\* The box above the list is clicked.
LEMMA checkAllStep ==
  ASSUME LInv, Patient, checkAll
  PROVE  LInv'
<1> DEFINE S == [view EXCEPT !.allBox = ~view.allBox]
           C == [S EXCEPT !.checked = {}]
           D == ResetSelectedItems(C)
           E == [D EXCEPT !.menu = Len(D.items)]
           V == SelectVisible(S)
<1>1. Base(view) /\ Free(view) /\ Rendered(view) /\ dialog.kind = "none" /\ view \in Views
  BY UsableFacts DEF checkAll
<1>2. /\ table' = table
      /\ \/ view' = S /\ dialog' = Dialog("choose")
         \/ view' = V /\ dialog' = dialog
         \/ view' = E /\ dialog' = dialog
  BY DEF checkAll, UpdateMenu
<1>3. /\ S \in Views /\ S.coll = view.coll /\ S.items = view.items /\ S.rows = view.rows
      /\ S.checked = view.checked /\ S.threw = view.threw /\ S.wire = view.wire
      /\ S.requests = view.requests /\ S.off = view.off /\ S.screen = view.screen
      /\ S.head = view.head /\ S.live = view.live /\ S.busy = view.busy
      /\ S.pages = view.pages /\ S.menu = view.menu
  <2>1. view.allBox \in BOOLEAN
    BY <1>1 DEF Views
  <2> QED BY <1>1, <2>1 DEF Views
<1> HIDE DEF S
<1>4. Base(S) /\ Free(S) /\ Rendered(S)
  BY <1>1, <1>3 DEF Base, Free, Rendered
<1>5. CASE view' = S /\ dialog' = Dialog("choose")
  <2>1. Dialog("choose") \in Dialogs /\ Dialog("choose").kind = "choose"
    BY EmptyFacts DEF Dialog, Dialogs
  <2>2. Resting(S)
    BY <1>4 DEF Resting
  <2> QED BY <1>2, <1>5, <2>1, <2>2 DEF LInv, Phase
<1>6. CASE view' = V /\ dialog' = dialog
  <2>1. /\ Base(V) /\ Free(V) /\ V.items = S.rows /\ V.checked = ToSet(S.rows)
        /\ V.menu = Len(S.rows)
        /\ V.coll = S.coll /\ V.off = S.off /\ V.screen = S.screen /\ V.head = S.head
        /\ V.rows = S.rows /\ V.live = S.live /\ V.busy = S.busy /\ V.pages = S.pages
    BY <1>4, VisibleFacts
  <2> HIDE DEF V
  <2>2. Resting(V)
    BY <1>4, <2>1, DrawnFacts
  <2> QED BY <1>1, <1>2, <1>6, <2>2 DEF LInv, Phase
<1>7. CASE view' = E /\ dialog' = dialog
  <2>1. /\ C \in Views /\ C.coll = S.coll /\ C.items = S.items /\ C.rows = S.rows
        /\ C.checked = {} /\ C.threw = S.threw /\ C.wire = S.wire
        /\ C.requests = S.requests /\ C.off = S.off /\ C.screen = S.screen
        /\ C.head = S.head /\ C.live = S.live /\ C.busy = S.busy /\ C.pages = S.pages
    BY <1>3 DEF Views
  <2> HIDE DEF C
  <2>2. Base(C) /\ Free(C)
    BY <1>4, <2>1 DEF Base, Free
  <2>3. /\ Base(D) /\ Free(D) /\ D.items = <<>> /\ D.checked = {}
        /\ D.coll = C.coll /\ D.off = C.off /\ D.screen = C.screen /\ D.head = C.head
        /\ D.rows = C.rows /\ D.live = C.live /\ D.busy = C.busy /\ D.pages = C.pages
    BY <2>2, ResetFacts
  <2> HIDE DEF D
  <2>4. D \in Views /\ Len(D.items) \in Nat /\ Len(D.items) = 0
    BY <2>3, EmptyFacts DEF Base
  <2>5. /\ E \in Views /\ E.coll = D.coll /\ E.items = D.items /\ E.rows = D.rows
        /\ E.checked = D.checked /\ E.threw = D.threw /\ E.wire = D.wire
        /\ E.requests = D.requests /\ E.off = D.off /\ E.screen = D.screen
        /\ E.head = D.head /\ E.live = D.live /\ E.busy = D.busy /\ E.pages = D.pages
        /\ E.menu = Len(D.items)
    BY <2>4 DEF Views
  <2> HIDE DEF E
  <2>6. Base(E) /\ Free(E)
    BY <2>3, <2>5 DEF Base, Free
  <2>7. E.menu = Len(E.items) /\ ToSet(E.items) \cap ToSet(E.rows) \subseteq E.checked
    BY <2>3, <2>5, EmptyFacts
  <2>8. Resting(E)
    BY <1>4, <2>1, <2>3, <2>5, <2>6, <2>7, DrawnFacts
  <2> QED BY <1>1, <1>2, <1>7, <2>8 DEF LInv, Phase
<1> QED BY <1>2, <1>5, <1>6, <1>7

\* The dialogs without ids.
LEMMA DialogFacts ==
  ASSUME NEW kind \in {"none", "choose", "all", "depend"}
  PROVE  Dialog(kind) \in Dialogs /\ Dialog(kind).kind = kind
  BY EmptyFacts DEF Dialog, Dialogs

\* "Select only visible items" is chosen.
LEMMA chooseVisibleStep ==
  ASSUME LInv, Patient, chooseVisible
  PROVE  LInv'
<1> DEFINE V == SelectVisible(view)
<1>1. Resting(view)
  BY QuietFacts DEF chooseVisible, Choosing, Patience, Patient
<1>2. view' = V /\ table' = table /\ dialog' = NoDialog
  BY DEF chooseVisible
<1>3. /\ Base(V) /\ Free(V) /\ V.items = view.rows /\ V.checked = ToSet(view.rows)
      /\ V.menu = Len(view.rows)
      /\ V.coll = view.coll /\ V.off = view.off /\ V.screen = view.screen
      /\ V.head = view.head /\ V.rows = view.rows /\ V.live = view.live
      /\ V.busy = view.busy /\ V.pages = view.pages
  BY <1>1, VisibleFacts DEF Resting
<1> HIDE DEF V
<1>4. Resting(V)
  BY <1>1, <1>3, DrawnFacts DEF Resting
<1>5. NoDialog \in Dialogs /\ NoDialog.kind = "none"
  BY DialogFacts DEF NoDialog
<1> QED BY <1>2, <1>4, <1>5 DEF LInv, Phase

\* "Select all" is chosen.
LEMMA chooseAllStep ==
  ASSUME LInv, Patient, chooseAll
  PROVE  LInv'
<1> DEFINE S == [view EXCEPT !.checked = ToSet(view.rows)]
           q == Query(view.coll)
           ids == <<>>
           k == "all"
           W == Send(S, k, q, ids, TheView, 2)
<1>1. Resting(view)
  BY QuietFacts DEF chooseAll, Choosing, Patience, Patient
<1>2. view' = W /\ table' = table /\ dialog' = Dialog("all")
  BY DEF chooseAll
<1>3. /\ view \in Views /\ view.coll \in Colls /\ view.rows \in Seq(Ids)
      /\ ToSet(view.rows) \subseteq Ids
  <2>1. view \in Views /\ view.coll \in Colls /\ view.rows \in Seq(Ids)
    BY <1>1 DEF Resting, Base, Views
  <2> QED BY <2>1, ToSetFacts
<1>4. /\ S \in Views /\ S.coll = view.coll /\ S.items = view.items /\ S.rows = view.rows
      /\ S.checked = ToSet(view.rows) /\ S.threw = view.threw /\ S.wire = view.wire
      /\ S.requests = view.requests /\ S.off = view.off /\ S.screen = view.screen
      /\ S.head = view.head /\ S.live = view.live /\ S.busy = view.busy
      /\ S.pages = view.pages /\ S.menu = view.menu
  BY <1>3 DEF Views
<1> HIDE DEF S
<1>5. Base(S) /\ Free(S) /\ (S.screen = "list" => Rendered(S))
  BY <1>1, <1>4 DEF Resting, Base, Free, Rendered
<1>6. /\ k \in {"first", "list", "all"} \cup MassActions /\ k \notin {"first", "list"}
      /\ q \in Queries /\ ids \in Seq(Ids) /\ 2 \in Nat /\ k = "all"
  BY <1>3, QueryFacts, EmptyFacts
<1> HIDE DEF q, ids, k
<1>7. W = Send(S, k, q, ids, TheView, 2)
  OBVIOUS
<1> HIDE DEF W
<1>8. W \in Views /\ SameView(S, W) /\ \E x : Asks(W, x) /\ x.kind = k
  BY <1>4, <1>5, <1>6, <1>7, ForFacts, SendFacts
<1>9. Base(W) /\ (W.screen = "list" => Rendered(W)) /\ W.checked = ToSet(W.rows)
  <2>1. W.screen = S.screen /\ W.rows = S.rows /\ W.checked = S.checked
    BY <1>8 DEF SameView
  <2> QED BY <1>4, <1>5, <1>8, <2>1, SameViewFacts
<1>10. Selecting(W)
  BY <1>6, <1>8, <1>9 DEF Selecting
<1>11. Dialog("all") \in Dialogs /\ Dialog("all").kind = "all"
  BY DialogFacts
<1> QED BY <1>2, <1>10, <1>11 DEF LInv, Phase

\* A dialog is closed.
LEMMA escapeStep ==
  ASSUME LInv, Patient, escape
  PROVE  LInv'
<1>1. Resting(view)
  BY QuietFacts DEF escape, Patience, Patient
<1>2. view' = view /\ table' = table /\ dialog' = NoDialog
  BY DEF escape
<1>3. NoDialog \in Dialogs /\ NoDialog.kind = "none"
  BY DialogFacts DEF NoDialog
<1> QED BY <1>1, <1>2, <1>3 DEF LInv, Phase

\* The selection is reset and the action sent.
LEMMA ApplyFacts ==
  ASSUME NEW S, Base(S), Free(S), NEW a \in MassActions, NEW ids \in Seq(Ids),
         NEW W, W = Apply(S, a, ids)
  PROVE  Acting(W)
<1> DEFINE R == ResetSelectedItems(S)
           q == Query(S.coll)
           n == IF a = "disconnect" THEN 2 ELSE 1
<1>1. Base(R) /\ Free(R) /\ R.coll = S.coll
  BY ResetFacts
<1>2. S.coll \in Colls /\ q \in Queries
  <2>1. S.coll \in Colls
    BY DEF Base, Views
  <2> QED BY <2>1, QueryFacts
<1>3. /\ n \in Nat /\ a \in {"first", "list", "all"} \cup MassActions
      /\ a \notin {"first", "list"}
  BY DEF MassActions
<1>4. W = Send(R, a, q, ids, TheView, n)
  BY DEF Apply
<1> HIDE DEF R, q, n
<1>5. R \in Views
  BY <1>1 DEF Base
<1>6. W \in Views /\ SameView(R, W) /\ \E x : Asks(W, x) /\ x.kind = a
  <2> DEFINE of == TheView
  <2>1. of.copy \in BOOLEAN /\ of.sel = NULL /\ W = Send(R, a, q, ids, of, n)
    BY <1>4, ForFacts
  <2>2. /\ a \in {"first", "list"} => q = Query(R.coll)
        /\ a = "first" => R.coll.offset = 1 /\ R.screen # "list"
        /\ a = "list" => Unanswered(R.coll)
    BY <1>3
  <2> HIDE DEF of
  <2> QED BY <1>1, <1>2, <1>3, <1>5, <2>1, <2>2, SendFacts
<1>7. Base(W)
  BY <1>1, <1>6, SameViewFacts
<1> QED BY <1>6, <1>7 DEF Acting

\* An action on the selected items is asked for.
LEMMA applySelectedActionStep ==
  ASSUME LInv, Patient, NEW a \in MassActions, applySelectedAction(a)
  PROVE  LInv'
<1>1. Resting(view) /\ Base(view) /\ Free(view) /\ dialog.kind = "none" /\ view.items \in Seq(Ids)
  <2>1. Resting(view) /\ Base(view) /\ Free(view) /\ dialog.kind = "none" /\ view \in Views
    BY UsableFacts DEF applySelectedAction
  <2> QED BY <2>1 DEF Views
<1> DEFINE d == [kind |-> "confirm", act |-> a, ids |-> view.items]
<1>2. /\ table' = table
      /\ \/ view' = view /\ dialog' = d
         \/ view' = Apply(view, a, view.items) /\ dialog' = dialog
  BY DEF applySelectedAction
<1>3. CASE view' = view /\ dialog' = d
  <2>1. d \in Dialogs /\ d.act = a
    BY <1>1 DEF Dialogs
  <2> HIDE DEF d
  <2> QED BY <1>1, <1>2, <1>3, <2>1 DEF LInv, Phase
<1>4. CASE view' = Apply(view, a, view.items) /\ dialog' = dialog
  <2>1. Acting(view')
    BY <1>1, <1>4, ApplyFacts
  <2> QED BY <1>1, <1>2, <1>4, <2>1 DEF LInv, Phase
<1> QED BY <1>2, <1>3, <1>4

\* It is confirmed.
LEMMA acceptStep ==
  ASSUME LInv, accept
  PROVE  LInv'
<1>1. /\ Base(view) /\ Free(view) /\ dialog.act \in MassActions /\ dialog.ids \in Seq(Ids)
  BY DEF LInv, accept, Resting, Dialogs
<1>2. view' = Apply(view, dialog.act, dialog.ids) /\ table' = table /\ dialog' = NoDialog
  BY DEF accept
<1>3. Acting(view')
  BY <1>1, <1>2, ApplyFacts
<1>4. NoDialog \in Dialogs /\ NoDialog.kind = "none"
  BY DialogFacts DEF NoDialog
<1> QED BY <1>2, <1>3, <1>4 DEF LInv, Phase

(***************************************************************************)
(* Answers and failures.                                                   *)
(***************************************************************************)
\* What is on its way.
LEMMA WireFacts ==
  ASSUME LInv, NEW k \in DOMAIN view.wire, NEW x, x = view.wire[k]
  PROVE  /\ Base(view) /\ Asks(view, x) /\ x \in Xhrs /\ x.sel = NULL
         /\ view \in Views /\ dialog.kind # "confirm"
         /\ \/ x.kind \in {"first", "list"}
            \/ x.kind = "all" /\ Selecting(view) /\ dialog.kind = "all"
            \/ x.kind \in MassActions
<1>1. ~Resting(view)
  BY EmptyFacts DEF Resting, Free
<1>2. ASSUME NEW y, Asks(view, y) PROVE x = y
  <2>1. view.wire = <<y>> /\ DOMAIN view.wire = 1..1 /\ view.wire[1] = y
    BY <1>2 DEF Asks
  <2> QED BY <2>1
<1>3. Fetching(view) \/ Acting(view) \/ (Selecting(view) /\ dialog.kind = "all")
  BY <1>1 DEF LInv, Phase
<1>4. Base(view) /\ Asks(view, x)
  BY <1>2, <1>3 DEF Fetching, Acting, Selecting
<1>5. \/ x.kind \in {"first", "list"}
      \/ x.kind = "all" /\ Selecting(view) /\ dialog.kind = "all"
      \/ x.kind \in MassActions
  BY <1>2, <1>3 DEF Fetching, Acting, Selecting
<1> QED BY <1>1, <1>4, <1>5 DEF LInv, Base, Asks

\* A list arrives.
LEMMA ListArrivesStep ==
  ASSUME LInv, NEW k \in DOMAIN view.wire, NEW x, x = view.wire[k],
         x.kind \in {"first", "list"}, ListArrives(x)
  PROVE  LInv'
<1> DEFINE O == Over(view, x, TRUE)
           c == Parse(O.coll, x.q)
           S == [O EXCEPT !.coll = c]
           scr == IF S.screen = "loading" THEN "list" ELSE S.screen
           V == [S EXCEPT !.screen = scr]
           R == IF x.kind = "first" THEN RenderList(V, x) ELSE Complete(S, x)
<1>1. /\ Base(view) /\ Asks(view, x) /\ x \in Xhrs /\ x.sel = NULL /\ view \in Views
      /\ dialog.kind # "confirm"
  BY WireFacts
<1>2. view' \in Forget(R) /\ table' = table /\ dialog' = dialog
  BY DEF ListArrives
<1>3. O \in Views /\ SameView(view, O) /\ Free(O) /\ Base(O) /\ O.coll = view.coll
  <2>1. O \in Views /\ SameView(view, O) /\ Free(O)
    BY <1>1, OverFacts
  <2> QED BY <1>1, <2>1, SameViewFacts DEF SameView
<1> HIDE DEF O
<1>4. /\ O.coll \in Colls /\ x.q \in Queries /\ x.q = Query(O.coll) /\ O.coll.offset >= 1
      /\ x.kind = "first" => O.coll.offset = 1
  BY <1>1, <1>3 DEF Base, Views, Asks, Xhrs
<1>5. /\ x.q.filters = O.coll.filters /\ x.q.sort = O.coll.sort /\ x.q.offset = O.coll.offset
  BY <1>4 DEF Query
<1> DEFINE m == PageOf(table, x.q)
           n == Len(Listed(table, x.q.filters, x.q.sort))
<1>6. /\ m \in Seq(Ids) /\ IsInjective(m) /\ n \in 0..Cardinality(Ids)
      /\ (x.q.offset > 1 /\ m # <<>>) => (x.q.offset - 1) * Block < n
  <2>1. x.q.sort \in Sorts
    BY <1>4 DEF Queries
  <2> QED BY <1>4, <2>1, PageFacts, ListedFacts
<1>7. c = [O.coll EXCEPT !.models = m, !.from = x.q, !.total = n]
  BY DEF Parse
<1> HIDE DEF m, n, c
<1>8. /\ c \in Colls /\ c.models = m /\ c.from = x.q /\ c.total = n
      /\ c.offset = O.coll.offset /\ c.filters = O.coll.filters /\ c.sort = O.coll.sort
  BY <1>4, <1>6, <1>7 DEF Colls
<1>9. Asked(c) /\ ((c.offset > 1 /\ c.models # <<>>) => InPages(c))
  BY <1>4, <1>5, <1>6, <1>8 DEF Query, InPages, Asked
<1>10. Base(S) /\ Free(S) /\ S.coll = c
  BY <1>3, <1>4, <1>6, <1>8, CollFacts
<1> HIDE DEF S
<1>11. ASSUME x.kind = "first" PROVE Resting(R) \/ Fetching(R)
  <2>0. R = RenderList(V, x)
    BY <1>11
  <2> HIDE DEF R
  <2>1. S \in Views /\ scr \in {"loading", "list", "error"}
    BY <1>10 DEF Base, Views
  <2> HIDE DEF scr
  <2>2. /\ V \in Views /\ V.coll = S.coll /\ V.items = S.items /\ V.rows = S.rows
        /\ V.checked = S.checked /\ V.threw = S.threw /\ V.wire = S.wire
        /\ V.requests = S.requests
    BY <2>1 DEF Views
  <2> HIDE DEF V
  <2>3. Base(V) /\ Free(V)
    BY <1>10, <2>2 DEF Base, Free
  <2>4. Asked(V.coll) /\ InPages(V.coll)
    BY <1>4, <1>8, <1>9, <1>10, <1>11, <2>2 DEF InPages
  <2>5. Resting(RenderList(V, x))
    BY <1>1, <2>3, <2>4, RenderListFacts
  <2> QED BY <2>0, <2>5
<1>12. ASSUME x.kind # "first" PROVE Resting(R) \/ Fetching(R)
  <2>0. R = Complete(S, x)
    BY <1>12
  <2> HIDE DEF R
  <2>1. Resting(Complete(S, x)) \/ Fetching(Complete(S, x))
    BY <1>1, <1>9, <1>10, CompleteFacts
  <2> QED BY <2>0, <2>1
<1> HIDE DEF R
<1>13. Resting(R) \/ Fetching(R)
  BY <1>11, <1>12
<1>14. Resting(view') \/ Fetching(view')
  BY <1>2, <1>13, ForgetFacts
<1> QED BY <1>1, <1>2, <1>14 DEF LInv, Phase

\* The ids for "Select all" arrive.
LEMMA IdsArriveStep ==
  ASSUME LInv, NEW k \in DOMAIN view.wire, NEW x, x = view.wire[k],
         x.kind = "all", IdsArrive(x)
  PROVE  LInv'
<1> DEFINE O == Over(view, x, TRUE)
           T == table \cap Match[x.q.filters]
           ids == SetToSeq(T)
           R == StoreAllSelectedIds(O, ids)
<1>1. /\ Base(view) /\ Asks(view, x) /\ view \in Views /\ Selecting(view)
      /\ dialog.kind = "all"
  BY WireFacts DEF MassActions
<1>2. view' \in Forget(R) /\ table' = table /\ dialog' = NoDialog
  BY <1>1 DEF IdsArrive
<1>3. /\ O \in Views /\ SameView(view, O) /\ Free(O) /\ Base(O)
      /\ O.screen = "list" => Rendered(O)
      /\ O.checked = ToSet(O.rows)
  <2>1. O \in Views /\ SameView(view, O) /\ Free(O)
    BY <1>1, OverFacts
  <2>2. Base(O) /\ (Rendered(view) => Rendered(O))
    BY <1>1, <2>1, SameViewFacts
  <2>3. O.checked = view.checked /\ O.rows = view.rows /\ O.screen = view.screen
    BY <2>1 DEF SameView
  <2> QED BY <1>1, <2>1, <2>2, <2>3 DEF Selecting
<1> HIDE DEF O
<1>4. ids \in Seq(Ids) /\ IsInjective(ids)
  <2>1. T \in SUBSET Ids
    BY DEF LInv
  <2> HIDE DEF T
  <2> QED BY <2>1, SetToSeqFacts
<1> HIDE DEF ids
<1>5. Resting(R)
  BY <1>1, <1>3, <1>4, StoreFacts
<1> HIDE DEF R
<1>6. Resting(view') \/ Fetching(view')
  BY <1>2, <1>5, ForgetFacts
<1>7. NoDialog \in Dialogs /\ NoDialog.kind = "none"
  BY DialogFacts DEF NoDialog
<1> QED BY <1>2, <1>6, <1>7 DEF LInv, Phase

\* An action was done.
LEMMA ActionArrivesStep ==
  ASSUME LInv, NEW k \in DOMAIN view.wire, NEW x, x = view.wire[k],
         x.kind \in MassActions, ActionArrives(x)
  PROVE  LInv'
<1> DEFINE O == Over(view, x, TRUE)
           F == FetchList(O, TheView)
<1>1. /\ Base(view) /\ Asks(view, x) /\ view \in Views /\ dialog.kind # "confirm"
      /\ dialog \in Dialogs /\ table \subseteq Ids
  BY WireFacts DEF LInv
<1>2. view' = F
  BY DEF ActionArrives, SaveModel
<1>3. table' \subseteq Ids
  BY <1>1 DEF ActionArrives
<1>4. Dialog("depend") \in Dialogs /\ Dialog("depend").kind = "depend"
  BY DialogFacts
<1>5. NoDialog \in Dialogs /\ NoDialog.kind = "none"
  BY DialogFacts DEF NoDialog
<1>6. dialog' \in {Dialog("depend"), NoDialog, dialog}
  BY DEF ActionArrives, SavedDialog
<1>7. O \in Views /\ SameView(view, O) /\ Free(O) /\ Base(O)
  <2>1. O \in Views /\ SameView(view, O) /\ Free(O)
    BY <1>1, OverFacts
  <2> QED BY <1>1, <2>1, SameViewFacts
<1> HIDE DEF O
<1>8. Fetching(F)
  BY <1>7, ForFacts, FetchListFacts
<1> HIDE DEF F
<1>9. dialog' \in Dialogs /\ dialog'.kind # "confirm"
  BY <1>1, <1>4, <1>5, <1>6
<1> QED BY <1>2, <1>3, <1>8, <1>9 DEF LInv, Phase

\* A request fails.
LEMMA failStep ==
  ASSUME LInv, NEW k \in DOMAIN view.wire, fail(k)
  PROVE  LInv'
<1> DEFINE x == view.wire[k]
           O == Over(view, x, x.kind # "all")
           R(E) == CASE x.kind = "first"      -> E
                     [] x.kind = "list"       -> Complete(E, x)
                     [] x.kind = "all"        -> O
                     [] x.kind = "disconnect" -> FetchList(O, TheView)
                     [] OTHER                 -> FetchList(E, TheView)
<1>1. /\ Base(view) /\ Asks(view, x) /\ view \in Views /\ dialog.kind # "confirm"
      /\ x \in Xhrs /\ x.sel = NULL
      /\ dialog \in Dialogs /\ table \subseteq Ids
      /\ \/ x.kind \in {"first", "list"}
         \/ x.kind = "all" /\ Selecting(view) /\ dialog.kind = "all"
         \/ x.kind \in MassActions
  BY WireFacts DEF LInv
<1>2. PICK E \in {O, [O EXCEPT !.screen = "error"]} : view' \in Forget(R(E))
  BY DEF fail
<1>3. table' = table
  BY DEF fail
<1>4. dialog' \in {NoDialog, dialog}
  BY DEF fail, SavedDialog
<1> HIDE DEF x
<1>5. O \in Views /\ SameView(view, O) /\ Free(O) /\ Base(O) /\ (Rendered(view) => Rendered(O))
  <2>1. O \in Views /\ SameView(view, O) /\ Free(O)
    BY <1>1, OverFacts
  <2> QED BY <1>1, <2>1, SameViewFacts
<1> HIDE DEF O
<1>6. /\ E \in Views /\ E.coll = O.coll /\ E.items = O.items /\ E.rows = O.rows
      /\ E.checked = O.checked /\ E.threw = O.threw /\ E.wire = O.wire
      /\ E.requests = O.requests /\ E.screen \in {O.screen, "error"}
  <2>1. CASE E = O
    BY <1>5, <2>1
  <2>2. CASE E = [O EXCEPT !.screen = "error"]
    BY <1>5, <2>2 DEF Views
  <2> QED BY <1>2, <2>1, <2>2
<1>7. Base(E) /\ Free(E)
  BY <1>5, <1>6 DEF Base, Free
<1>8. E.coll = view.coll /\ E.screen \in {view.screen, "error"}
  BY <1>5, <1>6 DEF SameView
<1>9. Resting(R(E)) \/ Fetching(R(E))
  <2>1. CASE x.kind = "first"
    <3>1. R(E) = E
      BY <2>1
    <3>2. E.screen # "list"
      BY <1>1, <1>8, <2>1 DEF Asks
    <3> QED BY <1>7, <3>1, <3>2 DEF Resting
  <2>2. CASE x.kind = "list"
    <3>1. R(E) = Complete(E, x)
      BY <2>2
    <3> HIDE DEF R
    <3>2. E.coll.models = <<>> /\ Asked(E.coll)
      BY <1>1, <1>8, <2>2 DEF Asks, Asked, Unanswered
    <3> QED BY <1>1, <1>7, <3>1, <3>2, CompleteFacts
  <2>3. CASE x.kind = "all"
    <3>1. R(E) = O
      BY <2>3
    <3>2. Selecting(view)
      BY <1>1, <2>3 DEF MassActions
    <3>3. O.screen = view.screen
      BY <1>5 DEF SameView
    <3> QED BY <1>5, <3>1, <3>2, <3>3 DEF Resting, Selecting
  <2>4. CASE x.kind = "disconnect"
    <3>1. R(E) = FetchList(O, TheView)
      BY <2>4
    <3> HIDE DEF R
    <3> QED BY <1>5, <3>1, ForFacts, FetchListFacts
  <2>5. CASE x.kind \in {"delete", "update"}
    <3>1. R(E) = FetchList(E, TheView)
      BY <2>5
    <3> HIDE DEF R
    <3> QED BY <1>7, <3>1, ForFacts, FetchListFacts
  <2> HIDE DEF R
  <2> QED BY <1>1, <2>1, <2>2, <2>3, <2>4, <2>5 DEF MassActions
<1> HIDE DEF R
<1>10. Resting(view') \/ Fetching(view')
  BY <1>2, <1>9, ForgetFacts
<1>11. NoDialog \in Dialogs /\ NoDialog.kind = "none"
  BY DialogFacts DEF NoDialog
<1>12. dialog' \in Dialogs /\ dialog'.kind # "confirm"
  BY <1>1, <1>4, <1>11
<1> QED BY <1>1, <1>3, <1>10, <1>12 DEF LInv, Phase

\* A request on its way is over.
LEMMA ReceiveStep ==
  ASSUME LInv, Receive
  PROVE  LInv'
<1>1. PICK k \in DOMAIN view.wire : answer(k) \/ fail(k)
  BY DEF Receive
<1> DEFINE x == view.wire[k]
<1>2. CASE fail(k)
  BY <1>2, failStep
<1>3. CASE answer(k)
  <2>1. x.kind \in {"first", "list", "all"} \cup MassActions
    BY WireFacts
  <2>2. CASE x.kind \in {"first", "list"}
    <3>1. ListArrives(x)
      BY <1>3, <2>2 DEF answer
    <3> QED BY <2>2, <3>1, ListArrivesStep
  <2>3. CASE x.kind = "all"
    <3>1. IdsArrive(x)
      BY <1>3, <2>3 DEF answer
    <3> QED BY <2>3, <3>1, IdsArriveStep
  <2>4. CASE x.kind \in MassActions
    <3>1. ActionArrives(x)
      BY <1>3, <2>4 DEF answer, MassActions
    <3> QED BY <2>4, <3>1, ActionArrivesStep
  <2> QED BY <2>1, <2>2, <2>3, <2>4
<1> QED BY <1>1, <1>2, <1>3

\* Another administrator creates or deletes a row.
LEMMA othersStep ==
  ASSUME LInv, others
  PROVE  LInv'
<1>1. table' \subseteq Ids /\ view' = view /\ dialog' = dialog
  BY DEF LInv, others
<1> QED BY <1>1 DEF LInv, Phase

\* The page as it is loaded.
LEMMA StartFacts == Fetching(StartView)
<1> DEFINE f == CHOOSE f \in Filters : Match[f] = Ids
           s == CHOOSE s \in Sorts : TRUE
           c == [filters |-> f, sort |-> s, offset |-> 1, total |-> 0,
                 models |-> <<>>, from |-> NULL]
           S == [coll |-> c, items |-> <<>>, all |-> FALSE, box |-> c.filters,
                 screen |-> "loading", busy |-> TRUE, rows |-> <<>>, checked |-> {},
                 allBox |-> FALSE, head |-> "none", off |-> Buttons, pages |-> 1,
                 menu |-> 0, live |-> {}, wire |-> <<>>, requests |-> <<>>, threw |-> FALSE]
           k == "first"
           q == Query(c)
           ids == <<>>
           W == Send(S, k, q, ids, TheView, 1)
<1>1. f \in Filters /\ s \in Sorts
  BY ListAssumption
<1>2. StartView = W
  BY DEF StartView
<1> HIDE DEF f, s
<1>3. /\ c \in Colls /\ c.models = <<>> /\ c.offset = 1 /\ c.filters \in Filters
      /\ Cardinality(Ids) \in Nat /\ 1 \in 1..Cardinality(Ids)
  BY <1>1, OrderFacts, EmptyFacts DEF Colls
<1> HIDE DEF c
<1>4. S \in Views
  BY <1>3, EmptyFacts DEF Views
<1>5. /\ S.coll = c /\ S.items = <<>> /\ S.rows = <<>> /\ S.checked = {} /\ S.threw = FALSE
      /\ S.wire = <<>> /\ S.requests = <<>> /\ S.screen = "loading"
  OBVIOUS
<1> HIDE DEF S
<1>6. Base(S) /\ Free(S)
  BY <1>3, <1>4, <1>5, EmptyFacts DEF Base, Free
<1>7. /\ k \in {"first", "list", "all"} \cup MassActions /\ k = "first"
      /\ q \in Queries /\ q = Query(S.coll) /\ ids \in Seq(Ids) /\ 1 \in Nat
      /\ S.coll.offset = 1 /\ S.screen # "list"
  BY <1>3, <1>5, QueryFacts, EmptyFacts
<1> HIDE DEF q, ids, k
<1>8. W = Send(S, k, q, ids, TheView, 1)
  OBVIOUS
<1> HIDE DEF W
<1>9. W \in Views /\ SameView(S, W) /\ \E x : Asks(W, x) /\ x.kind = k
  BY <1>4, <1>6, <1>7, <1>8, ForFacts, SendFacts
<1> QED BY <1>2, <1>6, <1>7, <1>9, SameViewFacts DEF Fetching

\* The page is loaded again.
LEMMA reloadStep ==
  ASSUME LInv, reload
  PROVE  LInv'
<1>1. NoDialog \in Dialogs /\ NoDialog.kind = "none"
  BY DialogFacts DEF NoDialog
<1> QED BY <1>1, StartFacts DEF LInv, Phase, reload

\* In the beginning the first list is fetched.
LEMMA LInvInit == Init => LInv
<1> SUFFICES ASSUME Init PROVE LInv
  OBVIOUS
<1>1. NoDialog \in Dialogs /\ NoDialog.kind = "none"
  BY DialogFacts DEF NoDialog
<1> QED BY <1>1, StartFacts DEF LInv, Phase, Init

\* Every step of an administrator who waits keeps the invariant.
LEMMA LInvNext ==
  ASSUME LInv, Patient, [Next]_vars
  PROVE  LInv'
<1>1. CASE \E dir \in Buttons : paginationMove(dir)
  BY <1>1, paginationMoveStep
<1>2. CASE \E n \in 1..view.pages : pressPage(n)
  BY <1>2, pressPageStep
<1>3. CASE \E s \in Sorts : sort(s)
  BY <1>3, sortStep
<1>4. CASE \E f \in Filters : filter(f)
  BY <1>4, filterStep
<1>5. CASE \E i \in Ids : checkOne(i)
  BY <1>5, checkOneStep
<1>6. CASE uncheckAll
  BY <1>6, uncheckAllStep
<1>7. CASE checkAll
  BY <1>7, checkAllStep
<1>8. CASE chooseVisible
  BY <1>8, chooseVisibleStep
<1>9. CASE chooseAll
  BY <1>9, chooseAllStep
<1>10. CASE escape
  BY <1>10, escapeStep
<1>11. CASE \E a \in MassActions : applySelectedAction(a)
  BY <1>11, applySelectedActionStep
<1>12. CASE accept
  BY <1>12, acceptStep
<1>13. CASE Receive
  BY <1>13, ReceiveStep
<1>14. CASE others
  BY <1>14, othersStep
<1>15. CASE reload
  BY <1>15, reloadStep
<1>16. CASE UNCHANGED vars
  BY <1>16 DEF vars, LInv, Phase
<1> QED BY <1>1, <1>2, <1>3, <1>4, <1>5, <1>6, <1>7, <1>8, <1>9, <1>10, <1>11, <1>12,
           <1>13, <1>14, <1>15, <1>16 DEF Next

\* So the invariant always holds.
LEMMA LInvAlways == Patient => (Spec => []LInv)
<1> SUFFICES ASSUME Patient PROVE Spec => []LInv
  OBVIOUS
<1>1. LInv /\ [Next]_vars => LInv'
  BY LInvNext
<1> QED BY <1>1, LInvInit, PTL DEF Spec

(***************************************************************************)
(* What the runs check, for every list.                                    *)
(***************************************************************************)
\* What holds of a list that is settled.
LEMMA SettledFacts ==
  ASSUME LInv, Settled
  PROVE  Rendered(view)
  BY QuietFacts DEF Settled, Resting

\* The types of TypeOK.
LEMMA TypeFacts ==
  ASSUME LInv
  PROVE  TypeOK
<1>1. Base(view) /\ table \subseteq Ids /\ dialog \in Dialogs
  BY DEF LInv, Phase, Resting, Fetching, Acting, Selecting
<1>2. Free(view) \/ \E x : Asks(view, x)
  BY DEF LInv, Phase, Resting, Fetching, Acting, Selecting
<1>3. \A k \in DOMAIN view.requests :
         view.requests[k] # Done => \E j \in DOMAIN view.wire : view.wire[j].id = view.requests[k]
  <2> SUFFICES ASSUME NEW k \in DOMAIN view.requests, view.requests[k] # Done
               PROVE  \E j \in DOMAIN view.wire : view.wire[j].id = view.requests[k]
    OBVIOUS
  <2>1. CASE Free(view)
    <3>1. view.requests \in Seq({Done})
      BY <2>1 DEF Free
    <3> QED BY <3>1
  <2>2. CASE \E x : Asks(view, x)
    <3>1. PICK x : Asks(view, x)
      BY <2>2
    <3>2. view.requests \in Seq({Done, x.id}) /\ view.wire = <<x>>
      BY <3>1 DEF Asks
    <3>3. view.requests[k] = x.id
      BY <3>2
    <3>4. 1 \in DOMAIN view.wire /\ view.wire[1] = x
      BY <3>2
    <3> QED BY <3>3, <3>4
  <2> QED BY <1>2, <2>1, <2>2
<1> QED BY <1>1, <1>3 DEF TypeOK, Base, Dialogs

(* The state of a list has its types, for any table: the page is one that there may be,
   a checked box is on the screen and what is kept to be aborted is on its way or over. *)
THEOREM TypeCorrect == Patient => (Spec => []TypeOK)
<1> SUFFICES ASSUME Patient PROVE Spec => []TypeOK
  OBVIOUS
<1>1. LInv => TypeOK
  BY TypeFacts
<1> QED BY <1>1, LInvAlways, PTL

(* fetchList, its complete callback and renderList: with no answer missing, the rows drawn
   are those of the collection, the websocket is for them and no loading message is left. *)
THEOREM RenderedAlwaysLast == Patient => (Spec => []RenderedLast)
<1> SUFFICES ASSUME Patient PROVE Spec => []RenderedLast
  OBVIOUS
<1>1. LInv => RenderedLast
  BY SettledFacts DEF RenderedLast, Rendered
<1> QED BY <1>1, LInvAlways, PTL

(* sort, filter and pagination: with no answer missing, the rows drawn were asked for
   with the filters, the sort and the page that the collection has; after a request that
   failed without an error page no rows are drawn, and no answer stands behind that. *)
THEOREM ListAlwaysCurrent == Patient => (Spec => []ListCurrent)
<1> SUFFICES ASSUME Patient PROVE Spec => []ListCurrent
  OBVIOUS
<1>1. LInv => ListCurrent
  BY SettledFacts DEF ListCurrent, Rendered, Asked, Unanswered
<1> QED BY <1>1, LInvAlways, PTL

(* checkOne, checkAll, storeAllSelectedIds and renderList: a selected item of the page has
   its box checked. *)
THEOREM SelectionAlwaysShown == Patient => (Spec => []SelectionShown)
<1> SUFFICES ASSUME Patient PROVE Spec => []SelectionShown
  OBVIOUS
<1>1. LInv => SelectionShown
  BY SettledFacts DEF SelectionShown, Rendered
<1> QED BY <1>1, LInvAlways, PTL

(* updateSelectedItemsMenu: the menu counts the items an action would be applied to. *)
THEOREM SelectionAlwaysCounted == Patient => (Spec => []SelectionCounted)
<1> SUFFICES ASSUME Patient PROVE Spec => []SelectionCounted
  OBVIOUS
<1>1. LInv => SelectionCounted
  BY SettledFacts DEF SelectionCounted, Rendered
<1> QED BY <1>1, LInvAlways, PTL

(* paginationMove and the complete callback of fetchList: the page of a list that is drawn
   is one of those there are, whatever other administrators delete. *)
THEOREM PageAlwaysInLimits == Patient => (Spec => []PageInLimits)
<1> SUFFICES ASSUME Patient PROVE Spec => []PageInLimits
  OBVIOUS
<1>1. ASSUME LInv, Settled PROVE view.coll.offset \in 1..view.pages
  <2>1. Rendered(view) /\ Base(view)
    BY <1>1, SettledFacts DEF LInv, Phase, Resting, Fetching, Acting, Selecting
  <2>2. /\ view.coll.offset \in Nat /\ view.coll.offset >= 1 /\ view.coll.total \in Nat
        /\ view.pages \in Nat /\ view.pages >= 1
    BY <2>1, OrderFacts DEF Base, Views, Colls
  <2>3. CASE view.coll.offset = 1
    BY <2>2, <2>3
  <2>4. CASE view.coll.offset > 1
    <3>1. (view.coll.offset - 1) * Block < view.coll.total /\ view.coll.offset - 1 \in Nat
      BY <2>1, <2>2, <2>4 DEF Rendered, InPages
    <3>2. view.coll.offset - 1 < Ceil(view.coll.total, Block)
      BY <2>2, <3>1, CeilFacts
    <3>3. view.coll.total # 0
      <4>1. Ceil(view.coll.total, Block) \in 0..view.coll.total
        BY <2>2, CeilFacts
      <4> QED BY <2>2, <2>4, <3>2, <4>1
    <3>4. view.pages = Ceil(view.coll.total, Block)
      BY <2>1, <3>3 DEF Rendered
    <3> QED BY <2>2, <3>2, <3>4
  <2> QED BY <2>2, <2>3, <2>4
<1>2. LInv => PageInLimits
  BY <1>1 DEF PageInLimits
<1> QED BY <1>2, LInvAlways, PTL
=============================================================================
