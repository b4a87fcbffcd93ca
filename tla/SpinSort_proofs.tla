--------------------------- MODULE SpinSort_proofs ---------------------------
(***************************************************************************)
(* Proofs about SpinSort, for every array of the command line: whatever a  *)
(* parent takes and main prints is sorted, and nobody is at work when main *)
(* reads the result.                                                       *)
(***************************************************************************)
EXTENDS SpinSort, FiniteSetTheorems, SequenceTheorems, WellFoundedInduction, TLAPS

-----------------------------------------------------------------------------
(* Counting the occurrences of a number. *)

Places(s, n, v) == {k \in 1..n : s[k] = v}
\* The occurrences of v in the first n cells.
Among(s, n, v) == Cardinality(Places(s, n, v))

One(x, v) == IF x = v THEN 1 ELSE 0

\* s and u hold the same numbers.
SameNumbers(s, u) == Len(s) = Len(u) /\ \A v \in Int : Occurrences(s, v) = Occurrences(u, v)

LEMMA PlacesFinite ==
    ASSUME NEW s, NEW n \in Nat, NEW v
    PROVE  IsFiniteSet(Places(s, n, v)) /\ Among(s, n, v) \in Nat
<1>1. Places(s, n, v) \in SUBSET (1..n)
  BY DEF Places
<1>2. IsFiniteSet(1..n)
  BY FS_Interval
<1>3. IsFiniteSet(Places(s, n, v))
  BY <1>1, <1>2, FS_Subset
<1> QED
  BY <1>3, FS_CardinalityType DEF Among

LEMMA AmongAll ==
    ASSUME NEW s \in Seq(Int), NEW v
    PROVE  Occurrences(s, v) = Among(s, Len(s), v) /\ Occurrences(s, v) \in Nat
<1>1. DOMAIN s = 1..Len(s) /\ Len(s) \in Nat
  BY LenProperties
<1>2. {k \in DOMAIN s : s[k] = v} = Places(s, Len(s), v)
  BY <1>1 DEF Places
<1>3. Occurrences(s, v) = Among(s, Len(s), v)
  BY <1>2 DEF Occurrences, Among
<1> QED
  BY <1>1, <1>3, PlacesFinite

LEMMA AmongNone ==
    ASSUME NEW s, NEW v
    PROVE  Among(s, 0, v) = 0
<1>1. Places(s, 0, v) = {}
  BY DEF Places
<1> QED
  BY <1>1, FS_EmptySet DEF Among

LEMMA AmongNext ==
    ASSUME NEW s, NEW n \in Nat, NEW v
    PROVE  Among(s, n + 1, v) = Among(s, n, v) + One(s[n + 1], v)
<1>1. CASE s[n + 1] = v
  <2>1. Places(s, n + 1, v) = Places(s, n, v) \cup {n + 1} /\ n + 1 \notin Places(s, n, v)
    BY <1>1 DEF Places
  <2> QED
    BY <1>1, <2>1, PlacesFinite, FS_AddElement DEF Among, One
<1>2. CASE s[n + 1] # v
  <2>1. Places(s, n + 1, v) = Places(s, n, v)
    BY <1>2 DEF Places
  <2> QED
    BY <1>2, <2>1, PlacesFinite DEF Among, One
<1> QED
  BY <1>1, <1>2

LEMMA AmongSame ==
    ASSUME NEW s, NEW u, NEW n \in Nat, NEW v, \A k \in 1..n : s[k] = u[k]
    PROVE  Among(s, n, v) = Among(u, n, v)
<1>1. Places(s, n, v) = Places(u, n, v)
  BY DEF Places
<1> QED
  BY <1>1 DEF Among

\* u is s with one more number, x.
Longer(u, s, x) ==
    /\ u \in Seq(Int) /\ Len(u) = Len(s) + 1 /\ u[Len(s) + 1] = x
    /\ \A k \in 1..Len(s) : u[k] = s[k]

LEMMA AppendLonger ==
    ASSUME NEW s \in Seq(Int), NEW x \in Int
    PROVE  Longer(Append(s, x), s, x)
BY AppendProperties DEF Longer

LEMMA CountLonger ==
    ASSUME NEW s \in Seq(Int), NEW u, NEW x, NEW v, Longer(u, s, x)
    PROVE  Occurrences(u, v) = Occurrences(s, v) + One(x, v)
<1>1. Len(s) \in Nat
  BY LenProperties
<1>2. Among(u, Len(s), v) = Among(s, Len(s), v)
  BY <1>1, AmongSame DEF Longer
<1>3. Among(u, Len(s) + 1, v) = Among(u, Len(s), v) + One(x, v)
  BY <1>1, AmongNext DEF Longer
<1> QED
  BY <1>2, <1>3, AmongAll DEF Longer

LEMMA CountConcat ==
    ASSUME NEW s \in Seq(Int), NEW u \in Seq(Int), NEW v
    PROVE  Occurrences(s \o u, v) = Occurrences(s, v) + Occurrences(u, v)
<1> DEFINE m == Len(s)
           n == Len(u)
           A == Places(s, m, v)
           B == Places(u, n, v)
           C == {k \in (m + 1)..(m + n) : (s \o u)[k] = v}
<1>1. /\ m \in Nat /\ n \in Nat /\ s \o u \in Seq(Int) /\ Len(s \o u) = m + n
      /\ \A k \in 1..(m + n) : (s \o u)[k] = IF k <= m THEN s[k] ELSE u[k - m]
  BY ConcatProperties
<1>2. Places(s \o u, m + n, v) = A \cup C /\ A \cap C = {}
  BY <1>1 DEF Places
<1>3. IsFiniteSet(A) /\ IsFiniteSet(B)
  BY <1>1, PlacesFinite
<1>4. IsFiniteSet(C) /\ Cardinality(C) = Cardinality(B)
  <2> DEFINE f == [k \in B |-> k + m]
  <2>1. f \in [B -> C]
    BY <1>1 DEF Places
  <2>2. \A a, b \in B : f[a] = f[b] => a = b
    BY <1>1 DEF Places
  <2>3. \A c \in C : \E b \in B : f[b] = c
    <3> SUFFICES ASSUME NEW c \in C
                 PROVE  c - m \in B /\ f[c - m] = c
      OBVIOUS
    <3> QED
      BY <1>1 DEF Places
  <2>4. f \in Bijection(B, C)
    BY <2>1, <2>2, <2>3 DEF Bijection, Injection, Surjection, IsInjective
  <2> QED
    BY <1>3, <2>4, FS_Bijection DEF ExistsBijection
<1>5. Cardinality(A \cup C) = Cardinality(A) + Cardinality(B)
  <2> HIDE DEF A, B, C
  <2>1. Cardinality(A \cap C) = 0
    BY <1>2, FS_EmptySet
  <2>2. Cardinality(A) \in Nat /\ Cardinality(B) \in Nat
    BY <1>3, FS_CardinalityType
  <2>3. Cardinality(A \cup C) = Cardinality(A) + Cardinality(C) - Cardinality(A \cap C)
    BY <1>3, <1>4, FS_Union
  <2> QED
    BY <1>4, <2>1, <2>2, <2>3
<1>6. Occurrences(s \o u, v) = Among(s \o u, m + n, v)
  BY <1>1, AmongAll
<1> QED
  BY <1>2, <1>5, <1>6, AmongAll DEF Among

LEMMA CountOne ==
    ASSUME NEW x \in Int, NEW v
    PROVE  Occurrences(<<x>>, v) = One(x, v)
<1> DEFINE u == <<x>>
<1>1. u \in Seq(Int) /\ Len(u) = 1 /\ u[1] = x
  OBVIOUS
<1> HIDE DEF u
<1>2. Among(u, 0 + 1, v) = Among(u, 0, v) + One(x, v)
  BY <1>1, AmongNext
<1>3. Among(u, 1, v) = One(x, v)
  BY <1>2, AmongNone DEF One
<1>4. Occurrences(u, v) = One(x, v)
  BY <1>1, <1>3, AmongAll
<1> QED
  BY <1>4 DEF u

\* What occurs is in some cell.
LEMMA CountInside ==
    ASSUME NEW s \in Seq(Int), NEW v
    PROVE  Occurrences(s, v) > 0 <=> \E k \in 1..Len(s) : s[k] = v
<1>1. IsFiniteSet(Places(s, Len(s), v)) /\ Occurrences(s, v) = Cardinality(Places(s, Len(s), v))
  BY AmongAll, PlacesFinite, LenProperties DEF Among
<1>2. Occurrences(s, v) = 0 <=> Places(s, Len(s), v) = {}
  BY <1>1, FS_EmptySet
<1>3. Places(s, Len(s), v) = {} <=> ~ \E k \in 1..Len(s) : s[k] = v
  BY DEF Places
<1> QED
  BY <1>2, <1>3, AmongAll

\* A set of naturals that is not empty has a least element.
LEMMA LeastOne ==
    ASSUME NEW T, T \subseteq Nat, T # {}
    PROVE  \E x \in T : \A y \in T : x <= y
<1> DEFINE R == OpToRel(<, Nat)
<1>1. PICK x \in T : \A y \in T : ~(<<y, x>> \in R)
  <2> HIDE DEF R
  <2> QED
    BY NatLessThanWellFounded, WFMin DEF R
<1>2. \A y \in T : ~(y < x)
  BY <1>1 DEF OpToRel
<1>3. \A y \in T : x <= y
  <2> SUFFICES ASSUME NEW y \in T
               PROVE  x <= y
    OBVIOUS
  <2>1. x \in Nat /\ y \in Nat /\ ~(y < x)
    BY <1>2
  <2> QED
    BY <2>1
<1> QED
  BY <1>3

-----------------------------------------------------------------------------
(* Splitting and merging arrays. *)

\* The first n cells of g, but for that of the pivot p at q, are parted into l and r.
Parted(g, n, p, q, l, r) ==
    /\ \A k \in 1..Len(l) : l[k] <= p
    /\ \A k \in 1..Len(r) : p <= r[k]
    /\ Len(l) + Len(r) + (IF q <= n THEN 1 ELSE 0) = n
    /\ \A v \in Int : Occurrences(l, v) + Occurrences(r, v) + (IF q <= n THEN One(p, v) ELSE 0)
                        = Among(g, n, v)

LEMMA PartedNone ==
    ASSUME NEW g \in Seq(Int), NEW p \in Int, NEW q \in 1..Len(g)
    PROVE  Parted(g, 0, p, q, <<>>, <<>>)
<1>1. <<>> \in Seq(Int) /\ Len(<<>>) = 0 /\ Len(g) \in Nat
  BY EmptySeq, LenProperties
<1>2. \A v \in Int : Occurrences(<<>>, v) = 0 /\ Among(g, 0, v) = 0
  BY <1>1, AmongAll, AmongNone
<1> QED
  BY <1>1, <1>2 DEF Parted

LEMMA PartedPivot ==
    ASSUME NEW g \in Seq(Int), NEW n \in Nat, NEW q \in 1..Len(g), n + 1 = q,
           NEW l \in Seq(Int), NEW r \in Seq(Int), Parted(g, n, g[q], q, l, r)
    PROVE  Parted(g, n + 1, g[q], q, l, r)
<1>1. Len(l) \in Nat /\ Len(r) \in Nat /\ Len(g) \in Nat
  BY LenProperties
<1>2. ASSUME NEW v \in Int
      PROVE  Occurrences(l, v) + Occurrences(r, v) + One(g[q], v) = Among(g, n + 1, v)
  <2>1. Among(g, n + 1, v) = Among(g, n, v) + One(g[q], v)
    BY AmongNext
  <2>2. Occurrences(l, v) + Occurrences(r, v) + 0 = Among(g, n, v)
    BY <1>1 DEF Parted
  <2>3. Occurrences(l, v) \in Nat /\ Occurrences(r, v) \in Nat
    BY AmongAll
  <2> QED
    BY <2>1, <2>2, <2>3 DEF One
<1> QED
  BY <1>1, <1>2 DEF Parted

LEMMA PartedLeft ==
    ASSUME NEW g \in Seq(Int), NEW n \in 0..(Len(g) - 1), NEW p \in Int, NEW q \in 1..Len(g),
           n + 1 # q, NEW l \in Seq(Int), NEW r \in Seq(Int), Parted(g, n, p, q, l, r),
           g[n + 1] <= p, NEW u, Longer(u, l, g[n + 1])
    PROVE  Parted(g, n + 1, p, q, u, r)
<1>1. /\ Len(l) \in Nat /\ Len(r) \in Nat /\ Len(g) \in Nat /\ g[n + 1] \in Int
      /\ n \in Nat /\ (q <= n + 1 <=> q <= n)
  BY LenProperties, ElementOfSeq
<1>2. ASSUME NEW v \in Int
      PROVE  Occurrences(u, v) + Occurrences(r, v) + (IF q <= n + 1 THEN One(p, v) ELSE 0)
                 = Among(g, n + 1, v)
  <2>1. Among(g, n + 1, v) = Among(g, n, v) + One(g[n + 1], v)
    BY <1>1, AmongNext
  <2>2. Occurrences(l, v) + Occurrences(r, v) + (IF q <= n THEN One(p, v) ELSE 0) = Among(g, n, v)
    BY DEF Parted
  <2>3. Occurrences(u, v) = Occurrences(l, v) + One(g[n + 1], v)
    BY CountLonger
  <2>4. /\ Occurrences(l, v) \in Nat /\ Occurrences(r, v) \in Nat /\ Among(g, n, v) \in Nat
        /\ One(p, v) \in Nat /\ One(g[n + 1], v) \in Nat
    BY <1>1, AmongAll, PlacesFinite DEF One
  <2>5. (IF q <= n + 1 THEN One(p, v) ELSE 0) = (IF q <= n THEN One(p, v) ELSE 0)
    BY <1>1
  <2> DEFINE z == IF q <= n THEN One(p, v) ELSE 0
  <2>6. z \in Nat
    BY <2>4
  <2> HIDE DEF z
  <2>7. /\ Occurrences(l, v) + Occurrences(r, v) + z = Among(g, n, v)
        /\ (IF q <= n + 1 THEN One(p, v) ELSE 0) = z
    BY <2>2, <2>5 DEF z
  <2>8. Occurrences(u, v) + Occurrences(r, v) + z = Among(g, n + 1, v)
    BY <2>1, <2>3, <2>4, <2>6, <2>7
  <2> QED
    BY <2>7, <2>8
<1>3. \A k \in 1..Len(u) : u[k] <= p
  <2> SUFFICES ASSUME NEW k \in 1..Len(u)
               PROVE  u[k] <= p
    OBVIOUS
  <2>1. CASE k \in 1..Len(l)
    BY <2>1 DEF Longer, Parted
  <2>2. CASE k = Len(l) + 1
    BY <2>2 DEF Longer
  <2> QED
    BY <1>1, <2>1, <2>2 DEF Longer
<1>4. Len(u) + Len(r) + (IF q <= n + 1 THEN 1 ELSE 0) = n + 1
  <2>1. Len(l) + Len(r) + (IF q <= n THEN 1 ELSE 0) = n
    BY DEF Parted
  <2>2. Len(u) = Len(l) + 1
    BY DEF Longer
  <2>3. CASE q <= n
    <3>1. q <= n + 1 /\ Len(l) + Len(r) + 1 = n
      BY <1>1, <2>1, <2>3
    <3> DEFINE a == Len(l)
               b == Len(r)
               c == Len(u)
    <3>2. a \in Nat /\ b \in Nat /\ c = a + 1 /\ a + b + 1 = n
      BY <1>1, <2>2, <3>1
    <3> HIDE DEF a, b, c
    <3>3. c + b + 1 = n + 1
      BY <1>1, <3>2
    <3> QED
      BY <3>1, <3>3 DEF a, b, c
  <2>4. CASE ~(q <= n)
    <3>1. ~(q <= n + 1) /\ Len(l) + Len(r) = n
      BY <1>1, <2>1, <2>4
    <3> QED
      BY <1>1, <2>2, <3>1
  <2> QED
    BY <2>3, <2>4
<1>5. \A k \in 1..Len(r) : p <= r[k]
  BY DEF Parted
<1> QED
  BY <1>2, <1>3, <1>4, <1>5 DEF Parted

LEMMA PartedRight ==
    ASSUME NEW g \in Seq(Int), NEW n \in 0..(Len(g) - 1), NEW p \in Int, NEW q \in 1..Len(g),
           n + 1 # q, NEW l \in Seq(Int), NEW r \in Seq(Int), Parted(g, n, p, q, l, r),
           p <= g[n + 1], NEW u, Longer(u, r, g[n + 1])
    PROVE  Parted(g, n + 1, p, q, l, u)
<1>1. /\ Len(l) \in Nat /\ Len(r) \in Nat /\ Len(g) \in Nat /\ g[n + 1] \in Int
      /\ n \in Nat /\ (q <= n + 1 <=> q <= n)
  BY LenProperties, ElementOfSeq
<1>2. ASSUME NEW v \in Int
      PROVE  Occurrences(l, v) + Occurrences(u, v) + (IF q <= n + 1 THEN One(p, v) ELSE 0)
                 = Among(g, n + 1, v)
  <2>1. Among(g, n + 1, v) = Among(g, n, v) + One(g[n + 1], v)
    BY <1>1, AmongNext
  <2>2. Occurrences(l, v) + Occurrences(r, v) + (IF q <= n THEN One(p, v) ELSE 0) = Among(g, n, v)
    BY DEF Parted
  <2>3. Occurrences(u, v) = Occurrences(r, v) + One(g[n + 1], v)
    BY CountLonger
  <2>4. /\ Occurrences(l, v) \in Nat /\ Occurrences(r, v) \in Nat /\ Among(g, n, v) \in Nat
        /\ One(p, v) \in Nat /\ One(g[n + 1], v) \in Nat
    BY <1>1, AmongAll, PlacesFinite DEF One
  <2>5. (IF q <= n + 1 THEN One(p, v) ELSE 0) = (IF q <= n THEN One(p, v) ELSE 0)
    BY <1>1
  <2> DEFINE z == IF q <= n THEN One(p, v) ELSE 0
  <2>6. z \in Nat
    BY <2>4
  <2> HIDE DEF z
  <2>7. /\ Occurrences(l, v) + Occurrences(r, v) + z = Among(g, n, v)
        /\ (IF q <= n + 1 THEN One(p, v) ELSE 0) = z
    BY <2>2, <2>5 DEF z
  <2>8. Occurrences(l, v) + Occurrences(u, v) + z = Among(g, n + 1, v)
    BY <2>1, <2>3, <2>4, <2>6, <2>7
  <2> QED
    BY <2>7, <2>8
<1>3. \A k \in 1..Len(u) : p <= u[k]
  <2> SUFFICES ASSUME NEW k \in 1..Len(u)
               PROVE  p <= u[k]
    OBVIOUS
  <2>1. CASE k \in 1..Len(r)
    BY <2>1 DEF Longer, Parted
  <2>2. CASE k = Len(r) + 1
    BY <2>2 DEF Longer
  <2> QED
    BY <1>1, <2>1, <2>2 DEF Longer
<1>4. Len(l) + Len(u) + (IF q <= n + 1 THEN 1 ELSE 0) = n + 1
  <2>1. Len(l) + Len(r) + (IF q <= n THEN 1 ELSE 0) = n
    BY DEF Parted
  <2>2. Len(u) = Len(r) + 1
    BY DEF Longer
  <2>3. CASE q <= n
    <3>1. q <= n + 1 /\ Len(l) + Len(r) + 1 = n
      BY <1>1, <2>1, <2>3
    <3> DEFINE a == Len(l)
               b == Len(r)
               c == Len(u)
    <3>2. a \in Nat /\ b \in Nat /\ c = b + 1 /\ a + b + 1 = n
      BY <1>1, <2>2, <3>1
    <3> HIDE DEF a, b, c
    <3>3. a + c + 1 = n + 1
      BY <1>1, <3>2
    <3> QED
      BY <3>1, <3>3 DEF a, b, c
  <2>4. CASE ~(q <= n)
    <3>1. ~(q <= n + 1) /\ Len(l) + Len(r) = n
      BY <1>1, <2>1, <2>4
    <3> QED
      BY <1>1, <2>2, <3>1
  <2> QED
    BY <2>3, <2>4
<1>5. \A k \in 1..Len(l) : l[k] <= p
  BY DEF Parted
<1> QED
  BY <1>2, <1>3, <1>4, <1>5 DEF Parted

LEMMA SortedConcat ==
    ASSUME NEW s \in Seq(Int), NEW u \in Seq(Int), Sorted(s), Sorted(u),
           \A a \in 1..Len(s), b \in 1..Len(u) : s[a] <= u[b]
    PROVE  Sorted(s \o u)
<1> DEFINE m == Len(s)
           n == Len(u)
           w == s \o u
<1>1. /\ m \in Nat /\ n \in Nat /\ DOMAIN w = 1..(m + n) /\ DOMAIN s = 1..m /\ DOMAIN u = 1..n
      /\ \A k \in 1..(m + n) : w[k] = IF k <= m THEN s[k] ELSE u[k - m]
      /\ \A a \in 1..m, b \in 1..n : s[a] <= u[b]
  BY ConcatProperties, LenProperties
<1> HIDE DEF m, n, w
<1>2. ASSUME NEW j \in DOMAIN w, NEW k \in DOMAIN w, j <= k
      PROVE  w[j] <= w[k]
  <2>1. j \in 1..(m + n) /\ k \in 1..(m + n) /\ j \in Int /\ k \in Int
    BY <1>1
  <2>2. CASE k <= m
    <3>1. j \in 1..m /\ k \in 1..m /\ j <= m
      BY <1>1, <1>2, <2>1, <2>2
    <3>2. w[j] = s[j] /\ w[k] = s[k]
      BY <1>1, <2>1, <2>2, <3>1
    <3>3. s[j] <= s[k]
      BY <1>1, <1>2, <3>1 DEF Sorted
    <3> QED
      BY <3>2, <3>3
  <2>3. CASE j > m
    <3>1. j - m \in 1..n /\ k - m \in 1..n /\ j - m <= k - m /\ ~(j <= m) /\ ~(k <= m)
      BY <1>1, <1>2, <2>1, <2>3
    <3>2. w[j] = u[j - m] /\ w[k] = u[k - m]
      BY <1>1, <2>1, <3>1
    <3>3. u[j - m] <= u[k - m]
      BY <1>1, <3>1 DEF Sorted
    <3> QED
      BY <3>2, <3>3
  <2>4. CASE j <= m /\ k > m
    <3>1. j \in 1..m /\ k - m \in 1..n /\ ~(k <= m)
      BY <1>1, <2>1, <2>4
    <3>2. w[j] = s[j] /\ w[k] = u[k - m]
      BY <1>1, <2>1, <2>4, <3>1
    <3> QED
      BY <1>1, <3>1, <3>2
  <2> QED
    BY <1>1, <2>1, <2>2, <2>3, <2>4
<1> QED
  BY <1>2 DEF Sorted, w

\* A bound of some numbers bounds them in any order.
LEMMA SameBounds ==
    ASSUME NEW s \in Seq(Int), NEW u \in Seq(Int), SameNumbers(s, u), NEW k \in 1..Len(s)
    PROVE  \E j \in 1..Len(u) : u[j] = s[k]
<1>1. s[k] \in Int
  BY ElementOfSeq
<1>2. Occurrences(s, s[k]) > 0
  BY CountInside
<1>3. Occurrences(u, s[k]) > 0
  BY <1>1, <1>2 DEF SameNumbers
<1> QED
  BY <1>3, CountInside

LEMMA Merged ==
    ASSUME NEW g \in Seq(Int), NEW p \in Int, NEW q \in 1..Len(g),
           NEW l \in Seq(Int), NEW r \in Seq(Int), Parted(g, Len(g), p, q, l, r),
           NEW a \in Seq(Int), NEW b \in Seq(Int), SameNumbers(a, l), SameNumbers(b, r),
           Sorted(a), Sorted(b)
    PROVE  LET w == a \o <<p>> \o b
           IN  w \in Seq(Int) /\ Sorted(w) /\ SameNumbers(w, g)
<1> DEFINE c == <<p>>
           d == a \o c
           w == d \o b
<1>1. c \in Seq(Int) /\ Len(c) = 1 /\ c[1] = p /\ Sorted(c)
  BY DEF Sorted
<1>2. Len(a) \in Nat /\ Len(b) \in Nat /\ Len(g) \in Nat /\ q <= Len(g)
  BY LenProperties
<1>3. \A k \in 1..Len(a) : a[k] <= p
  <2> SUFFICES ASSUME NEW k \in 1..Len(a)
               PROVE  a[k] <= p
    OBVIOUS
  <2>1. PICK j \in 1..Len(l) : l[j] = a[k]
    BY SameBounds
  <2> QED
    BY <2>1 DEF Parted
<1>4. \A k \in 1..Len(b) : p <= b[k]
  <2> SUFFICES ASSUME NEW k \in 1..Len(b)
               PROVE  p <= b[k]
    OBVIOUS
  <2>1. PICK j \in 1..Len(r) : r[j] = b[k]
    BY SameBounds
  <2> QED
    BY <2>1 DEF Parted
<1>5. \A v \in Int : Occurrences(c, v) = One(p, v)
  <2> SUFFICES ASSUME NEW v \in Int
               PROVE  Occurrences(c, v) = One(p, v)
    OBVIOUS
  <2> QED
    BY CountOne
<1> HIDE DEF c
<1>6. /\ d \in Seq(Int) /\ Len(d) = Len(a) + 1
      /\ \A k \in 1..(Len(a) + 1) : d[k] = IF k <= Len(a) THEN a[k] ELSE c[k - Len(a)]
  <2>1. /\ d \in Seq(Int) /\ Len(d) = Len(a) + Len(c)
        /\ \A k \in 1..(Len(a) + Len(c)) : d[k] = IF k <= Len(a) THEN a[k] ELSE c[k - Len(a)]
    BY <1>1, ConcatProperties
  <2> HIDE DEF d
  <2> QED
    BY <1>1, <2>1
<1>7. Sorted(d)
  <2>1. \A x \in 1..Len(a), y \in 1..Len(c) : a[x] <= c[y]
    BY <1>1, <1>3
  <2> QED
    BY <1>1, <2>1, SortedConcat
<1>8. \A v \in Int : Occurrences(d, v) = Occurrences(a, v) + One(p, v)
  BY <1>1, <1>5, CountConcat
<1> HIDE DEF d
<1>9. \A x \in 1..Len(d) : d[x] <= p
  <2> SUFFICES ASSUME NEW x \in 1..Len(d)
               PROVE  d[x] <= p
    OBVIOUS
  <2>1. CASE x <= Len(a)
    <3>1. x \in 1..Len(a) /\ x \in 1..(Len(a) + 1)
      BY <1>2, <1>6, <2>1
    <3>2. d[x] = a[x]
      BY <1>6, <2>1, <3>1
    <3> QED
      BY <1>3, <3>1, <3>2
  <2>2. CASE x = Len(a) + 1
    <3>1. x \in 1..(Len(a) + 1) /\ ~(x <= Len(a)) /\ x - Len(a) = 1
      BY <1>2, <2>2
    <3>2. d[x] = c[1]
      BY <1>6, <3>1
    <3> QED
      BY <1>1, <3>2
  <2> QED
    BY <1>2, <1>6, <2>1, <2>2
<1>10. w \in Seq(Int) /\ Len(w) = Len(d) + Len(b)
  BY <1>6, ConcatProperties
<1>11. Sorted(w)
  <2>1. ASSUME NEW x \in 1..Len(d), NEW y \in 1..Len(b)
        PROVE  d[x] <= b[y]
    <3>1. d[x] \in Int /\ b[y] \in Int /\ d[x] <= p /\ p <= b[y]
      BY <1>4, <1>6, <1>9, ElementOfSeq
    <3> QED
      BY <3>1
  <2>2. \A x \in 1..Len(d), y \in 1..Len(b) : d[x] <= b[y]
    BY <2>1
  <2>3. d \in Seq(Int)
    BY <1>6
  <2> QED
    BY <1>7, <2>2, <2>3, SortedConcat
<1>12. ASSUME NEW v \in Int
       PROVE  Occurrences(w, v) = Occurrences(g, v)
  <2>1. Occurrences(w, v) = Occurrences(a, v) + One(p, v) + Occurrences(b, v)
    <3>1. Occurrences(w, v) = Occurrences(d, v) + Occurrences(b, v)
      BY <1>6, CountConcat
    <3> QED
      BY <1>8, <3>1
  <2>2. Occurrences(l, v) + Occurrences(r, v) + One(p, v) = Occurrences(g, v)
    BY <1>2, AmongAll DEF Parted
  <2>3. Occurrences(a, v) = Occurrences(l, v) /\ Occurrences(b, v) = Occurrences(r, v)
    BY DEF SameNumbers
  <2>4. Occurrences(a, v) \in Nat /\ Occurrences(b, v) \in Nat /\ One(p, v) \in Nat
    BY AmongAll DEF One
  <2> HIDE DEF w
  <2> QED
    BY <2>1, <2>2, <2>3, <2>4
<1>13. Len(w) = Len(g)
  <2> HIDE DEF w
  <2>1. Len(l) + Len(r) + 1 = Len(g)
    BY <1>2 DEF Parted
  <2> QED
    BY <1>2, <1>6, <1>10, <2>1 DEF SameNumbers
<1> QED
  BY <1>10, <1>11, <1>12, <1>13 DEF SameNumbers, c, d

-----------------------------------------------------------------------------
(* The invariant. *)

Ended == {"compare", "done"}

\* t has split its array.
Splitter(t) == pc[t] \in Sorting \/ (pc[t] = "done" /\ Len(given[t]) >= 2)

\* What a thread knows of its own array.
OwnInv(t) ==
    /\ size[t] = Len(given[t]) - (IF pc[t] \in Ended THEN 1 ELSE 0)
    /\ pc[t] \in {"none", "start"} => arr[t] = given[t] /\ i[t] = 1
    /\ pc[t] \in Splitting => arr[t] = given[t]
    /\ pc[t] = "split" => i[t] <= Len(given[t]) + 1
    /\ pc[t] \in Splitting \ {"split"} => i[t] = Len(given[t]) + 1
    /\ pc[t] \in Sorting => Len(given[t]) >= 2
    /\ pc[t] \in {"report"} \cup Ended => Sorted(arr[t]) /\ SameNumbers(arr[t], given[t])

\* What it knows of its children.
FamilyInv(t) == Splitter(t) =>
    /\ Left(t) \in Threads /\ Right(t) \in Threads
    /\ pc[t] \in {"split", "createR"} => pc[Left(t)] = "none" /\ pc[Right(t)] = "none"
    /\ pc[t] = "createL" => pc[Left(t)] = "none"
    /\ pc[t] \in {"waitR", "merge", "report"} \cup Ended => pc[Left(t)] \in Ended
    /\ pc[t] \in {"merge", "report"} \cup Ended => pc[Right(t)] \in Ended
    /\ pc[t] \in Splitting =>
          Parted(given[t], i[t] - 1, pivot(t), pivotPos(t), given[Left(t)], given[Right(t)])

\* Every thread but the sorter has a parent.
ParentInv == \A t \in Threads \ {1} : \E p \in Threads : Splitter(p) /\ t \in {Left(p), Right(p)}

MainInv ==
    /\ main = "create" => pc[1] = "none"
    /\ endOfAnalysis = 1 => pc[1] = "done"

IInv ==
    /\ TypeOK
    /\ \A t \in Threads : OwnInv(t)
    /\ \A t \in Threads : FamilyInv(t)
    /\ ParentInv
    /\ MainInv

LEMMA NodeFacts ==
    ASSUME NEW t \in Nat \ {0}
    PROVE  /\ Left(t) \in Nat \ {0, 1} /\ Right(t) \in Nat \ {0, 1}
           /\ Left(t) # Right(t) /\ Left(t) # t /\ Right(t) # t /\ t < Left(t) /\ t < Right(t)
           /\ \A p \in Nat \ {0} : p # t => /\ Left(p) # Left(t) /\ Right(p) # Right(t)
                                          /\ Left(p) # Right(t) /\ Right(p) # Left(t)
BY DEF Left, Right

LEMMA ReportedEnded ==
    ASSUME TypeOK, NEW t \in Threads, OwnInv(t)
    PROVE  Reported(t) <=> pc[t] \in Ended
<1>1. Len(given[t]) \in Nat
  BY LenProperties DEF TypeOK
<1>2. size[t] = Len(given[t]) - (IF pc[t] \in Ended THEN 1 ELSE 0)
  BY DEF OwnInv
<1>3. CASE pc[t] \in Ended
  BY <1>1, <1>2, <1>3 DEF Reported
<1>4. CASE pc[t] \notin Ended
  BY <1>1, <1>2, <1>4 DEF Reported
<1> QED
  BY <1>3, <1>4

LEMMA PivotFacts ==
    ASSUME NEW s \in Seq(Int), Len(s) >= 2
    PROVE  Len(s) \div 2 + 1 \in 1..Len(s) /\ s[Len(s) \div 2 + 1] \in Int
<1>1. Len(s) \in Nat
  BY LenProperties
<1>2. Len(s) \div 2 + 1 \in 1..Len(s)
  BY <1>1
<1> QED
  BY <1>2, ElementOfSeq

LEMMA InitIInv == Init => IInv
<1> SUFFICES ASSUME Init
             PROVE  IInv
  OBVIOUS
<1>1. input \in Seq(Int) /\ Threads = {1} /\ Len(input) \in Nat
  BY InputAssumption, LenProperties DEF Init, Threads
<1>2. TypeOK
  BY <1>1 DEF Init, TypeOK
<1>3. OwnInv(1) /\ FamilyInv(1)
  BY <1>1 DEF Init, OwnInv, FamilyInv, Splitter, Splitting, Sorting, Ended
<1> QED
  BY <1>1, <1>2, <1>3 DEF Init, IInv, ParentInv, MainInv

\* A step of one thread t, which leaves what the others have alone.
LEMMA OneStep ==
    ASSUME IInv, NEW t \in Threads, pc[t] \notin {"none", "done"},
           NEW p \in Sorting \cup {"done"}, pc' = [pc EXCEPT ![t] = p],
           pc[t] \in Ended => p \in Ended,
           given' = given, input' = input, masterThreadID' = masterThreadID, main' = main,
           arr' \in [Threads -> Seq(Int)], size' \in [Threads -> Int], i' \in [Threads -> Nat \ {0}],
           \A u \in Threads \ {t} : arr'[u] = arr[u] /\ size'[u] = size[u] /\ i'[u] = i[u],
           Splitter(t) => Splitter(t)', OwnInv(t)', FamilyInv(t)',
           endOfAnalysis' \in {0, 1}, endOfAnalysis' = 1 => endOfAnalysis = 1 \/ pc'[1] = "done"
    PROVE  IInv'
<1>1. Threads' = Threads /\ pc \in [Threads -> Sorting \cup {"none", "start", "done"}] /\ 1 \in Threads
  BY DEF IInv, TypeOK, Threads
<1>2. \A u \in Threads : pc'[u] = IF u = t THEN p ELSE pc[u]
  BY <1>1
<1>3. TypeOK'
  <2>1. Threads \subseteq Nat \ {0}
    BY DEF IInv, TypeOK
  <2>2. /\ arr' \in [Threads' -> Seq(Int)] /\ given' \in [Threads' -> Seq(Int)]
        /\ size' \in [Threads' -> Int] /\ i' \in [Threads' -> Nat \ {0}]
        /\ pc' \in [Threads' -> Sorting \cup {"none", "start", "done"}]
    BY <1>1 DEF IInv, TypeOK
  <2> QED
    BY <1>1, <2>1, <2>2 DEF IInv, TypeOK
<1>4. ASSUME NEW u \in Threads, u # t
      PROVE  OwnInv(u)'
  <2>1. OwnInv(u)
    BY DEF IInv
  <2>2. pc'[u] = pc[u] /\ arr'[u] = arr[u] /\ size'[u] = size[u] /\ i'[u] = i[u] /\ given'[u] = given[u]
    BY <1>2, <1>4
  <2> QED
    BY <2>1, <2>2 DEF OwnInv
<1>5. ASSUME NEW u \in Threads, u # t
      PROVE  FamilyInv(u)'
  <2>1. Splitter(u)' => Splitter(u)
    BY <1>2, <1>5 DEF Splitter
  <2> SUFFICES ASSUME Splitter(u), FamilyInv(u)
               PROVE  FamilyInv(u)'
    BY <2>1 DEF FamilyInv, IInv
  <2>2. /\ Left(u) \in Threads /\ Right(u) \in Threads /\ pc'[u] = pc[u] /\ i'[u] = i[u]
        /\ pivot(u)' = pivot(u) /\ pivotPos(u)' = pivotPos(u)
    BY <1>2, <1>5 DEF FamilyInv, pivot, pivotPos, sizeOfArray
  <2>3. \A c \in Threads : /\ pc[c] = "none" => pc'[c] = "none"
                           /\ pc[c] \in Ended => pc'[c] \in Ended
    BY <1>2
  <2> QED
    BY <1>1, <2>2, <2>3 DEF FamilyInv, Left, Right
<1>6. ParentInv'
  <2> SUFFICES ASSUME NEW u \in Threads \ {1}
               PROVE  \E q \in Threads : Splitter(q)' /\ u \in {Left(q), Right(q)}
    BY <1>1 DEF ParentInv, Left, Right
  <2>1. PICK q \in Threads : Splitter(q) /\ u \in {Left(q), Right(q)}
    BY DEF IInv, ParentInv
  <2>2. Splitter(q)'
    BY <1>2, <2>1 DEF Splitter
  <2> QED
    BY <2>1, <2>2
<1>7. MainInv'
  <2>1. main = "create" => pc'[1] = "none"
    BY <1>1, <1>2 DEF IInv, MainInv
  <2>2. endOfAnalysis = 1 => pc'[1] = "done"
    BY <1>1, <1>2 DEF IInv, MainInv
  <2> QED
    BY <2>1, <2>2 DEF MainInv
<1> QED
  BY <1>1, <1>3, <1>4, <1>5, <1>6, <1>7 DEF IInv

\* The children of a thread that only moves on.
LEMMA Children ==
    ASSUME IInv, NEW t \in Threads, Splitter(t), NEW p, pc' = [pc EXCEPT ![t] = p],
           given' = given, DOMAIN arr' = DOMAIN arr
    PROVE  /\ Left(t) \in Threads' /\ Right(t) \in Threads'
           /\ pc'[t] = p /\ pc'[Left(t)] = pc[Left(t)] /\ pc'[Right(t)] = pc[Right(t)]
           /\ pivot(t)' = pivot(t) /\ pivotPos(t)' = pivotPos(t)
           /\ Left(t)' = Left(t) /\ Right(t)' = Right(t)
<1>1. Left(t) \in Threads /\ Right(t) \in Threads
  BY DEF IInv, FamilyInv
<1>2. t \in Nat \ {0} /\ pc \in [Threads -> Sorting \cup {"none", "start", "done"}]
  BY DEF IInv, TypeOK
<1>3. Left(t) # t /\ Right(t) # t
  BY <1>2, NodeFacts
<1>4. pivot(t)' = pivot(t) /\ pivotPos(t)' = pivotPos(t) /\ Left(t)' = Left(t) /\ Right(t)' = Right(t)
  BY DEF pivot, pivotPos, sizeOfArray, Left, Right
<1> QED
  BY <1>1, <1>2, <1>3, <1>4 DEF Threads

LEMMA SplitEndsStep ==
    ASSUME IInv, NEW t \in Threads, SplitEnds(t)
    PROVE  IInv'
<1>1. /\ pc[t] = "split" /\ pc' = [pc EXCEPT ![t] = "createR"] /\ i[t] > Len(given[t])
      /\ UNCHANGED <<arr, size, given, i, input, masterThreadID, endOfAnalysis, main>>
  BY DEF SplitEnds, At, Goes, globals, sizeOfArray
<1>2. TypeOK /\ OwnInv(t) /\ FamilyInv(t) /\ Splitter(t)
  BY <1>1 DEF IInv, Splitter, Sorting, Splitting
<1>3. /\ Left(t) \in Threads' /\ Right(t) \in Threads'
      /\ pc'[t] = "createR" /\ pc'[Left(t)] = pc[Left(t)] /\ pc'[Right(t)] = pc[Right(t)]
      /\ pivot(t)' = pivot(t) /\ pivotPos(t)' = pivotPos(t)
      /\ Left(t)' = Left(t) /\ Right(t)' = Right(t)
  BY <1>1, <1>2, Children
<1>4. i[t] = Len(given[t]) + 1
  <2>1. Len(given[t]) \in Nat /\ i[t] \in Nat
    BY <1>2, LenProperties DEF TypeOK
  <2> QED
    BY <1>1, <1>2, <2>1 DEF OwnInv
<1>5. OwnInv(t)'
  BY <1>1, <1>2, <1>3, <1>4 DEF OwnInv, Ended, Splitting, Sorting
<1>6. FamilyInv(t)'
  BY <1>1, <1>2, <1>3 DEF FamilyInv, Ended, Splitting
<1>7. Splitter(t)'
  BY <1>3 DEF Splitter, Sorting, Splitting
<1> QED
  BY <1>1, <1>2, <1>5, <1>6, <1>7, OneStep DEF TypeOK, Ended, Sorting, Splitting, Threads

LEMMA WaitLeftStep ==
    ASSUME IInv, NEW t \in Threads, WaitLeft(t)
    PROVE  IInv'
<1>1. /\ pc[t] = "waitL" /\ pc' = [pc EXCEPT ![t] = "waitR"] /\ Reported(Left(t))
      /\ UNCHANGED <<arr, size, given, i, input, masterThreadID, endOfAnalysis, main>>
  BY DEF WaitLeft, At, Goes, globals
<1>2. TypeOK /\ OwnInv(t) /\ FamilyInv(t) /\ Splitter(t)
  BY <1>1 DEF IInv, Splitter, Sorting, Splitting
<1>3. /\ Left(t) \in Threads' /\ Right(t) \in Threads'
      /\ pc'[t] = "waitR" /\ pc'[Left(t)] = pc[Left(t)] /\ pc'[Right(t)] = pc[Right(t)]
      /\ pivot(t)' = pivot(t) /\ pivotPos(t)' = pivotPos(t)
      /\ Left(t)' = Left(t) /\ Right(t)' = Right(t)
  BY <1>1, <1>2, Children
<1>4. pc[Left(t)] \in Ended
  <2>1. Left(t) \in Threads /\ OwnInv(Left(t))
    BY <1>2 DEF FamilyInv, IInv
  <2> QED
    BY <1>1, <1>2, <2>1, ReportedEnded
<1>5. OwnInv(t)'
  BY <1>1, <1>2, <1>3 DEF OwnInv, Ended, Splitting, Sorting
<1>6. FamilyInv(t)'
  BY <1>1, <1>2, <1>3, <1>4 DEF FamilyInv, Ended, Splitting
<1>7. Splitter(t)'
  BY <1>3 DEF Splitter, Sorting, Splitting
<1> QED
  BY <1>1, <1>2, <1>5, <1>6, <1>7, OneStep DEF TypeOK, Ended, Sorting, Splitting, Threads

LEMMA WaitRightStep ==
    ASSUME IInv, NEW t \in Threads, WaitRight(t)
    PROVE  IInv'
<1>1. /\ pc[t] = "waitR" /\ pc' = [pc EXCEPT ![t] = "merge"] /\ Reported(Right(t))
      /\ UNCHANGED <<arr, size, given, i, input, masterThreadID, endOfAnalysis, main>>
  BY DEF WaitRight, At, Goes, globals
<1>2. TypeOK /\ OwnInv(t) /\ FamilyInv(t) /\ Splitter(t)
  BY <1>1 DEF IInv, Splitter, Sorting, Splitting
<1>3. /\ Left(t) \in Threads' /\ Right(t) \in Threads'
      /\ pc'[t] = "merge" /\ pc'[Left(t)] = pc[Left(t)] /\ pc'[Right(t)] = pc[Right(t)]
      /\ pivot(t)' = pivot(t) /\ pivotPos(t)' = pivotPos(t)
      /\ Left(t)' = Left(t) /\ Right(t)' = Right(t)
  BY <1>1, <1>2, Children
<1>4. pc[Right(t)] \in Ended
  <2>1. Right(t) \in Threads /\ OwnInv(Right(t))
    BY <1>2 DEF FamilyInv, IInv
  <2> QED
    BY <1>1, <1>2, <2>1, ReportedEnded
<1>5. OwnInv(t)'
  BY <1>1, <1>2, <1>3 DEF OwnInv, Ended, Splitting, Sorting
<1>6. FamilyInv(t)'
  BY <1>1, <1>2, <1>3, <1>4 DEF FamilyInv, Ended, Splitting
<1>7. Splitter(t)'
  BY <1>3 DEF Splitter, Sorting, Splitting
<1> QED
  BY <1>1, <1>2, <1>5, <1>6, <1>7, OneStep DEF TypeOK, Ended, Sorting, Splitting, Threads

\* A child that has ended is taken whole.
LEMMA PartWhole ==
    ASSUME IInv, NEW c \in Threads, pc[c] \in Ended
    PROVE  Part(c) = arr[c] /\ arr[c] \in Seq(Int) /\ Sorted(arr[c]) /\ SameNumbers(arr[c], given[c])
<1>1. OwnInv(c) /\ arr[c] \in Seq(Int) /\ given[c] \in Seq(Int)
  BY DEF IInv, TypeOK
<1>2. Sorted(arr[c]) /\ SameNumbers(arr[c], given[c]) /\ size[c] = Len(given[c]) - 1
  BY <1>1 DEF OwnInv
<1>3. size[c] + 1 = Len(arr[c])
  <2>1. Len(given[c]) \in Nat /\ Len(arr[c]) = Len(given[c])
    BY <1>1, <1>2, LenProperties DEF SameNumbers
  <2> QED
    BY <1>2, <2>1
<1> QED
  BY <1>1, <1>2, <1>3, SubSeqFull DEF Part

LEMMA MergeStep ==
    ASSUME IInv, NEW t \in Threads, Merge(t)
    PROVE  IInv'
<1> DEFINE w == arr[Left(t)] \o <<pivot(t)>> \o arr[Right(t)]
<1>1. /\ pc[t] = "merge" /\ pc' = [pc EXCEPT ![t] = "report"]
      /\ arr' = [arr EXCEPT ![t] = Part(Left(t)) \o <<pivot(t)>> \o Part(Right(t))]
      /\ UNCHANGED <<size, given, i, input, masterThreadID, endOfAnalysis, main>>
  BY DEF Merge, At, Goes, globals
<1>2. TypeOK /\ OwnInv(t) /\ FamilyInv(t) /\ Splitter(t)
  BY <1>1 DEF IInv, Splitter, Sorting, Splitting
<1>3. /\ Left(t) \in Threads' /\ Right(t) \in Threads'
      /\ pc'[t] = "report" /\ pc'[Left(t)] = pc[Left(t)] /\ pc'[Right(t)] = pc[Right(t)]
      /\ pivot(t)' = pivot(t) /\ pivotPos(t)' = pivotPos(t)
      /\ Left(t)' = Left(t) /\ Right(t)' = Right(t)
  BY <1>1, <1>2, Children
<1>4. /\ Left(t) \in Threads /\ pc[Left(t)] \in Ended
      /\ Right(t) \in Threads /\ pc[Right(t)] \in Ended
      /\ Parted(given[t], i[t] - 1, pivot(t), pivotPos(t), given[Left(t)], given[Right(t)])
  BY <1>1, <1>2 DEF FamilyInv, Splitting
<1>5. /\ given[t] \in Seq(Int) /\ given[Left(t)] \in Seq(Int) /\ given[Right(t)] \in Seq(Int)
      /\ Len(given[t]) \in Nat /\ Len(given[t]) >= 2 /\ i[t] = Len(given[t]) + 1
  BY <1>1, <1>2, <1>4, LenProperties DEF TypeOK, OwnInv, Sorting, Splitting
<1>6. pivotPos(t) \in 1..Len(given[t]) /\ pivot(t) \in Int
  BY <1>5, PivotFacts DEF pivot, pivotPos, sizeOfArray
<1>7. Parted(given[t], Len(given[t]), pivot(t), pivotPos(t), given[Left(t)], given[Right(t)])
  <2>1. i[t] - 1 = Len(given[t])
    BY <1>5
  <2> QED
    BY <1>4, <2>1
<1>8. w \in Seq(Int) /\ Sorted(w) /\ SameNumbers(w, given[t])
  BY <1>4, <1>5, <1>6, <1>7, PartWhole, Merged
<1>9. arr' = [arr EXCEPT ![t] = w]
  BY <1>1, <1>4, PartWhole
<1> HIDE DEF w
<1>10. arr' \in [Threads -> Seq(Int)] /\ arr'[t] = w /\ DOMAIN arr' = DOMAIN arr
  BY <1>2, <1>8, <1>9 DEF TypeOK
<1>11. OwnInv(t)'
  BY <1>1, <1>2, <1>3, <1>8, <1>10 DEF OwnInv, Ended, Splitting, Sorting
<1>12. FamilyInv(t)'
  BY <1>1, <1>2, <1>3, <1>4 DEF FamilyInv, Ended, Splitting
<1>13. Splitter(t)'
  BY <1>3 DEF Splitter, Sorting, Splitting
<1>14. \A u \in Threads \ {t} : arr'[u] = arr[u]
  BY <1>2, <1>9 DEF TypeOK
<1> QED
  BY <1>1, <1>2, <1>10, <1>11, <1>12, <1>13, <1>14, OneStep DEF TypeOK, Ended, Sorting, Splitting, Threads

LEMMA ReportStep ==
    ASSUME IInv, NEW t \in Threads, Report(t)
    PROVE  IInv'
<1>1. /\ pc[t] = "report" /\ pc' = [pc EXCEPT ![t] = "compare"]
      /\ size' = [size EXCEPT ![t] = @ - 1]
      /\ UNCHANGED <<arr, given, i, input, masterThreadID, endOfAnalysis, main>>
  BY DEF Report, At, Goes, globals
<1>2. TypeOK /\ OwnInv(t) /\ FamilyInv(t) /\ Splitter(t)
  BY <1>1 DEF IInv, Splitter, Sorting, Splitting
<1>3. /\ Left(t) \in Threads' /\ Right(t) \in Threads'
      /\ pc'[t] = "compare" /\ pc'[Left(t)] = pc[Left(t)] /\ pc'[Right(t)] = pc[Right(t)]
      /\ pivot(t)' = pivot(t) /\ pivotPos(t)' = pivotPos(t)
      /\ Left(t)' = Left(t) /\ Right(t)' = Right(t)
  BY <1>1, <1>2, Children
<1>4. size' \in [Threads -> Int] /\ size'[t] = size[t] - 1 /\ \A u \in Threads \ {t} : size'[u] = size[u]
  BY <1>1, <1>2 DEF TypeOK
<1>5. size'[t] = Len(given[t]) - 1
  BY <1>1, <1>2, <1>4 DEF OwnInv, Ended
<1>6. OwnInv(t)'
  BY <1>1, <1>2, <1>3, <1>5 DEF OwnInv, Ended, Splitting, Sorting
<1>7. FamilyInv(t)'
  BY <1>1, <1>2, <1>3 DEF FamilyInv, Ended, Splitting
<1>8. Splitter(t)'
  BY <1>3 DEF Splitter, Sorting, Splitting
<1> QED
  BY <1>1, <1>2, <1>4, <1>6, <1>7, <1>8, OneStep DEF TypeOK, Ended, Sorting, Splitting, Threads

LEMMA CompareStep ==
    ASSUME IInv, NEW t \in Threads, Compare(t)
    PROVE  IInv'
<1>1. /\ pc[t] = "compare" /\ pc' = [pc EXCEPT ![t] = "done"]
      /\ endOfAnalysis' = IF masterThreadID = t THEN 1 ELSE endOfAnalysis
      /\ UNCHANGED <<arr, size, given, i, input, masterThreadID, main>>
  BY DEF Compare, At, Goes
<1>2. TypeOK /\ OwnInv(t) /\ FamilyInv(t) /\ Splitter(t)
  BY <1>1 DEF IInv, Splitter, Sorting, Splitting
<1>3. /\ Left(t) \in Threads' /\ Right(t) \in Threads'
      /\ pc'[t] = "done" /\ pc'[Left(t)] = pc[Left(t)] /\ pc'[Right(t)] = pc[Right(t)]
      /\ pivot(t)' = pivot(t) /\ pivotPos(t)' = pivotPos(t)
      /\ Left(t)' = Left(t) /\ Right(t)' = Right(t)
  BY <1>1, <1>2, Children
<1>4. endOfAnalysis' \in {0, 1} /\ (endOfAnalysis' = 1 => endOfAnalysis = 1 \/ pc'[1] = "done")
  <2>1. t \in Nat \ {0} /\ masterThreadID \in {0, 1} /\ endOfAnalysis \in {0, 1}
    BY <1>2 DEF TypeOK
  <2>2. masterThreadID = t => t = 1
    BY <2>1
  <2> QED
    BY <1>1, <1>3, <2>1, <2>2
<1>5. OwnInv(t)'
  BY <1>1, <1>2, <1>3 DEF OwnInv, Ended, Splitting, Sorting
<1>6. FamilyInv(t)'
  BY <1>1, <1>2, <1>3 DEF FamilyInv, Ended, Splitting
<1>7. Splitter(t)'
  BY <1>1, <1>2, <1>3 DEF Splitter, OwnInv, Sorting, Splitting
<1> QED
  BY <1>1, <1>2, <1>4, <1>5, <1>6, <1>7, OneStep DEF TypeOK, Ended, Sorting, Splitting, Threads

\* No number or one is sorted.
LEMMA SmallStep ==
    ASSUME IInv, NEW t \in Threads, Small(t)
    PROVE  IInv'
<1>1. /\ pc[t] = "start" /\ pc' = [pc EXCEPT ![t] = "done"] /\ Len(given[t]) < 2
      /\ size' = [size EXCEPT ![t] = @ - 1]
      /\ UNCHANGED <<arr, given, i, input, masterThreadID, endOfAnalysis, main>>
  BY DEF Small, At, Goes, globals, sizeOfArray
<1>2. TypeOK /\ OwnInv(t) /\ ~Splitter(t)
  BY <1>1 DEF IInv, Splitter, Sorting, Splitting
<1>3. /\ pc'[t] = "done" /\ given[t] \in Seq(Int) /\ arr[t] = given[t]
      /\ size' \in [Threads -> Int] /\ size'[t] = size[t] - 1 /\ \A u \in Threads \ {t} : size'[u] = size[u]
  BY <1>1, <1>2 DEF TypeOK, OwnInv
<1>4. Len(given[t]) \in Nat /\ DOMAIN given[t] = 1..Len(given[t]) /\ ~(Len(given[t]) >= 2)
  BY <1>1, <1>3, LenProperties
<1>5. Sorted(arr[t]) /\ SameNumbers(arr[t], given[t])
  <2>1. ASSUME NEW j \in DOMAIN given[t], NEW k \in DOMAIN given[t]
        PROVE  given[t][j] <= given[t][k]
    <3>1. j = 1 /\ k = 1
      BY <1>4
    <3>2. given[t][1] \in Int
      BY <1>3, <1>4, <3>1, ElementOfSeq
    <3> QED
      BY <3>1, <3>2
  <2> QED
    BY <1>3, <2>1 DEF Sorted, SameNumbers
<1>6. size'[t] = Len(given[t]) - 1
  BY <1>1, <1>2, <1>3 DEF OwnInv, Ended
<1>7. OwnInv(t)'
  BY <1>1, <1>3, <1>5, <1>6 DEF OwnInv, Ended, Splitting, Sorting
<1>8. ~Splitter(t)'
  BY <1>1, <1>3, <1>4 DEF Splitter, Sorting, Splitting
<1>9. FamilyInv(t)'
  BY <1>8 DEF FamilyInv
<1> QED
  BY <1>1, <1>2, <1>3, <1>7, <1>9, OneStep DEF TypeOK, Ended, Sorting, Splitting, Threads

-----------------------------------------------------------------------------
(* The steps that touch a child. *)

\* The creation of the thread of a child c: a step of t and of c.
LEMMA CreateStep ==
    ASSUME IInv, NEW t \in Threads, NEW p, NEW c,
           \/ pc[t] = "createR" /\ p = "createL" /\ c = Right(t)
           \/ pc[t] = "createL" /\ p = "waitL" /\ c = Left(t),
           pc' = [pc EXCEPT ![t] = p, ![c] = "start"],
           UNCHANGED <<arr, size, given, i, input, masterThreadID, endOfAnalysis, main>>
    PROVE  IInv'
<1>1. /\ TypeOK /\ Threads' = Threads /\ pc \in [Threads -> Sorting \cup {"none", "start", "done"}]
      /\ 1 \in Threads /\ Threads \subseteq Nat \ {0} /\ t \in Nat \ {0}
  BY DEF IInv, TypeOK, Threads
<1>2. OwnInv(t) /\ FamilyInv(t) /\ Splitter(t)
  BY DEF IInv, Splitter, Sorting, Splitting
<1>3. /\ Left(t) \in Threads /\ Right(t) \in Threads /\ c \in Threads /\ pc[c] = "none"
      /\ (c = Right(t) => pc[Left(t)] = "none" \/ pc[t] = "createL")
      /\ Parted(given[t], i[t] - 1, pivot(t), pivotPos(t), given[Left(t)], given[Right(t)])
  BY <1>2 DEF FamilyInv, Splitting
<1>4. c # t /\ c # 1 /\ Left(t) # Right(t) /\ Left(t) # t /\ Right(t) # t
  BY <1>1, NodeFacts
<1>5. \A u \in Threads : pc'[u] = IF u = c THEN "start" ELSE IF u = t THEN p ELSE pc[u]
  BY <1>1, <1>3, <1>4
<1>6. p \in Splitting \ {"split"} /\ pc[t] \in Splitting \ {"split"}
  BY DEF Splitting
<1>7. TypeOK'
  <2>1. pc' \in [Threads -> Sorting \cup {"none", "start", "done"}]
    BY <1>1, <1>6 DEF Sorting
  <2> QED
    BY <1>1, <2>1 DEF TypeOK
<1>8. ASSUME NEW u \in Threads
      PROVE  OwnInv(u)'
  <2>1. OwnInv(u)
    BY DEF IInv
  <2>2. CASE u = t
    BY <1>2, <1>4, <1>5, <1>6, <2>2 DEF OwnInv, Splitting, Sorting, Ended
  <2>3. CASE u = c
    <3>1. pc'[u] = "start" /\ pc[u] = "none"
      BY <1>3, <1>5, <2>3
    <3> QED
      BY <2>1, <3>1 DEF OwnInv, Splitting, Sorting, Ended
  <2>4. CASE u # t /\ u # c
    <3>1. pc'[u] = pc[u]
      BY <1>5, <2>4
    <3> QED
      BY <2>1, <3>1 DEF OwnInv
  <2> QED
    BY <2>2, <2>3, <2>4
<1>9. ASSUME NEW u \in Threads
      PROVE  FamilyInv(u)'
  <2> SUFFICES ASSUME Splitter(u)'
               PROVE  FamilyInv(u)'
    BY DEF FamilyInv
  <2>1. CASE u = t
    BY <1>1, <1>3, <1>4, <1>5, <2>1 DEF FamilyInv, Splitting, Sorting, Ended, Left, Right, pivot, pivotPos,
      sizeOfArray
  <2>2. CASE u # t
    <3>1. u # c
      <4>1. pc'[c] = "start"
        BY <1>3, <1>5
      <4>2. ~Splitter(c)'
        BY <4>1 DEF Splitter, Sorting, Splitting
      <4> QED
        BY <4>2
    <3>2. pc'[u] = pc[u] /\ Splitter(u) /\ FamilyInv(u)
      BY <1>5, <2>2, <3>1 DEF Splitter, IInv
    <3>3. Left(u) # c /\ Right(u) # c /\ Left(u) \in Threads /\ Right(u) \in Threads
      BY <1>1, <2>2, <3>2, NodeFacts DEF FamilyInv
    <3>4. \A d \in Threads \ {c} : /\ pc[d] = "none" => pc'[d] = "none"
                                   /\ pc[d] \in Ended => pc'[d] \in Ended
      BY <1>5 DEF Ended
    <3> QED
      BY <1>1, <3>2, <3>3, <3>4 DEF FamilyInv, Left, Right, pivot, pivotPos, sizeOfArray
  <2> QED
    BY <2>1, <2>2
<1>10. ParentInv'
  <2> SUFFICES ASSUME NEW u \in Threads \ {1}
               PROVE  \E q \in Threads : Splitter(q)' /\ u \in {Left(q), Right(q)}
    BY <1>1 DEF ParentInv, Left, Right
  <2>1. PICK q \in Threads : Splitter(q) /\ u \in {Left(q), Right(q)}
    BY DEF IInv, ParentInv
  <2>2. q # c
    BY <1>3, <2>1 DEF Splitter, Sorting, Splitting
  <2>3. Splitter(q)'
    BY <1>5, <1>6, <2>1, <2>2 DEF Splitter, Sorting
  <2> QED
    BY <2>1, <2>3
<1>11. MainInv'
  BY <1>1, <1>4, <1>5 DEF IInv, MainInv
<1> QED
  BY <1>1, <1>7, <1>8, <1>9, <1>10, <1>11 DEF IInv

\* A thread allocates two new arrays, which have no thread yet.
LEMMA StartStep ==
    ASSUME IInv, NEW t \in Threads, Start(t)
    PROVE  IInv'
<1> DEFINE L == Left(t)
           R == Right(t)
           new == {L, R}
<1>1. /\ TypeOK /\ 1 \in Threads /\ Threads \subseteq Nat \ {0} /\ t \in Nat \ {0}
      /\ OwnInv(t) /\ pc[t] = "start" /\ Len(given[t]) >= 2
      /\ UNCHANGED <<input, masterThreadID, endOfAnalysis, main>>
  BY DEF IInv, TypeOK, Start, At, sizeOfArray, globals
<1>2. /\ L \in Nat \ {0, 1} /\ R \in Nat \ {0, 1} /\ L # R /\ L # t /\ R # t
      /\ \A q \in Threads : q # t => Left(q) \notin new /\ Right(q) \notin new
  BY <1>1, NodeFacts
<1>3. L \notin Threads /\ R \notin Threads
  <2> SUFFICES ASSUME NEW c \in Threads, c \in new
               PROVE  FALSE
    OBVIOUS
  <2>1. PICK q \in Threads : Splitter(q) /\ c \in {Left(q), Right(q)}
    BY <1>2 DEF IInv, ParentInv
  <2>2. q # t
    BY <1>1, <2>1 DEF Splitter, Sorting, Splitting
  <2> QED
    BY <1>2, <2>1, <2>2
<1>4. /\ arr' = With(arr, [c \in new |-> <<>>]) /\ size' = With(size, [c \in new |-> 0])
      /\ given' = With(given, [c \in new |-> <<>>])
      /\ pc' = [With(pc, [c \in new |-> "none"]) EXCEPT ![t] = "split"]
      /\ i' = With(i, [c \in new |-> 1])
  BY DEF Start
<1> HIDE DEF L, R
<1>5. /\ arr' \in [Threads \cup new -> Seq(Int)] /\ arr'[L] = <<>> /\ arr'[R] = <<>>
      /\ \A u \in Threads : arr'[u] = arr[u]
  <2>1. <<>> \in Seq(Int) /\ arr \in [Threads -> Seq(Int)]
    BY <1>1, EmptySeq DEF TypeOK
  <2> DEFINE S == Seq(Int)
           g == [c \in new |-> <<>>]
  <2>2. DOMAIN g = {L, R} /\ g[L] = <<>> /\ g[R] = <<>> /\ arr' = With(arr, g)
    BY <1>4
  <2> HIDE DEF S, g
  <2>3. <<>> \in S /\ arr \in [Threads -> S]
    BY <2>1 DEF S
  <2>4. LET h == With(arr, g)
        IN  /\ h \in [Threads \cup {L, R} -> S] /\ h[L] = <<>> /\ h[R] = <<>>
            /\ \A u \in Threads : h[u] = arr[u]
    BY <1>3, <2>2, <2>3 DEF With
  <2> QED
    BY <2>2, <2>4 DEF S
<1>6. /\ given' \in [Threads \cup new -> Seq(Int)] /\ given'[L] = <<>> /\ given'[R] = <<>>
      /\ \A u \in Threads : given'[u] = given[u]
  <2>1. <<>> \in Seq(Int) /\ given \in [Threads -> Seq(Int)]
    BY <1>1, EmptySeq DEF TypeOK
  <2> DEFINE S == Seq(Int)
           g == [c \in new |-> <<>>]
  <2>2. DOMAIN g = {L, R} /\ g[L] = <<>> /\ g[R] = <<>> /\ given' = With(given, g)
    BY <1>4
  <2> HIDE DEF S, g
  <2>3. <<>> \in S /\ given \in [Threads -> S]
    BY <2>1 DEF S
  <2>4. LET h == With(given, g)
        IN  /\ h \in [Threads \cup {L, R} -> S] /\ h[L] = <<>> /\ h[R] = <<>>
            /\ \A u \in Threads : h[u] = given[u]
    BY <1>3, <2>2, <2>3 DEF With
  <2> QED
    BY <2>2, <2>4 DEF S
<1>7. /\ size' \in [Threads \cup new -> Int] /\ size'[L] = 0 /\ size'[R] = 0
      /\ \A u \in Threads : size'[u] = size[u]
  <2>1. 0 \in Int /\ size \in [Threads -> Int]
    BY <1>1 DEF TypeOK
  <2> DEFINE S == Int
           g == [c \in new |-> 0]
  <2>2. DOMAIN g = {L, R} /\ g[L] = 0 /\ g[R] = 0 /\ size' = With(size, g)
    BY <1>4
  <2> HIDE DEF S, g
  <2>3. 0 \in S /\ size \in [Threads -> S]
    BY <2>1 DEF S
  <2>4. LET h == With(size, g)
        IN  /\ h \in [Threads \cup {L, R} -> S] /\ h[L] = 0 /\ h[R] = 0
            /\ \A u \in Threads : h[u] = size[u]
    BY <1>3, <2>2, <2>3 DEF With
  <2> QED
    BY <2>2, <2>4 DEF S
<1>8. /\ i' \in [Threads \cup new -> Nat \ {0}] /\ i'[L] = 1 /\ i'[R] = 1
      /\ \A u \in Threads : i'[u] = i[u]
  <2>1. 1 \in Nat \ {0} /\ i \in [Threads -> Nat \ {0}]
    BY <1>1 DEF TypeOK
  <2> DEFINE S == Nat \ {0}
           g == [c \in new |-> 1]
  <2>2. DOMAIN g = {L, R} /\ g[L] = 1 /\ g[R] = 1 /\ i' = With(i, g)
    BY <1>4
  <2> HIDE DEF S, g
  <2>3. 1 \in S /\ i \in [Threads -> S]
    BY <2>1 DEF S
  <2>4. LET h == With(i, g)
        IN  /\ h \in [Threads \cup {L, R} -> S] /\ h[L] = 1 /\ h[R] = 1
            /\ \A u \in Threads : h[u] = i[u]
    BY <1>3, <2>2, <2>3 DEF With
  <2> QED
    BY <2>2, <2>4 DEF S
<1>9. /\ pc' \in [Threads \cup new -> Sorting \cup {"none", "start", "done"}]
      /\ pc'[L] = "none" /\ pc'[R] = "none" /\ pc'[t] = "split"
      /\ \A u \in Threads \ {t} : pc'[u] = pc[u]
  <2> DEFINE g == [c \in new |-> "none"]
             f == With(pc, g)
             PC == Sorting \cup {"none", "start", "done"}
  <2>1. "none" \in PC /\ pc \in [Threads -> PC] /\ "split" \in PC
    BY <1>1 DEF TypeOK, Sorting, Splitting
  <2>2. DOMAIN g = {L, R} /\ g[L] = "none" /\ g[R] = "none" /\ pc' = [f EXCEPT ![t] = "split"]
    BY <1>4
  <2> HIDE DEF PC, g
  <2>3. /\ f \in [Threads \cup {L, R} -> PC] /\ f[L] = "none" /\ f[R] = "none"
        /\ \A u \in Threads : f[u] = pc[u]
    BY <1>3, <2>1, <2>2 DEF With
  <2> HIDE DEF f
  <2>4. pc' \in [Threads \cup new -> PC]
    BY <2>1, <2>2, <2>3
  <2>5. pc'[L] = "none" /\ pc'[R] = "none" /\ pc'[t] = "split" /\ \A u \in Threads \ {t} : pc'[u] = pc[u]
    BY <1>1, <1>2, <2>2, <2>3
  <2> QED
    BY <2>4, <2>5 DEF PC
<1>10. Threads' = Threads \cup new
  BY <1>5 DEF Threads
<1>11. TypeOK'
  <2>1. Threads' \subseteq Nat \ {0} /\ 1 \in Threads'
    BY <1>1, <1>2, <1>10
  <2> QED
    BY <1>1, <1>5, <1>6, <1>7, <1>8, <1>9, <1>10, <2>1 DEF TypeOK
<1>12. ASSUME NEW u \in Threads'
       PROVE  OwnInv(u)'
  <2>1. CASE u = t
    <3>1. i[t] = 1 /\ arr[t] = given[t] /\ size[t] = Len(given[t]) /\ Len(given[t]) \in Nat
      <4>1. Len(given[t]) \in Nat
        BY <1>1, LenProperties DEF TypeOK
      <4> QED
        BY <1>1, <4>1 DEF OwnInv, Ended
    <3>2. /\ pc'[t] = "split" /\ arr'[t] = arr[t] /\ given'[t] = given[t]
          /\ size'[t] = size[t] /\ i'[t] = 1
      BY <1>1, <1>5, <1>6, <1>7, <1>8, <1>9, <3>1
    <3>3. 1 <= Len(given[t]) + 1
      BY <3>1
    <3> QED
      BY <1>1, <2>1, <3>1, <3>2, <3>3 DEF OwnInv, Splitting, Sorting, Ended
  <2>2. CASE u \in new
    <3>1. pc'[u] = "none" /\ arr'[u] = <<>> /\ given'[u] = <<>> /\ size'[u] = 0 /\ i'[u] = 1
      BY <1>5, <1>6, <1>7, <1>8, <1>9, <2>2
    <3>2. Len(<<>>) = 0
      BY EmptySeq
    <3> QED
      BY <3>1, <3>2 DEF OwnInv, Splitting, Sorting, Ended
  <2>3. CASE u \in Threads \ {t}
    <3>1. OwnInv(u)
      BY <2>3 DEF IInv
    <3>2. pc'[u] = pc[u] /\ arr'[u] = arr[u] /\ size'[u] = size[u] /\ i'[u] = i[u] /\ given'[u] = given[u]
      BY <1>5, <1>6, <1>7, <1>8, <1>9, <2>3
    <3> QED
      BY <3>1, <3>2 DEF OwnInv
  <2> QED
    BY <1>10, <2>1, <2>2, <2>3
<1>13. ASSUME NEW u \in Threads', Splitter(u)'
       PROVE  FamilyInv(u)'
  <2>1. u \notin new
    BY <1>9, <1>13 DEF Splitter, Sorting, Splitting
  <2>2. CASE u = t
    <3>1. i'[t] = 1 /\ given[t] \in Seq(Int)
      BY <1>1, <1>8 DEF OwnInv, TypeOK
    <3>2. pivotPos(t) \in 1..Len(given[t]) /\ pivot(t) \in Int
      BY <1>1, <3>1, PivotFacts DEF pivot, pivotPos, sizeOfArray
    <3>3. Parted(given[t], 0, pivot(t), pivotPos(t), <<>>, <<>>)
      BY <3>1, <3>2, PartedNone
    <3>4. /\ pivot(t)' = pivot(t) /\ pivotPos(t)' = pivotPos(t) /\ Left(t)' = L /\ Right(t)' = R
          /\ given'[t] = given[t] /\ i'[t] - 1 = 0
      <4>1. given'[t] = given[t]
        BY <1>6
      <4>2. pivot(t)' = pivot(t) /\ pivotPos(t)' = pivotPos(t)
        BY <4>1 DEF pivot, pivotPos, sizeOfArray
      <4>3. Left(t)' = L /\ Right(t)' = R
        BY DEF Left, Right, L, R
      <4> QED
        BY <3>1, <4>1, <4>2, <4>3
    <3>5. Parted(given[t], i[t] - 1, pivot(t), pivotPos(t), given[Left(t)], given[Right(t)])'
      BY <1>6, <3>3, <3>4
    <3> QED
      BY <1>9, <1>10, <2>2, <3>4, <3>5 DEF FamilyInv, Ended
  <2>3. CASE u \in Threads \ {t}
    <3>1. /\ pc'[u] = pc[u] /\ i'[u] = i[u] /\ given'[u] = given[u]
          /\ pivot(u)' = pivot(u) /\ pivotPos(u)' = pivotPos(u) /\ Left(u)' = Left(u) /\ Right(u)' = Right(u)
      BY <1>6, <1>8, <1>9, <2>3 DEF pivot, pivotPos, sizeOfArray, Left, Right
    <3>2. Splitter(u) /\ FamilyInv(u)
      BY <1>13, <2>3, <3>1 DEF Splitter, IInv
    <3>3. Left(u) \in Threads /\ Right(u) \in Threads
      BY <3>2 DEF FamilyInv
    <3>4. \A d \in Threads : /\ given'[d] = given[d] /\ (pc[d] = "none" => pc'[d] = "none")
                             /\ (pc[d] \in Ended => pc'[d] \in Ended)
      BY <1>1, <1>6, <1>9 DEF Ended
    <3> QED
      BY <1>10, <3>1, <3>2, <3>3, <3>4 DEF FamilyInv
  <2> QED
    BY <1>10, <2>1, <2>2, <2>3
<1>14. ParentInv'
  <2> SUFFICES ASSUME NEW u \in Threads', u # 1
               PROVE  \E q \in Threads' : Splitter(q)' /\ u \in {Left(q), Right(q)}
    BY DEF ParentInv, Left, Right
  <2>1. CASE u \in new
    <3>1. Splitter(t)' /\ t \in Threads'
      BY <1>9, <1>10 DEF Splitter, Sorting, Splitting
    <3> QED
      BY <2>1, <3>1 DEF L, R
  <2>2. CASE u \in Threads
    <3>1. PICK q \in Threads : Splitter(q) /\ u \in {Left(q), Right(q)}
      BY <2>2 DEF IInv, ParentInv
    <3>2. q # t
      BY <1>1, <3>1 DEF Splitter, Sorting, Splitting
    <3>3. Splitter(q)'
      BY <1>6, <1>9, <3>1, <3>2 DEF Splitter
    <3> QED
      BY <1>10, <3>1, <3>3
  <2> QED
    BY <1>10, <2>1, <2>2
<1>15. MainInv'
  <2>1. pc[1] = "none" \/ pc[1] = "done" => pc'[1] = pc[1]
    BY <1>1, <1>9
  <2> QED
    BY <1>1, <2>1 DEF IInv, MainInv
<1>16. \A u \in Threads' : FamilyInv(u)'
  BY <1>13 DEF FamilyInv
<1> QED
  BY <1>11, <1>12, <1>14, <1>15, <1>16 DEF IInv

\* A number goes to one of the two arrays: a step of t and of its child c.
LEMMA PushStep ==
    ASSUME IInv, NEW t \in Threads, pc[t] = "split", i[t] <= Len(given[t]),
           NEW c \in {Left(t), Right(t)}, NEW x \in Int, Push(c, x), i' = [i EXCEPT ![t] = @ + 1],
           UNCHANGED <<pc, input, masterThreadID, endOfAnalysis, main>>,
           Parted(given[t], i[t], pivot(t), pivotPos(t), given'[Left(t)], given'[Right(t)])
    PROVE  IInv'
<1>1. /\ TypeOK /\ t \in Nat \ {0} /\ Threads \subseteq Nat \ {0}
      /\ arr \in [Threads -> Seq(Int)] /\ given \in [Threads -> Seq(Int)]
      /\ size \in [Threads -> Int] /\ i \in [Threads -> Nat \ {0}]
  BY DEF IInv, TypeOK
<1>2. OwnInv(t) /\ FamilyInv(t) /\ Splitter(t)
  BY DEF IInv, Splitter, Sorting, Splitting
<1>3. c \in Threads /\ pc[c] = "none" /\ c # t
  BY <1>1, <1>2, NodeFacts DEF FamilyInv
<1>4. OwnInv(c) /\ arr[c] = given[c] /\ size[c] = Len(given[c]) /\ i[c] = 1
  <2>1. OwnInv(c) /\ Len(given[c]) \in Nat
    BY <1>1, <1>3, LenProperties DEF IInv
  <2> QED
    BY <1>3, <2>1 DEF OwnInv, Ended
<1>5. /\ arr' = [arr EXCEPT ![c] = Append(arr[c], x)] /\ given' = [given EXCEPT ![c] = Append(given[c], x)]
      /\ size' = [size EXCEPT ![c] = size[c] + 1]
  BY <1>1, <1>3 DEF Push
<1>6. Longer(Append(given[c], x), given[c], x)
  BY <1>1, <1>3, AppendLonger
<1> DEFINE w == Append(given[c], x)
<1>7. w \in Seq(Int) /\ Len(w) = Len(given[c]) + 1 /\ Append(arr[c], x) = w
  BY <1>4, <1>6 DEF Longer
<1> HIDE DEF w
<1>8. /\ arr' \in [Threads -> Seq(Int)] /\ given' \in [Threads -> Seq(Int)]
      /\ size' \in [Threads -> Int] /\ i' \in [Threads -> Nat \ {0}] /\ Threads' = Threads
      /\ arr'[c] = w /\ given'[c] = w /\ size'[c] = size[c] + 1 /\ i'[t] = i[t] + 1
      /\ \A u \in Threads \ {c} : arr'[u] = arr[u] /\ given'[u] = given[u] /\ size'[u] = size[u]
      /\ \A u \in Threads \ {t} : i'[u] = i[u]
  <2>1. arr' = [arr EXCEPT ![c] = w] /\ given' = [given EXCEPT ![c] = w]
    BY <1>5, <1>7 DEF w
  <2>2. \A k \in Nat \ {0} : k + 1 \in Nat \ {0}
    OBVIOUS
  <2>3. i[t] + 1 \in Nat \ {0} /\ size[c] + 1 \in Int
    BY <1>1, <1>3, <2>2
  <2> QED
    BY <1>1, <1>3, <1>5, <1>7, <2>1, <2>3 DEF Threads
<1>9. TypeOK'
  BY <1>1, <1>8 DEF TypeOK
<1>10. ASSUME NEW u \in Threads
       PROVE  OwnInv(u)'
  <2>1. OwnInv(u)
    BY DEF IInv
  <2>2. CASE u = c
    <3>1. /\ pc'[c] = "none" /\ arr'[c] = given'[c] /\ i'[c] = 1
          /\ size'[c] = Len(given'[c])
      BY <1>3, <1>4, <1>7, <1>8
    <3>2. Len(given'[c]) \in Nat
      BY <1>3, <1>8, LenProperties
    <3> QED
      BY <2>2, <3>1, <3>2 DEF OwnInv, Splitting, Sorting, Ended
  <2>3. CASE u = t
    <3>1. /\ pc'[t] = "split" /\ arr'[t] = arr[t] /\ given'[t] = given[t] /\ size'[t] = size[t]
          /\ i'[t] = i[t] + 1 /\ i[t] + 1 <= Len(given[t]) + 1
      <4>1. i[t] \in Nat /\ Len(given[t]) \in Nat
        BY <1>1, LenProperties
      <4> QED
        BY <1>3, <1>8, <4>1
    <3> QED
      BY <1>2, <2>3, <3>1 DEF OwnInv, Splitting, Sorting, Ended
  <2>4. CASE u # c /\ u # t
    <3>1. pc'[u] = pc[u] /\ arr'[u] = arr[u] /\ size'[u] = size[u] /\ i'[u] = i[u] /\ given'[u] = given[u]
      BY <1>8, <2>4
    <3> QED
      BY <2>1, <3>1 DEF OwnInv
  <2> QED
    BY <2>2, <2>3, <2>4
<1>11. \A u \in Threads : /\ Splitter(u)' <=> Splitter(u)
                          /\ Left(u)' = Left(u) /\ Right(u)' = Right(u)
  <2> SUFFICES ASSUME NEW u \in Threads
               PROVE  Splitter(u)' <=> Splitter(u)
    BY DEF Left, Right
  <2>1. CASE u = c
    BY <1>3, <2>1 DEF Splitter, Sorting, Splitting
  <2>2. CASE u # c
    BY <1>8, <2>2 DEF Splitter
  <2> QED
    BY <2>1, <2>2
<1>12. ASSUME NEW u \in Threads, Splitter(u)
       PROVE  FamilyInv(u)'
  <2>1. FamilyInv(u) /\ u # c /\ Left(u) \in Threads /\ Right(u) \in Threads
    BY <1>3, <1>12 DEF IInv, FamilyInv, Splitter, Sorting, Splitting
  <2>2. given'[u] = given[u] /\ pc' = pc
    BY <1>8, <2>1
  <2>3. pivot(u)' = pivot(u) /\ pivotPos(u)' = pivotPos(u)
    BY <2>2 DEF pivot, pivotPos, sizeOfArray
  <2>4. CASE u = t
    <3>1. i'[t] - 1 = i[t]
      <4>1. i[t] \in Nat
        BY <1>1
      <4> QED
        BY <1>8, <4>1
    <3>2. Parted(given[t], i[t] - 1, pivot(t), pivotPos(t), given[Left(t)], given[Right(t)])'
      BY <1>11, <2>2, <2>3, <2>4, <3>1
    <3> QED
      BY <1>8, <1>11, <2>1, <2>2, <2>4, <3>2 DEF FamilyInv
  <2>5. CASE u # t
    <3>1. given'[Left(u)] = given[Left(u)] /\ given'[Right(u)] = given[Right(u)] /\ i'[u] = i[u]
      <4>1. Left(u) # c /\ Right(u) # c
        BY <1>1, <2>5, NodeFacts
      <4> QED
        BY <1>8, <2>1, <2>5, <4>1
    <3>2. Parted(given[u], i[u] - 1, pivot(u), pivotPos(u), given[Left(u)], given[Right(u)])'
              <=> Parted(given[u], i[u] - 1, pivot(u), pivotPos(u), given[Left(u)], given[Right(u)])
      BY <1>11, <2>2, <2>3, <3>1
    <3> QED
      BY <1>8, <1>11, <1>12, <2>1, <2>2, <3>2 DEF FamilyInv
  <2> QED
    BY <2>4, <2>5
<1>13. ParentInv'
  BY <1>8, <1>11 DEF IInv, ParentInv
<1>14. MainInv'
  BY DEF IInv, MainInv
<1>15. \A u \in Threads : FamilyInv(u)'
  BY <1>11, <1>12 DEF FamilyInv
<1> QED
  BY <1>8, <1>9, <1>10, <1>13, <1>14, <1>15 DEF IInv

LEMMA SplitStep ==
    ASSUME IInv, NEW t \in Threads, Split(t)
    PROVE  IInv'
<1>1. /\ pc[t] = "split" /\ i[t] <= Len(given[t]) /\ i' = [i EXCEPT ![t] = @ + 1]
      /\ UNCHANGED <<pc, input, masterThreadID, endOfAnalysis, main>>
  BY DEF Split, At, sizeOfArray, globals
<1>2. TypeOK /\ OwnInv(t) /\ FamilyInv(t) /\ Splitter(t)
  BY <1>1 DEF IInv, Splitter, Sorting, Splitting
<1>3. /\ arr[t] = given[t] /\ Len(given[t]) >= 2 /\ given[t] \in Seq(Int) /\ i[t] \in Nat \ {0}
      /\ Left(t) \in Threads /\ Right(t) \in Threads
      /\ given[Left(t)] \in Seq(Int) /\ given[Right(t)] \in Seq(Int)
      /\ Parted(given[t], i[t] - 1, pivot(t), pivotPos(t), given[Left(t)], given[Right(t)])
  BY <1>1, <1>2 DEF OwnInv, FamilyInv, TypeOK, Splitting, Sorting
<1> DEFINE n == i[t] - 1
           x == given[t][i[t]]
<1>4. n \in 0..(Len(given[t]) - 1) /\ n \in Nat /\ n + 1 = i[t] /\ i[t] \in 1..Len(given[t])
  <2>1. Len(given[t]) \in Nat
    BY <1>3, LenProperties
  <2> QED
    BY <1>1, <1>3, <2>1
<1>5. x \in Int /\ pivotPos(t) \in 1..Len(given[t]) /\ pivot(t) \in Int /\ pivot(t) = given[t][pivotPos(t)]
  BY <1>3, <1>4, PivotFacts, ElementOfSeq DEF pivot, pivotPos, sizeOfArray
<1>6. CASE i[t] = pivotPos(t)
  <2>1. UNCHANGED <<arr, size, given>>
    BY <1>6 DEF Split
  <2>2. pc' = [pc EXCEPT ![t] = "split"] /\ pc' = pc
    BY <1>1, <1>2 DEF TypeOK
  <2>3. /\ i' \in [Threads -> Nat \ {0}] /\ i'[t] = i[t] + 1 /\ i'[t] - 1 = i[t]
        /\ \A u \in Threads \ {t} : i'[u] = i[u]
    <3> DEFINE m == i[t] + 1
               P == Nat \ {0}
    <3>1. m \in P /\ m - 1 = i[t] /\ i \in [Threads -> P] /\ i' = [i EXCEPT ![t] = m]
      BY <1>1, <1>2, <1>3 DEF TypeOK
    <3> HIDE DEF m, P
    <3>2. i' \in [Threads -> P] /\ i'[t] = m /\ \A u \in Threads \ {t} : i'[u] = i[u]
      BY <3>1
    <3> QED
      BY <3>1, <3>2 DEF m, P
  <2>4. Parted(given[t], i[t], pivot(t), pivotPos(t), given[Left(t)], given[Right(t)])
    <3> HIDE DEF n
    <3>1. Parted(given[t], n + 1, given[t][pivotPos(t)], pivotPos(t), given[Left(t)], given[Right(t)])
      <4>1. Parted(given[t], n, given[t][pivotPos(t)], pivotPos(t), given[Left(t)], given[Right(t)])
        BY <1>3, <1>5 DEF n
      <4> QED
        BY <1>3, <1>4, <1>5, <1>6, <4>1, PartedPivot
    <3> QED
      BY <1>4, <1>5, <3>1
  <2>5. /\ Left(t)' = Left(t) /\ Right(t)' = Right(t) /\ pivot(t)' = pivot(t) /\ pivotPos(t)' = pivotPos(t)
        /\ Threads' = Threads
    BY <2>1 DEF Left, Right, pivot, pivotPos, sizeOfArray, Threads
  <2>6. Parted(given[t], i[t] - 1, pivot(t), pivotPos(t), given[Left(t)], given[Right(t)])'
    BY <2>1, <2>3, <2>4, <2>5
  <2>7. FamilyInv(t)'
    BY <1>1, <1>2, <1>3, <2>1, <2>2, <2>5, <2>6 DEF FamilyInv, Ended
  <2>8. OwnInv(t)'
    <3>1. i[t] + 1 <= Len(given[t]) + 1
      BY <1>4
    <3> QED
      BY <1>1, <1>2, <1>3, <2>1, <2>2, <2>3, <3>1 DEF OwnInv, Splitting, Sorting, Ended
  <2>9. Splitter(t)'
    BY <1>1, <2>2 DEF Splitter, Sorting, Splitting
  <2> QED
    BY <1>1, <1>2, <2>1, <2>2, <2>3, <2>7, <2>8, <2>9, OneStep
      DEF TypeOK, Ended, Sorting, Splitting, Threads
<1>7. CASE i[t] # pivotPos(t)
  <2> DEFINE c == IF x > pivot(t) THEN Right(t) ELSE Left(t)
  <2>1. Push(c, x) /\ c \in {Left(t), Right(t)} /\ c \in Threads
    BY <1>3, <1>7 DEF Split
  <2>2. t \in Nat \ {0} /\ Left(t) # Right(t)
    BY <1>2, NodeFacts DEF TypeOK
  <2>3. given' = [given EXCEPT ![c] = Append(given[c], x)] /\ given \in [Threads -> Seq(Int)]
    BY <1>2, <2>1 DEF Push, TypeOK
  <2>4. Parted(given[t], i[t], pivot(t), pivotPos(t), given'[Left(t)], given'[Right(t)])
    <3> DEFINE l == given[Left(t)]
               r == given[Right(t)]
    <3>1. /\ Parted(given[t], n, pivot(t), pivotPos(t), l, r)
          /\ n + 1 # pivotPos(t) /\ l \in Seq(Int) /\ r \in Seq(Int)
      BY <1>3, <1>4, <1>7
    <3>2. given[t][n + 1] = x
      BY <1>4
    <3>3. CASE x > pivot(t)
      <4>1. c = Right(t)
        BY <3>3
      <4>2. given'[Left(t)] = l /\ given'[Right(t)] = Append(r, x)
        BY <1>3, <2>2, <2>3, <4>1
      <4>3. Longer(Append(r, x), r, x) /\ pivot(t) <= x
        BY <1>5, <3>1, <3>3, AppendLonger
      <4> DEFINE u == Append(r, x)
      <4> HIDE DEF u, l, r, n, x
      <4>4. Parted(given[t], n + 1, pivot(t), pivotPos(t), l, u)
        BY <1>3, <1>4, <1>5, <3>1, <3>2, <4>3, PartedRight DEF u
      <4> QED
        BY <1>4, <4>2, <4>4 DEF u
    <3>4. CASE ~(x > pivot(t))
      <4>1. c = Left(t)
        BY <3>4
      <4>2. given'[Right(t)] = r /\ given'[Left(t)] = Append(l, x)
        BY <1>3, <2>2, <2>3, <4>1
      <4>3. Longer(Append(l, x), l, x) /\ x <= pivot(t)
        BY <1>5, <3>1, <3>4, AppendLonger
      <4> DEFINE u == Append(l, x)
      <4> HIDE DEF u, l, r, n, x
      <4>4. Parted(given[t], n + 1, pivot(t), pivotPos(t), u, r)
        BY <1>3, <1>4, <1>5, <3>1, <3>2, <4>3, PartedLeft DEF u
      <4> QED
        BY <1>4, <4>2, <4>4 DEF u
    <3> QED
      BY <3>3, <3>4
  <2> HIDE DEF c, x, n
  <2> QED
    BY <1>1, <1>5, <2>1, <2>4, PushStep
<1> QED
  BY <1>6, <1>7

-----------------------------------------------------------------------------
(* Every step. *)

\* Steps that only move main on.
LEMMA MainMoves ==
    ASSUME IInv, UNCHANGED <<input, arr, size, given, pc, i, endOfAnalysis>>,
           masterThreadID' \in {0, 1}, main' \in {"assign", "spin", "printed", "exited"}
    PROVE  IInv'
<1>1. Threads' = Threads /\ TypeOK'
  BY DEF IInv, TypeOK, Threads
<1>2. \A t \in Threads : OwnInv(t)'
  BY DEF IInv, OwnInv
<1>3. \A t \in Threads : FamilyInv(t)'
  BY DEF IInv, FamilyInv, Splitter, Left, Right, pivot, pivotPos, sizeOfArray, Threads
<1>4. ParentInv'
  BY <1>1 DEF IInv, ParentInv, Splitter, Left, Right
<1>5. MainInv'
  BY DEF IInv, MainInv
<1> QED
  BY <1>1, <1>2, <1>3, <1>4, <1>5 DEF IInv

LEMMA CreateSorterStep ==
    ASSUME IInv, CreateSorter
    PROVE  IInv'
<1>1. /\ TypeOK /\ 1 \in Threads /\ Threads \subseteq Nat \ {0} /\ pc[1] = "none"
      /\ pc \in [Threads -> Sorting \cup {"none", "start", "done"}]
      /\ main' = "assign" /\ UNCHANGED <<input, arr, size, given, i, masterThreadID, endOfAnalysis>>
      /\ endOfAnalysis # 1
  BY DEF IInv, TypeOK, MainInv, CreateSorter
<1>2. CASE pc' = pc
  BY <1>1, <1>2, MainMoves DEF TypeOK
<1>3. CASE pc' = [pc EXCEPT ![1] = "start"]
  <2>1. /\ pc' \in [Threads -> Sorting \cup {"none", "start", "done"}] /\ Threads' = Threads
        /\ pc'[1] = "start" /\ \A u \in Threads \ {1} : pc'[u] = pc[u]
    BY <1>1, <1>3 DEF Threads
  <2>2. TypeOK'
    BY <1>1, <2>1 DEF TypeOK
  <2>3. ASSUME NEW u \in Threads
        PROVE  OwnInv(u)'
    <3>1. OwnInv(u)
      BY DEF IInv
    <3>2. CASE u = 1
      BY <1>1, <2>1, <3>1, <3>2 DEF OwnInv, Splitting, Sorting, Ended
    <3>3. CASE u # 1
      BY <1>1, <2>1, <3>1, <3>3 DEF OwnInv
    <3> QED
      BY <3>2, <3>3
  <2>4. \A u \in Threads : Splitter(u)' <=> Splitter(u)
    <3> SUFFICES ASSUME NEW u \in Threads
                 PROVE  Splitter(u)' <=> Splitter(u)
      OBVIOUS
    <3>1. CASE u = 1
      BY <1>1, <2>1, <3>1 DEF Splitter, Sorting, Splitting
    <3>2. CASE u # 1
      BY <1>1, <2>1, <3>2 DEF Splitter
    <3> QED
      BY <3>1, <3>2
  <2>5. ASSUME NEW u \in Threads, Splitter(u)
        PROVE  FamilyInv(u)'
    <3>1. FamilyInv(u) /\ u # 1 /\ Left(u) \in Threads /\ Right(u) \in Threads
      BY <1>1, <2>5 DEF IInv, FamilyInv, Splitter, Sorting, Splitting
    <3>2. Left(u) # 1 /\ Right(u) # 1
      BY <1>1, NodeFacts
    <3>3. pc'[u] = pc[u] /\ pc'[Left(u)] = pc[Left(u)] /\ pc'[Right(u)] = pc[Right(u)]
      BY <2>1, <3>1, <3>2
    <3>4. Left(u)' = Left(u) /\ Right(u)' = Right(u) /\ pivot(u)' = pivot(u) /\ pivotPos(u)' = pivotPos(u)
      BY <1>1 DEF Left, Right, pivot, pivotPos, sizeOfArray
    <3>5. Parted(given[u], i[u] - 1, pivot(u), pivotPos(u), given[Left(u)], given[Right(u)])'
              <=> Parted(given[u], i[u] - 1, pivot(u), pivotPos(u), given[Left(u)], given[Right(u)])
      BY <1>1, <3>4
    <3> QED
      BY <2>1, <2>5, <3>1, <3>3, <3>4, <3>5 DEF FamilyInv
  <2>6. ParentInv'
    BY <2>1, <2>4 DEF IInv, ParentInv, Left, Right
  <2>7. MainInv'
    BY <1>1 DEF MainInv
  <2>8. \A u \in Threads : FamilyInv(u)'
    BY <2>4, <2>5 DEF FamilyInv
  <2> QED
    BY <2>1, <2>2, <2>3, <2>6, <2>7, <2>8 DEF IInv
<1> QED
  BY <1>2, <1>3 DEF CreateSorter

LEMMA InvStep == IInv /\ [Next]_vars => IInv'
<1> SUFFICES ASSUME IInv, [Next]_vars
             PROVE  IInv'
  OBVIOUS
<1>1. ASSUME NEW t \in Threads, CreateRight(t)
      PROVE  IInv'
  BY <1>1, CreateStep DEF CreateRight, At, globals
<1>2. ASSUME NEW t \in Threads, CreateLeft(t)
      PROVE  IInv'
  BY <1>2, CreateStep DEF CreateLeft, At, globals
<1>3. ASSUME NEW t \in Threads, CreateFails(t)
      PROVE  IInv'
  BY <1>3, MainMoves DEF CreateFails, IInv, TypeOK
<1>4. ASSUME NEW t \in Threads, Works(t)
      PROVE  IInv'
  BY <1>1, <1>2, <1>4, StartStep, SplitStep, SplitEndsStep, SmallStep, WaitLeftStep, WaitRightStep,
    MergeStep, ReportStep, CompareStep DEF Works
<1>5. CASE Assign
  BY <1>5, MainMoves DEF Assign
<1>6. CASE Finish
  BY <1>6, MainMoves DEF Finish, IInv, TypeOK
<1>7. CASE UNCHANGED vars
  <2>1. UNCHANGED <<input, arr, size, given, pc, i, masterThreadID, endOfAnalysis, main>>
    BY <1>7 DEF vars
  <2>2. Threads' = Threads /\ TypeOK'
    BY <2>1 DEF IInv, TypeOK, Threads
  <2>3. \A t \in Threads : OwnInv(t)'
    BY <2>1 DEF IInv, OwnInv
  <2>4. \A t \in Threads : FamilyInv(t)'
    BY <2>1 DEF IInv, FamilyInv, Splitter, Left, Right, pivot, pivotPos, sizeOfArray, Threads
  <2>5. ParentInv'
    BY <2>1, <2>2 DEF IInv, ParentInv, Splitter, Left, Right
  <2>6. MainInv'
    BY <2>1 DEF IInv, MainInv
  <2> QED
    BY <2>2, <2>3, <2>4, <2>5, <2>6 DEF IInv
<1> QED
  BY <1>3, <1>4, <1>5, <1>6, <1>7, CreateSorterStep DEF Next, MainStep

\* The strengthened invariant (quicksort.c:19-113): what a thread and its
\* children hold at each place of the code.
THEOREM Inductive == Spec => []IInv
<1> QED
  BY InitIInv, InvStep, PTL DEF Spec

-----------------------------------------------------------------------------
(* Theorems. *)

\* The arrays, their sizes and the flags keep their types (quicksort.c:5-17).
THEOREM TypeCorrect == Spec => []TypeOK
<1>1. IInv => TypeOK
  BY DEF IInv
<1> QED
  BY <1>1, Inductive, PTL

\* Whenever a parent can take an array to be finished (quicksort.c:79), it is
\* sorted and holds the numbers that were put in it.
THEOREM ReportedSortedHolds == Spec => []ReportedSorted
<1>1. ASSUME IInv, NEW t \in Threads, Reported(t)
      PROVE  Sorted(arr[t]) /\ Permuted(arr[t], given[t])
  <2>1. TypeOK /\ OwnInv(t) /\ arr[t] \in Seq(Int) /\ given[t] \in Seq(Int)
    BY <1>1 DEF IInv, TypeOK
  <2>2. pc[t] \in Ended
    BY <1>1, <2>1, ReportedEnded
  <2>3. Sorted(arr[t]) /\ SameNumbers(arr[t], given[t])
    BY <2>1, <2>2 DEF OwnInv
  <2>4. \A k \in DOMAIN arr[t] : arr[t][k] \in Int
    BY <2>1
  <2> QED
    BY <2>3, <2>4 DEF Permuted, SameNumbers
<1>2. IInv => ReportedSorted
  BY <1>1 DEF ReportedSorted
<1> QED
  BY <1>2, Inductive, PTL

\* When the flag main waits for is set (quicksort.c:107, 149) no thread has an
\* array still to be finished.
THEOREM QuietAtEndHolds == Spec => []QuietAtEnd
<1>1. ASSUME IInv, endOfAnalysis = 1, NEW w \in Threads, ~Reported(w)
      PROVE  FALSE
  <2> DEFINE T == {t \in Threads : pc[t] \notin Ended}
  <2>1. TypeOK /\ Threads \subseteq Nat \ {0} /\ pc[1] = "done"
    BY <1>1 DEF IInv, TypeOK, MainInv
  <2>2. w \in T
    BY <1>1, <2>1, ReportedEnded DEF IInv
  <2>3. T \subseteq Nat /\ T # {}
    BY <2>1, <2>2
  <2>4. PICK u \in T : \A y \in T : u <= y
    <3> HIDE DEF T
    <3> QED
      BY <2>3, LeastOne
  <2>5. u \in Threads \ {1} /\ pc[u] \notin Ended
    BY <2>1, <2>4 DEF Ended
  <2>6. PICK p \in Threads : Splitter(p) /\ u \in {Left(p), Right(p)}
    BY <1>1, <2>5 DEF IInv, ParentInv
  <2>7. p < u /\ p \in Nat /\ u \in Nat
    BY <2>1, <2>5, <2>6, NodeFacts
  <2>8. ~(u <= p)
    BY <2>7
  <2>9. pc[p] \in Ended
    BY <2>4, <2>8
  <2>10. pc[Left(p)] \in Ended /\ pc[Right(p)] \in Ended
    BY <1>1, <2>6, <2>9 DEF IInv, FamilyInv
  <2> QED
    BY <2>5, <2>6, <2>10
<1>2. IInv => QuietAtEnd
  BY <1>1 DEF QuietAtEnd
<1> QED
  BY <1>2, Inductive, PTL
=============================================================================
