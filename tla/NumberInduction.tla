---------------------------- MODULE NumberInduction ----------------------------
(***************************************************************************)
(* Induction over the natural numbers for the proofs of this project: the  *)
(* numbers for which something holds are given as a set, so that no        *)
(* operator is a parameter of the lemma.  By it, what module Selection     *)
(* leaves of a sequence; and what splice() does to one.                    *)
(***************************************************************************)
EXTENDS Naturals, Selection, SequenceTheorems, WellFoundedInduction, TLAPS

(* Every set of numbers that is not empty has a least one. *)
LEMMA LeastNumber ==
    ASSUME NEW T \in SUBSET Nat, T # {}
    PROVE  \E m \in T : \A k \in T : m <= k
<1>1. IsWellFoundedOn(OpToRel(<, Nat), Nat)
  BY NatLessThanWellFounded
<1>2. PICK m \in T : \A k \in T : ~ (<<k, m>> \in OpToRel(<, Nat))
  BY <1>1, WFMin
<1>3. \A k \in T : m <= k
  <2>1. ASSUME NEW k \in T PROVE ~ (k < m)
    BY <1>2 DEF OpToRel
  <2> QED
    BY <2>1
<1> QED
  BY <1>3

(* Induction over a set: it needs no operator as a parameter. *)
LEMMA SetInduction ==
    ASSUME NEW S, 0 \in S, \A n \in Nat : n \in S => n + 1 \in S
    PROVE  \A n \in Nat : n \in S
<1> SUFFICES ASSUME NEW x \in Nat, x \notin S PROVE FALSE
  OBVIOUS
<1> DEFINE T == {n \in Nat : n \notin S}
<1>1. PICK m \in T : \A k \in T : m <= k
  BY LeastNumber
<1>2. m # 0 /\ m - 1 \in Nat /\ m - 1 \in S
  BY <1>1
<1> QED
  BY <1>1, <1>2

-----------------------------------------------------------------------------
(* f has the prefixes that Among goes through, the first n of them. *)
Kept(s, S, n, f) ==
    f = [k \in 0 .. n |->
            IF k = 0 THEN <<>>
            ELSE IF s[k] \in S THEN Append(f[k - 1], s[k]) ELSE f[k - 1]]

StepByStep(s, S, n, f) ==
    /\ f[0] = <<>>
    /\ \A k \in 1 .. n : f[k] = IF s[k] \in S THEN Append(f[k - 1], s[k]) ELSE f[k - 1]

(* r is what is kept of the first n elements of s; g tells where each was. *)
Leaves(s, S, n, r, g) ==
    /\ g \in [1 .. Len(r) -> 1 .. n]
    /\ \A i \in 1 .. Len(r) : r[i] = s[g[i]] /\ s[g[i]] \in S
    /\ \A i, j \in 1 .. Len(r) : i < j => g[i] < g[j]
    /\ \A k \in 1 .. n : s[k] \in S => \E i \in 1 .. Len(r) : g[i] = k

(* The prefixes that Among goes through exist. *)
LEMMA KeptExists ==
    ASSUME NEW s, NEW S, NEW n \in Nat
    PROVE  \E f : Kept(s, S, n, f)
<1> DEFINE N == {k \in Nat : \E f : Kept(s, S, k, f)}
<1>1. 0 \in N
  <2> DEFINE f == [i \in 0 .. 0 |-> <<>>]
             h == [k \in 0 .. 0 |->
                      IF k = 0 THEN <<>>
                      ELSE IF s[k] \in S THEN Append(f[k - 1], s[k]) ELSE f[k - 1]]
  <2>1. f = h
    OBVIOUS
  <2>2. Kept(s, S, 0, f)
    BY <2>1 DEF Kept
  <2> QED
    BY <2>2
<1>2. ASSUME NEW m \in Nat, m \in N PROVE m + 1 \in N
  <2>1. PICK g : Kept(s, S, m, g)
    BY <1>2
  <2> DEFINE step == IF s[m + 1] \in S THEN Append(g[m], s[m + 1]) ELSE g[m]
             f == [k \in 0 .. (m + 1) |-> IF k <= m THEN g[k] ELSE step]
             h == [k \in 0 .. (m + 1) |->
                      IF k = 0 THEN <<>>
                      ELSE IF s[k] \in S THEN Append(f[k - 1], s[k]) ELSE f[k - 1]]
  <2>2. \A k \in 0 .. m : g[k] = IF k = 0 THEN <<>>
                                 ELSE IF s[k] \in S THEN Append(g[k - 1], s[k]) ELSE g[k - 1]
    BY <2>1 DEF Kept
  <2>3. ASSUME NEW k \in 0 .. (m + 1) PROVE f[k] = h[k]
    <3>1. CASE k = m + 1
      <4>1. k # 0 /\ k - 1 = m /\ ~(k <= m) /\ m <= m /\ m \in 0 .. (m + 1)
        BY <3>1
      <4>2. f[k] = step /\ f[k - 1] = g[m]
        BY <4>1
      <4> QED
        BY <4>1, <4>2, <3>1
    <3>2. CASE k \in 0 .. m /\ k # 0
      <4>1. k - 1 \in 0 .. m /\ k - 1 \in 0 .. (m + 1) /\ k <= m /\ k - 1 <= m
        BY <3>2
      <4>2. f[k] = g[k] /\ f[k - 1] = g[k - 1]
        BY <4>1
      <4> HIDE DEF f
      <4> QED
        BY <2>2, <3>2, <4>2
    <3>3. CASE k = 0
      BY <2>2, <3>3
    <3> QED
      BY <3>1, <3>2, <3>3
  <2>4. f = h
    BY <2>3
  <2>5. Kept(s, S, m + 1, f)
    BY <2>4 DEF Kept
  <2> HIDE DEF f
  <2> QED
    BY <2>5
<1> HIDE DEF N
<1>3. \A k \in Nat : k \in N
  BY <1>1, <1>2, SetInduction
<1> QED
  BY <1>3 DEF N

(* What that recursion says of each prefix, the first one apart. *)
LEMMA KeptStepByStep ==
    ASSUME NEW s, NEW S, NEW n \in Nat, NEW f, Kept(s, S, n, f)
    PROVE  StepByStep(s, S, n, f)
<1>1. \A k \in 0 .. n : f[k] = IF k = 0 THEN <<>>
                             ELSE IF s[k] \in S THEN Append(f[k - 1], s[k]) ELSE f[k - 1]
  BY DEF Kept
<1>2. 0 \in 0 .. n /\ \A k \in 1 .. n : k \in 0 .. n /\ k # 0
  OBVIOUS
<1> QED
  BY <1>1, <1>2 DEF StepByStep

(* Every element kept comes from a place of its own, places in order, and
   no element of the set is left out. *)
LEMMA LeavesOneMore ==
    ASSUME NEW T, NEW s \in Seq(T), NEW S, NEW m \in Nat, m + 1 \in 1 .. Len(s),
           NEW r \in Seq(T), NEW g, Leaves(s, S, m, r, g),
           NEW q, q = IF s[m + 1] \in S THEN Append(r, s[m + 1]) ELSE r
    PROVE  q \in Seq(T) /\ Len(q) <= Len(r) + 1 /\ \E h : Leaves(s, S, m + 1, q, h)
<1>1. s[m + 1] \in T /\ Len(r) \in Nat
  OBVIOUS
<1>2. CASE s[m + 1] \notin S
  <2>1. q = r
    BY <1>2
  <2>2. Leaves(s, S, m + 1, q, g)
    <3>1. g \in [1 .. Len(r) -> 1 .. (m + 1)]
      BY <1>1 DEF Leaves
    <3>2. \A k \in 1 .. (m + 1) : s[k] \in S => k \in 1 .. m
      BY <1>2
    <3> QED
      BY <3>1, <3>2, <2>1 DEF Leaves
  <2> QED
    BY <2>1, <2>2, <1>1
<1>3. CASE s[m + 1] \in S
  <2> DEFINE h == [i \in 1 .. (Len(r) + 1) |-> IF i <= Len(r) THEN g[i] ELSE m + 1]
  <2>1. /\ q = Append(r, s[m + 1]) /\ q \in Seq(T) /\ Len(q) = Len(r) + 1
        /\ \A i \in 1 .. Len(r) : q[i] = r[i]
        /\ q[Len(r) + 1] = s[m + 1]
    BY <1>1, <1>3
  <2>0. \A i \in 1 .. Len(r) : g[i] \in 1 .. m
    BY DEF Leaves
  <2>2. /\ \A i \in 1 .. Len(r) : h[i] = g[i] /\ h[i] \in 1 .. m
        /\ h[Len(r) + 1] = m + 1
    BY <1>1, <2>0
  <2>3. h \in [1 .. Len(q) -> 1 .. (m + 1)]
    <3>2. h = [i \in 1 .. Len(q) |-> IF i <= Len(r) THEN g[i] ELSE m + 1]
      BY <2>1
    <3>3. h = [i \in 1 .. Len(q) |-> h[i]]
      BY <3>2
    <3> HIDE DEF h
    <3>4. \A i \in 1 .. Len(q) : i \in 1 .. Len(r) \/ i = Len(r) + 1
      BY <2>1, <1>1
    <3>1. \A i \in 1 .. Len(q) : h[i] \in 1 .. (m + 1)
      BY <3>4, <2>2
    <3> QED
      BY <3>1, <3>3
  <2> HIDE DEF h
  <2>4. \A i \in 1 .. Len(q) : i \in 1 .. Len(r) \/ i = Len(r) + 1
    BY <2>1, <1>1
  <2>5. \A i \in 1 .. Len(q) : q[i] = s[h[i]] /\ s[h[i]] \in S
    BY <2>1, <2>2, <2>4, <1>3 DEF Leaves
  <2>6. \A i, j \in 1 .. Len(q) : i < j => h[i] < h[j]
    <3> SUFFICES ASSUME NEW i \in 1 .. Len(q), NEW j \in 1 .. Len(q), i < j
                 PROVE  h[i] < h[j]
      OBVIOUS
    <3>1. i \in 1 .. Len(r)
      BY <2>1, <1>1
    <3>2. CASE j \in 1 .. Len(r)
      BY <3>1, <3>2, <2>2 DEF Leaves
    <3>3. CASE j = Len(r) + 1
      BY <3>1, <3>3, <2>2
    <3> QED
      BY <3>2, <3>3, <2>4
  <2>7. ASSUME NEW k \in 1 .. (m + 1), s[k] \in S PROVE \E i \in 1 .. Len(q) : h[i] = k
    <3>1. CASE k = m + 1
      BY <3>1, <2>1, <2>2, <1>1
    <3>2. CASE k \in 1 .. m
      <4>1. PICK i \in 1 .. Len(r) : g[i] = k
        BY <3>2, <2>7 DEF Leaves
      <4> QED
        BY <4>1, <2>1, <2>2, <1>1
    <3> QED
      BY <3>1, <3>2
  <2>8. Leaves(s, S, m + 1, q, h)
    BY <2>3, <2>5, <2>6, <2>7 DEF Leaves
  <2> QED
    BY <2>1, <2>8
<1> QED
  BY <1>2, <1>3

(* Among(s, S) is no longer than s, of the same elements, and by some g each
   of its places is one of s, in their order, that holds an element of S; no
   element of S is left out. *)
LEMMA AmongLeaves ==
    ASSUME NEW T, NEW s \in Seq(T), NEW S
    PROVE  /\ Among(s, S) \in Seq(T) /\ Len(Among(s, S)) <= Len(s)
           /\ \E g : Leaves(s, S, Len(s), Among(s, S), g)
<1> DEFINE f == CHOOSE f : Kept(s, S, Len(s), f)
           N == {m \in Nat : m <= Len(s) =>
                    /\ f[m] \in Seq(T) /\ Len(f[m]) <= m
                    /\ \E g : Leaves(s, S, m, f[m], g)}
<1>0. Len(s) \in Nat
  OBVIOUS
<1>1. Kept(s, S, Len(s), f)
  BY <1>0, KeptExists
<1>2. Among(s, S) = f[Len(s)]
  BY DEF Among, Kept
<1> HIDE DEF f
<1>3. /\ f[0] = <<>>
      /\ \A k \in 1 .. Len(s) : f[k] = IF s[k] \in S THEN Append(f[k - 1], s[k]) ELSE f[k - 1]
  <2>1. StepByStep(s, S, Len(s), f)
    BY <1>0, <1>1, KeptStepByStep
  <2> QED
    BY <2>1 DEF StepByStep
<1>4. 0 \in N
  <2> DEFINE g == [i \in 1 .. 0 |-> 1]
  <2>1. Leaves(s, S, 0, <<>>, g)
    BY DEF Leaves
  <2> QED
    <3>1. f[0] \in Seq(T) /\ Len(f[0]) <= 0 /\ \E h : Leaves(s, S, 0, f[0], h)
      BY <2>1, <1>3
    <3> HIDE DEF g
    <3> QED
      BY <3>1
<1>5. ASSUME NEW m \in Nat, m \in N PROVE m + 1 \in N
  <2>1. SUFFICES ASSUME m + 1 <= Len(s)
                 PROVE  /\ f[m + 1] \in Seq(T) /\ Len(f[m + 1]) <= m + 1
                        /\ \E g : Leaves(s, S, m + 1, f[m + 1], g)
    OBVIOUS
  <2>2. f[m] \in Seq(T) /\ Len(f[m]) <= m /\ m + 1 \in 1 .. Len(s)
    BY <1>0, <1>5, <2>1
  <2>3. PICK g : Leaves(s, S, m, f[m], g)
    BY <1>0, <1>5, <2>1
  <2>4. f[m + 1] = IF s[m + 1] \in S THEN Append(f[m], s[m + 1]) ELSE f[m]
    BY <1>3, <2>2
  <2>5. f[m + 1] \in Seq(T) /\ Len(f[m + 1]) <= Len(f[m]) + 1
        /\ \E h : Leaves(s, S, m + 1, f[m + 1], h)
    BY <2>2, <2>3, <2>4, LeavesOneMore
  <2> QED
    BY <2>2, <2>5
<1> HIDE DEF N
<1>6. \A m \in Nat : m \in N
  BY <1>4, <1>5, SetInduction
<1> QED
  BY <1>0, <1>2, <1>6 DEF N

(* r is s from its place m to its place n. *)
Segment(s, S, m, n, r) ==
    /\ r \in Seq(S) /\ Len(r) = n - m + 1
    /\ \A j \in 1 .. (n - m + 1) : r[j] = s[m + j - 1]

(* SubSeq within a sequence is that. *)
LEMMA SegmentIs ==
    ASSUME NEW S, NEW s \in Seq(S), NEW m \in 1 .. Len(s) + 1, NEW n \in (m - 1) .. Len(s)
    PROVE  Segment(s, S, m, n, SubSeq(s, m, n))
<1>1. m \in Int /\ n \in Int /\ Len(s) \in Nat /\ 1 <= m /\ n <= Len(s) /\ m - 1 <= n
  OBVIOUS
<1>2. \A k \in m .. n : s[k] \in S
  BY <1>1
<1>3. /\ SubSeq(s, m, n) \in Seq(S)
      /\ Len(SubSeq(s, m, n)) = IF m <= n THEN n - m + 1 ELSE 0
      /\ \A j \in 1 .. n - m + 1 : SubSeq(s, m, n)[j] = s[m + j - 1]
  BY <1>1, <1>2, SubSeqProperties
<1>4. (IF m <= n THEN n - m + 1 ELSE 0) = n - m + 1
  BY <1>1
<1> QED
  BY <1>3, <1>4 DEF Segment

(* What splice() leaves of an array from which it cuts an element out, or into
   which it puts one: i elements lie before it. *)
Without(s, i) == SubSeq(s, 1, i) \o SubSeq(s, i + 2, Len(s))
With(s, n, i, x) == SubSeq(s, 1, i) \o <<x>> \o SubSeq(s, i + 1, n)

(* What two sequences joined have where. *)
LEMMA Joined ==
    \A p, q \in Seq(Nat) :
        /\ p \o q \in Seq(Nat) /\ Len(p \o q) = Len(p) + Len(q)
        /\ \A j \in 1 .. Len(p) + Len(q) :
              (p \o q)[j] = IF j <= Len(p) THEN p[j] ELSE q[j - Len(p)]
  BY ConcatProperties

(* r is s without the element of index i. *)
HasCutOut(s, i, r) ==
    /\ r \in Seq(Nat) /\ Len(r) = Len(s) - 1
    /\ \A j \in 1 .. (Len(s) - 1) : r[j] = IF j <= i THEN s[j] ELSE s[j + 1]

(* Cutting out leaves the others in their order. *)
LEMMA CutOut ==
    ASSUME NEW s \in Seq(Nat), NEW i \in 0 .. (Len(s) - 1)
    PROVE  HasCutOut(s, i, Without(s, i))
<1> DEFINE a == SubSeq(s, 1, i)
           b == SubSeq(s, i + 2, Len(s))
<1>0. Len(s) \in Nat /\ i \in Int /\ i + 2 \in Int /\ 1 \in Int /\ \A k \in 1 .. Len(s) : s[k] \in Nat
  OBVIOUS
<1>1. /\ a \in Seq(Nat) /\ Len(a) = i /\ \A j \in 1 .. i : a[j] = s[j]
  <2>1. 1 \in 1 .. Len(s) + 1 /\ i \in (1 - 1) .. Len(s)
    BY <1>0
  <2>2. Segment(s, Nat, 1, i, a)
    BY <2>1, SegmentIs
  <2>3. i - 1 + 1 = i /\ \A j \in 1 .. i : 1 + j - 1 = j
    BY <1>0
  <2> HIDE DEF a
  <2> QED
    BY <2>2, <2>3 DEF Segment
<1>2. /\ b \in Seq(Nat) /\ Len(b) = Len(s) - i - 1
      /\ \A j \in 1 .. (Len(s) - i - 1) : b[j] = s[i + 1 + j]
  <2>1. i + 2 \in 1 .. Len(s) + 1 /\ Len(s) \in (i + 2 - 1) .. Len(s)
    BY <1>0
  <2>2. Segment(s, Nat, i + 2, Len(s), b)
    BY <2>1, SegmentIs
  <2>3. Len(s) - (i + 2) + 1 = Len(s) - i - 1 /\ \A j \in Int : i + 2 + j - 1 = i + 1 + j
    BY <1>0
  <2> HIDE DEF b
  <2> QED
    BY <2>2, <2>3 DEF Segment
<1>5. Without(s, i) = a \o b
  BY DEF Without
<1> HIDE DEF a, b
<1>3. /\ a \o b \in Seq(Nat) /\ Len(a \o b) = Len(a) + Len(b)
      /\ \A j \in 1 .. Len(a) + Len(b) :
            (a \o b)[j] = IF j <= Len(a) THEN a[j] ELSE b[j - Len(a)]
  BY <1>1, <1>2, Joined
<1>4. \A j \in 1 .. (Len(s) - 1) : (a \o b)[j] = IF j <= i THEN s[j] ELSE s[j + 1]
  <2> SUFFICES ASSUME NEW j \in 1 .. (Len(s) - 1)
               PROVE  (a \o b)[j] = IF j <= i THEN s[j] ELSE s[j + 1]
    OBVIOUS
  <2>1. CASE j <= i
    BY <1>0, <1>1, <1>2, <1>3, <2>1
  <2>2. CASE ~(j <= i)
    <3>1. j - i \in 1 .. (Len(s) - i - 1) /\ i + 1 + (j - i) = j + 1
      BY <1>0, <2>2
    <3>2. (a \o b)[j] = b[j - i]
      <4>1. j \in 1 .. Len(a) + Len(b) /\ ~(j <= Len(a)) /\ Len(a) = i
        BY <1>0, <1>1, <1>2, <2>2
      <4> QED
        BY <1>3, <4>1
    <3> QED
      BY <1>2, <2>2, <3>1, <3>2
  <2> QED
    BY <2>1, <2>2
<1>6. a \o b \in Seq(Nat) /\ Len(a \o b) = Len(s) - 1
  BY <1>0, <1>1, <1>2, <1>3
<1> QED
  BY <1>4, <1>5, <1>6, Zenon DEF HasCutOut

(* r is s with x put in at index i. *)
HasPutIn(s, n, i, x, r) ==
    /\ r \in Seq(Nat) /\ Len(r) = n + 1
    /\ \A j \in 1 .. (n + 1) :
          r[j] = IF j <= i THEN s[j] ELSE IF j = i + 1 THEN x ELSE s[j - 1]

(* Putting in moves those behind by one. *)
LEMMA PutIn ==
    ASSUME NEW s \in Seq(Nat), NEW n, n = Len(s), NEW i \in 0 .. n, NEW x \in Nat
    PROVE  HasPutIn(s, n, i, x, With(s, n, i, x))
<1> DEFINE a == SubSeq(s, 1, i)
           b == SubSeq(s, i + 1, n)
           c == <<x>>
<1>0. n \in Nat /\ i \in Int /\ i + 1 \in Int /\ 1 \in Int /\ \A k \in 1 .. n : s[k] \in Nat
  OBVIOUS
<1>1. /\ a \in Seq(Nat) /\ Len(a) = i /\ \A j \in 1 .. i : a[j] = s[j]
  <2>1. 1 \in 1 .. Len(s) + 1 /\ i \in (1 - 1) .. Len(s)
    BY <1>0
  <2>2. Segment(s, Nat, 1, i, a)
    BY <2>1, SegmentIs
  <2>3. i - 1 + 1 = i /\ \A j \in 1 .. i : 1 + j - 1 = j
    BY <1>0
  <2> HIDE DEF a
  <2> QED
    BY <2>2, <2>3 DEF Segment
<1>2. /\ b \in Seq(Nat) /\ Len(b) = n - i
      /\ \A j \in 1 .. (n - i) : b[j] = s[i + j]
  <2>1. i + 1 \in 1 .. Len(s) + 1 /\ n \in (i + 1 - 1) .. Len(s)
    BY <1>0
  <2>2. Segment(s, Nat, i + 1, n, b)
    BY <2>1, SegmentIs
  <2>3. n - (i + 1) + 1 = n - i /\ \A j \in Int : i + 1 + j - 1 = i + j
    BY <1>0
  <2> HIDE DEF b
  <2> QED
    BY <2>2, <2>3 DEF Segment
<1>3. c \in Seq(Nat) /\ Len(c) = 1 /\ c[1] = x
  OBVIOUS
<1> DEFINE d == a \o c
<1>8. With(s, n, i, x) = d \o b
  BY DEF With
<1> HIDE DEF a, b, c
<1>4. /\ d \in Seq(Nat) /\ Len(d) = Len(a) + Len(c)
      /\ \A j \in 1 .. Len(a) + Len(c) :
            d[j] = IF j <= Len(a) THEN a[j] ELSE c[j - Len(a)]
  BY <1>1, <1>3, Joined
<1>5. /\ Len(d) = i + 1 /\ d[i + 1] = x /\ \A j \in 1 .. i : d[j] = s[j]
  BY <1>0, <1>1, <1>3, <1>4
<1> HIDE DEF d
<1>6. /\ d \o b \in Seq(Nat) /\ Len(d \o b) = Len(d) + Len(b)
      /\ \A j \in 1 .. Len(d) + Len(b) :
            (d \o b)[j] = IF j <= Len(d) THEN d[j] ELSE b[j - Len(d)]
  BY <1>2, <1>4, Joined
<1>7. \A j \in 1 .. (n + 1) :
         (d \o b)[j] = IF j <= i THEN s[j] ELSE IF j = i + 1 THEN x ELSE s[j - 1]
  <2> SUFFICES ASSUME NEW j \in 1 .. (n + 1)
               PROVE  (d \o b)[j] = IF j <= i THEN s[j] ELSE IF j = i + 1 THEN x ELSE s[j - 1]
    OBVIOUS
  <2>1. CASE j <= i + 1
    BY <1>0, <1>2, <1>5, <1>6, <2>1
  <2>2. CASE ~(j <= i + 1)
    <3>1. j - (i + 1) \in 1 .. (n - i) /\ i + (j - (i + 1)) = j - 1
      BY <1>0, <2>2
    <3>2. (d \o b)[j] = b[j - (i + 1)]
      <4>1. j \in 1 .. Len(d) + Len(b) /\ ~(j <= Len(d))
        BY <1>0, <1>2, <1>5, <2>2
      <4> QED
        BY <4>1, <1>5, <1>6
    <3> QED
      BY <1>0, <1>2, <2>2, <3>1, <3>2
  <2> QED
    BY <2>1, <2>2
<1>9. d \o b \in Seq(Nat) /\ Len(d \o b) = n + 1
  BY <1>0, <1>2, <1>5, <1>6
<1> QED
  BY <1>7, <1>8, <1>9, Zenon DEF HasPutIn
================================================================================
