--------------------------- MODULE PlayoutProofs ---------------------------
(***************************************************************************)
(* What the play-out buffer promises, for every set of nodes, every length *)
(* of the buffer and everything the network does: its lists are always     *)
(* whole, no frame is lost or in two places, every frame is accounted for, *)
(* speech goes forward, and a buffer of fixed length drops only what came  *)
(* too late.                                                               *)
(***************************************************************************)
EXTENDS Playout, SequenceTheorems, TLAPS

\* What Range says of a sequence.
LEMMA InRange ==
  ASSUME NEW S, NEW q \in Seq(S)
  PROVE  /\ Len(q) \in Nat /\ DOMAIN q = 1 .. Len(q)
         /\ \A i \in 1 .. Len(q) : q[i] \in S /\ q[i] \in Range(q)
         /\ \A x \in Range(q) : \E i \in 1 .. Len(q) : x = q[i]
         /\ q = <<>> <=> Len(q) = 0
<1>1. Len(q) \in Nat /\ DOMAIN q = 1 .. Len(q) /\ \A i \in 1 .. Len(q) : q[i] \in S
  BY LenProperties
<1>2. q = <<>> <=> Len(q) = 0
  BY <1>1, EmptySeq
<1> QED BY <1>1, <1>2 DEF Range

\* r is q with x in it, after the first k elements.
Placed(q, k, x, r) ==
  /\ Len(r) = Len(q) + 1 /\ r[k + 1] = x
  /\ \A i \in 1 .. k : r[i] = q[i]
  /\ \A i \in k + 1 .. Len(q) : r[i + 1] = q[i]

\* The elements of a sequence with one put in.
LEMMA PlacedElements ==
  ASSUME NEW S, NEW q \in Seq(S), NEW r \in Seq(S), NEW x \in S, NEW k \in 0 .. Len(q),
         Placed(q, k, x, r)
  PROVE  /\ Range(r) = {x} \cup Range(q)
         /\ x \notin Range(q) /\ Distinct(q) => Distinct(r)
<1>1. Len(q) \in Nat /\ Len(r) = Len(q) + 1 /\ k \in Nat
  BY InRange DEF Placed
<1>2. \A i \in 1 .. Len(r) : i = k + 1 \/ i \in 1 .. k \/ i - 1 \in k + 1 .. Len(q)
  BY <1>1
<1>3. ASSUME NEW i \in 1 .. Len(r)
      PROVE  \/ i = k + 1 /\ r[i] = x
             \/ i \in 1 .. k /\ i \in 1 .. Len(q) /\ r[i] = q[i]
             \/ i - 1 \in k + 1 .. Len(q) /\ i - 1 \in 1 .. Len(q) /\ r[i] = q[i - 1]
  <2>1. CASE i = k + 1
    BY <2>1 DEF Placed
  <2>2. CASE i \in 1 .. k
    <3>1. r[i] = q[i]
      BY <2>2 DEF Placed
    <3> QED BY <1>1, <2>2, <3>1
  <2>3. CASE i - 1 \in k + 1 .. Len(q)
    <3>1. r[(i - 1) + 1] = q[i - 1]
      BY <2>3 DEF Placed
    <3>2. (i - 1) + 1 = i
      OBVIOUS
    <3> QED BY <1>1, <2>3, <3>1, <3>2
  <2> QED BY <1>2, <2>1, <2>2, <2>3
<1>4. Range(r) = {x} \cup Range(q)
  <2>1. ASSUME NEW y \in Range(r) PROVE y \in {x} \cup Range(q)
    <3>1. PICK i \in 1 .. Len(r) : y = r[i]
      BY <2>1, InRange
    <3>2. \A m \in 1 .. Len(q) : q[m] \in Range(q)
      BY InRange
    <3> QED BY <1>3, <3>1, <3>2
  <2>2. x \in Range(r)
    <3>1. k + 1 \in 1 .. Len(r) /\ r[k + 1] = x
      BY <1>1 DEF Placed
    <3> QED BY <3>1, InRange
  <2>3. ASSUME NEW y \in Range(q) PROVE y \in Range(r)
    <3>1. PICK i \in 1 .. Len(q) : y = q[i]
      BY <2>3, InRange
    <3>2. CASE i \in 1 .. k
      <4>1. i \in 1 .. Len(r) /\ r[i] = y
        BY <1>1, <3>1, <3>2 DEF Placed
      <4> QED BY <4>1, InRange
    <3>3. CASE i \in k + 1 .. Len(q)
      <4>1. i + 1 \in 1 .. Len(r) /\ r[i + 1] = y
        BY <1>1, <3>1, <3>3 DEF Placed
      <4> QED BY <4>1, InRange
    <3> QED BY <1>1, <3>1, <3>2, <3>3
  <2> QED BY <2>1, <2>2, <2>3
<1>5. ASSUME x \notin Range(q), Distinct(q), NEW i \in 1 .. Len(r), NEW j \in 1 .. Len(r), r[i] = r[j]
      PROVE  i = j
  <2>1. \A n \in 1 .. Len(q) : q[n] # x
    BY <1>5, InRange
  <2>2. \A m, n \in 1 .. Len(q) : q[m] = q[n] => m = n
    BY <1>5, InRange DEF Distinct
  <2>3. CASE i = k + 1 \/ j = k + 1
    <3>1. r[k + 1] = x
      BY DEF Placed
    <3>2. r[i] = x /\ r[j] = x
      BY <1>5, <2>3, <3>1
    <3> QED BY <1>3, <2>1, <3>2
  <2>4. CASE i # k + 1 /\ j # k + 1
    <3>1. PICK m \in 1 .. Len(q) : r[i] = q[m] /\ ((m = i /\ m <= k) \/ (m = i - 1 /\ m > k))
      BY <1>1, <1>3, <2>4
    <3>2. PICK n \in 1 .. Len(q) : r[j] = q[n] /\ ((n = j /\ n <= k) \/ (n = j - 1 /\ n > k))
      BY <1>1, <1>3, <2>4
    <3>3. m = n
      BY <1>5, <2>2, <3>1, <3>2
    <3> QED BY <1>1, <3>1, <3>2, <3>3
  <2> QED BY <2>3, <2>4
<1> QED BY <1>4, <1>5, InRange DEF Distinct

\* Adding in front, at the end and in between are all of this form.
LEMMA PlacedFirst ==
  ASSUME NEW S, NEW q \in Seq(S), NEW x \in S
  PROVE  <<x>> \o q \in Seq(S) /\ Placed(q, 0, x, <<x>> \o q)
<1> DEFINE r == <<x>> \o q
<1>1. <<x>> \in Seq(S) /\ Len(<<x>>) = 1 /\ <<x>>[1] = x
  OBVIOUS
<1>2. /\ r \in Seq(S) /\ Len(r) = 1 + Len(q) /\ Len(q) \in Nat
      /\ \A i \in 1 .. 1 + Len(q) : r[i] = IF i <= 1 THEN <<x>>[i] ELSE q[i - 1]
  BY <1>1, ConcatProperties, LenProperties
<1> HIDE DEF r
<1>3. r[1] = x
  BY <1>1, <1>2
<1>4. ASSUME NEW i \in 1 .. Len(q) PROVE r[i + 1] = q[i]
  <2>1. i + 1 \in 1 .. 1 + Len(q) /\ ~(i + 1 <= 1) /\ (i + 1) - 1 = i
    BY <1>2
  <2> QED BY <1>2, <2>1
<1>5. Placed(q, 0, x, r)
  BY <1>2, <1>3, <1>4 DEF Placed
<1> QED BY <1>2, <1>5 DEF r

\* Putting in at the end is appending.
LEMMA PlacedLast ==
  ASSUME NEW S, NEW q \in Seq(S), NEW x \in S
  PROVE  Append(q, x) \in Seq(S) /\ Placed(q, Len(q), x, Append(q, x))
BY AppendProperties, InRange DEF Placed

\* Putting in behind the k-th element.
LEMMA PlacedWithin ==
  ASSUME NEW S, NEW q \in Seq(S), NEW x \in S, NEW k \in 1 .. Len(q)
  PROVE  InsertAt(q, k + 1, x) \in Seq(S) /\ Placed(q, k, x, InsertAt(q, k + 1, x))
<1> DEFINE a == SubSeq(q, 1, k)
           b == SubSeq(q, k + 1, Len(q))
           c == a \o <<x>>
           r == c \o b
<1>1. Len(q) \in Nat /\ k \in Nat /\ (k + 1) - 1 = k /\ \A i \in 1 .. Len(q) : q[i] \in S
  BY InRange
<1>2. a \in Seq(S) /\ Len(a) = k /\ \A i \in 1 .. k : a[i] = q[i]
  <2>1. /\ SubSeq(q, 1, k) \in Seq(S) /\ Len(SubSeq(q, 1, k)) = IF 1 <= k THEN k - 1 + 1 ELSE 0
        /\ \A i \in 1 .. k - 1 + 1 : SubSeq(q, 1, k)[i] = q[1 + i - 1]
    BY <1>1, SubSeqProperties
  <2> QED BY <1>1, <2>1
<1>3. b \in Seq(S) /\ Len(b) = Len(q) - k /\ \A i \in 1 .. Len(q) - k : b[i] = q[k + i]
  <2>1. /\ b \in Seq(S) /\ Len(b) = IF k + 1 <= Len(q) THEN Len(q) - (k + 1) + 1 ELSE 0
        /\ \A i \in 1 .. Len(q) - (k + 1) + 1 : b[i] = q[k + 1 + i - 1]
    BY <1>1, SubSeqProperties
  <2> QED BY <1>1, <2>1
<1> HIDE DEF a, b
<1>4. c \in Seq(S) /\ Len(c) = k + 1 /\ c[k + 1] = x /\ \A i \in 1 .. k : c[i] = q[i]
  <2>1. <<x>> \in Seq(S) /\ Len(<<x>>) = 1 /\ <<x>>[1] = x
    OBVIOUS
  <2>2. /\ c \in Seq(S) /\ Len(c) = Len(a) + 1
        /\ \A i \in 1 .. Len(a) + 1 : c[i] = IF i <= Len(a) THEN a[i] ELSE <<x>>[i - Len(a)]
    BY <1>2, <2>1, ConcatProperties
  <2>3. c[k + 1] = x
    BY <1>1, <1>2, <2>1, <2>2
  <2> QED BY <1>1, <1>2, <2>2, <2>3
<1> HIDE DEF c
<1>5. /\ r \in Seq(S) /\ Len(r) = Len(c) + Len(b)
      /\ \A i \in 1 .. Len(c) + Len(b) : r[i] = IF i <= Len(c) THEN c[i] ELSE b[i - Len(c)]
  BY <1>3, <1>4, ConcatProperties
<1> HIDE DEF r
<1>6. Len(r) = Len(q) + 1 /\ r[k + 1] = x /\ \A i \in 1 .. k : r[i] = q[i]
  <2>1. Len(c) + Len(b) = Len(q) + 1 /\ k + 1 \in 1 .. Len(c) + Len(b)
    BY <1>1, <1>3, <1>4
  <2>2. r[k + 1] = x
    BY <1>4, <1>5, <2>1
  <2>3. ASSUME NEW i \in 1 .. k PROVE r[i] = q[i]
    <3>1. i \in 1 .. Len(c) + Len(b) /\ i <= Len(c)
      BY <1>1, <1>4, <2>1
    <3> QED BY <1>4, <1>5, <3>1
  <2> QED BY <1>5, <2>1, <2>2, <2>3
<1>7. ASSUME NEW i \in k + 1 .. Len(q) PROVE r[i + 1] = q[i]
  <2>1. i + 1 \in 1 .. Len(c) + Len(b) /\ ~(i + 1 <= Len(c)) /\ (i + 1) - Len(c) = i - k
    BY <1>1, <1>3, <1>4
  <2>2. i - k \in 1 .. Len(q) - k /\ k + (i - k) = i
    BY <1>1
  <2>3. r[i + 1] = b[i - k]
    BY <1>5, <2>1
  <2>4. b[i - k] = q[k + (i - k)]
    BY <1>3, <2>2
  <2> QED BY <2>2, <2>3, <2>4
<1>8. Placed(q, k, x, r)
  BY <1>6, <1>7 DEF Placed
<1>9. InsertAt(q, k + 1, x) = r
  BY <1>1 DEF InsertAt, r, c, b, a
<1> QED BY <1>5, <1>8, <1>9

\* A sequence without its first element.
LEMMA WithoutFirst ==
  ASSUME NEW S, NEW q \in Seq(S), q # <<>>
  PROVE  /\ Tail(q) \in Seq(S) /\ Len(Tail(q)) = Len(q) - 1 /\ Len(q) \in Nat \ {0}
         /\ \A i \in 1 .. Len(q) - 1 : Tail(q)[i] = q[i + 1]
         /\ Range(q) = {q[1]} \cup Range(Tail(q))
<1>1. /\ Tail(q) \in Seq(S) /\ Len(Tail(q)) = Len(q) - 1 /\ Len(q) \in Nat \ {0}
      /\ \A i \in 1 .. Len(q) - 1 : Tail(q)[i] = q[i + 1]
  BY HeadTailProperties, InRange
<1>2. ASSUME NEW y \in Range(q), y # q[1] PROVE y \in Range(Tail(q))
  <2>1. PICK i \in 1 .. Len(q) : y = q[i]
    BY <1>2, InRange
  <2>2. i - 1 \in 1 .. Len(q) - 1 /\ (i - 1) + 1 = i
    BY <1>1, <1>2, <2>1
  <2>3. Tail(q)[i - 1] = y
    BY <1>1, <2>1, <2>2
  <2> QED BY <1>1, <2>2, <2>3, InRange
<1>3. ASSUME NEW y \in Range(Tail(q)) PROVE y \in Range(q)
  <2>1. PICK i \in 1 .. Len(q) - 1 : y = Tail(q)[i]
    BY <1>1, <1>3, InRange
  <2>2. i + 1 \in 1 .. Len(q) /\ y = q[i + 1]
    BY <1>1, <2>1
  <2> QED BY <2>2, InRange
<1>4. q[1] \in Range(q)
  BY <1>1, InRange
<1> QED BY <1>1, <1>2, <1>3, <1>4

-----------------------------------------------------------------------------
(* Chains of pointers *)

\* The pointers from and to the elements of q are those of Linked.
Chain(q, first, last, next, prev) ==
  /\ first = IF q = <<>> THEN NULL ELSE q[1]
  /\ last = IF q = <<>> THEN NULL ELSE q[Len(q)]
  /\ \A i \in 1 .. Len(q) :
       /\ next[q[i]] = IF i = Len(q) THEN NULL ELSE q[i + 1]
       /\ prev[q[i]] = IF i = 1 THEN NULL ELSE q[i - 1]

FreeChain(q, first, next) ==
  /\ first = IF q = <<>> THEN NULL ELSE q[1]
  /\ \A i \in 1 .. Len(q) : next[q[i]] = IF i = Len(q) THEN NULL ELSE q[i + 1]

\* An element that is linked with its neighbours on both sides joins the chain.
LEMMA ChainPlaced ==
  ASSUME NEW S, NEW q \in Seq(S), NEW r \in Seq(S), NEW x \in S \ Range(q), NEW k \in 0 .. Len(q),
         Distinct(q), Placed(q, k, x, r),
         NEW first, NEW last, NEW next, NEW prev, Chain(q, first, last, next, prev),
         NEW next1, NEW prev1,
         next1[x] = IF k = Len(q) THEN NULL ELSE q[k + 1],
         prev1[x] = IF k = 0 THEN NULL ELSE q[k],
         k > 0 => next1[q[k]] = x,
         k < Len(q) => prev1[q[k + 1]] = x,
         \A i \in 1 .. Len(q) : i # k => next1[q[i]] = next[q[i]],
         \A i \in 1 .. Len(q) : i # k + 1 => prev1[q[i]] = prev[q[i]]
  PROVE  Chain(r, IF k = 0 THEN x ELSE first, IF k = Len(q) THEN x ELSE last, next1, prev1)
<1>1. Len(q) \in Nat /\ Len(r) = Len(q) + 1 /\ k \in Nat /\ r # <<>> /\ (q = <<>> <=> Len(q) = 0)
  BY InRange DEF Placed
<1>2. r[k + 1] = x /\ (\A i \in 1 .. k : r[i] = q[i]) /\ (\A i \in k + 1 .. Len(q) : r[i + 1] = q[i])
  BY DEF Placed
<1>3. \A i \in 2 .. Len(r) : i > k + 1 => r[i] = q[i - 1]
  <2> SUFFICES ASSUME NEW i \in 2 .. Len(r), i > k + 1 PROVE r[i] = q[i - 1]
    OBVIOUS
  <2>1. i - 1 \in k + 1 .. Len(q) /\ (i - 1) + 1 = i
    BY <1>1
  <2> QED BY <1>2, <2>1
<1>4. (IF k = 0 THEN x ELSE first) = r[1]
  BY <1>1, <1>2 DEF Chain
<1>5. (IF k = Len(q) THEN x ELSE last) = r[Len(r)]
  BY <1>1, <1>2, <1>3 DEF Chain
<1>6. ASSUME NEW i \in 1 .. Len(r)
      PROVE  /\ next1[r[i]] = IF i = Len(r) THEN NULL ELSE r[i + 1]
             /\ prev1[r[i]] = IF i = 1 THEN NULL ELSE r[i - 1]
  <2>1. CASE i = k + 1
    <3>1. i # Len(r) => r[i + 1] = q[k + 1]
      BY <1>1, <1>2, <2>1
    <3>2. i # 1 => r[i - 1] = q[k]
      BY <1>1, <1>2, <2>1
    <3> QED BY <1>1, <1>2, <2>1, <3>1, <3>2
  <2>2. CASE i < k + 1
    <3>0. i \in 1 .. k /\ i \in 1 .. Len(q) /\ i # k + 1 /\ i # Len(r)
      BY <1>1, <2>2
    <3>1. i \in 1 .. Len(q) /\ r[i] = q[i] /\ i # k + 1 /\ i # Len(r)
      BY <1>2, <3>0
    <3>2. prev1[r[i]] = IF i = 1 THEN NULL ELSE q[i - 1]
      BY <3>1 DEF Chain
    <3>3. i # 1 => r[i - 1] = q[i - 1]
      <4>1. i # 1 => i - 1 \in 1 .. k
        BY <3>0
      <4> QED BY <1>2, <4>1
    <3>4. CASE i = k
      <4>1. next1[r[i]] = x /\ r[i + 1] = x
        BY <1>2, <3>0, <3>1, <3>4
      <4> QED BY <3>1, <3>2, <3>3, <4>1
    <3>5. CASE i # k
      <4>1. next1[r[i]] = q[i + 1]
        BY <1>1, <2>2, <3>1, <3>5 DEF Chain
      <4>2. r[i + 1] = q[i + 1]
        BY <1>1, <1>2, <2>2, <3>5
      <4> QED BY <3>1, <3>2, <3>3, <4>1, <4>2
    <3> QED BY <3>4, <3>5
  <2>3. CASE i > k + 1
    <3> DEFINE j == i - 1
    <3>1. j \in 1 .. Len(q) /\ j # k /\ i # 1 /\ j > k
      BY <1>1, <2>3
    <3>2. r[i] = q[j]
      BY <1>1, <1>3, <2>3
    <3>3. i # Len(r) => r[i + 1] = q[j + 1]
      <4> SUFFICES ASSUME i # Len(r) PROVE r[i + 1] = q[j + 1]
        OBVIOUS
      <4>1. i + 1 \in 2 .. Len(r) /\ i + 1 > k + 1 /\ (i + 1) - 1 = j + 1
        BY <1>1, <2>3
      <4> QED BY <1>3, <4>1
    <3>4. next1[q[j]] = IF j = Len(q) THEN NULL ELSE q[j + 1]
      BY <3>1 DEF Chain
    <3>5. next1[r[i]] = IF i = Len(r) THEN NULL ELSE r[i + 1]
      BY <1>1, <3>1, <3>2, <3>3, <3>4
    <3>6. CASE j = k + 1
      BY <1>1, <1>2, <3>1, <3>2, <3>5, <3>6
    <3>7. CASE j # k + 1
      <4>0. j \in 2 .. Len(q) /\ j > k + 1 /\ j \in 2 .. Len(r)
        BY <1>1, <3>1, <3>7
      <4>1. prev1[q[j]] = q[j - 1]
        BY <3>1, <3>7, <4>0 DEF Chain
      <4>2. r[i - 1] = q[j - 1]
        BY <1>3, <4>0
      <4> QED BY <3>1, <3>2, <3>5, <4>1, <4>2
    <3> QED BY <3>6, <3>7
  <2> QED BY <1>1, <2>1, <2>2, <2>3
<1> QED BY <1>1, <1>4, <1>5, <1>6 DEF Chain

\* The first element leaves the chain.
LEMMA ChainTail ==
  ASSUME NEW S, NULL \notin S, NEW q \in Seq(S), q # <<>>, Distinct(q),
         NEW first, NEW last, NEW next, NEW prev, Chain(q, first, last, next, prev),
         NEW next1, NEW prev1,
         \A i \in 2 .. Len(q) : next1[q[i]] = next[q[i]],
         Len(q) > 1 => prev1[q[2]] = NULL,
         \A i \in 3 .. Len(q) : prev1[q[i]] = prev[q[i]]
  PROVE  /\ first = q[1]
         /\ next[first] = NULL <=> Len(q) = 1
         /\ Len(q) > 1 => next[first] = q[2]
         /\ Chain(Tail(q), next[first], IF next[first] = NULL THEN NULL ELSE last, next1, prev1)
<1> DEFINE r == Tail(q)
<1>1. /\ r \in Seq(S) /\ Len(r) = Len(q) - 1 /\ Len(q) \in Nat \ {0}
      /\ \A i \in 1 .. Len(q) - 1 : r[i] = q[i + 1]
  BY WithoutFirst
<1>2. (r = <<>> <=> Len(r) = 0) /\ \A i \in 1 .. Len(q) : q[i] # NULL
  BY <1>1, InRange
<1> HIDE DEF r
<1>3. first = q[1] /\ next[first] = IF Len(q) = 1 THEN NULL ELSE q[2]
  BY <1>1 DEF Chain
<1>4. next[first] = NULL <=> Len(q) = 1
  BY <1>1, <1>2, <1>3
<1>5. next[first] = IF r = <<>> THEN NULL ELSE r[1]
  BY <1>1, <1>2, <1>3
<1>6. (IF next[first] = NULL THEN NULL ELSE last) = IF r = <<>> THEN NULL ELSE r[Len(r)]
  <2>1. Len(q) # 1 => r[Len(r)] = q[Len(q)]
    <3> SUFFICES ASSUME Len(q) # 1 PROVE r[Len(r)] = q[Len(q)]
      OBVIOUS
    <3>1. Len(q) - 1 \in 1 .. Len(q) - 1 /\ (Len(q) - 1) + 1 = Len(q)
      BY <1>1
    <3> QED BY <1>1, <3>1
  <2>2. last = q[Len(q)]
    BY DEF Chain
  <2> QED BY <1>1, <1>2, <1>4, <2>1, <2>2
<1>7. ASSUME NEW i \in 1 .. Len(r)
      PROVE  /\ next1[r[i]] = IF i = Len(r) THEN NULL ELSE r[i + 1]
             /\ prev1[r[i]] = IF i = 1 THEN NULL ELSE r[i - 1]
  <2>1. i + 1 \in 2 .. Len(q) /\ i + 1 \in 1 .. Len(q) /\ r[i] = q[i + 1]
    BY <1>1
  <2>2. next1[q[i + 1]] = IF i + 1 = Len(q) THEN NULL ELSE q[i + 1 + 1]
    BY <2>1 DEF Chain
  <2>3. i # Len(r) => r[i + 1] = q[i + 1 + 1]
    BY <1>1
  <2>4. next1[r[i]] = IF i = Len(r) THEN NULL ELSE r[i + 1]
    BY <1>1, <2>1, <2>2, <2>3
  <2>5. CASE i = 1
    BY <1>1, <2>1, <2>4, <2>5
  <2>6. CASE i # 1
    <3>1. i + 1 \in 3 .. Len(q) /\ i - 1 \in 1 .. Len(q) - 1 /\ (i - 1) + 1 = i /\ (i + 1) - 1 = i
      BY <1>1, <2>1, <2>6
    <3>2. prev1[q[i + 1]] = q[i]
      BY <2>1, <3>1 DEF Chain
    <3>3. r[i - 1] = q[i]
      BY <1>1, <3>1
    <3> QED BY <2>1, <2>4, <2>6, <3>2, <3>3
  <2> QED BY <2>5, <2>6
<1>8. Chain(r, next[first], IF next[first] = NULL THEN NULL ELSE last, next1, prev1)
  BY <1>5, <1>6, <1>7 DEF Chain
<1> QED BY <1>1, <1>3, <1>4, <1>8 DEF r

\* The free frames do not care what happens to the others.
LEMMA FreeChainKept ==
  ASSUME NEW S, NEW q \in Seq(S), NEW first, NEW next, NEW next1, FreeChain(q, first, next),
         \A x \in Range(q) : next1[x] = next[x]
  PROVE  FreeChain(q, first, next1)
<1>1. \A i \in 1 .. Len(q) : next1[q[i]] = next[q[i]]
  BY InRange
<1> QED BY <1>1 DEF FreeChain

\* A frame becomes the first free one.
LEMMA FreeChainPushed ==
  ASSUME NEW S, NEW q \in Seq(S), NEW x \in S \ Range(q), NEW first, NEW next, NEW next1,
         FreeChain(q, first, next),
         next1[x] = first, \A y \in Range(q) : next1[y] = next[y]
  PROVE  FreeChain(<<x>> \o q, x, next1)
<1> DEFINE r == <<x>> \o q
<1>1. r \in Seq(S) /\ Len(r) = Len(q) + 1 /\ r[1] = x /\ (\A i \in 1 .. Len(q) : r[i + 1] = q[i])
  BY PlacedFirst, InRange DEF Placed
<1>2. Len(q) \in Nat /\ (q = <<>> <=> Len(q) = 0) /\ r # <<>>
  BY <1>1, InRange
<1> HIDE DEF r
<1>3. FreeChain(q, first, next1)
  BY FreeChainKept
<1>4. ASSUME NEW i \in 1 .. Len(r)
      PROVE  next1[r[i]] = IF i = Len(r) THEN NULL ELSE r[i + 1]
  <2>1. CASE i = 1
    <3>1. q # <<>> => r[2] = q[1]
      <4> SUFFICES ASSUME q # <<>> PROVE r[2] = q[1]
        OBVIOUS
      <4>1. 1 \in 1 .. Len(q) /\ 1 + 1 = 2
        BY <1>2
      <4> QED BY <1>1, <4>1
    <3> QED BY <1>1, <1>2, <2>1, <3>1 DEF FreeChain
  <2>2. CASE i # 1
    <3>1. i - 1 \in 1 .. Len(q) /\ (i - 1) + 1 = i
      BY <1>1, <1>2, <2>2
    <3>2. r[i] = q[i - 1]
      BY <1>1, <3>1
    <3>3. next1[q[i - 1]] = IF i - 1 = Len(q) THEN NULL ELSE q[i]
      BY <1>3, <3>1 DEF FreeChain
    <3>4. i # Len(r) => r[i + 1] = q[i]
      BY <1>1, <1>2, <2>2
    <3> QED BY <1>1, <1>2, <3>2, <3>3, <3>4
  <2> QED BY <2>1, <2>2
<1> QED BY <1>1, <1>2, <1>4 DEF FreeChain, r

\* The first free frame is taken.
LEMMA FreeChainPopped ==
  ASSUME NEW S, NEW q \in Seq(S), NEW first, NEW next, FreeChain(q, first, next), q # <<>>
  PROVE  FreeChain(Tail(q), next[first], next)
<1> DEFINE r == Tail(q)
<1>1. /\ r \in Seq(S) /\ Len(r) = Len(q) - 1 /\ Len(q) \in Nat \ {0}
      /\ \A i \in 1 .. Len(q) - 1 : r[i] = q[i + 1]
  BY WithoutFirst
<1>2. r = <<>> <=> Len(r) = 0
  BY <1>1, InRange
<1> HIDE DEF r
<1>3. next[first] = IF Len(q) = 1 THEN NULL ELSE q[2]
  BY <1>1 DEF FreeChain
<1>4. ASSUME NEW i \in 1 .. Len(r)
      PROVE  next[r[i]] = IF i = Len(r) THEN NULL ELSE r[i + 1]
  <2>1. i + 1 \in 1 .. Len(q) /\ r[i] = q[i + 1]
    BY <1>1
  <2>2. next[q[i + 1]] = IF i + 1 = Len(q) THEN NULL ELSE q[i + 1 + 1]
    BY <2>1 DEF FreeChain
  <2>3. i # Len(r) => r[i + 1] = q[i + 1 + 1]
    BY <1>1
  <2> QED BY <1>1, <2>1, <2>2, <2>3
<1>5. next[first] = IF r = <<>> THEN NULL ELSE r[1]
  BY <1>1, <1>2, <1>3
<1>6. FreeChain(r, next[first], next)
  BY <1>4, <1>5 DEF FreeChain
<1> QED BY <1>6 DEF r

-----------------------------------------------------------------------------
(* The steps *)

\* The two lists.
Lists ==
  /\ queue \in Seq(Node) /\ free \in Seq(Node)
  /\ later \in [Node -> Node \cup {NULL}] /\ earlier \in [Node -> Node \cup {NULL}]
  /\ Chain(queue, first_frame, last_frame, later, earlier)
  /\ FreeChain(free, free_frames, later)
  /\ Distinct(queue) /\ Distinct(free) /\ Range(queue) \cap Range(free) = {}

\* The sequences of Lists are walks of the linked lists.
LEMMA ListsAre == Lists => Linked
<1> SUFFICES ASSUME Lists PROVE Linked
  OBVIOUS
<1>1. DOMAIN queue = 1 .. Len(queue) /\ DOMAIN free = 1 .. Len(free)
  BY InRange DEF Lists
<1>2. Chain(queue, first_frame, last_frame, later, earlier) /\ FreeChain(free, free_frames, later)
  BY DEF Lists
<1> QED BY <1>1, <1>2 DEF Linked, Chain, FreeChain

\* A frame that is taken out becomes free.
LEMMA DequeueLists ==
  ASSUME Lists, first_frame # NULL, Dequeue
  PROVE  /\ Lists' /\ Len(queue') = Len(queue) - 1 /\ Len(queue) \in Nat /\ Len(queue') \in Nat
         /\ Range(queue') \cup Range(free') = Range(queue) \cup Range(free)
<1> USE PlayoutAssumption
<1> DEFINE f == first_frame
<1>1. queue # <<>> /\ f = queue[1]
  BY DEF Lists, Chain
<1>2. /\ Tail(queue) \in Seq(Node) /\ Len(Tail(queue)) = Len(queue) - 1 /\ Len(queue) \in Nat \ {0}
      /\ \A i \in 1 .. Len(queue) - 1 : Tail(queue)[i] = queue[i + 1]
      /\ Range(queue) = {f} \cup Range(Tail(queue))
  BY <1>1, WithoutFirst DEF Lists
<1>3. /\ \A i \in 1 .. Len(queue) : queue[i] \in Node /\ queue[i] \in Range(queue)
      /\ \A i, j \in 1 .. Len(queue) : queue[i] = queue[j] => i = j
  BY InRange DEF Lists, Distinct
<1>4. f \in Node /\ f \in Range(queue) /\ f \notin Range(free) /\ f \notin Range(Tail(queue))
  <2>1. 1 \in 1 .. Len(queue)
    BY <1>2
  <2>2. ASSUME f \in Range(Tail(queue)) PROVE FALSE
    <3>1. PICK i \in 1 .. Len(queue) - 1 : f = Tail(queue)[i]
      <4>1. \E i \in 1 .. Len(Tail(queue)) : f = Tail(queue)[i]
        BY <1>2, <2>2, InRange
      <4> QED BY <1>2, <4>1
    <3>2. i + 1 \in 1 .. Len(queue) /\ queue[i + 1] = queue[1] /\ i + 1 # 1
      BY <1>1, <1>2, <3>1
    <3> QED BY <1>3, <2>1, <3>2
  <2> QED BY <1>1, <1>3, <2>1, <2>2 DEF Lists
<1>5. /\ \A i \in 2 .. Len(queue) : later'[queue[i]] = later[queue[i]]
      /\ \A x \in Range(free) : later'[x] = later[x]
      /\ later'[f] = free_frames /\ later' \in [Node -> Node \cup {NULL}]
  <2>1. later' = [later EXCEPT ![f] = free_frames]
    BY DEF Dequeue
  <2>2. ASSUME NEW i \in 2 .. Len(queue) PROVE later'[queue[i]] = later[queue[i]]
    <3>1. queue[i] # f /\ queue[i] \in Node
      BY <1>1, <1>2, <1>3
    <3> QED BY <2>1, <3>1 DEF Lists
  <2>3. \A x \in Range(free) : x \in Node /\ x # f
    BY <1>4, InRange DEF Lists
  <2>4. free_frames \in Node \cup {NULL}
    <3>1. free # <<>> => 1 \in 1 .. Len(free)
      BY InRange DEF Lists
    <3> QED BY <3>1, InRange DEF Lists, FreeChain
  <2> QED BY <1>4, <2>1, <2>2, <2>3, <2>4 DEF Lists
<1>6. later[f] = IF Len(queue) = 1 THEN NULL ELSE queue[2]
  <2>1. 1 \in 1 .. Len(queue) /\ 1 + 1 = 2
    BY <1>2
  <2>2. later[queue[1]] = IF 1 = Len(queue) THEN NULL ELSE queue[1 + 1]
    BY <2>1 DEF Lists, Chain
  <2> QED BY <1>1, <2>1, <2>2
<1>7. /\ Len(queue) > 1 => earlier'[queue[2]] = NULL
      /\ \A i \in 3 .. Len(queue) : earlier'[queue[i]] = earlier[queue[i]]
      /\ earlier' \in [Node -> Node \cup {NULL}]
  <2>1. CASE Len(queue) = 1
    BY <1>6, <2>1 DEF Dequeue, Lists
  <2>2. CASE Len(queue) > 1
    <3>1. 2 \in 1 .. Len(queue) /\ queue[2] \in Node /\ queue[2] # NULL
      BY <1>2, <1>3, <2>2
    <3>2. earlier' = [earlier EXCEPT ![queue[2]] = NULL]
      <4>1. later[first_frame] = queue[2] /\ later[first_frame] # NULL
        BY <1>6, <2>2, <3>1
      <4> QED BY <4>1 DEF Dequeue
    <3>3. ASSUME NEW i \in 3 .. Len(queue) PROVE queue[i] \in Node /\ queue[i] # queue[2]
      BY <1>2, <1>3, <3>1
    <3> QED BY <3>1, <3>2, <3>3 DEF Lists
  <2> QED BY <1>2, <2>1, <2>2
<1>8. Chain(queue', first_frame', last_frame', later', earlier')
  <2>1. /\ queue \in Seq(Node) /\ queue # <<>> /\ Distinct(queue)
        /\ Chain(queue, first_frame, last_frame, later, earlier)
    BY <1>1 DEF Lists
  <2>2. Chain(Tail(queue), later[first_frame], IF later[first_frame] = NULL THEN NULL ELSE last_frame,
              later', earlier')
    BY <1>1, <1>5, <1>7, <2>1, ChainTail
  <2> QED BY <2>2 DEF Dequeue
<1>9. FreeChain(free', free_frames', later')
  <2>1. free \in Seq(Node) /\ f \in Node \ Range(free) /\ FreeChain(free, free_frames, later)
    BY <1>4 DEF Lists
  <2>2. FreeChain(<<f>> \o free, f, later')
    BY <1>5, <2>1, FreeChainPushed
  <2> QED BY <2>2 DEF Dequeue
<1>10. /\ free' \in Seq(Node) /\ Range(free') = {f} \cup Range(free) /\ Distinct(free')
  <2>1. <<f>> \o free \in Seq(Node) /\ Placed(free, 0, f, <<f>> \o free) /\ 0 \in 0 .. Len(free)
    BY <1>4, PlacedFirst, InRange DEF Lists
  <2>2. free' = <<f>> \o free /\ free \in Seq(Node) /\ Distinct(free)
    BY DEF Lists, Dequeue
  <2>3. free' \in Seq(Node) /\ Placed(free, 0, f, free') /\ f \in Node /\ f \notin Range(free)
    BY <1>4, <2>1, <2>2
  <2> HIDE DEF f
  <2>4. PICK k \in 0 .. Len(free) : Placed(free, k, f, free')
    BY <2>1, <2>3
  <2>5. ASSUME NEW r \in Seq(Node), r = free'
        PROVE  Range(r) = {f} \cup Range(free) /\ Distinct(r)
    <3>1. Placed(free, k, f, r) /\ free \in Seq(Node) /\ Distinct(free)
      BY <2>2, <2>4, <2>5
    <3>2. Range(r) = {f} \cup Range(free)
      BY <2>3, <3>1, PlacedElements
    <3>3. Distinct(r)
      BY <2>3, <3>1, PlacedElements
    <3> QED BY <3>2, <3>3
  <2> QED BY <2>3, <2>5
<1>11. Distinct(queue')
  <2> SUFFICES ASSUME NEW i \in 1 .. Len(queue) - 1, NEW j \in 1 .. Len(queue) - 1,
                      Tail(queue)[i] = Tail(queue)[j]
               PROVE  i = j
    <3>1. queue' = Tail(queue)
      BY DEF Dequeue
    <3>2. DOMAIN Tail(queue) = 1 .. Len(queue) - 1
      BY <1>2, InRange
    <3> QED BY <3>1, <3>2 DEF Distinct
  <2>1. i + 1 \in 1 .. Len(queue) /\ j + 1 \in 1 .. Len(queue) /\ queue[i + 1] = queue[j + 1]
    BY <1>2
  <2> QED BY <1>3, <2>1
<1>12. queue' = Tail(queue)
  BY DEF Dequeue
<1> QED BY <1>2, <1>4, <1>5, <1>7, <1>8, <1>9, <1>10, <1>11, <1>12 DEF Lists

\* What is left of the free frames when one of them, or a new one, is taken.
LEMMA AcquireLists ==
  ASSUME Lists, heap = Range(queue) \cup Range(free), heap \subseteq Node,
         free_frames # NULL \/ heap # Node, Acquire
  PROVE  /\ Acquired \in Node /\ Acquired \notin Range(queue) /\ Acquired \notin Range(free')
         /\ free' \in Seq(Node) /\ Distinct(free') /\ Range(free') \subseteq Range(free)
         /\ FreeChain(free', free_frames', later)
         /\ heap' = Range(queue) \cup Range(free') \cup {Acquired}
<1> USE PlayoutAssumption
<1>1. CASE free_frames # NULL
  <2>1. free # <<>> /\ free_frames = free[1] /\ free \in Seq(Node)
    BY <1>1 DEF Lists, FreeChain
  <2>2. /\ Tail(free) \in Seq(Node) /\ Len(Tail(free)) = Len(free) - 1 /\ Len(free) \in Nat \ {0}
        /\ \A i \in 1 .. Len(free) - 1 : Tail(free)[i] = free[i + 1]
        /\ Range(free) = {free[1]} \cup Range(Tail(free))
    BY <2>1, WithoutFirst
  <2>3. \A i, j \in 1 .. Len(free) : free[i] = free[j] => i = j
    BY InRange DEF Lists, Distinct
  <2>4. free[1] \notin Range(Tail(free))
    <3> SUFFICES ASSUME free[1] \in Range(Tail(free)) PROVE FALSE
      OBVIOUS
    <3>1. PICK i \in 1 .. Len(free) - 1 : free[1] = Tail(free)[i]
      <4>1. \A y \in Range(Tail(free)) : \E i \in 1 .. Len(Tail(free)) : y = Tail(free)[i]
        BY <2>2, InRange
      <4> QED BY <2>2, <4>1
    <3>2. i + 1 \in 1 .. Len(free) /\ 1 \in 1 .. Len(free) /\ free[i + 1] = free[1] /\ i + 1 # 1
      BY <2>2, <3>1
    <3> QED BY <2>3, <3>2
  <2>5. Distinct(Tail(free))
    <3> SUFFICES ASSUME NEW i \in 1 .. Len(free) - 1, NEW j \in 1 .. Len(free) - 1,
                        Tail(free)[i] = Tail(free)[j]
                 PROVE  i = j
      BY <2>2, InRange DEF Distinct
    <3>1. i + 1 \in 1 .. Len(free) /\ j + 1 \in 1 .. Len(free) /\ free[i + 1] = free[j + 1]
      BY <2>2
    <3> QED BY <2>3, <3>1
  <2>6. FreeChain(Tail(free), later[free_frames], later)
    BY <2>1, FreeChainPopped DEF Lists
  <2>7. free[1] \in Node /\ free[1] \in Range(free)
    BY <2>1, <2>2, InRange
  <2>8. Acquired = free[1] /\ free' = Tail(free) /\ free_frames' = later[free_frames]
        /\ heap' = heap \cup {Acquired}
    BY <1>1, <2>1 DEF Acquire, Acquired
  <2> QED BY <2>2, <2>4, <2>5, <2>6, <2>7, <2>8 DEF Lists
<1>2. CASE free_frames = NULL
  <2>1. free = <<>>
    <3> SUFFICES ASSUME free # <<>> PROVE FALSE
      OBVIOUS
    <3>1. 1 \in 1 .. Len(free) /\ free[1] \in Node
      BY InRange DEF Lists
    <3> QED BY <1>2, <3>1 DEF Lists, FreeChain
  <2>2. Acquired \in Node /\ Acquired \notin heap
    <3>1. \E n \in Node : n \notin heap
      BY <1>2
    <3> QED BY <1>2, <3>1 DEF Acquired
  <2>3. free' = free /\ free_frames' = free_frames /\ heap' = heap \cup {Acquired}
    BY <1>2 DEF Acquire
  <2> QED BY <2>1, <2>2, <2>3 DEF Lists
<1> QED BY <1>1, <1>2

\* A frame that is in neither list is linked in.
LEMMA LinkedIn ==
  ASSUME queue \in Seq(Node), Distinct(queue), NEW r \in Seq(Node),
         Chain(queue, first_frame, last_frame, later, earlier),
         NEW f \in Node, f \notin Range(queue), NEW k \in 0 .. Len(queue), Placed(queue, k, f, r),
         NEW x \in Seq(Node), x = free', FreeChain(x, free_frames', later),
         Distinct(x), Range(queue) \cap Range(x) = {}, f \notin Range(x),
         queue' = r,
         first_frame' = (IF k = 0 THEN f ELSE first_frame),
         last_frame' = (IF k = Len(queue) THEN f ELSE last_frame),
         later' \in [Node -> Node \cup {NULL}], earlier' \in [Node -> Node \cup {NULL}],
         later'[f] = (IF k = Len(queue) THEN NULL ELSE queue[k + 1]),
         earlier'[f] = (IF k = 0 THEN NULL ELSE queue[k]),
         k > 0 => later'[queue[k]] = f,
         k < Len(queue) => earlier'[queue[k + 1]] = f,
         \A n \in Node : n # f /\ (k > 0 => n # queue[k]) => later'[n] = later[n],
         \A n \in Node : n # f /\ (k < Len(queue) => n # queue[k + 1]) => earlier'[n] = earlier[n]
  PROVE  Lists' /\ Len(queue') = Len(queue) + 1 /\ Range(queue') = {f} \cup Range(queue)
<1>1. /\ \A i \in 1 .. Len(queue) : queue[i] \in Node /\ queue[i] \in Range(queue) /\ queue[i] # f
      /\ Len(queue) \in Nat /\ k \in Nat /\ k <= Len(queue)
      /\ \A i, j \in 1 .. Len(queue) : queue[i] = queue[j] => i = j
  BY InRange DEF Distinct
<1>2. \A i \in 1 .. Len(queue) : i # k => later'[queue[i]] = later[queue[i]]
  <2> SUFFICES ASSUME NEW i \in 1 .. Len(queue), i # k PROVE later'[queue[i]] = later[queue[i]]
    OBVIOUS
  <2>1. k > 0 => queue[i] # queue[k]
    BY <1>1
  <2> QED BY <1>1, <2>1
<1>3. \A i \in 1 .. Len(queue) : i # k + 1 => earlier'[queue[i]] = earlier[queue[i]]
  <2> SUFFICES ASSUME NEW i \in 1 .. Len(queue), i # k + 1 PROVE earlier'[queue[i]] = earlier[queue[i]]
    OBVIOUS
  <2>1. k < Len(queue) => queue[i] # queue[k + 1]
    BY <1>1
  <2> QED BY <1>1, <2>1
<1>4. Chain(r, first_frame', last_frame', later', earlier')
  <2> DEFINE next1 == later'
             prev1 == earlier'
  <2>1. /\ next1[f] = IF k = Len(queue) THEN NULL ELSE queue[k + 1]
        /\ prev1[f] = IF k = 0 THEN NULL ELSE queue[k]
        /\ k > 0 => next1[queue[k]] = f
        /\ k < Len(queue) => prev1[queue[k + 1]] = f
        /\ \A i \in 1 .. Len(queue) : i # k => next1[queue[i]] = later[queue[i]]
        /\ \A i \in 1 .. Len(queue) : i # k + 1 => prev1[queue[i]] = earlier[queue[i]]
    BY <1>2, <1>3
  <2>2. f \in Node \ Range(queue)
    OBVIOUS
  <2> HIDE DEF next1, prev1
  <2>3. Chain(r, IF k = 0 THEN f ELSE first_frame, IF k = Len(queue) THEN f ELSE last_frame, next1, prev1)
    BY <2>1, <2>2, ChainPlaced
  <2> QED BY <2>3 DEF next1, prev1
<1>5. FreeChain(x, free_frames', later')
  <2>1. \A n \in Range(x) : later'[n] = later[n]
    <3> SUFFICES ASSUME NEW n \in Range(x) PROVE later'[n] = later[n]
      OBVIOUS
    <3>1. n \in Node /\ n # f /\ n \notin Range(queue)
      BY InRange
    <3>2. k > 0 => n # queue[k]
      BY <1>1, <3>1
    <3> QED BY <3>1, <3>2
  <2> QED BY <2>1, FreeChainKept
<1>6. Range(r) = {f} \cup Range(queue)
  BY PlacedElements
<1>7. Distinct(r)
  BY PlacedElements
<1>8. Len(r) = Len(queue) + 1
  BY DEF Placed
<1> QED BY <1>4, <1>5, <1>6, <1>7, <1>8 DEF Lists

Counts ==
  /\ {"frames_in", "frames_out"} \subseteq DOMAIN s
  /\ s.frames_in \in Int /\ s.frames_out \in Int /\ aside \in Int

\* The invariant: the lists are chains, every allocated frame is in one of them
\* or being put in, and the search of playout_put() has a frame that belongs
\* before the last one, so that the place it finds has a frame behind it.
Inv ==
  /\ Lists
  /\ pc \in {"idle", "search", "clearing", "gone"}
  /\ heap \subseteq Node /\ heap = Range(queue) \cup Range(free) \cup Held
  /\ Held \cap (Range(queue) \cup Range(free)) = {}
  /\ frame \in [Node -> [no : 1 .. Frames, receiver_stamp : Nat, late : BOOLEAN]]
  /\ now \in Nat
  /\ pc = "search" => /\ fresh \in Node /\ p \in Range(queue)
                      /\ Stamp(frame[fresh].no) < Stamp(frame[last_frame].no)
  /\ Counts /\ Accounted

\* What resizing the buffer leaves alone.
LEMMA AssessKeeps ==
  ASSUME NEW r, NEW f, {"frames_in", "frames_out"} \subseteq DOMAIN r
  PROVE  /\ {"frames_in", "frames_out"} \subseteq DOMAIN Assess(r, f)
         /\ Assess(r, f).frames_in = r.frames_in /\ Assess(r, f).frames_out = r.frames_out
<1> DEFINE Kept(t) == /\ {"frames_in", "frames_out"} \subseteq DOMAIN t
                      /\ t.frames_in = r.frames_in /\ t.frames_out = r.frames_out
           stamp == frame[f].receiver_stamp
           expected == IF r.not_first THEN r.latest_expected ELSE stamp + r.min_length
           a == [r EXCEPT !.not_first = TRUE,
                          !.state_late = Leaky(@, stamp > expected),
                          !.state_just_in_time = Leaky(@, stamp > expected - FrameLen),
                          !.latest_expected = expected + FrameLen]
           late == a.state_late > dropable_threshold
           n == CASE late /\ a.since_last_step < 10 /\ a.target_buffer_length < a.max_length - 2 -> 3
                  [] late /\ a.since_last_step >= 10 /\ a.target_buffer_length < a.max_length -> 1
                  [] ~late /\ a.since_last_step > 500 /\ a.state_just_in_time < dropable_threshold
                     /\ a.target_buffer_length > a.min_length -> -1
                  [] OTHER -> 0
           b == IF n = 0 THEN a ELSE Resize(a, n)
<1>1. Kept(a)
  OBVIOUS
<1> HIDE DEF a, n
<1>2. Kept(b)
  BY <1>1 DEF Resize
<1> HIDE DEF b
<1>3. Kept([b EXCEPT !.since_last_step = Wrapped(@)])
  BY <1>2
<1>4. Assess(r, f) = [b EXCEPT !.since_last_step = Wrapped(@)]
  BY DEF Assess, a, n, b
<1> QED BY <1>3, <1>4

\* Starting the clock leaves the lists alone.
LEMMA StartedKeeps ==
  ASSUME NEW r, NEW no, {"frames_in", "frames_out"} \subseteq DOMAIN r
  PROVE  /\ {"frames_in", "frames_out"} \subseteq DOMAIN Started(r, no)
         /\ Started(r, no).frames_in = r.frames_in /\ Started(r, no).frames_out = r.frames_out
BY DEF Started

\* A new buffer has two empty lists.
LEMMA InitInv == Init => Inv
<1> SUFFICES ASSUME Init PROVE Inv
  OBVIOUS
<1> USE PlayoutAssumption
<1>1. queue \in Seq(Node) /\ free \in Seq(Node) /\ Len(queue) = 0 /\ Len(free) = 0
      /\ Range(queue) = {} /\ Range(free) = {}
  BY EmptySeq DEF Init, Range
<1>2. Lists
  BY <1>1 DEF Init, Lists, Chain, FreeChain, Distinct
<1>3. Counts /\ Accounted
  BY <1>1 DEF Init, Fresh, Counts, Accounted
<1>4. frame \in [Node -> [no : 1 .. Frames, receiver_stamp : Nat, late : BOOLEAN]]
  BY DEF Init
<1> QED BY <1>1, <1>2, <1>3, <1>4 DEF Init, Inv, Held

\* A frame goes to the end of the queue.
LEMMA PutLastInv ==
  ASSUME Inv, NEW no \in 1 .. Frames, Put(no), LastFrame(no)
  PROVE  Inv'
<1> USE PlayoutAssumption
<1> DEFINE f == Acquired
<1>1. /\ pc = "idle" /\ pc' = "idle" /\ Held = {} /\ Held' = {} /\ now' = now
      /\ AppendFrame(f) /\ Acquire /\ (free_frames # NULL \/ heap # Node)
  BY DEF Put, Inv, Held, search
<1>2. /\ f \in Node /\ f \notin Range(queue) /\ f \notin Range(free')
      /\ free' \in Seq(Node) /\ Distinct(free') /\ Range(free') \subseteq Range(free)
      /\ FreeChain(free', free_frames', later)
      /\ heap' = Range(queue) \cup Range(free') \cup {f}
  BY <1>1, AcquireLists DEF Inv
<1> HIDE DEF f
<1>3. /\ queue \in Seq(Node) /\ Distinct(queue)
      /\ Chain(queue, first_frame, last_frame, later, earlier)
      /\ Range(queue) \cap Range(free') = {}
      /\ later \in [Node -> Node \cup {NULL}] /\ earlier \in [Node -> Node \cup {NULL}]
  BY <1>2 DEF Inv, Lists
<1>4. /\ Len(queue) \in Nat /\ (queue = <<>> <=> Len(queue) = 0)
      /\ \A i \in 1 .. Len(queue) : queue[i] \in Node /\ queue[i] \in Range(queue)
  BY <1>3, InRange
<1>5. /\ last_frame = IF Len(queue) = 0 THEN NULL ELSE queue[Len(queue)]
      /\ (last_frame = NULL <=> Len(queue) = 0)
      /\ Len(queue) > 0 => last_frame \in Node /\ last_frame # f
  <2>1. last_frame = IF Len(queue) = 0 THEN NULL ELSE queue[Len(queue)]
    BY <1>3, <1>4 DEF Chain
  <2>2. Len(queue) > 0 => Len(queue) \in 1 .. Len(queue)
    BY <1>4
  <2> QED BY <1>2, <1>4, <2>1, <2>2
<1>6. Lists' /\ Len(queue') = Len(queue) + 1 /\ Range(queue') = {f} \cup Range(queue)
  <2>1. PICK r \in Seq(Node) : r = queue' /\ Placed(queue, Len(queue), f, r)
    BY <1>1, <1>2, <1>3, PlacedLast DEF AppendFrame
  <2>2. PICK x \in Seq(Node) : x = free'
    BY <1>2
  <2>3. PICK k \in 0 .. Len(queue) : k = Len(queue)
    BY <1>4
  <2>4. /\ last_frame' = f
        /\ first_frame' = IF k = 0 THEN f ELSE first_frame
    BY <1>1, <1>5, <2>3 DEF AppendFrame
  <2>5. /\ later' \in [Node -> Node \cup {NULL}] /\ later'[f] = NULL
        /\ k > 0 => later'[queue[k]] = f
        /\ \A n \in Node : n # f /\ (k > 0 => n # queue[k]) => later'[n] = later[n]
    <3>1. CASE k = 0
      <4>1. later' = [later EXCEPT ![f] = NULL]
        BY <1>1, <1>5, <2>3, <3>1 DEF AppendFrame
      <4> QED BY <1>2, <1>3, <3>1, <4>1
    <3>2. CASE k > 0
      <4>1. later' = [later EXCEPT ![f] = NULL, ![last_frame] = f] /\ last_frame = queue[k]
        BY <1>1, <1>4, <1>5, <2>3, <3>2 DEF AppendFrame
      <4> QED BY <1>2, <1>3, <1>5, <2>3, <3>2, <4>1
    <3> QED BY <1>4, <2>3, <3>1, <3>2
  <2>6. /\ earlier' \in [Node -> Node \cup {NULL}]
        /\ earlier'[f] = IF k = 0 THEN NULL ELSE queue[k]
        /\ \A n \in Node : n # f => earlier'[n] = earlier[n]
    <3>1. earlier' = [earlier EXCEPT ![f] = last_frame]
      BY <1>1 DEF AppendFrame
    <3>2. last_frame \in Node \cup {NULL}
      BY <1>4, <1>5
    <3> QED BY <1>2, <1>3, <1>5, <2>3, <3>1, <3>2
  <2>7. Placed(queue, k, f, r) /\ ~(k < Len(queue)) /\ (k = Len(queue))
    BY <1>4, <2>1, <2>3
  <2>8. FreeChain(x, free_frames', later) /\ Distinct(x) /\ Range(queue) \cap Range(x) = {} /\ f \notin Range(x)
    BY <1>2, <1>3, <2>2
  <2>9. last_frame' = IF k = Len(queue) THEN f ELSE last_frame
    BY <2>3, <2>4
  <2>10. later'[f] = IF k = Len(queue) THEN NULL ELSE queue[k + 1]
    BY <2>3, <2>5
  <2>11. Lists' /\ Len(queue') = Len(queue) + 1 /\ Range(queue') = {f} \cup Range(queue)
    BY <1>2, <1>3, <2>1, <2>2, <2>4, <2>5, <2>6, <2>7, <2>8, <2>9, <2>10, LinkedIn
  <2> QED BY <2>11
<1>7. heap' \subseteq Node
  BY <1>1, <1>2 DEF Acquire, Inv, f
<1>8. frame' \in [Node -> [no : 1 .. Frames, receiver_stamp : Nat, late : BOOLEAN]]
  BY <1>2 DEF Put, Inv, f, Late
<1>9. Counts' /\ Accounted'
  <2>1. /\ {"frames_in", "frames_out"} \subseteq DOMAIN s'
        /\ s'.frames_in = s.frames_in + 1 /\ s'.frames_out = s.frames_out
    BY StartedKeeps DEF Put, Inv, Counts
  <2>2. aside' = aside
    BY DEF Put
  <2> QED BY <1>1, <1>4, <1>6, <2>1, <2>2 DEF Inv, Counts, Accounted
<1> QED BY <1>1, <1>2, <1>6, <1>7, <1>8, <1>9 DEF Inv

\* A frame that is out of sequence: the search begins at the last frame.
LEMMA PutSearchInv ==
  ASSUME Inv, NEW no \in 1 .. Frames, Put(no), ~LastFrame(no)
  PROVE  Inv'
<1> USE PlayoutAssumption
<1> DEFINE f == Acquired
<1>1. /\ pc = "idle" /\ pc' = "search" /\ fresh' = f /\ Held = {} /\ Held' = {f} /\ p' = last_frame
      /\ UNCHANGED <<now, first_frame, last_frame, later, earlier, queue>>
      /\ Acquire /\ (free_frames # NULL \/ heap # Node)
  BY DEF Put, Search, Inv, Held
<1>2. /\ f \in Node /\ f \notin Range(queue) /\ f \notin Range(free')
      /\ free' \in Seq(Node) /\ Distinct(free') /\ Range(free') \subseteq Range(free)
      /\ FreeChain(free', free_frames', later)
      /\ heap' = Range(queue) \cup Range(free') \cup {f}
  BY <1>1, AcquireLists DEF Inv
<1>3. frame' = [frame EXCEPT ![f] = [no |-> no, receiver_stamp |-> now, late |-> Late(no)]]
  BY DEF Put
<1> HIDE DEF f
<1>4. Lists'
  BY <1>1, <1>2 DEF Inv, Lists
<1>5. last_frame # NULL /\ Stamp(no) < Stamp(frame[last_frame].no) /\ last_frame \in Range(queue)
  <2>1. last_frame # NULL /\ ~(Stamp(no) >= Stamp(frame[last_frame].no))
    BY DEF LastFrame
  <2>2. last_frame \in Range(queue) /\ last_frame \in Node
    <3>1. queue \in Seq(Node) /\ last_frame = IF queue = <<>> THEN NULL ELSE queue[Len(queue)]
      BY DEF Inv, Lists, Chain
    <3>2. Len(queue) \in 1 .. Len(queue)
      BY <2>1, <3>1, InRange
    <3> QED BY <2>1, <3>1, <3>2, InRange
  <2>3. frame[last_frame].no \in Int /\ FrameLen \in Int /\ no \in Int
    BY <2>2 DEF Inv
  <2>4. Stamp(no) \in Int /\ Stamp(frame[last_frame].no) \in Int
    BY <2>3 DEF Stamp
  <2> QED BY <2>1, <2>2, <2>4
<1>6. frame' \in [Node -> [no : 1 .. Frames, receiver_stamp : Nat, late : BOOLEAN]]
  BY <1>2, <1>3 DEF Inv, Late
<1>7. /\ fresh' \in Node /\ p' \in Range(queue')
      /\ Stamp(frame'[fresh'].no) < Stamp(frame'[last_frame'].no)
  <2>1. last_frame # f /\ last_frame \in Node /\ f \in Node
    BY <1>2, <1>5, InRange DEF Inv, Lists
  <2>2. frame'[last_frame] = frame[last_frame] /\ frame'[f].no = no
    BY <1>3, <2>1 DEF Inv
  <2> QED BY <1>1, <1>2, <1>5, <2>2
<1>8. Counts' /\ Accounted'
  <2>1. /\ {"frames_in", "frames_out"} \subseteq DOMAIN s'
        /\ s'.frames_in = s.frames_in + 1 /\ s'.frames_out = s.frames_out
    BY DEF Put, Inv, Counts
  <2>2. aside' = aside /\ Len(queue) \in Nat
    BY InRange DEF Put, Inv, Lists
  <2>3. /\ {"frames_in", "frames_out"} \subseteq DOMAIN s
        /\ s.frames_in \in Int /\ s.frames_out \in Int /\ aside \in Int /\ Accounted
    BY DEF Inv, Counts
  <2>4. Counts'
    BY <2>1, <2>2, <2>3 DEF Counts
  <2>5. Accounted'
    BY <1>1, <2>1, <2>2, <2>3 DEF Accounted
  <2> QED BY <2>4, <2>5
<1>9. heap' \subseteq Node
  BY <1>1, <1>2 DEF Acquire, Inv, f
<1>10. heap' = Range(queue') \cup Range(free') \cup Held' /\ now' \in Nat
  BY <1>1, <1>2 DEF Inv
<1>11. Held' \cap (Range(queue') \cup Range(free')) = {}
  BY <1>1, <1>2
<1>12. pc' \in {"idle", "search", "gone"}
  BY <1>1
<1> QED BY <1>1, <1>4, <1>6, <1>7, <1>8, <1>9, <1>10, <1>11, <1>12 DEF Inv

\* The frame finds its place.
LEMMA InsertInv ==
  ASSUME Inv, Insert
  PROVE  Inv'
<1> USE PlayoutAssumption
<1> DEFINE f == fresh
<1>1. /\ pc = "search" /\ pc' = "idle" /\ Held = {f} /\ Held' = {} /\ f \in Node
      /\ UNCHANGED <<last_frame, free_frames, heap, free, frame, now, aside>>
      /\ f \notin Range(queue) /\ f \notin Range(free) /\ p \in Range(queue)
      /\ Stamp(frame[f].no) < Stamp(frame[last_frame].no)
  BY DEF Insert, Inv, Held, world
<1>2. /\ queue \in Seq(Node) /\ Distinct(queue) /\ free \in Seq(Node) /\ Distinct(free)
      /\ Chain(queue, first_frame, last_frame, later, earlier) /\ FreeChain(free, free_frames, later)
      /\ Range(queue) \cap Range(free) = {}
      /\ later \in [Node -> Node \cup {NULL}] /\ earlier \in [Node -> Node \cup {NULL}]
  BY DEF Inv, Lists
<1>3. /\ Len(queue) \in Nat /\ (queue = <<>> <=> Len(queue) = 0) /\ DOMAIN queue = 1 .. Len(queue)
      /\ \A i \in 1 .. Len(queue) : queue[i] \in Node /\ queue[i] \in Range(queue) /\ queue[i] # NULL
      /\ \A i, j \in 1 .. Len(queue) : queue[i] = queue[j] => i = j
  BY <1>2, InRange DEF Distinct
<1>4. PICK k \in 1 .. Len(queue) : queue[k] = p
  BY <1>1, <1>2, InRange
<1>5. /\ later[p] = IF k = Len(queue) THEN NULL ELSE queue[k + 1]
      /\ earlier[p] = IF k = 1 THEN NULL ELSE queue[k - 1]
      /\ last_frame = queue[Len(queue)] /\ p \in Node /\ p # f
  <2>1. /\ later[queue[k]] = IF k = Len(queue) THEN NULL ELSE queue[k + 1]
        /\ earlier[queue[k]] = IF k = 1 THEN NULL ELSE queue[k - 1]
    BY <1>2, <1>4 DEF Chain
  <2>2. last_frame = queue[Len(queue)]
    <3>1. queue # <<>>
      BY <1>3, <1>4
    <3> QED BY <1>2, <3>1 DEF Chain
  <2> QED BY <1>1, <1>3, <1>4, <2>1, <2>2
<1> HIDE DEF f
<1>6. Lists' /\ Len(queue') = Len(queue) + 1 /\ Range(queue') = {f} \cup Range(queue)
  <2>1. CASE earlier[p] # NULL
    <3>1. k # 1 /\ k # Len(queue) /\ k + 1 \in 1 .. Len(queue) /\ queue[k + 1] \in Node
      <4>1. k # 1
        BY <1>5, <2>1
      <4>2. ~(Stamp(frame[f].no) < Stamp(frame[p].no))
        BY <2>1 DEF Insert, Earlier, f
      <4>3. k # Len(queue)
        BY <1>1, <1>4, <1>5, <4>2
      <4>4. Len(queue) \in Nat /\ k \in 1 .. Len(queue)
        BY <1>3, <1>4
      <4>5. k + 1 \in 1 .. Len(queue)
        BY <4>3, <4>4
      <4> QED BY <1>3, <4>1, <4>3, <4>5
    <3>2. queue' = InsertAt(queue, k + 1, f)
      <4>1. (CHOOSE i \in DOMAIN queue : queue[i] = p) = k
        BY <1>3, <1>4
      <4>2. queue' = InsertAt(queue, 1 + CHOOSE i \in DOMAIN queue : queue[i] = p, f)
        BY <2>1 DEF Insert, InsertAfter, f
      <4>3. 1 + k = k + 1
        BY <1>4
      <4> QED BY <4>1, <4>2, <4>3
    <3>3. PICK r \in Seq(Node) : r = queue' /\ Placed(queue, k, f, r)
      BY <1>1, <1>2, <3>2, PlacedWithin
    <3>4. PICK x \in Seq(Node) : x = free'
      BY <1>1, <1>2
    <3>5. /\ later' = [later EXCEPT ![f] = queue[k + 1], ![p] = f]
          /\ earlier' = [earlier EXCEPT ![f] = p, ![queue[k + 1]] = f]
          /\ first_frame' = first_frame
      BY <1>5, <2>1, <3>1 DEF Insert, InsertAfter, f
    <3>6. queue[k + 1] # f
      <4>1. queue[k + 1] \in Range(queue)
        BY <1>3, <3>1
      <4> QED BY <1>1, <4>1
    <3>7. /\ later' \in [Node -> Node \cup {NULL}] /\ earlier' \in [Node -> Node \cup {NULL}]
          /\ later'[f] = queue[k + 1] /\ earlier'[f] = p
          /\ later'[p] = f /\ earlier'[queue[k + 1]] = f
          /\ \A n \in Node : n # f /\ n # p => later'[n] = later[n]
          /\ \A n \in Node : n # f /\ n # queue[k + 1] => earlier'[n] = earlier[n]
      BY <1>1, <1>2, <1>5, <3>1, <3>5, <3>6
    <3>8. FreeChain(x, free_frames', later) /\ Distinct(x) /\ Range(queue) \cap Range(x) = {} /\ f \notin Range(x)
      BY <1>1, <1>2, <3>4
    <3>9. /\ k \in 0 .. Len(queue) /\ k > 0 /\ k < Len(queue) /\ k # 0
          /\ first_frame' = IF k = 0 THEN f ELSE first_frame
          /\ last_frame' = IF k = Len(queue) THEN f ELSE last_frame
          /\ later'[f] = IF k = Len(queue) THEN NULL ELSE queue[k + 1]
          /\ earlier'[f] = IF k = 0 THEN NULL ELSE queue[k]
      <4>1. k \in 0 .. Len(queue) /\ k > 0 /\ k < Len(queue) /\ k # 0
        <5>1. Len(queue) \in Nat /\ k \in 1 .. Len(queue)
          BY <1>3, <1>4
        <5> QED BY <3>1, <5>1
      <4> QED BY <1>1, <1>4, <3>1, <3>5, <3>7, <4>1
    <3>10. Lists' /\ Len(queue') = Len(queue) + 1 /\ Range(queue') = {f} \cup Range(queue)
      <4>1. /\ queue \in Seq(Node) /\ Distinct(queue) /\ f \in Node /\ f \notin Range(queue)
            /\ Chain(queue, first_frame, last_frame, later, earlier)
        BY <1>1, <1>2
      <4>2. /\ k > 0 => later'[queue[k]] = f
            /\ k < Len(queue) => earlier'[queue[k + 1]] = f
            /\ \A n \in Node : n # f /\ (k > 0 => n # queue[k]) => later'[n] = later[n]
            /\ \A n \in Node : n # f /\ (k < Len(queue) => n # queue[k + 1]) => earlier'[n] = earlier[n]
        BY <1>4, <3>7, <3>9
      <4>3. /\ later'[f] = IF k = Len(queue) THEN NULL ELSE queue[k + 1]
            /\ earlier'[f] = IF k = 0 THEN NULL ELSE queue[k]
            /\ later' \in [Node -> Node \cup {NULL}] /\ earlier' \in [Node -> Node \cup {NULL}]
        BY <3>7, <3>9
      <4>4. k \in 0 .. Len(queue) /\ queue' = r /\ Placed(queue, k, f, r)
        BY <3>3, <3>9
      <4> QED BY <3>4, <3>8, <3>9, <4>1, <4>2, <4>3, <4>4, LinkedIn
    <3> QED BY <3>10
  <2>2. CASE earlier[p] = NULL
    <3>1. k = 1 /\ Len(queue) > 0 /\ queue[1] = p
      <4>1. k # 1 => k - 1 \in 1 .. Len(queue)
        BY <1>3, <1>4
      <4>2. k # 1 => queue[k - 1] # NULL
        BY <1>3, <4>1
      <4>3. k = 1
        BY <1>5, <2>2, <4>2
      <4> QED BY <1>3, <1>4, <4>3
    <3>2. PICK r \in Seq(Node) : r = queue' /\ Placed(queue, 0, f, r)
      BY <1>1, <1>2, <2>2, PlacedFirst DEF Insert, InsertBefore, f
    <3>3. PICK x \in Seq(Node) : x = free'
      BY <1>1, <1>2
    <3>4. PICK j \in 0 .. Len(queue) : j = 0
      BY <1>3
    <3>5. /\ later' = [later EXCEPT ![f] = p] /\ earlier' = [earlier EXCEPT ![f] = NULL, ![p] = f]
          /\ first_frame' = f
      BY <2>2 DEF Insert, InsertBefore, f
    <3>6. /\ later' \in [Node -> Node \cup {NULL}] /\ earlier' \in [Node -> Node \cup {NULL}]
          /\ later'[f] = p /\ earlier'[f] = NULL /\ earlier'[p] = f
          /\ \A n \in Node : n # f => later'[n] = later[n]
          /\ \A n \in Node : n # f /\ n # p => earlier'[n] = earlier[n]
      BY <1>1, <1>2, <1>5, <3>5
    <3>7. FreeChain(x, free_frames', later) /\ Distinct(x) /\ Range(queue) \cap Range(x) = {} /\ f \notin Range(x)
      BY <1>1, <1>2, <3>3
    <3>8. /\ ~(j > 0) /\ j < Len(queue) /\ queue[j + 1] = p /\ Placed(queue, j, f, r)
          /\ first_frame' = IF j = 0 THEN f ELSE first_frame
          /\ last_frame' = IF j = Len(queue) THEN f ELSE last_frame
          /\ later'[f] = IF j = Len(queue) THEN NULL ELSE queue[j + 1]
          /\ earlier'[f] = IF j = 0 THEN NULL ELSE queue[j]
      BY <1>1, <1>3, <3>1, <3>2, <3>4, <3>5, <3>6
    <3>9. Lists' /\ Len(queue') = Len(queue) + 1 /\ Range(queue') = {f} \cup Range(queue)
      <4>1. /\ queue \in Seq(Node) /\ Distinct(queue) /\ f \in Node /\ f \notin Range(queue)
            /\ Chain(queue, first_frame, last_frame, later, earlier)
        BY <1>1, <1>2
      <4>2. /\ j > 0 => later'[queue[j]] = f
            /\ j < Len(queue) => earlier'[queue[j + 1]] = f
            /\ \A n \in Node : n # f /\ (j > 0 => n # queue[j]) => later'[n] = later[n]
            /\ \A n \in Node : n # f /\ (j < Len(queue) => n # queue[j + 1]) => earlier'[n] = earlier[n]
        BY <3>6, <3>8
      <4> QED BY <3>2, <3>3, <3>6, <3>7, <3>8, <4>1, <4>2, LinkedIn
    <3> QED BY <3>9
  <2> QED BY <2>1, <2>2
<1>7. heap' = Range(queue') \cup Range(free') \cup Held'
  BY <1>1, <1>6 DEF Inv
<1>8. Counts' /\ Accounted'
  <2>1. /\ {"frames_in", "frames_out"} \subseteq DOMAIN s'
        /\ s'.frames_in = s.frames_in /\ s'.frames_out = s.frames_out
    BY StartedKeeps DEF Insert, Inv, Counts
  <2> QED BY <1>1, <1>3, <1>6, <2>1 DEF Inv, Counts, Accounted
<1> QED BY <1>1, <1>6, <1>7, <1>8 DEF Inv

\* The search goes on, but not past the first frame.
LEMMA SearchOnInv ==
  ASSUME Inv, SearchOn
  PROVE  Inv'
<1>1. /\ p' = earlier[p] /\ earlier[p] # NULL /\ pc = "search"
      /\ UNCHANGED <<s, lists, frame, pc, fresh, world>>
  BY DEF SearchOn, Earlier
<1>2. earlier[p] \in Range(queue)
  <2>1. queue \in Seq(Node) /\ p \in Range(queue) /\ Chain(queue, first_frame, last_frame, later, earlier)
    BY <1>1 DEF Inv, Lists
  <2>2. PICK k \in 1 .. Len(queue) : queue[k] = p
    BY <2>1, InRange
  <2>3. earlier[p] = queue[k - 1] /\ k # 1
    BY <1>1, <2>1, <2>2 DEF Chain
  <2>4. k - 1 \in 1 .. Len(queue)
    BY <2>1, <2>2, <2>3, InRange
  <2> QED BY <2>1, <2>3, <2>4, InRange
<1>3. UNCHANGED <<queue, free, later, earlier, first_frame, last_frame, free_frames, heap, frame, pc, fresh, now, aside, s>>
  BY <1>1 DEF lists, world
<1> QED BY <1>1, <1>2, <1>3 DEF Inv, Lists, Held, Counts, Accounted

\* A frame is given out or cleared out.
LEMMA TakeOutInv ==
  ASSUME Inv, Dequeue, first_frame # NULL, pc \in {"idle", "clearing"}, pc' \in {"idle", "clearing"},
         frame' = frame, now' \in Nat, Counts',
         s'.frames_in = s.frames_in, s'.frames_out + aside' = s.frames_out + aside + 1
  PROVE  Inv'
<1>1. /\ Lists' /\ Len(queue') = Len(queue) - 1 /\ Len(queue) \in Nat
      /\ Range(queue') \cup Range(free') = Range(queue) \cup Range(free)
  BY DequeueLists DEF Inv
<1>2. heap' = heap /\ Held = {} /\ Held' = {}
  BY DEF Dequeue, Held
<1>3. Accounted'
  <2>1. s.frames_in = s.frames_out + Len(queue) + 0 + aside
    BY DEF Inv, Accounted
  <2>2. s.frames_in \in Int /\ s.frames_out \in Int /\ aside \in Int
    BY DEF Inv, Counts
  <2>3. s'.frames_out \in Int /\ aside' \in Int
    BY DEF Counts
  <2>4. s'.frames_in = s'.frames_out + Len(queue') + 0 + aside'
    <3>1. /\ Len(queue') = Len(queue) - 1 /\ Len(queue) \in Int
          /\ s'.frames_out + aside' = s.frames_out + aside + 1
      BY <1>1
    <3>2. s.frames_in = (s.frames_out + aside + 1) + (Len(queue) - 1)
      BY <2>1, <2>2, <3>1
    <3>3. s'.frames_in = (s'.frames_out + aside') + Len(queue')
      BY <3>1, <3>2
    <3>4. Len(queue') \in Int
      BY <3>1
    <3> QED BY <2>3, <3>3, <3>4
  <2> QED BY <2>4 DEF Accounted
<1> QED BY <1>1, <1>2, <1>3 DEF Inv

\* A frame is asked for: none, one to play, or one too late.
LEMMA GetInv == Inv /\ Get => Inv'
<1> SUFFICES ASSUME Inv, Get PROVE Inv'
  OBVIOUS
<1> USE PlayoutAssumption
<1>1. /\ {"frames_in", "frames_out"} \subseteq DOMAIN Advanced
      /\ Advanced.frames_in = s.frames_in /\ Advanced.frames_out = s.frames_out
  BY DEF Inv, Counts, Advanced
<1>2. /\ {"frames_in", "frames_out"} \subseteq DOMAIN Assessed
      /\ Assessed.frames_in = s.frames_in /\ Assessed.frames_out = s.frames_out
  BY <1>1, AssessKeeps DEF Assessed
<1>3. /\ s.frames_in \in Int /\ s.frames_out \in Int /\ aside \in Int /\ now \in Nat
  BY DEF Inv, Counts
<1>4. CASE FillIn
  <2>1. /\ UNCHANGED <<queue, free, later, earlier, first_frame, last_frame, free_frames, heap, frame, pc, fresh, p, aside>>
        /\ s' = Advanced /\ now' \in Nat
    BY <1>3, <1>4 DEF FillIn, lists, search, Tick
  <2> QED BY <1>1, <2>1 DEF Inv, Lists, Held, Counts, Accounted
<1>5. CASE GetControl
  <2>1. /\ Dequeue /\ first_frame # NULL /\ pc = "idle" /\ pc' = pc /\ frame' = frame /\ aside' = aside /\ now' \in Nat
        /\ s' = Out(Rewound(Advanced))
    BY <1>3, <1>5 DEF GetControl, Asked, Due, Tick, search
  <2>2. /\ {"frames_in", "frames_out"} \subseteq DOMAIN s'
        /\ s'.frames_in = s.frames_in /\ s'.frames_out = s.frames_out + 1
    BY <1>1, <2>1 DEF Out, Rewound
  <2>3. Counts' /\ s'.frames_out + aside' = s.frames_out + aside + 1
    BY <1>3, <2>1, <2>2 DEF Counts
  <2> QED BY <2>1, <2>2, <2>3, TakeOutInv
<1>6. CASE GetSpeech
  <2>1. /\ Dequeue /\ first_frame # NULL /\ pc = "idle" /\ pc' = pc /\ frame' = frame /\ aside' = aside /\ now' \in Nat
        /\ s' = Out([Assessed EXCEPT !.last_speech_sender_len = FrameLen])
    BY <1>3, <1>6 DEF GetSpeech, Asked, Due, Tick, search
  <2>2. /\ {"frames_in", "frames_out"} \subseteq DOMAIN s'
        /\ s'.frames_in = s.frames_in /\ s'.frames_out = s.frames_out + 1
    BY <1>2, <2>1 DEF Out
  <2>3. Counts' /\ s'.frames_out + aside' = s.frames_out + aside + 1
    BY <1>3, <2>1, <2>2 DEF Counts
  <2> QED BY <2>1, <2>2, <2>3, TakeOutInv
<1>7. CASE Drop
  <2>1. /\ Dequeue /\ first_frame # NULL /\ pc = "idle" /\ pc' = pc /\ frame' = frame /\ aside' = aside /\ now' \in Nat
        /\ s' = Out(Rewound(Assessed))
    BY <1>3, <1>7 DEF Drop, Asked, Due, search, world
  <2>2. /\ {"frames_in", "frames_out"} \subseteq DOMAIN s'
        /\ s'.frames_in = s.frames_in /\ s'.frames_out = s.frames_out + 1
    BY <1>2, <2>1 DEF Out, Rewound
  <2>3. Counts' /\ s'.frames_out + aside' = s.frames_out + aside + 1
    BY <1>3, <2>1, <2>2 DEF Counts
  <2> QED BY <2>1, <2>2, <2>3, TakeOutInv
<1> QED BY <1>4, <1>5, <1>6, <1>7 DEF Get

\* The first frame is cleared out, due or not.
LEMMA GetUnconditionalInv == Inv /\ GetUnconditional => Inv'
<1> SUFFICES ASSUME Inv, GetUnconditional PROVE Inv'
  OBVIOUS
<1>1. Counts' /\ s' = s /\ s'.frames_out + aside' = s.frames_out + aside + 1
  BY DEF Inv, Counts, GetUnconditional
<1> QED BY <1>1, TakeOutInv DEF Inv, GetUnconditional

\* Both lists become empty.
LEMMA EmptiedInv ==
  ASSUME Inv, queue' = <<>>, free' = <<>>, first_frame' = NULL, last_frame' = NULL, free_frames' = NULL,
         later' = later, earlier' = earlier, frame' = frame, now' = now,
         heap' = heap \ (Range(queue) \cup Range(free)), Held = {}, pc' \in {"idle", "gone"},
         Counts', Accounted'
  PROVE  Inv'
<1>1. /\ queue' \in Seq(Node) /\ free' \in Seq(Node) /\ Len(queue') = 0 /\ Len(free') = 0
      /\ Range(queue') = {} /\ Range(free') = {}
  BY EmptySeq DEF Range
<1>2. Lists'
  BY <1>1 DEF Inv, Lists, Chain, FreeChain, Distinct
<1> QED BY <1>1, <1>2 DEF Inv, Held

\* Every step keeps the invariant.
LEMMA NextInv == Inv /\ [Next]_vars => Inv'
<1> SUFFICES ASSUME Inv, [Next]_vars PROVE Inv'
  OBVIOUS
<1>1. ASSUME NEW no \in 1 .. Frames, Put(no) PROVE Inv'
  BY <1>1, PutLastInv, PutSearchInv
<1>2. ASSUME NEW no \in 1 .. Frames, PutFails(no) PROVE Inv'
  <2>1. /\ UNCHANGED <<queue, free, later, earlier, first_frame, last_frame, free_frames, heap, frame, pc, fresh, p, now>>
        /\ s' = [s EXCEPT !.frames_in = @ + 1] /\ aside' = aside + 1
    BY <1>2 DEF PutFails, lists, search
  <2>2. /\ {"frames_in", "frames_out"} \subseteq DOMAIN s'
        /\ s'.frames_in = s.frames_in + 1 /\ s'.frames_out = s.frames_out
    BY <2>1 DEF Inv, Counts
  <2>3. Len(queue) \in Nat
    BY InRange DEF Inv, Lists
  <2>4. /\ {"frames_in", "frames_out"} \subseteq DOMAIN s
        /\ s.frames_in \in Int /\ s.frames_out \in Int /\ aside \in Int /\ Accounted
    BY DEF Inv, Counts
  <2>5. Counts'
    BY <2>1, <2>2, <2>4 DEF Counts
  <2>6. Accounted'
    BY <2>1, <2>2, <2>3, <2>4 DEF Accounted
  <2> QED BY <2>1, <2>5, <2>6 DEF Inv, Lists, Held
<1>3. CASE SearchOn
  BY <1>3, SearchOnInv
<1>4. CASE Insert
  BY <1>4, InsertInv
<1>5. CASE Get
  BY <1>5, GetInv
<1>6. CASE GetUnconditional
  BY <1>6, GetUnconditionalInv
<1>7. CASE Restart
  <2>1. Range(queue) = {} /\ Len(queue) = 0 /\ queue = <<>> /\ Held = {}
    BY <1>7, EmptySeq DEF Restart, Range, Held
  <2>2. Counts' /\ Accounted'
    BY <1>7, <2>1 DEF Restart, Fresh, Counts, Accounted
  <2>3. heap' = heap \ (Range(queue) \cup Range(free))
    BY <1>7, <2>1 DEF Restart
  <2> QED BY <1>7, <2>1, <2>2, <2>3, EmptiedInv DEF Restart
<1>8. CASE Free
  <2>1. Held = {} /\ pc' = "gone" /\ s' = s /\ aside' = aside
    BY <1>8 DEF Free, Held, world
  <2>2. Counts' /\ Accounted'
    BY <2>1 DEF Inv, Counts, Accounted
  <2> QED BY <1>8, <2>1, <2>2, EmptiedInv DEF Free, world
<1>9. CASE UNCHANGED vars
  <2>1. UNCHANGED <<queue, free, later, earlier, first_frame, last_frame, free_frames, heap, frame, pc, fresh, p, now, s, aside>>
    BY <1>9 DEF vars, lists, search, world
  <2> QED BY <2>1 DEF Inv, Lists, Held, Counts, Accounted
<1> QED BY <1>1, <1>2, <1>3, <1>4, <1>5, <1>6, <1>7, <1>8, <1>9 DEF Next

-----------------------------------------------------------------------------
(* The clock *)

Fields == {"dynamic", "min_length", "max_length", "start", "frames_in", "frames_out", "frames_oos",
           "latest_expected", "last_speech_sender_stamp", "last_speech_sender_len", "not_first",
           "since_last_step", "state_just_in_time", "state_late", "target_buffer_length"}

\* The counters of a buffer that last played lp: frames fall due after the one
\* that was played last, or no earlier than the buffer has grown since.
ClockOf(r, lp) ==
  /\ DOMAIN r = Fields
  /\ {r.state_late, r.state_just_in_time} \subseteq 0 .. FullScale
  /\ r.last_speech_sender_stamp \in Int /\ r.target_buffer_length \in Int
  /\ r.min_length \in Nat /\ r.frames_oos \in Nat /\ r.start \in BOOLEAN
  /\ r.last_speech_sender_len = IF r.start THEN 0 ELSE FrameLen
  /\ lp.stamp \in Nat /\ lp.length \in Int
  /\ r.start => r.last_speech_sender_stamp = 0 /\ lp.stamp = 0
  /\ lp.stamp # 0 => r.last_speech_sender_stamp + r.target_buffer_length >= lp.stamp + lp.length

Clock == ClockOf(s, last_played)

Search0 == pc # "search" => fresh = NULL /\ p = NULL

\* What is left alone by the adaption of the length.
SameBuffer(r, q) ==
  /\ DOMAIN q = Fields
  /\ q.start = r.start /\ q.dynamic = r.dynamic /\ q.min_length = r.min_length
  /\ q.frames_oos = r.frames_oos /\ q.last_speech_sender_len = r.last_speech_sender_len
  /\ {q.state_late, q.state_just_in_time} \subseteq 0 .. FullScale

\* The scale of the filters.
LEMMA ScaleIsNat == FullScale \in Nat
BY SMT DEF FullScale

\* A filter stays in its range.
LEMMA LeakyRange ==
  ASSUME NEW x \in 0 .. FullScale, NEW b \in BOOLEAN
  PROVE  Leaky(x, b) \in 0 .. FullScale
<1>1. FullScale \in Nat
  BY ScaleIsNat
<1>2. CASE b
  <2>1. (FullScale - x) \div 256 \in 0 .. FullScale - x
    BY <1>1
  <2> QED BY <1>1, <1>2, <2>1 DEF Leaky
<1>3. CASE ~b
  <2>1. (0 - x) \div 256 \in -x .. 0
    BY <1>1
  <2> QED BY <1>1, <1>3, <2>1 DEF Leaky
<1> QED BY <1>2, <1>3

\* The length changes by n frames, and the clock by as much the other way.
LEMMA AssessClock ==
  ASSUME NEW r, NEW f, DOMAIN r = Fields,
         r.last_speech_sender_stamp \in Int, r.target_buffer_length \in Int,
         r.last_speech_sender_len = FrameLen,
         {r.state_late, r.state_just_in_time} \subseteq 0 .. FullScale
  PROVE  /\ SameBuffer(r, Assess(r, f))
         /\ \E d \in {-FrameLen, 0, FrameLen, 3 * FrameLen} :
              /\ Assess(r, f).last_speech_sender_stamp = r.last_speech_sender_stamp - d
              /\ Assess(r, f).target_buffer_length = r.target_buffer_length + d
<1> USE PlayoutAssumption
<1> DEFINE stamp == frame[f].receiver_stamp
           expected == IF r.not_first THEN r.latest_expected ELSE stamp + r.min_length
           a == [r EXCEPT !.not_first = TRUE,
                          !.state_late = Leaky(@, stamp > expected),
                          !.state_just_in_time = Leaky(@, stamp > expected - FrameLen),
                          !.latest_expected = expected + FrameLen]
           late == a.state_late > dropable_threshold
           n == CASE late /\ a.since_last_step < 10 /\ a.target_buffer_length < a.max_length - 2 -> 3
                  [] late /\ a.since_last_step >= 10 /\ a.target_buffer_length < a.max_length -> 1
                  [] ~late /\ a.since_last_step > 500 /\ a.state_just_in_time < dropable_threshold
                     /\ a.target_buffer_length > a.min_length -> -1
                  [] OTHER -> 0
           b == IF n = 0 THEN a ELSE Resize(a, n)
<1>1. Assess(r, f) = [b EXCEPT !.since_last_step = Wrapped(@)]
  BY DEF Assess
<1> DEFINE over == stamp > expected
           just == stamp > expected - FrameLen
<1>2. Leaky(r.state_late, over) \in 0 .. FullScale /\ Leaky(r.state_just_in_time, just) \in 0 .. FullScale
  <2>1. over \in BOOLEAN /\ just \in BOOLEAN
    OBVIOUS
  <2> HIDE DEF over, just
  <2> QED BY <2>1, LeakyRange
<1>3. /\ SameBuffer(r, a)
      /\ a.last_speech_sender_stamp = r.last_speech_sender_stamp
      /\ a.target_buffer_length = r.target_buffer_length
  BY <1>2 DEF SameBuffer, Fields
<1>4. n \in {-1, 0, 1, 3}
  OBVIOUS
<1> HIDE DEF a, n
<1>5. /\ SameBuffer(r, b)
      /\ b.last_speech_sender_stamp = r.last_speech_sender_stamp - n * FrameLen
      /\ b.target_buffer_length = r.target_buffer_length + n * FrameLen
  <2>1. CASE n = 0
    BY <1>3, <2>1
  <2>2. CASE n # 0
    <3>1. dropable_threshold \in 0 .. FullScale
      BY ScaleIsNat DEF dropable_threshold
    <3>2. b = Resize(a, n)
      BY <2>2
    <3> HIDE DEF b
    <3>3. n * FrameLen \in Int /\ FullScale \in Nat
      BY <1>4, ScaleIsNat
    <3>4. /\ DOMAIN b = Fields
          /\ b.start = a.start /\ b.dynamic = a.dynamic /\ b.min_length = a.min_length
          /\ b.frames_oos = a.frames_oos /\ b.last_speech_sender_len = a.last_speech_sender_len
          /\ b.state_late = 0 /\ b.state_just_in_time = dropable_threshold
          /\ b.last_speech_sender_stamp = a.last_speech_sender_stamp - n * a.last_speech_sender_len
          /\ b.target_buffer_length = a.target_buffer_length + n * FrameLen
      BY <1>3, <3>2 DEF Resize, SameBuffer, Fields
    <3> QED BY <1>3, <3>1, <3>3, <3>4 DEF SameBuffer
  <2> QED BY <2>1, <2>2
<1> HIDE DEF b
<1>6. /\ SameBuffer(r, Assess(r, f))
      /\ Assess(r, f).last_speech_sender_stamp = b.last_speech_sender_stamp
      /\ Assess(r, f).target_buffer_length = b.target_buffer_length
  BY <1>1, <1>5 DEF SameBuffer, Fields
<1>7. n * FrameLen \in {-FrameLen, 0, FrameLen, 3 * FrameLen}
  BY <1>4
<1> QED BY <1>5, <1>6, <1>7

\* The frame that is looked at is the first of the queue, and holds one of the sender's.
LEMMA FirstOf ==
  ASSUME Inv, first_frame # NULL
  PROVE  /\ Len(queue) \in Nat \ {0} /\ DOMAIN queue = 1 .. Len(queue) /\ queue # <<>>
         /\ first_frame = queue[1] /\ first_frame \in Node
         /\ First \in 1 .. Frames /\ Stamp(First) \in Nat /\ Stamp(First) >= FrameLen
<1> USE PlayoutAssumption
<1>1. queue \in Seq(Node) /\ queue # <<>> /\ first_frame = queue[1]
  BY DEF Inv, Lists, Chain
<1>2. Len(queue) \in Nat \ {0} /\ DOMAIN queue = 1 .. Len(queue) /\ queue[1] \in Node
  BY <1>1, InRange
<1>3. First \in 1 .. Frames
  BY <1>1, <1>2 DEF Inv, First
<1>4. First * FrameLen \in Nat /\ First * FrameLen >= FrameLen
  <2>1. PICK k \in Nat : First = k + 1
    BY <1>3
  <2>2. First * FrameLen = k * FrameLen + FrameLen /\ k * FrameLen \in Nat
    BY <2>1
  <2> QED BY <2>2
<1> QED BY <1>1, <1>2, <1>3, <1>4 DEF Stamp

\* Starting the clock.
LEMMA StartedClock ==
  ASSUME NEW r, NEW lp, ClockOf(r, lp), NEW no \in 1 .. Frames
  PROVE  ClockOf(Started(r, no), lp) /\ Started(r, no).frames_oos = r.frames_oos
<1>1. CASE r.start /\ Type(no) = "SPEECH"
  <2>1. Stamp(no) - FrameLen \in Int /\ FrameLen \in Nat
    BY PlayoutAssumption DEF Stamp
  <2>2. /\ DOMAIN Started(r, no) = Fields
        /\ Started(r, no).start = FALSE
        /\ Started(r, no).last_speech_sender_stamp = Stamp(no) - FrameLen - r.min_length
        /\ Started(r, no).last_speech_sender_len = FrameLen
        /\ Started(r, no).state_late = r.state_late /\ Started(r, no).state_just_in_time = r.state_just_in_time
        /\ Started(r, no).target_buffer_length = r.target_buffer_length
        /\ Started(r, no).min_length = r.min_length /\ Started(r, no).frames_oos = r.frames_oos
    BY <1>1 DEF ClockOf, Started, Fields
  <2> DEFINE q == Started(r, no)
  <2> HIDE DEF q
  <2>3. /\ DOMAIN q = Fields
        /\ q.start = FALSE
        /\ q.last_speech_sender_stamp = Stamp(no) - FrameLen - r.min_length
        /\ q.last_speech_sender_len = FrameLen
        /\ q.state_late = r.state_late /\ q.state_just_in_time = r.state_just_in_time
        /\ q.target_buffer_length = r.target_buffer_length
        /\ q.min_length = r.min_length /\ q.frames_oos = r.frames_oos
    BY <2>2 DEF q
  <2>4. q.last_speech_sender_stamp \in Int /\ lp.stamp = 0
    BY <1>1, <2>1, <2>3 DEF ClockOf
  <2>5. ClockOf(q, lp) /\ q.frames_oos = r.frames_oos
    BY <2>3, <2>4 DEF ClockOf
  <2> QED BY <2>5 DEF q
<1>2. CASE ~(r.start /\ Type(no) = "SPEECH")
  BY <1>2 DEF Started
<1> QED BY <1>1, <1>2

\* The clock when a frame has fallen due.
LEMMA DueClock ==
  ASSUME Inv, Clock, Due(Advanced.last_speech_sender_stamp)
  PROVE  /\ ~s.start
         /\ SameBuffer(s, Assessed)
         /\ Stamp(First) <= s.last_speech_sender_stamp + FrameLen
         /\ \E d \in {-FrameLen, 0, FrameLen, 3 * FrameLen} :
              /\ ~s.dynamic => d = 0
              /\ Assessed.last_speech_sender_stamp = s.last_speech_sender_stamp + FrameLen - d
              /\ Assessed.target_buffer_length = s.target_buffer_length + d
<1> USE PlayoutAssumption
<1>1. first_frame # NULL /\ Advanced.last_speech_sender_stamp >= Stamp(First)
  BY DEF Due, First
<1>2. Stamp(First) \in Nat /\ Stamp(First) >= FrameLen
  BY <1>1, FirstOf
<1>3. /\ SameBuffer(s, Advanced) /\ Advanced.target_buffer_length = s.target_buffer_length
      /\ Advanced.last_speech_sender_stamp = s.last_speech_sender_stamp + s.last_speech_sender_len
  BY DEF Clock, ClockOf, SameBuffer, Advanced, Fields
<1>4. ~s.start
  BY <1>1, <1>2, <1>3 DEF Clock, ClockOf
<1>5. Advanced.last_speech_sender_stamp = s.last_speech_sender_stamp + FrameLen
  BY <1>3, <1>4 DEF Clock, ClockOf
<1>6. CASE s.dynamic
  <2>0. /\ DOMAIN Advanced = Fields
        /\ Advanced.last_speech_sender_stamp \in Int /\ Advanced.target_buffer_length \in Int
        /\ Advanced.last_speech_sender_len = FrameLen
        /\ {Advanced.state_late, Advanced.state_just_in_time} \subseteq 0 .. FullScale
    BY <1>3, <1>4, <1>5 DEF Clock, ClockOf, SameBuffer
  <2>1. PICK d \in {-FrameLen, 0, FrameLen, 3 * FrameLen} :
          /\ Assess(Advanced, first_frame).last_speech_sender_stamp = Advanced.last_speech_sender_stamp - d
          /\ Assess(Advanced, first_frame).target_buffer_length = Advanced.target_buffer_length + d
    BY <2>0, AssessClock
  <2>2. SameBuffer(Advanced, Assess(Advanced, first_frame))
    BY <2>0, AssessClock
  <2>3. Assessed = Assess(Advanced, first_frame)
    BY <1>6 DEF Assessed
  <2>4. SameBuffer(s, Assessed)
    BY <1>3, <2>2, <2>3 DEF SameBuffer
  <2>5. /\ Assessed.last_speech_sender_stamp = s.last_speech_sender_stamp + FrameLen - d
        /\ Assessed.target_buffer_length = s.target_buffer_length + d
    <3>1. s.last_speech_sender_stamp \in Int /\ d \in Int
      BY DEF Clock, ClockOf
    <3> QED BY <1>3, <1>5, <2>1, <2>3, <3>1
  <2>6. Stamp(First) <= s.last_speech_sender_stamp + FrameLen
    BY <1>1, <1>5
  <2> QED BY <1>4, <1>6, <2>4, <2>5, <2>6
<1>7. CASE ~s.dynamic
  BY <1>1, <1>3, <1>4, <1>5, <1>7 DEF Assessed, Clock, ClockOf
<1> QED BY <1>6, <1>7

\* A buffer that is made or started again.
LEMMA FreshClock ==
  ASSUME NEW l \in Lengths
  PROVE  ClockOf(Fresh(l), [stamp |-> 0, length |-> 0])
<1>1. l.min \in Nat /\ l.max \in Nat
  BY PlayoutAssumption
<1>2. ((IF l.max > l.min THEN l.max ELSE l.min) - l.min) \div 2 \in Int
  BY <1>1
<1>3. FullScale \in Nat
  BY ScaleIsNat
<1> QED BY <1>1, <1>2, <1>3 DEF ClockOf, Fresh, Fields

\* At first no frame has fallen due, and nothing is being put in.
LEMMA InitClock == Init => Clock /\ Search0
BY FreshClock DEF Init, Clock, Search0

\* Every step keeps the clock.
LEMMA NextClock == Inv /\ Clock /\ Search0 /\ [Next]_vars => Clock' /\ Search0'
<1> SUFFICES ASSUME Inv, Clock, Search0, [Next]_vars PROVE Clock' /\ Search0'
  OBVIOUS
<1> USE PlayoutAssumption
<1>1. ASSUME NEW no \in 1 .. Frames, Put(no) PROVE Clock' /\ Search0'
  <2> DEFINE in == [s EXCEPT !.frames_in = @ + 1]
  <2>1. ClockOf(in, last_played)
    BY DEF Clock, ClockOf, Fields
  <2>2. ClockOf([in EXCEPT !.frames_oos = @ + 1], last_played)
    BY <2>1 DEF ClockOf, Fields
  <2>3. ClockOf(Started(in, no), last_played)
    BY <2>1, StartedClock
  <2> HIDE DEF in
  <2>4. last_played' = last_played /\ pc = "idle"
        /\ s' \in {Started(in, no), [in EXCEPT !.frames_oos = @ + 1]}
        /\ (pc' = "search" \/ UNCHANGED search)
    BY <1>1 DEF Put, Search, in
  <2>5. Search0'
    BY <2>4 DEF Search0, search
  <2> QED BY <2>2, <2>3, <2>4, <2>5 DEF Clock
<1>2. ASSUME NEW no \in 1 .. Frames, PutFails(no) PROVE Clock' /\ Search0'
  BY <1>2 DEF PutFails, Clock, ClockOf, Fields, Search0, search
<1>3. CASE SearchOn
  BY <1>3 DEF SearchOn, Clock, Search0, world
<1>4. CASE Insert
  <2>1. frame[fresh].no \in 1 .. Frames
    BY <1>4 DEF Inv, Insert
  <2>2. s' = Started(s, frame[fresh].no) /\ last_played' = last_played /\ Search0'
    BY <1>4 DEF Insert, world, Search0
  <2> QED BY <2>1, <2>2, StartedClock DEF Clock
<1>5. CASE FillIn
  BY <1>5 DEF FillIn, Clock, ClockOf, Advanced, Fields, Search0, search
<1>6. CASE GetControl
  <2>1. s' = Out(Rewound(Advanced)) /\ last_played' = last_played /\ Search0'
    BY <1>6 DEF GetControl, Search0, search
  <2>2. ClockOf(Out(Rewound(Advanced)), last_played)
    BY DEF Clock, ClockOf, Advanced, Rewound, Out, Fields
  <2> QED BY <2>1, <2>2 DEF Clock
<1>7. CASE GetSpeech
  <2>1. /\ s' = Out([Assessed EXCEPT !.last_speech_sender_len = FrameLen])
        /\ last_played' = [stamp |-> Stamp(First), length |-> s.target_buffer_length]
        /\ Search0' /\ Due(Advanced.last_speech_sender_stamp)
    BY <1>7 DEF GetSpeech, Search0, search
  <2>2. /\ ~s.start /\ SameBuffer(s, Assessed)
        /\ Stamp(First) <= s.last_speech_sender_stamp + FrameLen
    BY <2>1, DueClock
  <2>3. PICK d \in {-FrameLen, 0, FrameLen, 3 * FrameLen} :
          /\ Assessed.last_speech_sender_stamp = s.last_speech_sender_stamp + FrameLen - d
          /\ Assessed.target_buffer_length = s.target_buffer_length + d
    BY <2>1, DueClock
  <2>4. Stamp(First) \in Nat
    BY <2>1, FirstOf DEF Due
  <2> QED BY <2>1, <2>2, <2>3, <2>4 DEF Clock, ClockOf, SameBuffer, Out, Fields
<1>8. CASE Drop
  <2>1. /\ s' = Out(Rewound(Assessed)) /\ last_played' = last_played
        /\ Search0' /\ Due(Advanced.last_speech_sender_stamp)
    BY <1>8 DEF Drop, Search0, search, world
  <2>2. ~s.start /\ SameBuffer(s, Assessed)
    BY <2>1, DueClock
  <2>3. PICK d \in {-FrameLen, 0, FrameLen, 3 * FrameLen} :
          /\ Assessed.last_speech_sender_stamp = s.last_speech_sender_stamp + FrameLen - d
          /\ Assessed.target_buffer_length = s.target_buffer_length + d
    BY <2>1, DueClock
  <2> QED BY <2>1, <2>2, <2>3 DEF Clock, ClockOf, SameBuffer, Rewound, Out, Fields
<1>9. CASE GetUnconditional
  BY <1>9 DEF GetUnconditional, Clock, Search0
<1>10. CASE Restart
  BY <1>10, FreshClock DEF Restart, Clock, Search0
<1>11. CASE Free
  BY <1>11 DEF Free, Clock, Search0, world
<1>12. CASE UNCHANGED vars
  BY <1>12 DEF vars, search, world, Clock, Search0
<1> QED BY <1>1, <1>2, <1>3, <1>4, <1>5, <1>6, <1>7, <1>8, <1>9, <1>10, <1>11, <1>12 DEF Next, Get

-----------------------------------------------------------------------------
(* Frames that come in sequence *)

\* The stamps of the queue rise.
InOrder ==
  \A i, j \in 1 .. Len(queue) : i <= j => Stamp(frame[queue[i]].no) <= Stamp(frame[queue[j]].no)

\* A speech frame that is queued has not yet fallen due, unless it came too late
\* or one that was sent after it, or the same one, was played.
Awaited(r, lp, f) ==
  Type(frame[f].no) = "SPEECH" =>
    /\ ~r.start
    /\ \/ frame[f].late \/ Stamp(frame[f].no) <= lp.stamp
       \/ Stamp(frame[f].no) >= r.last_speech_sender_stamp + FrameLen

\* The clock of a buffer of fixed length shows whole frames.
WholeFrames(r) == r.start \/ \E k \in Int : r.last_speech_sender_stamp = k * FrameLen

\* The buffer has a fixed length, of whole frames, and frames came in sequence.
InSequence(r) == ~r.dynamic /\ r.min_length % FrameLen = 0 /\ r.frames_oos = 0

OnTime ==
  /\ pc = "search" => s.frames_oos # 0
  /\ s.frames_oos = 0 => InOrder
  /\ InSequence(s) => WholeFrames(s) /\ \A i \in 1 .. Len(queue) : Awaited(s, last_played, queue[i])

\* Of two multiples the larger is larger by a frame.
LEMMA Multiples ==
  ASSUME NEW a \in Int, NEW b \in Int, a * FrameLen < b * FrameLen
  PROVE  a * FrameLen + FrameLen <= b * FrameLen
<1> USE PlayoutAssumption
<1>1. FrameLen \in Nat \ {0}
  OBVIOUS
<1>2. a < b
  <2> SUFFICES ASSUME b <= a PROVE FALSE
    OBVIOUS
  <2>1. PICK c \in Nat : a = b + c
    <3>1. a - b \in Nat /\ a = b + (a - b)
      OBVIOUS
    <3> QED BY <3>1
  <2>2. a * FrameLen = b * FrameLen + c * FrameLen /\ c * FrameLen \in Nat
    BY <1>1, <2>1
  <2>3. b * FrameLen \in Int
    BY <1>1
  <2> QED BY <2>2, <2>3
<1>3. PICK c \in Nat : b = a + 1 + c
  <2>1. b - a - 1 \in Nat /\ b = a + 1 + (b - a - 1)
    BY <1>2
  <2> QED BY <2>1
<1>4. b * FrameLen = a * FrameLen + FrameLen + c * FrameLen /\ c * FrameLen \in Nat
  BY <1>1, <1>3
<1>5. a * FrameLen \in Int
  BY <1>1
<1> QED BY <1>1, <1>4, <1>5

\* A length of whole frames.
LEMMA WholeLength ==
  ASSUME NEW n \in Nat, n % FrameLen = 0
  PROVE  \E m \in Int : n = m * FrameLen
<1>1. n \div FrameLen \in Int /\ n = (n \div FrameLen) * FrameLen
  BY PlayoutAssumption
<1> QED BY <1>1

\* The first frame is taken out, and the clock goes on with the others awaited.
LEMMA OnTimeTakenOut ==
  ASSUME Inv, OnTime, Dequeue, first_frame # NULL, frame' = frame, pc' # "search",
         s'.frames_oos = s.frames_oos, s'.dynamic = s.dynamic, s'.min_length = s.min_length,
         InSequence(s) => /\ WholeFrames(s')
                          /\ \A i \in 2 .. Len(queue) : Awaited(s', last_played', queue[i])
  PROVE  OnTime'
<1>1. queue # <<>> /\ queue \in Seq(Node)
  BY DEF Inv, Lists, Chain
<1>2. /\ Len(queue') = Len(queue) - 1 /\ Len(queue) \in Nat \ {0}
      /\ \A i \in 1 .. Len(queue) - 1 : queue'[i] = queue[i + 1]
  BY <1>1, WithoutFirst DEF Dequeue
<1>3. \A i \in 1 .. Len(queue') : i + 1 \in 2 .. Len(queue) /\ i + 1 \in 1 .. Len(queue) /\ queue'[i] = queue[i + 1]
  BY <1>2
<1>4. s'.frames_oos = 0 => InOrder'
  <2> SUFFICES ASSUME s'.frames_oos = 0, NEW i \in 1 .. Len(queue'), NEW j \in 1 .. Len(queue'), i <= j
               PROVE  Stamp(frame[queue'[i]].no) <= Stamp(frame[queue'[j]].no)
    BY DEF InOrder, Stamp
  <2>1. InOrder /\ i + 1 <= j + 1
    BY <1>2 DEF OnTime
  <2> QED BY <1>3, <2>1 DEF InOrder
<1>5. InSequence(s') => WholeFrames(s') /\ \A i \in 1 .. Len(queue') : Awaited(s', last_played', queue'[i])
  BY <1>3 DEF InSequence
<1>6. InSequence(s)' => WholeFrames(s)' /\ \A i \in 1 .. Len(queue') : Awaited(s', last_played', queue'[i])
  BY <1>5 DEF InSequence, WholeFrames
<1>7. \A i \in 1 .. Len(queue') : Awaited(s', last_played', queue'[i]) => Awaited(s, last_played, queue[i])'
  BY DEF Awaited, Stamp, Type
<1> QED BY <1>4, <1>6, <1>7 DEF OnTime

\* A frame that comes in sequence goes to the end.
LEMMA OnTimePut ==
  ASSUME Inv, Clock, OnTime, NEW no \in 1 .. Frames, Put(no), LastFrame(no)
  PROVE  OnTime'
<1> USE PlayoutAssumption
<1> DEFINE f == Acquired
           in == [s EXCEPT !.frames_in = @ + 1]
<1>1. /\ pc = "idle" /\ pc' = "idle" /\ Held = {} /\ last_played' = last_played
      /\ AppendFrame(f) /\ Acquire /\ (free_frames # NULL \/ heap # Node)
      /\ frame' = [frame EXCEPT ![f] = [no |-> no, receiver_stamp |-> now, late |-> Late(no)]]
      /\ s' = Started(in, no)
  BY DEF Put, Inv, Held, search
<1>2. f \in Node /\ f \notin Range(queue)
  BY <1>1, AcquireLists DEF Inv
<1> HIDE DEF f
<1>3. /\ queue \in Seq(Node) /\ Len(queue) \in Nat /\ (queue = <<>> <=> Len(queue) = 0)
      /\ \A i \in 1 .. Len(queue) : queue[i] \in Node /\ queue[i] \in Range(queue)
      /\ last_frame = IF queue = <<>> THEN NULL ELSE queue[Len(queue)]
  BY InRange DEF Inv, Lists, Chain
<1>4. /\ Len(queue') = Len(queue) + 1 /\ queue'[Len(queue) + 1] = f
      /\ \A i \in 1 .. Len(queue) : queue'[i] = queue[i]
  BY <1>1, <1>2, <1>3, PlacedLast DEF AppendFrame, Placed
<1>5. /\ frame'[f].no = no /\ frame'[f].late = Late(no)
      /\ \A i \in 1 .. Len(queue) : frame'[queue[i]] = frame[queue[i]]
  BY <1>1, <1>2, <1>3 DEF Inv
<1>6. \A i \in 1 .. Len(queue) : Stamp(frame[queue[i]].no) \in Nat
  BY <1>3 DEF Inv, Stamp
<1>7. Stamp(no) \in Nat
  BY DEF Stamp
<1>8. /\ s'.frames_oos = s.frames_oos /\ s'.dynamic = s.dynamic /\ s'.min_length = s.min_length
      /\ IF s.start /\ Type(no) = "SPEECH"
         THEN ~s'.start /\ s'.last_speech_sender_stamp = Stamp(no) - FrameLen - s.min_length
         ELSE s'.start = s.start /\ s'.last_speech_sender_stamp = s.last_speech_sender_stamp
  BY <1>1 DEF Started, Clock, ClockOf, Fields
<1> HIDE DEF in
<1>9. s.frames_oos = 0 => InOrder'
  <2> SUFFICES ASSUME s.frames_oos = 0, NEW i \in 1 .. Len(queue'), NEW j \in 1 .. Len(queue'), i <= j
               PROVE  Stamp(frame'[queue'[i]].no) <= Stamp(frame'[queue'[j]].no)
    BY DEF InOrder, Stamp
  <2>1. InOrder
    BY DEF OnTime
  <2>2. CASE j \in 1 .. Len(queue)
    <3>1. i \in 1 .. Len(queue)
      BY <1>3, <1>4, <2>2
    <3> QED BY <1>4, <1>5, <2>1, <2>2, <3>1 DEF InOrder
  <2>3. CASE j = Len(queue) + 1 /\ i \in 1 .. Len(queue)
    <3>1. Len(queue) \in 1 .. Len(queue) /\ last_frame = queue[Len(queue)] /\ last_frame # NULL
      BY <1>3, <2>3
    <3>2. Stamp(frame[queue[i]].no) <= Stamp(frame[last_frame].no)
      BY <1>3, <2>1, <2>3, <3>1 DEF InOrder
    <3>3. Stamp(no) >= Stamp(frame[last_frame].no)
      BY <3>1 DEF LastFrame
    <3>4. Stamp(frame[queue[i]].no) <= Stamp(no)
      <4>1. /\ Stamp(frame[queue[i]].no) \in Int /\ Stamp(frame[last_frame].no) \in Int
            /\ Stamp(no) \in Int
        BY <1>6, <1>7, <2>3, <3>1
      <4> QED BY <3>2, <3>3, <4>1
    <3> QED BY <1>4, <1>5, <2>3, <3>4
  <2>4. CASE j = Len(queue) + 1 /\ i = Len(queue) + 1
    BY <1>4, <1>5, <1>7, <2>4
  <2> QED BY <1>3, <1>4, <2>2, <2>3, <2>4
<1>10. InSequence(s) => WholeFrames(s')
  <2> SUFFICES ASSUME InSequence(s) PROVE WholeFrames(s')
    OBVIOUS
  <2>1. WholeFrames(s)
    BY DEF OnTime
  <2>2. CASE s.start /\ Type(no) = "SPEECH"
    <3>1. PICK m \in Int : s.min_length = m * FrameLen
      BY WholeLength DEF InSequence, Clock, ClockOf
    <3>2. s'.last_speech_sender_stamp = (no - 1 - m) * FrameLen /\ no - 1 - m \in Int
      BY <1>8, <2>2, <3>1 DEF Stamp
    <3> QED BY <3>2 DEF WholeFrames
  <2>3. CASE ~(s.start /\ Type(no) = "SPEECH")
    BY <1>8, <2>1, <2>3 DEF WholeFrames
  <2> QED BY <2>2, <2>3
<1>11. ASSUME InSequence(s), NEW i \in 1 .. Len(queue') PROVE Awaited(s, last_played, queue[i])'
  <2>1. CASE i \in 1 .. Len(queue)
    <3>1. Awaited(s, last_played, queue[i])
      BY <1>11, <2>1 DEF OnTime
    <3>2. frame'[queue'[i]] = frame[queue[i]]
      BY <1>4, <1>5, <2>1
    <3> QED BY <1>1, <1>8, <3>1, <3>2 DEF Awaited, Stamp, Type
  <2>2. CASE i = Len(queue) + 1
    <3>1. frame'[queue'[i]].no = no /\ frame'[queue'[i]].late = Late(no)
      BY <1>4, <1>5, <2>2
    <3>2. s.start \/ s.last_speech_sender_len = FrameLen
      BY DEF Clock, ClockOf
    <3>3. s.min_length \in Nat /\ s.last_speech_sender_stamp \in Int
      BY DEF Clock, ClockOf
    <3>4. Type(no) = "SPEECH" => /\ ~s'.start
                                 /\ Late(no) \/ Stamp(no) >= s'.last_speech_sender_stamp + FrameLen
      BY <1>7, <1>8, <3>2, <3>3 DEF Late
    <3> QED BY <3>1, <3>4 DEF Awaited, Stamp, Type
  <2> QED BY <1>3, <1>4, <2>1, <2>2
<1>12. InSequence(s)' = InSequence(s) /\ WholeFrames(s)' = WholeFrames(s')
  BY <1>8 DEF InSequence, WholeFrames
<1> QED BY <1>1, <1>8, <1>9, <1>10, <1>11, <1>12 DEF OnTime

\* A frame is asked for.
LEMMA OnTimeGet ==
  ASSUME Inv, Clock, OnTime, Get
  PROVE  OnTime'
<1> USE PlayoutAssumption
<1> DEFINE due == s.last_speech_sender_stamp + FrameLen
<1>1. /\ queue \in Seq(Node) /\ Len(queue) \in Nat /\ (queue = <<>> <=> Len(queue) = 0)
      /\ \A i \in 1 .. Len(queue) : queue[i] \in Node
      /\ first_frame = IF queue = <<>> THEN NULL ELSE queue[1]
  BY InRange DEF Inv, Lists, Chain
<1>2. \A i \in 1 .. Len(queue) : frame[queue[i]].no \in Int /\ Stamp(frame[queue[i]].no) \in Nat
  BY <1>1 DEF Inv, Stamp
<1>3. /\ Advanced.frames_oos = s.frames_oos /\ Advanced.dynamic = s.dynamic
      /\ Advanced.min_length = s.min_length /\ Advanced.start = s.start
      /\ Advanced.last_speech_sender_len = s.last_speech_sender_len
      /\ Advanced.last_speech_sender_stamp = s.last_speech_sender_stamp + s.last_speech_sender_len
      /\ DOMAIN Advanced = Fields
  BY DEF Clock, ClockOf, Advanced, Fields
<1>4. /\ s.last_speech_sender_stamp \in Int /\ last_played.stamp \in Nat /\ s.start \in BOOLEAN
      /\ s.last_speech_sender_len = IF s.start THEN 0 ELSE FrameLen
  BY DEF Clock, ClockOf
<1>5. ASSUME NEW i \in 1 .. Len(queue), InSequence(s), ~s.start, Stamp(frame[queue[i]].no) > due
      PROVE  Stamp(frame[queue[i]].no) >= due + FrameLen
  <2>1. PICK k \in Int : s.last_speech_sender_stamp = k * FrameLen
    BY <1>5 DEF OnTime, WholeFrames
  <2>2. due = (k + 1) * FrameLen /\ k + 1 \in Int
    BY <2>1
  <2> HIDE DEF due
  <2> QED BY <1>2, <1>5, <2>2, Multiples DEF Stamp
<1>6. ASSUME InSequence(s), ~s.start PROVE \E k \in Int : due = k * FrameLen
  <2>1. PICK k \in Int : s.last_speech_sender_stamp = k * FrameLen
    BY <1>6 DEF OnTime, WholeFrames
  <2>2. due = (k + 1) * FrameLen /\ k + 1 \in Int
    BY <2>1
  <2> QED BY <2>2
<1>7. CASE FillIn
  <2>1. /\ s' = Advanced /\ UNCHANGED <<queue, frame, pc, last_played>>
        /\ ~Due(Advanced.last_speech_sender_stamp)
    BY <1>7 DEF FillIn, lists, search
  <2>2. s.frames_oos = 0 => InOrder'
    BY <2>1 DEF OnTime, InOrder, Stamp
  <2>3. ASSUME InSequence(s) PROVE WholeFrames(Advanced)
    BY <1>3, <1>4, <1>6, <2>3 DEF WholeFrames
  <2>4. ASSUME InSequence(s), NEW i \in 1 .. Len(queue) PROVE Awaited(Advanced, last_played, queue[i])
    <3>1. Awaited(s, last_played, queue[i])
      BY <2>4 DEF OnTime
    <3>2. CASE s.start
      BY <3>1, <3>2 DEF Awaited
    <3>3. CASE ~s.start
      <4>1. 1 \in 1 .. Len(queue) /\ 1 <= i /\ first_frame = queue[1] /\ first_frame # NULL
        BY <1>1
      <4>2. Stamp(frame[queue[1]].no) <= Stamp(frame[queue[i]].no)
        BY <2>4, <4>1 DEF OnTime, InSequence, InOrder
      <4>3. Stamp(frame[queue[1]].no) > due
        BY <1>2, <1>3, <1>4, <2>1, <3>3, <4>1 DEF Due
      <4>4. Stamp(frame[queue[i]].no) >= due + FrameLen
        BY <1>2, <1>4, <1>5, <2>4, <3>3, <4>1, <4>2, <4>3
      <4> QED BY <1>3, <1>4, <3>3, <4>4 DEF Awaited
    <3> QED BY <3>2, <3>3
  <2>5. InSequence(s)' = InSequence(s) /\ WholeFrames(s)' = WholeFrames(Advanced)
    BY <1>3, <2>1 DEF InSequence, WholeFrames
  <2>6. \A i \in 1 .. Len(queue) : Awaited(Advanced, last_played, queue[i]) => Awaited(s, last_played, queue[i])'
    BY <2>1 DEF Awaited, Stamp, Type
  <2> QED BY <1>3, <2>1, <2>2, <2>3, <2>4, <2>5, <2>6 DEF OnTime
<1>8. CASE GetControl
  <2>1. /\ Dequeue /\ first_frame # NULL /\ pc' = pc /\ pc = "idle" /\ frame' = frame /\ last_played' = last_played
        /\ s' = Out(Rewound(Advanced))
    BY <1>8 DEF GetControl, Asked, Due, search
  <2>2. /\ s'.frames_oos = s.frames_oos /\ s'.dynamic = s.dynamic /\ s'.min_length = s.min_length
        /\ s'.start = s.start /\ s'.last_speech_sender_stamp = s.last_speech_sender_stamp
    BY <1>3, <1>4, <2>1 DEF Out, Rewound, Fields
  <2>3. InSequence(s) => WholeFrames(s') /\ \A i \in 2 .. Len(queue) : Awaited(s', last_played', queue[i])
    BY <1>1, <2>1, <2>2 DEF OnTime, WholeFrames, Awaited
  <2> QED BY <2>1, <2>2, <2>3, OnTimeTakenOut
<1>9. CASE GetSpeech
  <2>1. /\ Dequeue /\ first_frame # NULL /\ pc' = pc /\ pc = "idle" /\ frame' = frame
        /\ last_played' = [stamp |-> Stamp(First), length |-> s.target_buffer_length]
        /\ s' = Out([Assessed EXCEPT !.last_speech_sender_len = FrameLen])
        /\ Due(Advanced.last_speech_sender_stamp) /\ ~TooLate(Assessed)
    BY <1>9 DEF GetSpeech, Asked, Due, search
  <2>2. ~s.start /\ SameBuffer(s, Assessed) /\ Stamp(First) <= due
    BY <2>1, DueClock
  <2>3. ~s.dynamic => Assessed.last_speech_sender_stamp = due
    BY <2>1, DueClock, <1>4
  <2>4. /\ s'.frames_oos = s.frames_oos /\ s'.dynamic = s.dynamic /\ s'.min_length = s.min_length
        /\ s'.start = s.start /\ (~s.dynamic => s'.last_speech_sender_stamp = due)
    BY <2>1, <2>2, <2>3 DEF Out, SameBuffer, Fields
  <2>5. First = frame[queue[1]].no /\ 1 \in 1 .. Len(queue)
    BY <1>1, <2>1 DEF First
  <2>6. ASSUME InSequence(s), NEW i \in 2 .. Len(queue) PROVE Awaited(s', last_played', queue[i])
    <3>1. i \in 1 .. Len(queue) /\ 1 <= i
      BY <1>1
    <3>2. ~(Stamp(First) < due)
      BY <2>1, <2>3, <2>6 DEF TooLate, InSequence
    <3>3. Stamp(First) = due
      <4>1. Stamp(First) \in Int /\ due \in Int
        BY <1>2, <1>4, <2>5
      <4> HIDE DEF due, Stamp, First
      <4> QED BY <2>2, <3>2, <4>1
    <3>4. Stamp(First) <= Stamp(frame[queue[i]].no)
      BY <2>5, <2>6, <3>1 DEF OnTime, InSequence, InOrder
    <3>5. Stamp(frame[queue[i]].no) = due \/ Stamp(frame[queue[i]].no) >= due + FrameLen
      <4>1. Stamp(frame[queue[i]].no) > due => Stamp(frame[queue[i]].no) >= due + FrameLen
        BY <1>5, <2>2, <2>6, <3>1
      <4>2. Stamp(frame[queue[i]].no) \in Nat /\ due \in Int
        BY <1>2, <1>4, <3>1
      <4> HIDE DEF due, Stamp
      <4> QED BY <3>3, <3>4, <4>1, <4>2
    <3>6. last_played'.stamp = due /\ s'.last_speech_sender_stamp = due
      BY <2>1, <2>4, <2>6, <3>3 DEF InSequence
    <3> HIDE DEF due, Stamp
    <3>7. Stamp(frame[queue[i]].no) <= last_played'.stamp
          \/ Stamp(frame[queue[i]].no) >= s'.last_speech_sender_stamp + FrameLen
      BY <1>2, <3>1, <3>5, <3>6
    <3> QED BY <2>2, <2>4, <3>7 DEF Awaited
  <2>7. InSequence(s) => WholeFrames(s')
    BY <1>6, <2>2, <2>4 DEF WholeFrames, InSequence
  <2> QED BY <2>1, <2>4, <2>6, <2>7, OnTimeTakenOut
<1>10. CASE Drop
  <2>1. /\ Dequeue /\ first_frame # NULL /\ pc' = pc /\ pc = "idle" /\ frame' = frame /\ last_played' = last_played
        /\ s' = Out(Rewound(Assessed)) /\ Due(Advanced.last_speech_sender_stamp)
    BY <1>10 DEF Drop, Asked, Due, search, world
  <2>2. ~s.start /\ SameBuffer(s, Assessed)
    BY <2>1, DueClock
  <2>3. ~s.dynamic => Assessed.last_speech_sender_stamp = due
    BY <2>1, DueClock, <1>4
  <2>4. /\ s'.frames_oos = s.frames_oos /\ s'.dynamic = s.dynamic /\ s'.min_length = s.min_length
        /\ s'.start = s.start /\ (~s.dynamic => s'.last_speech_sender_stamp = s.last_speech_sender_stamp)
    BY <1>4, <2>1, <2>2, <2>3 DEF Out, Rewound, SameBuffer, Fields
  <2>5. InSequence(s) => WholeFrames(s') /\ \A i \in 2 .. Len(queue) : Awaited(s', last_played', queue[i])
    BY <1>1, <2>1, <2>4 DEF OnTime, WholeFrames, Awaited, InSequence
  <2> QED BY <2>1, <2>4, <2>5, OnTimeTakenOut
<1> QED BY <1>7, <1>8, <1>9, <1>10 DEF Get

\* Every step keeps the frames on time.
LEMMA NextOnTime == Inv /\ Clock /\ OnTime /\ [Next]_vars => OnTime'
<1> SUFFICES ASSUME Inv, Clock, OnTime, [Next]_vars PROVE OnTime'
  OBVIOUS
<1> USE PlayoutAssumption
<1>1. ASSUME NEW no \in 1 .. Frames, Put(no) PROVE OnTime'
  <2>1. CASE LastFrame(no)
    BY <1>1, <2>1, OnTimePut
  <2>2. CASE ~LastFrame(no)
    <3>1. s'.frames_oos = s.frames_oos + 1
      BY <1>1, <2>2 DEF Put, Clock, ClockOf, Fields
    <3>2. s'.frames_oos # 0
      BY <3>1 DEF Clock, ClockOf
    <3> QED BY <3>2 DEF OnTime, InSequence
  <2> QED BY <2>1, <2>2
<1>2. ASSUME UNCHANGED <<queue, frame, last_played>>, pc' # "search",
             s'.frames_oos = s.frames_oos, s'.dynamic = s.dynamic, s'.min_length = s.min_length,
             s'.start = s.start, s'.last_speech_sender_stamp = s.last_speech_sender_stamp
      PROVE  OnTime'
  BY <1>2 DEF OnTime, InSequence, InOrder, WholeFrames, Awaited, Stamp, Type
<1>3. ASSUME NEW no \in 1 .. Frames, PutFails(no) PROVE OnTime'
  <2>1. /\ UNCHANGED <<queue, frame, last_played>> /\ pc' # "search"
        /\ s'.frames_oos = s.frames_oos /\ s'.dynamic = s.dynamic /\ s'.min_length = s.min_length
        /\ s'.start = s.start /\ s'.last_speech_sender_stamp = s.last_speech_sender_stamp
    BY <1>3 DEF PutFails, lists, search, Clock, ClockOf, Fields
  <2> QED BY <1>2, <2>1
<1>4. CASE SearchOn
  <2>1. s' = s /\ s.frames_oos # 0
    BY <1>4 DEF SearchOn, OnTime
  <2> QED BY <2>1 DEF OnTime, InSequence
<1>5. CASE Insert
  <2>1. s'.frames_oos = s.frames_oos /\ s.frames_oos # 0
    BY <1>5 DEF Insert, OnTime, Started
  <2> QED BY <2>1 DEF OnTime, InSequence
<1>6. CASE Get
  BY <1>6, OnTimeGet
<1>7. CASE GetUnconditional
  <2>1. /\ Dequeue /\ first_frame # NULL /\ pc' # "search" /\ frame' = frame /\ last_played' = last_played /\ s' = s
    BY <1>7 DEF GetUnconditional
  <2>2. InSequence(s) => WholeFrames(s') /\ \A i \in 2 .. Len(queue) : Awaited(s', last_played', queue[i])
    <3>1. Len(queue) \in Nat
      BY InRange DEF Inv, Lists
    <3> QED BY <2>1, <3>1 DEF OnTime
  <2> QED BY <2>1, <2>2, OnTimeTakenOut
<1>8. CASE Restart
  <2>1. queue' = queue /\ queue = <<>> /\ Len(queue) = 0 /\ pc' = "idle"
    BY <1>8, InRange DEF Restart, Inv, Lists
  <2>2. s'.start
    BY <1>8 DEF Restart, Fresh
  <2> QED BY <2>1, <2>2 DEF OnTime, InOrder, WholeFrames
<1>9. CASE Free
  <2>1. Len(queue') = 0 /\ s' = s /\ pc' = "gone"
    BY <1>9 DEF Free
  <2>2. InSequence(s) => WholeFrames(s)
    BY DEF OnTime
  <2>3. InSequence(s)' = InSequence(s) /\ WholeFrames(s)' = WholeFrames(s)
    BY <2>1 DEF InSequence, WholeFrames
  <2> QED BY <2>1, <2>2, <2>3 DEF OnTime, InOrder
<1>10. CASE UNCHANGED vars
  BY <1>10 DEF vars, lists, search, world, OnTime, InSequence, InOrder, WholeFrames, Awaited, Stamp, Type
<1> QED BY <1>1, <1>3, <1>4, <1>5, <1>6, <1>7, <1>8, <1>9, <1>10 DEF Next

\* At first no frame is queued.
LEMMA InitOnTime == Init => OnTime
<1> SUFFICES ASSUME Init PROVE OnTime
  OBVIOUS
<1>1. Len(queue) = 0 /\ pc = "idle" /\ s.start
  BY DEF Init, Fresh
<1> QED BY <1>1 DEF OnTime, InOrder, WholeFrames

-----------------------------------------------------------------------------
(* Theorems *)

\* The queue can be walked from both ends and the free list from its beginning,
\* whatever is put in, taken out, cleared out or started again.
THEOREM ListsWhole == Spec => []Linked
<1>1. Inv => Linked
  BY ListsAre DEF Inv
<1> QED BY InitInv, NextInv, <1>1, PTL DEF Spec

\* No allocated frame is lost, or in two places.
THEOREM FramesKept == Spec => []NoLeak
<1>1. Inv => NoLeak
  BY DEF Inv, Lists, NoLeak
<1> QED BY InitInv, NextInv, <1>1, PTL DEF Spec

\* Every frame that was put in is inside or has come out once.
THEOREM FramesAccounted == Spec => []Accounted
<1>1. Inv => Accounted
  BY DEF Inv
<1> QED BY InitInv, NextInv, <1>1, PTL DEF Spec

\* Pointers point at frames or nowhere, the filters stay in their range, and the
\* search of playout_put() never walks off the list.
THEOREM TypeCorrect == Spec => []TypeOK
<1>1. ASSUME Inv, Clock, Search0 PROVE TypeOK
  <2>1. DOMAIN s = DOMAIN Fresh([min |-> 0, max |-> 0])
    BY <1>1 DEF Clock, ClockOf, Fields, Fresh
  <2>2. {s.state_late, s.state_just_in_time} \subseteq 0 .. FullScale
    BY <1>1 DEF Clock, ClockOf
  <2>3. {first_frame, last_frame, free_frames} \subseteq Node \cup {NULL}
    <3>1. first_frame \in Node \cup {NULL} /\ last_frame \in Node \cup {NULL}
      BY <1>1, InRange DEF Inv, Lists, Chain
    <3>2. free_frames \in Node \cup {NULL}
      BY <1>1, InRange DEF Inv, Lists, FreeChain
    <3> QED BY <3>1, <3>2
  <2>4. p \in Range(queue) => p \in Node
    BY <1>1, InRange DEF Inv, Lists
  <2>5. /\ later \in [Node -> Node \cup {NULL}] /\ earlier \in [Node -> Node \cup {NULL}]
        /\ frame \in [Node -> [no : 1 .. Frames, receiver_stamp : Nat, late : BOOLEAN]]
        /\ heap \subseteq Node /\ pc \in {"idle", "search", "clearing", "gone"}
    BY <1>1 DEF Inv, Lists
  <2>6. IF pc = "search" THEN {fresh, p} \subseteq Node ELSE {fresh, p} = {NULL}
    BY <1>1, <2>4 DEF Inv, Search0
  <2> QED BY <2>1, <2>2, <2>3, <2>5, <2>6 DEF TypeOK
<1> QED BY InitInv, NextInv, InitClock, NextClock, <1>1, PTL DEF Spec

\* Speech is played in the sender's order, but for what the buffer has grown.
THEOREM SpeechGoesForward == Spec => PlaysForward
<1>1. ASSUME Inv, Clock, GetSpeech, last_played.stamp # 0
      PROVE  Stamp(First) + s'.target_buffer_length > last_played.stamp + last_played.length
  <2>1. /\ s' = Out([Assessed EXCEPT !.last_speech_sender_len = FrameLen])
        /\ Due(Advanced.last_speech_sender_stamp) /\ ~TooLate(Assessed)
    BY <1>1 DEF GetSpeech
  <2>2. SameBuffer(s, Assessed)
    BY <1>1, <2>1, DueClock
  <2>3. PICK d \in {-FrameLen, 0, FrameLen, 3 * FrameLen} :
          /\ Assessed.last_speech_sender_stamp = s.last_speech_sender_stamp + FrameLen - d
          /\ Assessed.target_buffer_length = s.target_buffer_length + d
    BY <1>1, <2>1, DueClock
  <2>4. Stamp(First) \in Nat /\ FrameLen \in Nat \ {0} /\ d \in Int
    BY <1>1, <2>1, FirstOf, PlayoutAssumption DEF Due
  <2>5. s'.target_buffer_length = s.target_buffer_length + d
    BY <2>1, <2>2, <2>3 DEF Out, SameBuffer, Fields
  <2>6. /\ s.last_speech_sender_stamp \in Int /\ s.target_buffer_length \in Int
        /\ last_played.stamp \in Nat /\ last_played.length \in Int
        /\ s.last_speech_sender_stamp + s.target_buffer_length >= last_played.stamp + last_played.length
    BY <1>1 DEF Clock, ClockOf
  <2>7. Stamp(First) >= s.last_speech_sender_stamp + FrameLen - d
    BY <2>1, <2>3, <2>4, <2>6 DEF TooLate
  <2> HIDE DEF Stamp, First
  <2> QED BY <2>4, <2>5, <2>6, <2>7
<1>2. Inv /\ Clock /\ [Next]_vars
      => [GetSpeech => \/ last_played.stamp = 0
                       \/ Stamp(First) + s'.target_buffer_length > last_played.stamp + last_played.length]_vars
  BY <1>1
<1> QED BY InitInv, NextInv, InitClock, NextClock, <1>2, PTL DEF Spec, PlaysForward

\* A buffer of fixed length, of whole frames, drops no frame that came in
\* sequence and in time and that was not played before.
THEOREM DropsForCause == Spec => DroppedForCause
<1>1. ASSUME Inv, Clock, OnTime, Drop
      PROVE  \/ s.dynamic \/ s.frames_oos > 0 \/ s.min_length % FrameLen # 0
             \/ frame[first_frame].late \/ Stamp(First) <= last_played.stamp
  <2> SUFFICES ASSUME ~s.dynamic, ~(s.frames_oos > 0), s.min_length % FrameLen = 0, ~frame[first_frame].late
               PROVE  Stamp(First) <= last_played.stamp
    OBVIOUS
  <2>1. InSequence(s)
    BY <1>1 DEF InSequence, Clock, ClockOf
  <2>2. /\ Due(Advanced.last_speech_sender_stamp) /\ first_frame # NULL
        /\ Type(First) = "SPEECH" /\ TooLate(Assessed)
    BY <1>1 DEF Drop, Due
  <2>3. first_frame = queue[1] /\ 1 \in 1 .. Len(queue) /\ Stamp(First) \in Nat
    BY <1>1, <2>2, FirstOf
  <2>4. Awaited(s, last_played, first_frame)
    BY <1>1, <2>1, <2>3 DEF OnTime
  <2>5. s.last_speech_sender_stamp \in Int /\ FrameLen \in Nat
    BY <1>1, PlayoutAssumption DEF Clock, ClockOf
  <2>6. Assessed.last_speech_sender_stamp = s.last_speech_sender_stamp + FrameLen
    BY <1>1, <2>2, <2>5, DueClock
  <2>7. Stamp(First) < s.last_speech_sender_stamp + FrameLen
    BY <2>2, <2>6 DEF TooLate
  <2> QED BY <2>2, <2>3, <2>4, <2>5, <2>7 DEF Awaited, First
<1>2. Inv /\ Clock /\ OnTime /\ [Next]_vars
      => [Drop => \/ s.dynamic \/ s.frames_oos > 0 \/ s.min_length % FrameLen # 0
                  \/ frame[first_frame].late \/ Stamp(First) <= last_played.stamp]_vars
  BY <1>1
<1> QED BY InitInv, NextInv, InitClock, NextClock, InitOnTime, NextOnTime, <1>2, PTL DEF Spec, DroppedForCause
=============================================================================
