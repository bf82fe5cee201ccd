----------------------------- MODULE QueueFacts -----------------------------
(***************************************************************************)
(* Facts about queues from which any member may leave, and about parts of  *)
(* a stack, that the proofs about the components cite.                     *)
(***************************************************************************)
EXTENDS SequenceTheorems, TLAPS

\* Places behind the one at i.
LEMMA BehindOne ==
  ASSUME NEW n \in Nat, NEW i \in 1..n, NEW j \in 1..(n - 1), ~(j < i)
  PROVE  /\ ~(j <= i - 1) /\ j - (i - 1) \in 1..(n - i)
         /\ i + (j - (i - 1)) = j + 1 /\ j + 1 \in 1..n /\ j + 1 # i
OBVIOUS

\* A queue without the one at i.
Less(q, i) == SubSeq(q, 1, i - 1) \o SubSeq(q, i + 1, Len(q))

\* What is left of a queue when the one at i has gone: the others, where they were or one
\* place ahead.
LEMMA OthersRemain ==
  ASSUME NEW S, NEW q \in Seq(S), NEW i \in DOMAIN q
  PROVE  /\ Less(q, i) \in Seq(S) /\ Len(Less(q, i)) = Len(q) - 1
         /\ \A j \in 1..Len(q) - 1 :
              LET k == IF j < i THEN j ELSE j + 1
              IN k \in 1..Len(q) /\ k # i /\ Less(q, i)[j] = q[k]
<1> DEFINE r == Less(q, i)
           a == SubSeq(q, 1, i - 1)
           b == SubSeq(q, i + 1, Len(q))
           from(j) == IF j < i THEN j ELSE j + 1
<1>1. /\ Len(q) \in Nat /\ DOMAIN q = 1..Len(q) /\ i \in 1..Len(q)
      /\ \A j \in 1..Len(q) : q[j] \in S
  BY LenProperties, ElementOfSeq
<1>2. /\ a \in Seq(S) /\ Len(a) = i - 1
      /\ \A j \in 1..(i - 1) : a[j] = q[j]
  <2>1. \A j \in 1..(i - 1) : q[j] \in S
    BY <1>1
  <2> QED
    BY <1>1, <2>1, SubSeqProperties
<1>3. /\ b \in Seq(S) /\ Len(b) = Len(q) - i
      /\ \A j \in 1..(Len(q) - i) : b[j] = q[i + j]
  <2>1. \A j \in (i + 1)..Len(q) : q[j] \in S
    BY <1>1
  <2>2. /\ b \in Seq(S)
        /\ Len(b) = IF i + 1 <= Len(q) THEN Len(q) - (i + 1) + 1 ELSE 0
        /\ \A j \in 1..(Len(q) - (i + 1) + 1) : b[j] = q[(i + 1) + j - 1]
    BY <1>1, <2>1, SubSeqProperties
  <2>3. \A j \in 1..(Len(q) - i) : (i + 1) + j - 1 = i + j
    BY <1>1
  <2>4. Len(b) = Len(q) - i /\ Len(q) - (i + 1) + 1 = Len(q) - i
    BY <1>1, <2>2
  <2> HIDE DEF b
  <2>5. ASSUME NEW j \in 1..(Len(q) - i) PROVE b[j] = q[i + j]
    BY <2>2, <2>3, <2>4
  <2> QED
    BY <2>2, <2>4, <2>5
<1> HIDE DEF a, b
<1>4. r = a \o b
  BY DEF a, b, Less
<1> HIDE DEF r
<1>5. /\ r \in Seq(S) /\ Len(r) = Len(q) - 1
      /\ \A j \in 1..(Len(q) - 1) : r[j] = IF j <= i - 1 THEN a[j] ELSE b[j - (i - 1)]
  <2>1. /\ r \in Seq(S) /\ Len(r) = Len(a) + Len(b)
        /\ \A j \in 1..(Len(a) + Len(b)) : r[j] = IF j <= Len(a) THEN a[j] ELSE b[j - Len(a)]
    <3>1. a \in Seq(S) /\ b \in Seq(S)
      BY <1>2, <1>3
    <3>2. /\ a \o b \in Seq(S) /\ Len(a \o b) = Len(a) + Len(b)
          /\ \A j \in 1..Len(a) + Len(b) :
               (a \o b)[j] = IF j <= Len(a) THEN a[j] ELSE b[j - Len(a)]
      BY <3>1, ConcatProperties, Zenon
    <3> QED
      BY <3>2, <1>4, Zenon
  <2>2. Len(a) + Len(b) = Len(q) - 1
    BY <1>1, <1>2, <1>3
  <2> QED
    BY <1>2, <2>1, <2>2
<1>6. DOMAIN r = 1..(Len(q) - 1)
  BY <1>5, LenProperties
<1>7. ASSUME NEW j \in DOMAIN r PROVE from(j) \in 1..Len(q) /\ from(j) # i /\ r[j] = q[from(j)]
  <2>1. CASE j < i
    <3>1. j <= i - 1 /\ j \in 1..(i - 1)
      BY <1>1, <1>6, <2>1
    <3> QED
      BY <1>1, <1>2, <1>5, <1>6, <2>1, <3>1
  <2>2. CASE ~(j < i)
    <3>0. j \in 1..(Len(q) - 1) /\ i \in 1..Len(q) /\ Len(q) \in Nat
      BY <1>1, <1>6
    <3> DEFINE k == j - (i - 1)
    <3>1. /\ ~(j <= i - 1) /\ k \in 1..(Len(q) - i) /\ i + k = j + 1
          /\ j + 1 \in 1..Len(q) /\ j + 1 # i
      BY ONLY <2>2, <3>0, BehindOne
    <3> HIDE DEF k
    <3>2. r[j] = b[k]
      BY <1>5, <3>0, <3>1 DEF k
    <3>3. r[j] = q[j + 1]
      BY <1>3, <3>1, <3>2
    <3> QED
      BY <1>1, <2>2, <3>1, <3>3
  <2> QED
    BY <2>1, <2>2
<1> QED
  BY <1>5, <1>6, <1>7 DEF r

\* The same, without their places.
LEMMA SameOthers ==
  ASSUME NEW S, NEW q \in Seq(S), NEW i \in DOMAIN q
  PROVE  /\ Less(q, i) \in Seq(S) /\ Len(Less(q, i)) = Len(q) - 1 /\ Len(q) \in Nat \ {0}
         /\ DOMAIN Less(q, i) = 1..Len(q) - 1 /\ DOMAIN q = 1..Len(q)
         /\ \A j \in DOMAIN Less(q, i) : \E k \in DOMAIN q : k # i /\ Less(q, i)[j] = q[k]
         /\ \A k \in DOMAIN q : k # i => \E j \in DOMAIN Less(q, i) : Less(q, i)[j] = q[k]
<1> DEFINE r == Less(q, i)
           from(j) == IF j < i THEN j ELSE j + 1
<1>1. /\ r \in Seq(S) /\ Len(r) = Len(q) - 1 /\ Len(q) \in Nat /\ i \in 1..Len(q)
      /\ DOMAIN q = 1..Len(q) /\ DOMAIN r = 1..Len(q) - 1
      /\ \A j \in 1..Len(q) - 1 : from(j) \in 1..Len(q) /\ from(j) # i /\ r[j] = q[from(j)]
  BY OthersRemain, LenProperties
<1> HIDE DEF r
<1>2. ASSUME NEW k \in 1..Len(q), k # i
      PROVE  \E j \in 1..Len(q) - 1 : from(j) = k
  <2>1. CASE k < i
    <3>1. k \in 1..Len(q) - 1
      BY <1>1, <2>1
    <3> QED
      BY <2>1, <3>1
  <2>2. CASE ~(k < i)
    <3>1. k - 1 \in 1..Len(q) - 1 /\ ~(k - 1 < i) /\ (k - 1) + 1 = k
      BY <1>1, <1>2, <2>2
    <3> QED
      BY <3>1
  <2> QED
    BY <2>1, <2>2
<1> HIDE DEF from
<1>3. ASSUME NEW j \in DOMAIN r PROVE \E k \in DOMAIN q : k # i /\ r[j] = q[k]
  BY <1>1
<1>4. ASSUME NEW k \in DOMAIN q, k # i PROVE \E j \in DOMAIN r : r[j] = q[k]
  BY <1>1, <1>2, <1>4
<1> QED
  BY <1>1, <1>3, <1>4 DEF r

\* A queue of distinct members stays one, and the one that has gone is no longer in it.
LEMMA OneLeaves ==
  ASSUME NEW S, NEW q \in Seq(S), NEW i \in DOMAIN q,
         \A j, k \in DOMAIN q : q[j] = q[k] => j = k
  PROVE  /\ Less(q, i) \in Seq(S)
         /\ \A j \in DOMAIN Less(q, i) :
              Less(q, i)[j] # q[i] /\ \E k \in DOMAIN q : Less(q, i)[j] = q[k]
         /\ \A j, k \in DOMAIN Less(q, i) : Less(q, i)[j] = Less(q, i)[k] => j = k
<1> DEFINE r == Less(q, i)
           from(j) == IF j < i THEN j ELSE j + 1
<1>1. /\ r \in Seq(S) /\ Len(r) = Len(q) - 1 /\ Len(q) \in Nat /\ i \in 1..Len(q)
      /\ DOMAIN q = 1..Len(q) /\ DOMAIN r = 1..Len(q) - 1
      /\ \A j \in 1..Len(q) - 1 : from(j) \in 1..Len(q) /\ from(j) # i /\ r[j] = q[from(j)]
  BY OthersRemain, LenProperties
<1> HIDE DEF r
<1>2. \A j, k \in DOMAIN r : from(j) = from(k) => j = k
  BY <1>1
<1> HIDE DEF from
<1>3. ASSUME NEW j \in DOMAIN r PROVE r[j] # q[i] /\ \E k \in DOMAIN q : r[j] = q[k]
  BY <1>1
<1>4. ASSUME NEW j \in DOMAIN r, NEW k \in DOMAIN r, r[j] = r[k] PROVE j = k
  BY <1>1, <1>2, <1>4
<1> QED
  BY <1>1, <1>3, <1>4 DEF r

\* A queue that somebody joins.
LEMMA Appended ==
  ASSUME NEW S, NEW q \in Seq(S), NEW x \in S
  PROVE  /\ Append(q, x) \in Seq(S) /\ Len(Append(q, x)) = Len(q) + 1
         /\ Append(q, x)[Len(Append(q, x))] = x
         /\ \A j \in 1..Len(q) : Append(q, x)[j] = q[j]
         /\ DOMAIN Append(q, x) = 1..Len(q) + 1 /\ Append(q, x) # <<>>
<1>1. /\ Append(q, x) \in Seq(S) /\ Len(Append(q, x)) = Len(q) + 1 /\ Len(q) \in Nat
      /\ \A j \in 1..Len(q) : Append(q, x)[j] = q[j]
      /\ Append(q, x)[Len(q) + 1] = x
  BY AppendProperties, LenProperties
<1>2. DOMAIN Append(q, x) = 1..Len(q) + 1
  BY <1>1, LenProperties
<1>3. Append(q, x) # <<>>
  BY <1>1, EmptySeq
<1> QED
  BY <1>1, <1>2, <1>3

\* A queue whose first member leaves: the others move up, and the last one stays last.
LEMMA FirstLeaves ==
  ASSUME NEW S, NEW q \in Seq(S), 1 \in DOMAIN q
  PROVE  /\ Less(q, 1) \in Seq(S) /\ Len(Less(q, 1)) = Len(q) - 1 /\ Len(q) \in Nat \ {0}
         /\ DOMAIN Less(q, 1) = 1..Len(q) - 1 /\ DOMAIN q = 1..Len(q)
         /\ \A j \in DOMAIN Less(q, 1) : j + 1 \in DOMAIN q /\ Less(q, 1)[j] = q[j + 1]
         /\ Less(q, 1) = <<>> => Len(q) = 1
         /\ Less(q, 1) # <<>> => Less(q, 1)[Len(Less(q, 1))] = q[Len(q)]
<1> DEFINE r == Less(q, 1)
<1>1. /\ r \in Seq(S) /\ Len(r) = Len(q) - 1
      /\ \A j \in 1..Len(q) - 1 : j + 1 \in 1..Len(q) /\ r[j] = q[j + 1]
  <2>1. /\ r \in Seq(S) /\ Len(r) = Len(q) - 1
        /\ \A j \in 1..Len(q) - 1 :
             LET k == IF j < 1 THEN j ELSE j + 1 IN k \in 1..Len(q) /\ k # 1 /\ r[j] = q[k]
    BY OthersRemain
  <2> HIDE DEF r
  <2> QED
    BY <2>1
<1>2. /\ Len(q) \in Nat \ {0} /\ DOMAIN q = 1..Len(q) /\ DOMAIN r = 1..Len(q) - 1
  BY <1>1, LenProperties
<1> HIDE DEF r
<1>3. r = <<>> => Len(q) = 1
  BY <1>1, <1>2, EmptySeq
<1>4. r # <<>> => r[Len(r)] = q[Len(q)]
  <2> SUFFICES ASSUME r # <<>> PROVE r[Len(r)] = q[Len(q)]
    OBVIOUS
  <2>1. Len(r) # 0
    BY <1>1, EmptySeq
  <2>2. Len(r) \in 1..Len(q) - 1 /\ Len(r) + 1 = Len(q)
    BY <1>1, <1>2, <2>1
  <2> QED
    BY <1>1, <2>2
<1> QED
  BY <1>1, <1>2, <1>3, <1>4 DEF r

\* A queue each of whose members is replaced.
LEMMA Replaced ==
  ASSUME NEW S, NEW q \in Seq(S), NEW r \in [1..Len(q) -> S]
  PROVE  /\ r \in Seq(S) /\ Len(r) = Len(q) /\ Len(q) \in Nat
         /\ DOMAIN r = 1..Len(q) /\ DOMAIN q = 1..Len(q) /\ (r = <<>> <=> q = <<>>)
<1>1. Len(q) \in Nat /\ DOMAIN q = 1..Len(q)
  BY LenProperties
<1>2. r \in Seq(S) /\ Len(r) = Len(q)
  BY <1>1
<1>3. r = <<>> <=> q = <<>>
  BY <1>1, <1>2, EmptySeq
<1> QED
  BY <1>1, <1>2, <1>3

\* Part of a stack, from one of its places to another.
LEMMA PartOf ==
  ASSUME NEW S, NEW q \in Seq(S), NEW m \in 1..Len(q) + 1, NEW n \in 0..Len(q)
  PROVE  /\ SubSeq(q, m, n) \in Seq(S)
         /\ Len(SubSeq(q, m, n)) = IF m <= n THEN n - m + 1 ELSE 0
         /\ Len(SubSeq(q, m, n)) <= Len(q)
         /\ \A i \in 1..Len(SubSeq(q, m, n)) :
              m + i - 1 \in 1..Len(q) /\ SubSeq(q, m, n)[i] = q[m + i - 1]
<1>1. Len(q) \in Nat /\ \A i \in m..n : q[i] \in S
  BY LenProperties, ElementOfSeq
<1>2. /\ SubSeq(q, m, n) \in Seq(S)
      /\ Len(SubSeq(q, m, n)) = IF m <= n THEN n - m + 1 ELSE 0
      /\ \A i \in 1 .. n-m+1 : SubSeq(q, m, n)[i] = q[m+i-1]
  BY <1>1, SubSeqProperties
<1> QED
  BY <1>1, <1>2
=============================================================================
