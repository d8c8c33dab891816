----------------------------- MODULE ListProofs -----------------------------
(***************************************************************************)
(* Lemmas that the proofs about several components use: the least element  *)
(* of a set of numbers, induction up to a number, and lists without        *)
(* duplicates.                                                             *)
(***************************************************************************)
EXTENDS Integers, Sequences, SequencesExt, Functions, WellFoundedInduction, TLAPS

LEMMA NatOrder == \A i, j \in Nat : <<i, j>> \in OpToRel(<, Nat) <=> i < j
BY DEF OpToRel

(* A set of natural numbers that is not empty has a least element.         *)
LEMMA LeastNumber ==
  ASSUME NEW S \in SUBSET Nat, S # {}
  PROVE  \E x \in S : \A y \in S : x <= y
<1>1. PICK x \in S : \A y \in S : ~ (<<y, x>> \in OpToRel(<, Nat))
  BY WFMin, NatLessThanWellFounded
<1>2. \A y \in S : ~ (y < x)
  BY <1>1, NatOrder, Zenon
<1>3. \A y \in S : x <= y
  BY <1>2
<1>4. QED
  BY <1>3

LEMMA LeastNatural ==
  ASSUME NEW S \in SUBSET Nat, S # {}
  PROVE  Min(S) \in S
BY LeastNumber DEF Min

(* A set of numbers that has 0, and with each number below n the next one, *)
(* has every number up to n.                                               *)
LEMMA UpTo ==
  ASSUME NEW n \in Nat, NEW S, 0 \in S, \A k \in 0..n : k \in S /\ k < n => k + 1 \in S
  PROVE  \A k \in 0..n : k \in S
<1> DEFINE B == {k \in 0..n : k \notin S}
<1> SUFFICES ASSUME B # {} PROVE FALSE
  OBVIOUS
<1>1. B \in SUBSET Nat
  OBVIOUS
<1>2. PICK x \in B : \A y \in B : x <= y
  BY <1>1, LeastNumber
<1>3. x \in 0..n /\ x # 0 /\ x \notin S
  BY <1>2
<1>4. x - 1 \in 0..n /\ x - 1 < n /\ x - 1 + 1 = x
  BY <1>3
<1>5. x - 1 \in S
  BY <1>2, <1>4
<1>6. QED
  BY <1>3, <1>4, <1>5

-----------------------------------------------------------------------------
(* Lists without duplicates.                                               *)
LEMMA InToSet ==
  ASSUME NEW q, NEW i \in DOMAIN q
  PROVE  q[i] \in ToSet(q)
BY DEF ToSet

LEMMA PushFront ==
  ASSUME NEW S, NEW q \in Seq(S), NEW x \in S
  PROVE  /\ <<x>> \o q \in Seq(S) /\ Len(<<x>> \o q) = Len(q) + 1
         /\ ToSet(<<x>> \o q) = ToSet(q) \cup {x}
         /\ IsInjective(q) /\ x \notin ToSet(q) => IsInjective(<<x>> \o q)
<1> DEFINE Q == <<x>> \o q
<1>1. /\ Q \in Seq(S) /\ Len(Q) = Len(q) + 1 /\ Q[1] = x /\ Len(q) \in Nat
      /\ \A i \in 2 .. Len(Q) : Q[i] = q[i - 1] /\ i - 1 \in 1 .. Len(q)
      /\ \A i \in 1 .. Len(q) : Q[i + 1] = q[i]
      /\ DOMAIN Q = 1 .. Len(Q) /\ DOMAIN q = 1 .. Len(q)
  OBVIOUS
<1> HIDE DEF Q
<1>2. ToSet(Q) = ToSet(q) \cup {x}
  <2>1. \A i \in DOMAIN Q : Q[i] \in ToSet(q) \cup {x}
    <3>1. \A i \in DOMAIN Q : i = 1 \/ i \in 2 .. Len(Q)
      BY <1>1
    <3>2. \A i \in 2 .. Len(Q) : Q[i] \in ToSet(q)
      BY <1>1 DEF ToSet
    <3>3. QED
      BY <1>1, <3>1, <3>2
  <2>2. \A i \in DOMAIN q : q[i] \in ToSet(Q)
    <3>1. \A i \in DOMAIN q : i + 1 \in DOMAIN Q /\ Q[i + 1] = q[i]
      BY <1>1
    <3>2. QED
      BY <3>1 DEF ToSet
  <2>3. x \in ToSet(Q)
    <3>1. 1 \in DOMAIN Q
      BY <1>1
    <3>2. QED
      BY <1>1, <3>1 DEF ToSet
  <2>4. QED
    BY <2>1, <2>2, <2>3 DEF ToSet
<1>3. ASSUME IsInjective(q), x \notin ToSet(q), NEW a \in DOMAIN Q, NEW b \in DOMAIN Q, Q[a] = Q[b]
      PROVE  a = b
  <2>1. \A i \in 1 .. Len(q) : q[i] # x
    BY <1>1, <1>3 DEF ToSet
  <2>2. \A i, j \in 1 .. Len(q) : q[i] = q[j] => i = j
    BY <1>1, <1>3 DEF IsInjective
  <2>3. a \in 1 .. Len(q) + 1 /\ b \in 1 .. Len(q) + 1
    BY <1>1, <1>3
  <2>4. QED
    BY <1>1, <1>3, <2>1, <2>2, <2>3
<1>4. QED
  BY <1>1, <1>2, <1>3 DEF IsInjective, Q

LEMMA ConcatIs ==
  ASSUME NEW S, NEW p \in Seq(S), NEW q \in Seq(S)
  PROVE  /\ Len(p) \in Nat /\ Len(q) \in Nat
         /\ p \o q \in Seq(S) /\ Len(p \o q) = Len(p) + Len(q)
         /\ DOMAIN (p \o q) = 1 .. Len(p) + Len(q)
         /\ \A i \in 1 .. Len(p) : (p \o q)[i] = p[i]
         /\ \A i \in Len(p) + 1 .. Len(p) + Len(q) : (p \o q)[i] = q[i - Len(p)]
OBVIOUS

LEMMA RemoveIndex ==
  ASSUME NEW S, NEW q \in Seq(S), NEW k \in DOMAIN q
  PROVE  LET r == RemoveAt(q, k) IN
         /\ r \in Seq(S) /\ Len(r) = Len(q) - 1
         /\ IsInjective(q) => IsInjective(r) /\ ToSet(r) = ToSet(q) \ {q[k]}
<1> DEFINE r == RemoveAt(q, k)
           n == Len(q)
<1>1. /\ n \in Nat /\ DOMAIN q = 1 .. n /\ k \in 1 .. n
  OBVIOUS
<1>2. /\ SubSeq(q, 1, k - 1) \in Seq(S) /\ Len(SubSeq(q, 1, k - 1)) = k - 1
      /\ \A i \in 1 .. k - 1 : SubSeq(q, 1, k - 1)[i] = q[i]
  BY <1>1
<1>3. /\ SubSeq(q, k + 1, n) \in Seq(S) /\ Len(SubSeq(q, k + 1, n)) = n - k
      /\ \A i \in 1 .. n - k : SubSeq(q, k + 1, n)[i] = q[k + i]
  BY <1>1
<1>4. /\ r \in Seq(S) /\ Len(r) = n - 1 /\ DOMAIN r = 1 .. n - 1
      /\ \A i \in 1 .. n - 1 : r[i] = IF i < k THEN q[i] ELSE q[i + 1]
  <2> DEFINE a == SubSeq(q, 1, k - 1)
             b == SubSeq(q, k + 1, n)
  <2>1. r = a \o b
    BY DEF RemoveAt
  <2>2. /\ a \in Seq(S) /\ Len(a) = k - 1 /\ b \in Seq(S) /\ Len(b) = n - k
        /\ \A i \in 1 .. k - 1 : a[i] = q[i]
        /\ \A i \in 1 .. n - k : b[i] = q[k + i]
    BY <1>2, <1>3
  <2> HIDE DEF a, b, r
  <2> HIDE DEF n
  <2>0. k \in Int /\ n \in Int /\ (k - 1) + (n - k) = n - 1
    BY <1>1
  <2>a. /\ r \in Seq(S) /\ Len(r) = Len(a) + Len(b) /\ DOMAIN r = 1 .. Len(a) + Len(b)
        /\ \A i \in 1 .. Len(a) : r[i] = a[i]
        /\ \A i \in Len(a) + 1 .. Len(a) + Len(b) : r[i] = b[i - Len(a)]
    BY <2>1, <2>2, ConcatIs, SMTT(30)
  <2>3. /\ r \in Seq(S) /\ Len(r) = n - 1 /\ DOMAIN r = 1 .. n - 1
        /\ \A i \in 1 .. k - 1 : r[i] = a[i]
        /\ \A i \in k .. n - 1 : r[i] = b[i - (k - 1)] /\ i - (k - 1) \in 1 .. n - k
    <3>1. Len(a) + Len(b) = n - 1 /\ Len(a) + 1 = k
      BY <2>0, <2>2
    <3>2. \A i \in k .. n - 1 : i - (k - 1) \in 1 .. n - k
      BY <2>0
    <3>3. QED
      BY <2>2, <2>a, <3>1, <3>2
  <2>4. \A i \in k .. n - 1 : r[i] = q[i + 1]
    <3>1. \A i \in k .. n - 1 : k + (i - (k - 1)) = i + 1
      BY <1>1
    <3>2. QED
      BY <2>2, <2>3, <3>1
  <2>5. ASSUME NEW i \in 1 .. n - 1 PROVE r[i] = IF i < k THEN q[i] ELSE q[i + 1]
    <3>1. CASE i < k
      <4>1. i \in 1 .. k - 1
        BY <2>0, <3>1
      <4>2. QED
        BY <2>2, <2>3, <3>1, <4>1
    <3>2. CASE ~(i < k)
      BY <2>0, <2>4, <3>2
    <3>3. QED
      BY <3>1, <3>2
  <2>6. QED
    BY <2>3, <2>5
<1> HIDE DEF r, n
<1>5. ASSUME IsInjective(q) PROVE IsInjective(r) /\ ToSet(r) = ToSet(q) \ {q[k]}
  <2>1. \A i, j \in 1 .. n : q[i] = q[j] => i = j
    BY <1>1, <1>5 DEF IsInjective
  <2>2. IsInjective(r)
    <3>1. ASSUME NEW i \in 1 .. n - 1, NEW j \in 1 .. n - 1, r[i] = r[j] PROVE i = j
      BY <1>1, <1>4, <2>1, <3>1
    <3>2. QED
      BY <1>4, <3>1 DEF IsInjective
  <2>3. ASSUME NEW i \in 1 .. n - 1 PROVE r[i] \in ToSet(q) /\ r[i] # q[k]
    <3>1. PICK j \in 1 .. n : j # k /\ r[i] = q[j]
      <4>1. CASE i < k
        <5>1. i \in 1 .. n /\ i # k /\ r[i] = q[i]
          BY <1>1, <1>4, <4>1
        <5>2. QED
          BY <5>1
      <4>2. CASE ~(i < k)
        <5>1. i + 1 \in 1 .. n /\ i + 1 # k /\ r[i] = q[i + 1]
          BY <1>1, <1>4, <4>2
        <5>2. QED
          BY <5>1
      <4>3. QED
        BY <4>1, <4>2
    <3>2. QED
      BY <1>1, <2>1, <3>1 DEF ToSet
  <2>4. ASSUME NEW i \in 1 .. n, i # k PROVE q[i] \in ToSet(r)
    <3>1. PICK j \in 1 .. n - 1 : r[j] = q[i]
      <4>1. CASE i < k
        BY <1>1, <1>4, <4>1
      <4>2. CASE i > k
        <5>1. i - 1 \in 1 .. n - 1 /\ ~(i - 1 < k) /\ (i - 1) + 1 = i
          BY <1>1, <4>2
        <5>2. r[i - 1] = q[i]
          BY <1>4, <5>1
        <5>3. QED
          BY <5>1, <5>2
      <4>3. QED
        BY <1>1, <2>4, <4>1, <4>2
    <3>2. QED
      BY <1>4, <3>1 DEF ToSet
  <2>5. QED
    BY <1>1, <1>4, <2>2, <2>3, <2>4 DEF ToSet
<1>6. QED
  BY <1>4, <1>5 DEF r, n

LEMMA PopFront ==
  ASSUME NEW S, NEW q \in Seq(S), q # <<>>
  PROVE  /\ Tail(q) \in Seq(S) /\ Len(Tail(q)) = Len(q) - 1
         /\ Head(q) \in S /\ Head(q) \in ToSet(q)
         /\ IsInjective(q) => /\ IsInjective(Tail(q))
                              /\ ToSet(Tail(q)) = ToSet(q) \ {Head(q)}
<1>1. 1 \in DOMAIN q /\ Head(q) = q[1] /\ Len(q) \in Nat \ {0}
  OBVIOUS
<1>2. RemoveAt(q, 1) = Tail(q)
  BY <1>1 DEF RemoveAt
<1>3. /\ Tail(q) \in Seq(S) /\ Len(Tail(q)) = Len(q) - 1
      /\ IsInjective(q) => IsInjective(Tail(q)) /\ ToSet(Tail(q)) = ToSet(q) \ {Head(q)}
  <2> DEFINE r == RemoveAt(q, 1)
  <2>1. /\ r \in Seq(S) /\ Len(r) = Len(q) - 1
        /\ IsInjective(q) => IsInjective(r) /\ ToSet(r) = ToSet(q) \ {q[1]}
    BY <1>1, RemoveIndex
  <2> HIDE DEF r
  <2>2. r = Tail(q) /\ q[1] = Head(q)
    BY <1>1, <1>2 DEF r
  <2>3. QED
    BY <2>1, <2>2, Zenon
<1>4. Head(q) \in ToSet(q)
  BY <1>1 DEF ToSet
<1>5. QED
  BY <1>1, <1>3, <1>4

LEMMA Concat ==
  ASSUME NEW S, NEW p \in Seq(S), NEW q \in Seq(S)
  PROVE  /\ p \o q \in Seq(S) /\ ToSet(p \o q) = ToSet(p) \cup ToSet(q)
         /\ /\ IsInjective(p) /\ IsInjective(q) /\ ToSet(p) \cap ToSet(q) = {}
            => IsInjective(p \o q)
<1> DEFINE r == p \o q
           m == Len(p)
           n == Len(q)
<1>1. /\ m \in Nat /\ n \in Nat /\ DOMAIN p = 1 .. m /\ DOMAIN q = 1 .. n
      /\ r \in Seq(S) /\ DOMAIN r = 1 .. m + n
      /\ \A i \in 1 .. m : r[i] = p[i]
      /\ \A i \in m + 1 .. m + n : r[i] = q[i - m] /\ i - m \in 1 .. n
      /\ \A i \in 1 .. n : i + m \in 1 .. m + n /\ r[i + m] = q[i]
  OBVIOUS
<1> HIDE DEF r, m, n
<1>2. ToSet(r) = ToSet(p) \cup ToSet(q)
  <2>1. ASSUME NEW i \in 1 .. m + n
        PROVE  r[i] \in ToSet(p) \cup ToSet(q)
    <3>1. CASE i \in 1 .. m
      BY <1>1, <3>1, InToSet
    <3>2. CASE i \in m + 1 .. m + n
      <4>1. r[i] = q[i - m] /\ i - m \in DOMAIN q
        BY <1>1, <3>2
      <4>2. QED
        BY <4>1, InToSet
    <3>3. QED
      BY <1>1, <3>1, <3>2
  <2>2. ASSUME NEW i \in 1 .. m
        PROVE  p[i] \in ToSet(r)
    <3>1. i \in DOMAIN r /\ p[i] = r[i]
      BY <1>1
    <3>2. QED
      BY <3>1, InToSet
  <2>3. ASSUME NEW i \in 1 .. n
        PROVE  q[i] \in ToSet(r)
    <3>1. i + m \in DOMAIN r /\ q[i] = r[i + m]
      BY <1>1
    <3>2. QED
      BY <3>1, InToSet
  <2>4. QED
    BY <1>1, <2>1, <2>2, <2>3, ZenonT(30) DEF ToSet
<1>3. ASSUME IsInjective(p), IsInjective(q), ToSet(p) \cap ToSet(q) = {}
      PROVE  IsInjective(r)
  <2>1. \A i, j \in 1 .. m : p[i] = p[j] => i = j
    BY <1>1, <1>3 DEF IsInjective
  <2>2. \A i, j \in 1 .. n : q[i] = q[j] => i = j
    BY <1>1, <1>3 DEF IsInjective
  <2>3. \A i \in 1 .. m, j \in 1 .. n : p[i] # q[j]
    BY <1>1, <1>3 DEF ToSet
  <2>4. ASSUME NEW i \in 1 .. m + n, NEW j \in 1 .. m + n, r[i] = r[j] PROVE i = j
    BY <1>1, <2>1, <2>2, <2>3, <2>4
  <2>5. QED
    BY <1>1, <2>4 DEF IsInjective
<1>4. QED
  BY <1>1, <1>2, <1>3 DEF r

LEMMA PartOf ==
  ASSUME NEW S, NEW q \in Seq(S), NEW a \in 1 .. Len(q) + 1, NEW b \in 0 .. Len(q), a <= b + 1
  PROVE  LET r == SubSeq(q, a, b) IN
         /\ r \in Seq(S) /\ Len(r) = b - a + 1
         /\ ToSet(r) = {q[i] : i \in a .. b}
         /\ IsInjective(q) => IsInjective(r)
<1> DEFINE r == SubSeq(q, a, b)
<1>1. /\ Len(q) \in Nat /\ DOMAIN q = 1 .. Len(q) /\ a \in Int /\ b \in Int
  OBVIOUS
<1>2. /\ r \in Seq(S) /\ Len(r) = b - a + 1 /\ DOMAIN r = 1 .. b - a + 1
      /\ \A i \in 1 .. b - a + 1 : r[i] = q[a + i - 1]
  BY <1>1
<1> HIDE DEF r
<1>3. \A i \in 1 .. b - a + 1 : a + i - 1 \in a .. b /\ a + i - 1 \in DOMAIN q
  BY <1>1
<1>4. \A j \in a .. b : j - a + 1 \in 1 .. b - a + 1 /\ a + (j - a + 1) - 1 = j
  BY <1>1
<1>5. ToSet(r) = {q[i] : i \in a .. b}
  <2>1. \A j \in a .. b : q[j] = r[j - a + 1]
    BY <1>2, <1>4
  <2>2. QED
    BY SMTT(30), <1>2, <1>3, <1>4, <2>1 DEF ToSet
<1>6. ASSUME IsInjective(q) PROVE IsInjective(r)
  <2> SUFFICES ASSUME NEW i \in 1 .. b - a + 1, NEW j \in 1 .. b - a + 1, r[i] = r[j] PROVE i = j
    BY <1>2 DEF IsInjective
  <2>1. a + i - 1 = a + j - 1
    BY <1>2, <1>3, <1>6 DEF IsInjective
  <2>2. QED
    BY <1>1, <2>1
<1>7. QED
  BY <1>2, <1>5, <1>6 DEF r

LEMMA InsertIs ==
  ASSUME NEW S, NEW q \in Seq(S), IsInjective(q), NEW x \in S, x \notin ToSet(q),
         NEW k \in 1 .. Len(q) + 1
  PROVE  LET r == InsertAt(q, k, x) IN
         r \in Seq(S) /\ IsInjective(r) /\ ToSet(r) = ToSet(q) \cup {x}
<1> DEFINE a == SubSeq(q, 1, k - 1)
           b == SubSeq(q, k, Len(q))
           o == <<x>>
           m == a \o o
<1>0. Len(q) \in Nat /\ DOMAIN q = 1 .. Len(q)
  OBVIOUS
<1>1. a \in Seq(S) /\ IsInjective(a) /\ ToSet(a) = {q[i] : i \in 1 .. k - 1}
  <2>1. 1 \in 1 .. Len(q) + 1 /\ k - 1 \in 0 .. Len(q) /\ 1 <= (k - 1) + 1
    BY <1>0
  <2>2. QED
    BY <2>1, PartOf
<1>2. b \in Seq(S) /\ IsInjective(b) /\ ToSet(b) = {q[i] : i \in k .. Len(q)}
  <2>1. Len(q) \in 0 .. Len(q) /\ k <= Len(q) + 1
    BY <1>0
  <2>2. QED
    BY <2>1, PartOf
<1>3. o \in Seq(S) /\ IsInjective(o) /\ ToSet(o) = {x}
  BY DEF IsInjective, ToSet
<1>4. ToSet(a) \subseteq ToSet(q) /\ ToSet(b) \subseteq ToSet(q) /\ ToSet(q) \subseteq ToSet(a) \cup ToSet(b)
  <2> HIDE DEF a, b
  <2>1. ToSet(q) = {q[i] : i \in 1 .. Len(q)}
    BY <1>0 DEF ToSet
  <2>2. /\ 1 .. k - 1 \subseteq 1 .. Len(q) /\ k .. Len(q) \subseteq 1 .. Len(q)
        /\ 1 .. Len(q) \subseteq (1 .. k - 1) \cup (k .. Len(q))
    BY <1>0
  <2>3. QED
    BY <1>1, <1>2, <2>1, <2>2
<1>5. ToSet(a) \cap ToSet(b) = {}
  <2>1. \A i \in 1 .. k - 1, j \in k .. Len(q) : q[i] # q[j]
    BY <1>0 DEF IsInjective
  <2>2. QED
    BY <1>1, <1>2, <2>1
<1>6. InsertAt(q, k, x) = m \o b
  BY DEF InsertAt
<1> HIDE DEF a, b, o
<1>7. m \in Seq(S) /\ IsInjective(m) /\ ToSet(m) = ToSet(a) \cup {x}
  <2>1. ToSet(a) \cap ToSet(o) = {}
    BY <1>3, <1>4
  <2>2. QED
    <3>1. /\ m \in Seq(S) /\ ToSet(m) = ToSet(a) \cup ToSet(o) /\ IsInjective(m)
      BY <1>1, <1>3, <2>1, Concat
    <3> HIDE DEF m
    <3>2. QED
      BY <1>3, <3>1
<1> HIDE DEF m
<1>8. ToSet(m) \cap ToSet(b) = {}
  BY <1>4, <1>5, <1>7
<1>9. m \o b \in Seq(S) /\ IsInjective(m \o b) /\ ToSet(m \o b) = ToSet(m) \cup ToSet(b)
  BY SMTT(30), <1>2, <1>7, <1>8, Concat
<1>10. QED
  BY <1>4, <1>6, <1>7, <1>9

LEMMA PushBack ==
  ASSUME NEW S, NEW q \in Seq(S), NEW x \in S
  PROVE  /\ Append(q, x) \in Seq(S) /\ Len(Append(q, x)) = Len(q) + 1
         /\ ToSet(Append(q, x)) = ToSet(q) \cup {x}
         /\ IsInjective(q) /\ x \notin ToSet(q) => IsInjective(Append(q, x))
<1> DEFINE r == Append(q, x)
           n == Len(q)
<1>1. /\ n \in Nat /\ DOMAIN q = 1 .. n /\ r \in Seq(S) /\ Len(r) = n + 1 /\ DOMAIN r = 1 .. n + 1
      /\ r[n + 1] = x /\ \A i \in 1 .. n : r[i] = q[i]
  OBVIOUS
<1> HIDE DEF r, n
<1>2. \A i \in 1 .. n + 1 : i \in 1 .. n \/ i = n + 1
  BY <1>1
<1>3. \A i \in 1 .. n : i \in 1 .. n + 1 /\ i # n + 1
  BY <1>1
<1>4. ToSet(r) = ToSet(q) \cup {x}
  BY <1>1, <1>2, <1>3 DEF ToSet
<1>5. ASSUME IsInjective(q), x \notin ToSet(q) PROVE IsInjective(r)
  <2> SUFFICES ASSUME NEW i \in 1 .. n + 1, NEW j \in 1 .. n + 1, r[i] = r[j] PROVE i = j
    BY <1>1 DEF IsInjective
  <2>1. \A k \in 1 .. n : q[k] # x
    BY <1>1, <1>5 DEF ToSet
  <2>2. QED
    BY <1>1, <1>2, <1>5, <2>1 DEF IsInjective
<1>6. QED
  BY <1>1, <1>4, <1>5 DEF r, n
=============================================================================
