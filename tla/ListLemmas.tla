----------------------------- MODULE ListLemmas -----------------------------
(***************************************************************************)
(* What the operations on a queue do to its elements: every list operation *)
(* of the kernel is Append, <<t>> \o q, Tail or \o on the sequence of the  *)
(* tasks in the list.  Then facts about finite sets of numbers, and        *)
(* induction over the numbers, for sets of them.                           *)
(***************************************************************************)
EXTENDS Integers, Sequences, SequencesExt, SequenceTheorems, FiniteSetTheorems, TLAPS

(* list_add_tail.                                                          *)
LEMMA AppendLemma ==
  ASSUME NEW S, NEW q \in Seq(S), NEW t \in S
  PROVE  /\ Append(q, t) \in Seq(S)
         /\ Append(q, t) # <<>>
         /\ ToSet(Append(q, t)) = ToSet(q) \cup {t}
         /\ IsInjective(q) /\ t \notin ToSet(q) => IsInjective(Append(q, t))
<1>1. Append(q, t) \in Seq(S) /\ Append(q, t) # <<>>
  BY AppendProperties
<1>2. /\ DOMAIN Append(q, t) = 1 .. Len(q) + 1
      /\ \A i \in 1 .. Len(q) : Append(q, t)[i] = q[i]
      /\ Append(q, t)[Len(q) + 1] = t
      /\ DOMAIN q = 1 .. Len(q)
      /\ Len(q) \in Nat
  OBVIOUS
<1>3. ToSet(Append(q, t)) = ToSet(q) \cup {t}
  BY <1>2 DEF ToSet
<1>4. IsInjective(q) /\ t \notin ToSet(q) => IsInjective(Append(q, t))
  BY <1>2 DEF ToSet, IsInjective
<1> QED  BY <1>1, <1>3, <1>4

(* list_add.                                                               *)
LEMMA ConsLemma ==
  ASSUME NEW S, NEW q \in Seq(S), NEW t \in S
  PROVE  /\ <<t>> \o q \in Seq(S)
         /\ <<t>> \o q # <<>>
         /\ ToSet(<<t>> \o q) = ToSet(q) \cup {t}
         /\ IsInjective(q) /\ t \notin ToSet(q) => IsInjective(<<t>> \o q)
<1> DEFINE c == <<t>> \o q
<1>1. c \in Seq(S) /\ c # <<>>
  OBVIOUS
<1>2. /\ DOMAIN c = 1 .. Len(q) + 1
      /\ c[1] = t
      /\ \A i \in 2 .. Len(q) + 1 : c[i] = q[i - 1]
      /\ \A i \in 1 .. Len(q) : c[i + 1] = q[i]
      /\ DOMAIN q = 1 .. Len(q)
      /\ Len(q) \in Nat
  OBVIOUS
<1> HIDE DEF c
<1>3. ToSet(c) = ToSet(q) \cup {t}
  <2>1. ASSUME NEW i \in DOMAIN c
        PROVE  c[i] \in ToSet(q) \cup {t}
    <3>1. CASE i = 1 BY <3>1, <1>2
    <3>2. CASE i # 1
      <4>1. i \in 2 .. Len(q) + 1 /\ i - 1 \in DOMAIN q BY <3>2, <1>2, <2>1
      <4> QED  BY <4>1, <1>2 DEF ToSet
    <3> QED  BY <3>1, <3>2
  <2>2. ASSUME NEW i \in DOMAIN q
        PROVE  q[i] \in ToSet(c)
    <3>1. i + 1 \in DOMAIN c /\ c[i + 1] = q[i] BY <1>2, <2>2
    <3> QED  BY <3>1 DEF ToSet
  <2>3. t \in ToSet(c) BY <1>2 DEF ToSet
  <2> QED  BY <2>1, <2>2, <2>3 DEF ToSet
<1>4. IsInjective(q) /\ t \notin ToSet(q) => IsInjective(c)
  <2> SUFFICES ASSUME IsInjective(q), t \notin ToSet(q),
                      NEW i \in DOMAIN c, NEW j \in DOMAIN c, c[i] = c[j]
               PROVE  i = j
    BY DEF IsInjective
  <2>1. ASSUME NEW k \in DOMAIN c, k # 1
        PROVE  k - 1 \in DOMAIN q /\ c[k] = q[k - 1] /\ c[k] # t
    <3>1. k \in 2 .. Len(q) + 1 /\ k - 1 \in DOMAIN q  BY <1>2, <2>1
    <3> QED  BY <1>2, <3>1 DEF ToSet
  <2>2. CASE i = 1 \/ j = 1
    BY <1>2, <2>1, <2>2
  <2>3. CASE i # 1 /\ j # 1
    <3>1. i - 1 = j - 1  BY <2>1, <2>3 DEF IsInjective
    <3> QED  BY <1>2, <3>1
  <2> QED  BY <2>2, <2>3
<1> QED  BY <1>1, <1>3, <1>4 DEF c

(* list_del of the first element.                                          *)
LEMMA TailLemma ==
  ASSUME NEW S, NEW q \in Seq(S), q # <<>>
  PROVE  /\ Tail(q) \in Seq(S)
         /\ Head(q) \in S
         /\ ToSet(q) = ToSet(Tail(q)) \cup {Head(q)}
         /\ IsInjective(q) => IsInjective(Tail(q)) /\ Head(q) \notin ToSet(Tail(q))
<1> DEFINE r == Tail(q)
<1>1. r \in Seq(S) /\ Head(q) \in S
  OBVIOUS
<1>2. /\ Len(q) \in Nat \ {0}
      /\ DOMAIN q = 1 .. Len(q)
      /\ DOMAIN r = 1 .. Len(q) - 1
      /\ Head(q) = q[1]
      /\ \A i \in 1 .. Len(q) - 1 : r[i] = q[i + 1]
      /\ \A i \in 2 .. Len(q) : q[i] = r[i - 1]
  OBVIOUS
<1> HIDE DEF r
<1>3. ToSet(q) = ToSet(r) \cup {Head(q)}
  <2>1. ASSUME NEW i \in DOMAIN q
        PROVE  q[i] \in ToSet(r) \cup {Head(q)}
    <3>1. CASE i = 1 BY <3>1, <1>2
    <3>2. CASE i # 1
      <4>1. i \in 2 .. Len(q) /\ i - 1 \in DOMAIN r BY <3>2, <1>2, <2>1
      <4> QED  BY <4>1, <1>2 DEF ToSet
    <3> QED  BY <3>1, <3>2
  <2>2. ASSUME NEW i \in DOMAIN r
        PROVE  r[i] \in ToSet(q)
    <3>1. i + 1 \in DOMAIN q /\ r[i] = q[i + 1] BY <1>2, <2>2
    <3> QED  BY <3>1 DEF ToSet
  <2>3. Head(q) \in ToSet(q) BY <1>2 DEF ToSet
  <2> QED  BY <2>1, <2>2, <2>3 DEF ToSet
<1>4. ASSUME IsInjective(q)
      PROVE  IsInjective(r) /\ Head(q) \notin ToSet(r)
  <2>1. IsInjective(r)
    <3> SUFFICES ASSUME NEW i \in DOMAIN r, NEW j \in DOMAIN r, r[i] = r[j]
                 PROVE  i = j
      BY DEF IsInjective
    <3>1. i + 1 \in DOMAIN q /\ j + 1 \in DOMAIN q /\ q[i + 1] = q[j + 1]
      BY <1>2
    <3>2. i + 1 = j + 1  BY <3>1, <1>4 DEF IsInjective
    <3> QED  BY <3>2, <1>2
  <2>2. ASSUME NEW i \in DOMAIN r, r[i] = Head(q)
        PROVE  FALSE
    <3>1. i + 1 \in DOMAIN q /\ 1 \in DOMAIN q /\ q[i + 1] = q[1] /\ i + 1 # 1
      BY <2>2, <1>2
    <3> QED  BY <3>1, <1>4 DEF IsInjective
  <2> QED  BY <2>1, <2>2 DEF ToSet
<1> QED  BY <1>1, <1>3, <1>4 DEF r

(* list_add_tail of several tasks, one after the other.                    *)
LEMMA ConcatLemma ==
  ASSUME NEW S, NEW q \in Seq(S), NEW r \in Seq(S)
  PROVE  /\ q \o r \in Seq(S)
         /\ ToSet(q \o r) = ToSet(q) \cup ToSet(r)
         /\ IsInjective(q) /\ IsInjective(r) /\ ToSet(q) \cap ToSet(r) = {}
              => IsInjective(q \o r)
<1> DEFINE c == q \o r
<1>1. c \in Seq(S)
  OBVIOUS
<1>2. /\ Len(q) \in Nat /\ Len(r) \in Nat
      /\ DOMAIN q = 1 .. Len(q) /\ DOMAIN r = 1 .. Len(r)
      /\ DOMAIN c = 1 .. Len(q) + Len(r)
      /\ \A i \in DOMAIN q : c[i] = q[i] /\ i \in DOMAIN c
      /\ \A i \in DOMAIN r : c[Len(q) + i] = r[i] /\ Len(q) + i \in DOMAIN c
      /\ \A i \in DOMAIN c \ DOMAIN q : c[i] = r[i - Len(q)] /\ i - Len(q) \in DOMAIN r
  OBVIOUS
<1> HIDE DEF c
<1>3. ToSet(c) = ToSet(q) \cup ToSet(r)
  <2>1. ASSUME NEW i \in DOMAIN c
        PROVE  c[i] \in ToSet(q) \cup ToSet(r)
    <3>1. CASE i \in DOMAIN q BY <3>1, <1>2 DEF ToSet
    <3>2. CASE i \notin DOMAIN q BY <3>2, <1>2 DEF ToSet
    <3> QED  BY <3>1, <3>2
  <2>2. ASSUME NEW i \in DOMAIN q PROVE q[i] \in ToSet(c)
    BY <1>2, <2>2 DEF ToSet
  <2>3. ASSUME NEW i \in DOMAIN r PROVE r[i] \in ToSet(c)
    <3>1. r[i] = c[Len(q) + i] /\ Len(q) + i \in DOMAIN c BY <1>2, <2>3
    <3> QED  BY <3>1 DEF ToSet
  <2> QED  BY <2>1, <2>2, <2>3 DEF ToSet
<1>4. ASSUME IsInjective(q), IsInjective(r), ToSet(q) \cap ToSet(r) = {}
      PROVE  IsInjective(c)
  <2> SUFFICES ASSUME NEW i \in DOMAIN c, NEW j \in DOMAIN c, c[i] = c[j]
               PROVE  i = j
    BY DEF IsInjective
  <2>1. CASE i \in DOMAIN q /\ j \in DOMAIN q
    BY <2>1, <1>2, <1>4 DEF IsInjective
  <2>2. CASE i \notin DOMAIN q /\ j \notin DOMAIN q
    <3>1. i - Len(q) = j - Len(q) BY <2>2, <1>2, <1>4 DEF IsInjective
    <3> QED  BY <3>1, <1>2
  <2>3. CASE i \in DOMAIN q /\ j \notin DOMAIN q
    <3>1. c[i] \in ToSet(q) /\ c[j] \in ToSet(r) BY <2>3, <1>2 DEF ToSet
    <3> QED  BY <3>1, <1>4
  <2>4. CASE i \notin DOMAIN q /\ j \in DOMAIN q
    <3>1. c[i] \in ToSet(r) /\ c[j] \in ToSet(q) BY <2>4, <1>2 DEF ToSet
    <3> QED  BY <3>1, <1>4
  <2> QED  BY <2>1, <2>2, <2>3, <2>4
<1> QED  BY <1>1, <1>3, <1>4 DEF c

(* A sequence with the elements of q and then t is Append(q, t).           *)
LEMMA IsAppend ==
  ASSUME NEW S, NEW q \in Seq(S), NEW t \in S, NEW r \in Seq(S),
         Len(r) = Len(q) + 1,
         \A i \in 1 .. Len(q) : r[i] = q[i],
         r[Len(q) + 1] = t
  PROVE  r = Append(q, t)
<1>1. /\ Append(q, t) \in Seq(S)
      /\ Len(Append(q, t)) = Len(q) + 1
      /\ \A i \in 1 .. Len(q) : Append(q, t)[i] = q[i]
      /\ Append(q, t)[Len(q) + 1] = t
  BY AppendProperties
<1>2. \A i \in 1 .. Len(r) : r[i] = Append(q, t)[i]
  BY <1>1
<1> QED  BY <1>1, <1>2, SeqEqual

(* A sequence with the elements of q but the first is Tail(q).             *)
LEMMA IsTail ==
  ASSUME NEW S, NEW q \in Seq(S), q # <<>>, NEW r \in Seq(S),
         Len(r) = Len(q) - 1,
         \A i \in 1 .. Len(r) : r[i] = q[i + 1]
  PROVE  r = Tail(q)
<1>1. /\ Tail(q) \in Seq(S)
      /\ Len(Tail(q)) = Len(q) - 1
      /\ \A i \in 1 .. Len(Tail(q)) : Tail(q)[i] = q[i + 1]
  BY HeadTailProperties
<1> QED  BY <1>1, SeqEqual
-----------------------------------------------------------------------------
(* How many elements of S are not above x.                                  *)
UpTo(S, x) == Cardinality({y \in S : y <= x})

(* A larger element has more elements below it.                             *)
LEMMA UpToGrows ==
  ASSUME NEW S \in SUBSET Int, IsFiniteSet(S), NEW x \in S, NEW y \in S, x < y
  PROVE  UpTo(S, x) < UpTo(S, y)
<1> DEFINE A == {z \in S : z <= x}
           B == {z \in S : z <= y}
<1>0. x \in Int /\ y \in Int /\ \A z \in S : z \in Int
  OBVIOUS
<1>1. A \subseteq B /\ y \in B /\ y \notin A /\ B \in SUBSET S
  <2>1. \A z \in S : z <= x => z <= y
    BY <1>0
  <2>2. y <= y /\ ~ (y <= x)
    BY <1>0
  <2> QED  BY <2>1, <2>2
<1> HIDE DEF A, B
<1>2. IsFiniteSet(B)
  BY <1>1, FS_Subset
<1>3. /\ Cardinality(A) \in Nat /\ Cardinality(B) \in Nat
      /\ Cardinality(A) <= Cardinality(B) /\ Cardinality(A) # Cardinality(B)
  <2>1. /\ IsFiniteSet(A) /\ Cardinality(A) <= Cardinality(B)
        /\ Cardinality(B) = Cardinality(A) => B = A
    BY <1>1, <1>2, FS_Subset
  <2> QED  BY <1>1, <1>2, <2>1, FS_CardinalityType
<1> QED  BY <1>3 DEF UpTo, A, B

(* The rank of a member counts from 1 to the size of the set.                *)
LEMMA UpToRange ==
  ASSUME NEW S \in SUBSET Int, IsFiniteSet(S), NEW x \in S
  PROVE  UpTo(S, x) \in 1 .. Cardinality(S) /\ Cardinality(S) \in Nat
<1> DEFINE A == {z \in S : z <= x}
<1>1. A \in SUBSET S /\ x \in A
  OBVIOUS
<1> HIDE DEF A
<1>2. IsFiniteSet(A) /\ Cardinality(A) <= Cardinality(S)
  BY <1>1, FS_Subset
<1>3. Cardinality(A) # 0
  BY <1>1, <1>2, FS_EmptySet
<1>4. Cardinality(A) \in Nat /\ Cardinality(S) \in Nat
  BY <1>2, FS_CardinalityType
<1> QED  BY <1>2, <1>3, <1>4 DEF UpTo, A

(* Different elements have different numbers of elements below them.        *)
LEMMA UpToDiffers ==
  ASSUME NEW S \in SUBSET Int, IsFiniteSet(S), NEW x \in S, NEW y \in S,
         UpTo(S, x) = UpTo(S, y)
  PROVE  x = y
<1>1. UpTo(S, x) \in Int /\ UpTo(S, y) \in Int /\ x \in Int /\ y \in Int
  BY UpToRange
<1>2. ~ (x < y) /\ ~ (y < x)
  BY <1>1, UpToGrows
<1> QED  BY <1>1, <1>2

(* The numbers from 1 to n, and those below n, are n.                       *)
LEMMA Intervals ==
  ASSUME NEW n \in Nat
  PROVE  /\ IsFiniteSet(1 .. n) /\ Cardinality(1 .. n) = n
         /\ IsFiniteSet(0 .. n - 1) /\ Cardinality(0 .. n - 1) = n
<1>1. n \in Int /\ n - 1 \in Int /\ 0 \in Int /\ 1 \in Int
  OBVIOUS
<1>2. IsFiniteSet(1 .. n) /\ Cardinality(1 .. n) = IF 1 > n THEN 0 ELSE n - 1 + 1
  BY <1>1, FS_Interval
<1>3. /\ IsFiniteSet(0 .. n - 1)
      /\ Cardinality(0 .. n - 1) = IF 0 > n - 1 THEN 0 ELSE (n - 1) - 0 + 1
  BY <1>1, FS_Interval
<1>4. (IF 1 > n THEN 0 ELSE n - 1 + 1) = n /\ (IF 0 > n - 1 THEN 0 ELSE (n - 1) - 0 + 1) = n
  OBVIOUS
<1> QED  BY <1>2, <1>3, <1>4

(* So every number is met.                                                  *)
LEMMA UpToOnto ==
  ASSUME NEW S \in SUBSET Int, IsFiniteSet(S), NEW n \in 1 .. Cardinality(S)
  PROVE  \E x \in S : UpTo(S, x) = n
<1> DEFINE N == 1 .. Cardinality(S)
           f == [x \in S |-> UpTo(S, x)]
<1>1. Cardinality(S) \in Nat
  BY FS_CardinalityType
<1>2. f \in [S -> N]
  BY UpToRange
<1>3. \A x, y \in S : f[x] = f[y] => x = y
  BY UpToDiffers
<1>4. f \in Injection(S, N)
  <2> HIDE DEF f, N
  <2>1. DOMAIN f = S
    BY <1>2
  <2> QED  BY <1>2, <1>3, <2>1 DEF Injection, IsInjective
<1>5. IsFiniteSet(N) /\ Cardinality(N) = Cardinality(S)
  BY <1>1, Intervals
<1>6. f \in Surjection(S, N)
  <2> HIDE DEF f, N
  <2> QED  BY <1>4, <1>5, FS_Injection
<1>7. \E x \in S : f[x] = n
  <2>1. n \in N
    OBVIOUS
  <2> HIDE DEF f, N
  <2> QED  BY <1>6, <2>1 DEF Surjection
<1> QED  BY <1>7

(* A finite set of numbers has a smallest element.                          *)
LEMMA SmallestElement ==
  ASSUME NEW S \in SUBSET Int, IsFiniteSet(S), S # {}
  PROVE  \E x \in S : \A y \in S : x <= y
<1>1. Cardinality(S) \in Nat \ {0}
  BY FS_EmptySet, FS_CardinalityType
<1>2. PICK x \in S : UpTo(S, x) = 1
  BY <1>1, UpToOnto
<1>3. ASSUME NEW y \in S, ~ (x <= y)
      PROVE  FALSE
  <2>1. y < x
    BY <1>3
  <2>2. UpTo(S, y) < 1 /\ UpTo(S, y) \in 1 .. Cardinality(S)
    BY <1>2, <2>1, UpToGrows, UpToRange
  <2> QED  BY <2>2
<1> QED  BY <1>3

(* A set with each number that it has all smaller numbers of has all.       *)
LEMMA StrongInduction ==
  ASSUME NEW S, \A n \in Nat : (\A m \in 0 .. n - 1 : m \in S) => n \in S
  PROVE  \A n \in Nat : n \in S
<1> SUFFICES ASSUME NEW n \in Nat, n \notin S
             PROVE  FALSE
  OBVIOUS
<1> DEFINE T == {m \in 0 .. n : m \notin S}
<1>1. T \in SUBSET Int /\ IsFiniteSet(T) /\ T # {}
  <2>1. n + 1 \in Nat /\ (n + 1) - 1 = n
    OBVIOUS
  <2>2. IsFiniteSet(0 .. n)
    BY <2>1, Intervals
  <2> QED  BY <2>2, FS_Subset
<1>2. PICK x \in T : \A y \in T : x <= y
  BY <1>1, SmallestElement
<1>3. \A m \in 0 .. x - 1 : m \in S
  <2> SUFFICES ASSUME NEW m \in 0 .. x - 1, m \notin S
               PROVE  FALSE
    OBVIOUS
  <2>1. x \in 0 .. n /\ m \in 0 .. n /\ m < x
    BY <1>2
  <2>2. m \in T
    BY <2>1
  <2> QED  BY <1>2, <2>1, <2>2
<1> QED  BY <1>2, <1>3

(* A set with 0, and with the number behind each of its numbers, has all.   *)
LEMMA Induction ==
  ASSUME NEW S, 0 \in S, \A n \in Nat : n \in S => n + 1 \in S
  PROVE  \A n \in Nat : n \in S
<1>1. ASSUME NEW n \in Nat, \A m \in 0 .. n - 1 : m \in S
      PROVE  n \in S
  <2>1. CASE n = 0
    BY <2>1
  <2>2. CASE n # 0
    <3>1. n - 1 \in Nat /\ n - 1 \in 0 .. n - 1 /\ (n - 1) + 1 = n
      BY <2>2
    <3> QED  BY <1>1, <3>1
  <2> QED  BY <2>1, <2>2
<1> QED  BY <1>1, StrongInduction
=============================================================================
