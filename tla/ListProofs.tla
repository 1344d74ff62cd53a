----------------------------- MODULE ListProofs -----------------------------
(***************************************************************************)
(* Proofs about the pointers of the lists, and about the search of         *)
(* sys_get_stats through them.                                             *)
(***************************************************************************)
EXTENDS GetStats, ListLemmas

(* The ith stop on the way round a list with head h and the entries q, and  *)
(* that the pointers m lead once round it in both directions.               *)
At(q, h, i) == IF i \in DOMAIN q THEN q[i] ELSE h

Leads(m, q, h) ==
  \A i \in 0 .. Len(q) :
    /\ m.next[At(q, h, i)] = At(q, h, i + 1)
    /\ m.prev[At(q, h, i + 1)] = At(q, h, i)

Pointers == [next : [Address -> Address], prev : [Address -> Address]]

(* Two sets of pointers differ at the addresses in A at most.               *)
AgreeOutside(m, n, A) ==
  \A a \in Address \ A : n.next[a] = m.next[a] /\ n.prev[a] = m.prev[a]

(* A list that is h with the entries q, in pointers m.                      *)
IsList(m, q, h) ==
  /\ m \in Pointers /\ h \in Heads
  /\ q \in Seq(Entries) /\ IsInjective(q)
  /\ Leads(m, q, h)

(* The stops of one round are different addresses.                          *)
LEMMA StopsDiffer ==
  ASSUME NEW q \in Seq(Entries), NEW h \in Heads, IsInjective(q)
  PROVE  /\ \A i \in 0 .. Len(q) + 1 : At(q, h, i) \in Address /\ At(q, h, i) # NULL
         /\ \A i, j \in 0 .. Len(q) : At(q, h, i) = At(q, h, j) => i = j
         /\ At(q, h, 0) = h /\ At(q, h, Len(q) + 1) = h
         /\ \A i \in 1 .. Len(q) : At(q, h, i) = q[i] /\ q[i] \in Entries /\ q[i] # h
<1>1. DOMAIN q = 1 .. Len(q) /\ Len(q) \in Nat
  OBVIOUS
<1>2. \A i \in 1 .. Len(q) : q[i] \in Entries /\ q[i] # h
  BY ListAssumption
<1>3. At(q, h, 0) = h /\ At(q, h, Len(q) + 1) = h
  BY <1>1 DEF At
<1>4. \A i, j \in 0 .. Len(q) : At(q, h, i) = At(q, h, j) => i = j
  BY <1>1, <1>2 DEF At, IsInjective
<1>5. \A i \in 0 .. Len(q) + 1 : At(q, h, i) \in Address /\ At(q, h, i) # NULL
  BY <1>1, <1>2, ListAssumption DEF At, Address
<1> QED  BY <1>1, <1>2, <1>3, <1>4, <1>5 DEF At

(* A list is as it was if the pointers of its addresses are.                *)
LEMMA LeadsElsewhere ==
  ASSUME NEW m, NEW q, NEW h, IsList(m, q, h), NEW n, NEW A, AgreeOutside(m, n, A),
         h \notin A, A \cap ToSet(q) = {}
  PROVE  Leads(n, q, h)
<1>1. \A i \in 0 .. Len(q) + 1 : At(q, h, i) \in Address \ A
  <2>1. DOMAIN q = 1 .. Len(q) /\ \A i \in DOMAIN q : q[i] \in Entries /\ q[i] \notin A
    BY DEF IsList, ToSet
  <2> QED  BY <2>1 DEF At, Address, IsList
<1>2. \A i \in 0 .. Len(q) : i \in 0 .. Len(q) + 1 /\ i + 1 \in 0 .. Len(q) + 1
  BY DEF IsList
<1>3. Leads(m, q, h)
  BY DEF IsList
<1> QED  BY <1>1, <1>2, <1>3 DEF Leads, AgreeOutside

(* list_add_tail.                                                           *)
LEMMA AddLast ==
  ASSUME NEW m, NEW q, NEW h, IsList(m, q, h), NEW t \in Entries, t \notin ToSet(q),
         NEW n, n = list_add_tail(m, t, h)
  PROVE  /\ n \in Pointers
         /\ Leads(n, Append(q, t), h)
         /\ AgreeOutside(m, n, ToSet(q) \cup {h, t})
<1> DEFINE k == Len(q)
           l == At(q, h, k)
           r == Append(q, t)
<1>1. /\ m \in Pointers /\ h \in Heads /\ q \in Seq(Entries) /\ IsInjective(q) /\ Leads(m, q, h)
      /\ k \in Nat /\ DOMAIN q = 1 .. k
  BY DEF IsList
<1>2. /\ \A i \in 0 .. k + 1 : At(q, h, i) \in Address /\ At(q, h, i) # NULL
      /\ \A i, j \in 0 .. k : At(q, h, i) = At(q, h, j) => i = j
      /\ At(q, h, 0) = h /\ At(q, h, k + 1) = h
      /\ \A i \in 1 .. k : At(q, h, i) = q[i] /\ q[i] \in Entries /\ q[i] # h
  BY <1>1, StopsDiffer
<1>3. m.prev[h] = l /\ l \in Address /\ t \in Address /\ h \in Address /\ t # h
  BY <1>1, <1>2, ListAssumption DEF Leads, Address
<1>4. \A i \in 0 .. k + 1 : At(q, h, i) # t
  BY <1>1, <1>3 DEF At, ToSet
<1>5. /\ n.next = [m.next EXCEPT ![t] = h, ![l] = t]
      /\ n.prev = [m.prev EXCEPT ![h] = t, ![t] = l]
      /\ n = [next |-> n.next, prev |-> n.prev]
  BY <1>3 DEF list_add_tail, __list_add
<1>6. n \in Pointers
  BY <1>1, <1>3, <1>5 DEF Pointers
<1>7. /\ \A i \in 0 .. k : At(r, h, i) = At(q, h, i)
      /\ At(r, h, k + 1) = t /\ At(r, h, k + 2) = h /\ Len(r) = k + 1
  BY <1>1 DEF At
<1> HIDE DEF l, r, k
<1>8. ASSUME NEW i \in 0 .. k + 1
      PROVE  n.next[At(r, h, i)] = At(r, h, i + 1) /\ n.prev[At(r, h, i + 1)] = At(r, h, i)
  <2>1. CASE i < k
    <3>1. i \in 0 .. k /\ i + 1 \in 1 .. k /\ i + 1 \in 0 .. k /\ k \in 0 .. k
      BY <1>1, <2>1
    <3>2. At(q, h, i) # l /\ At(q, h, i) # t /\ At(q, h, i + 1) # t /\ At(q, h, i + 1) # h
      BY <1>2, <1>4, <2>1, <3>1 DEF l
    <3>3. m.next[At(q, h, i)] = At(q, h, i + 1) /\ m.prev[At(q, h, i + 1)] = At(q, h, i)
      BY <1>1, <3>1 DEF Leads, k
    <3>4. At(q, h, i) \in Address /\ At(q, h, i + 1) \in Address
      BY <1>2, <3>1
    <3> QED  BY <1>1, <1>5, <1>7, <3>1, <3>2, <3>3, <3>4 DEF Pointers
  <2>2. CASE i = k
    <3>1. At(r, h, i) = l /\ At(r, h, i + 1) = t
      BY <1>1, <1>7, <2>2 DEF l
    <3> QED  BY <1>1, <1>3, <1>5, <3>1 DEF Pointers
  <2>3. CASE i = k + 1
    <3>1. At(r, h, i) = t /\ At(r, h, i + 1) = h
      BY <1>1, <1>7, <2>3
    <3>2. l # t
      BY <1>1, <1>4 DEF l
    <3> QED  BY <1>1, <1>3, <1>5, <3>1, <3>2 DEF Pointers
  <2>4. i < k \/ i = k \/ i = k + 1
    BY <1>1
  <2> QED  BY <2>1, <2>2, <2>3, <2>4
<1>9. l \in ToSet(q) \cup {h}
  BY <1>1 DEF l, At, ToSet, k
<1>10. AgreeOutside(m, n, ToSet(q) \cup {h, t})
  BY <1>1, <1>5, <1>9 DEF AgreeOutside, Pointers
<1> QED  BY <1>6, <1>7, <1>8, <1>10 DEF Leads, r, k

(* list_add.                                                                *)
LEMMA AddFirst ==
  ASSUME NEW m, NEW q, NEW h, IsList(m, q, h), NEW t \in Entries, t \notin ToSet(q),
         NEW n, n = list_add(m, t, h)
  PROVE  /\ n \in Pointers
         /\ Leads(n, <<t>> \o q, h)
         /\ AgreeOutside(m, n, ToSet(q) \cup {h, t})
<1> DEFINE k == Len(q)
           f == At(q, h, 1)
           r == <<t>> \o q
<1>1. /\ m \in Pointers /\ h \in Heads /\ q \in Seq(Entries) /\ IsInjective(q) /\ Leads(m, q, h)
      /\ k \in Nat /\ DOMAIN q = 1 .. k
  BY DEF IsList
<1>2. /\ \A i \in 0 .. k + 1 : At(q, h, i) \in Address /\ At(q, h, i) # NULL
      /\ \A i, j \in 0 .. k : At(q, h, i) = At(q, h, j) => i = j
      /\ At(q, h, 0) = h /\ At(q, h, k + 1) = h
      /\ \A i \in 1 .. k : At(q, h, i) = q[i] /\ q[i] \in Entries /\ q[i] # h
  BY <1>1, StopsDiffer
<1>3. m.next[h] = f /\ f \in Address /\ t \in Address /\ h \in Address /\ t # h
  BY <1>1, <1>2, ListAssumption DEF Leads, Address
<1>4. \A i \in 0 .. k + 1 : At(q, h, i) # t
  BY <1>1, <1>3 DEF At, ToSet
<1>5. /\ n.next = [m.next EXCEPT ![t] = f, ![h] = t]
      /\ n.prev = [m.prev EXCEPT ![f] = t, ![t] = h]
      /\ n = [next |-> n.next, prev |-> n.prev]
  BY <1>3 DEF list_add, __list_add
<1>6. n \in Pointers
  BY <1>1, <1>3, <1>5 DEF Pointers
<1>7. /\ \A i \in 1 .. k + 1 : At(r, h, i + 1) = At(q, h, i)
      /\ At(r, h, 0) = h /\ At(r, h, 1) = t /\ Len(r) = k + 1
  <2>1. /\ Len(r) = k + 1 /\ DOMAIN r = 1 .. k + 1 /\ r[1] = t
        /\ \A i \in 1 .. k : r[i + 1] = q[i]
    BY <1>1
  <2> HIDE DEF r
  <2> QED  BY <1>1, <2>1 DEF At
<1> HIDE DEF f, r, k
<1>8. ASSUME NEW i \in 0 .. k + 1
      PROVE  n.next[At(r, h, i)] = At(r, h, i + 1) /\ n.prev[At(r, h, i + 1)] = At(r, h, i)
  <2>1. CASE i > 1
    <3>1. i - 1 \in 1 .. k /\ i - 1 \in 0 .. k /\ i \in 1 .. k + 1 /\ (i - 1) + 1 = i
          /\ 1 \in 0 .. k /\ 0 \in 0 .. k /\ i \in 0 .. k + 1 /\ i - 1 \in 1 .. k + 1
      BY <1>1, <2>1
    <3>2. At(r, h, i) = At(q, h, i - 1) /\ At(r, h, i + 1) = At(q, h, i)
      BY <1>7, <3>1
    <3>3. m.next[At(q, h, i - 1)] = At(q, h, i) /\ m.prev[At(q, h, i)] = At(q, h, i - 1)
      BY <1>1, <3>1 DEF Leads, k
    <3>4. At(q, h, i - 1) # h /\ At(q, h, i - 1) # t /\ At(q, h, i) # t
      BY <1>2, <1>4, <2>1, <3>1
    <3>5. At(q, h, i) # f
      <4>1. CASE i = k + 1
        BY <1>2, <2>1, <3>1, <4>1 DEF f
      <4>2. CASE i # k + 1
        <5>1. i \in 0 .. k
          BY <1>1, <3>1, <4>2
        <5> QED  BY <1>2, <2>1, <3>1, <5>1 DEF f
      <4> QED  BY <4>1, <4>2
    <3>6. At(q, h, i - 1) \in Address /\ At(q, h, i) \in Address
      BY <1>1, <1>2, <3>1
    <3> QED  BY <1>1, <1>5, <3>2, <3>3, <3>4, <3>5, <3>6 DEF Pointers
  <2>2. CASE i = 1
    <3>1. At(r, h, i) = t /\ At(r, h, i + 1) = f
      BY <1>1, <1>7, <2>2 DEF f
    <3>2. f # t
      BY <1>1, <1>4 DEF f
    <3> QED  BY <1>1, <1>3, <1>5, <3>1, <3>2 DEF Pointers
  <2>3. CASE i = 0
    <3>1. At(r, h, i) = h /\ At(r, h, i + 1) = t
      BY <1>1, <1>7, <2>3
    <3> QED  BY <1>1, <1>3, <1>5, <3>1 DEF Pointers
  <2>4. i > 1 \/ i = 1 \/ i = 0
    BY <1>1
  <2> QED  BY <2>1, <2>2, <2>3, <2>4
<1>9. f \in ToSet(q) \cup {h}
  BY <1>1 DEF f, At, ToSet
<1>10. AgreeOutside(m, n, ToSet(q) \cup {h, t})
  BY <1>1, <1>5, <1>9 DEF AgreeOutside, Pointers
<1> QED  BY <1>6, <1>7, <1>8, <1>10 DEF Leads, r, k

(* list_del of the first entry.                                             *)
LEMMA DelFirst ==
  ASSUME NEW m, NEW q, NEW h, IsList(m, q, h), q # <<>>,
         NEW n, n = list_del(m, list_first(m, h))
  PROVE  /\ list_first(m, h) = Head(q)
         /\ n \in Pointers
         /\ Leads(n, Tail(q), h)
         /\ AgreeOutside(m, n, ToSet(q) \cup {h})
<1> DEFINE k == Len(q)
           e == q[1]
           s == At(q, h, 2)
           r == Tail(q)
<1>1. /\ m \in Pointers /\ h \in Heads /\ q \in Seq(Entries) /\ IsInjective(q) /\ Leads(m, q, h)
      /\ k \in Nat /\ k >= 1 /\ DOMAIN q = 1 .. k
  BY DEF IsList
<1>2. /\ \A i \in 0 .. k + 1 : At(q, h, i) \in Address /\ At(q, h, i) # NULL
      /\ \A i, j \in 0 .. k : At(q, h, i) = At(q, h, j) => i = j
      /\ At(q, h, 0) = h /\ At(q, h, k + 1) = h
      /\ \A i \in 1 .. k : At(q, h, i) = q[i] /\ q[i] \in Entries /\ q[i] # h
  BY <1>1, StopsDiffer
<1>3. At(q, h, 1) = e /\ e \in Entries /\ e # h
  BY <1>1, <1>2
<1>4. /\ m.next[h] = e /\ m.prev[e] = h
      /\ m.next[e] = s
  <2>1. 0 \in 0 .. k /\ 1 \in 0 .. k /\ 0 + 1 = 1 /\ 1 + 1 = 2
    BY <1>1
  <2> QED  BY <1>1, <1>2, <1>3, <2>1 DEF Leads
<1>5. s \in Address /\ e \in Address /\ h \in Address /\ NULL \in Address /\ e # s
  <2>1. 2 \in 0 .. k + 1 /\ 1 \in 0 .. k
    BY <1>1
  <2>2. e # s
    <3>1. CASE k = 1
      BY <1>2, <1>3, <3>1
    <3>2. CASE k # 1
      <4>1. 2 \in 0 .. k
        BY <1>1, <3>2
      <4> QED  BY <1>2, <1>3, <2>1, <4>1
    <3> QED  BY <3>1, <3>2
  <2> QED  BY <1>1, <1>2, <1>3, <2>1, <2>2 DEF Address
<1> HIDE DEF e, s, k
<1>6. /\ n.next = [m.next EXCEPT ![h] = s, ![e] = NULL]
      /\ n.prev = [m.prev EXCEPT ![s] = h, ![e] = NULL]
      /\ n = [next |-> n.next, prev |-> n.prev]
  BY <1>4 DEF list_del, list_first
<1>7. n \in Pointers
  BY <1>1, <1>5, <1>6 DEF Pointers
<1>8. /\ \A i \in 1 .. k : At(r, h, i) = At(q, h, i + 1)
      /\ At(r, h, 0) = h /\ Len(r) = k - 1
  <2>1. Len(r) = k - 1 /\ DOMAIN r = 1 .. k - 1 /\ \A i \in 1 .. k - 1 : r[i] = q[i + 1]
    BY <1>1 DEF k
  <2> HIDE DEF r
  <2> QED  BY <1>1, <2>1 DEF At
<1> HIDE DEF r
<1>9. ASSUME NEW i \in 0 .. k - 1
      PROVE  n.next[At(r, h, i)] = At(r, h, i + 1) /\ n.prev[At(r, h, i + 1)] = At(r, h, i)
  <2>1. CASE i = 0
    <3>1. At(r, h, i) = h /\ At(r, h, i + 1) = s
      <4>1. 1 \in 1 .. k
        BY <1>1
      <4> QED  BY <1>8, <2>1, <4>1 DEF s
    <3> QED  BY <1>1, <1>3, <1>5, <1>6, <3>1 DEF Pointers
  <2>2. CASE i # 0
    <3>1. i \in 1 .. k /\ i + 1 \in 1 .. k /\ i + 1 \in 0 .. k /\ i + 2 \in 0 .. k + 1
          /\ 1 \in 0 .. k /\ 0 \in 0 .. k /\ (i + 1) + 1 = i + 2 /\ i + 1 # 1 /\ i + 1 # 0
      BY <1>1, <2>2
    <3>2. At(r, h, i) = At(q, h, i + 1) /\ At(r, h, i + 1) = At(q, h, i + 2)
      BY <1>8, <3>1
    <3>3. m.next[At(q, h, i + 1)] = At(q, h, i + 2) /\ m.prev[At(q, h, i + 2)] = At(q, h, i + 1)
      BY <1>1, <3>1 DEF Leads, k
    <3>4. At(q, h, i + 1) # h /\ At(q, h, i + 1) # e
      BY <1>2, <1>3, <3>1
    <3>5. At(q, h, i + 2) # s /\ At(q, h, i + 2) # e
      <4>1. 2 \in 0 .. k /\ i + 2 # 2 /\ i + 2 # 1
        BY <1>1, <3>1, <2>2
      <4>2. CASE i + 2 = k + 1
        BY <1>2, <1>3, <3>1, <4>1, <4>2 DEF s
      <4>3. CASE i + 2 # k + 1
        <5>1. i + 2 \in 0 .. k
          BY <1>1, <3>1, <4>3
        <5> QED  BY <1>2, <1>3, <3>1, <4>1, <5>1 DEF s
      <4> QED  BY <4>2, <4>3
    <3>6. At(q, h, i + 1) \in Address /\ At(q, h, i + 2) \in Address
      <4>1. i + 1 \in 0 .. k + 1
        BY <1>1, <3>1
      <4> QED  BY <1>2, <3>1, <4>1
    <3> QED  BY <1>1, <1>6, <3>2, <3>3, <3>4, <3>5, <3>6 DEF Pointers
  <2> QED  BY <2>1, <2>2
<1>10. s \in ToSet(q) \cup {h} /\ e \in ToSet(q)
  BY <1>1 DEF s, e, At, ToSet, k
<1>11. AgreeOutside(m, n, ToSet(q) \cup {h})
  BY <1>1, <1>6, <1>10 DEF AgreeOutside, Pointers
<1>12. list_first(m, h) = Head(q)
  BY <1>1, <1>4 DEF list_first, e
<1> QED  BY <1>7, <1>8, <1>9, <1>11, <1>12 DEF Leads, r, k

-----------------------------------------------------------------------------
(* No entry is in two lists, or in one twice.                               *)
Ordered ==
  /\ order \in [Heads -> Seq(Entries)]
  /\ \A h \in Heads : IsInjective(order[h])
  /\ \A h1, h2 \in Heads : h1 # h2 => ToSet(order[h1]) \cap ToSet(order[h2]) = {}

(* PointersFollowOrder is inductive for lists like these.                   *)
ListInv ==
  /\ links \in Pointers
  /\ Ordered
  /\ PointersFollowOrder

(* Each list of such pointers is one.                                       *)
LEMMA FollowOne ==
  PointersFollowOrder <=> \A h \in Heads : Leads(links, order[h], h)
  BY DEF PointersFollowOrder, Leads, Stop, At

(* The same after a step.                                                   *)
LEMMA FollowOneNext ==
  PointersFollowOrder' <=> \A h \in Heads : Leads(links', order'[h], h)
  BY DEF PointersFollowOrder, Leads, Stop, At

(* The parts of ListInv for one list.                                       *)
LEMMA ListOf ==
  ASSUME ListInv, NEW h \in Heads
  PROVE  /\ IsList(links, order[h], h)
         /\ Unlinked = {t \in Entries : \A g \in Heads : t \notin ToSet(order[g])}
<1>1. IsList(links, order[h], h)
  BY FollowOne DEF ListInv, Ordered, IsList
<1>2. Unlinked = {t \in Entries : \A g \in Heads : t \notin ToSet(order[g])}
  BY DEF Unlinked, ToSet
<1> QED  BY <1>1, <1>2

(* A list is empty when the pointer of its head says so, and first is the   *)
(* first one.                                                               *)
LEMMA HeadPointer ==
  ASSUME NEW m, NEW q, NEW h, IsList(m, q, h)
  PROVE  /\ list_empty(m, h) <=> q = <<>>
         /\ q # <<>> => list_first(m, h) = Head(q) /\ Head(q) \in Entries
<1>1. q \in Seq(Entries) /\ h \in Heads /\ IsInjective(q) /\ Leads(m, q, h)
  BY DEF IsList
<1>2. m.next[h] = At(q, h, 1)
  <2>1. 0 \in 0 .. Len(q) /\ 0 + 1 = 1
    BY <1>1
  <2> QED  BY <1>1, <2>1, StopsDiffer DEF Leads
<1>3. CASE q = <<>>
  <2>1. At(q, h, 1) = h
    BY <1>1, <1>3 DEF At
  <2> QED  BY <1>2, <1>3, <2>1 DEF list_empty
<1>4. CASE q # <<>>
  <2>1. 1 \in DOMAIN q /\ q[1] \in Entries /\ Head(q) = q[1]
    BY <1>1, <1>4
  <2>2. At(q, h, 1) = q[1]
    BY <2>1 DEF At
  <2>3. q[1] # h
    BY <1>1, <2>1, ListAssumption
  <2> QED  BY <1>2, <1>4, <2>1, <2>2, <2>3 DEF list_empty, list_first
<1> QED  BY <1>3, <1>4

(* A step that changes the list h alone, and the pointers of entries in it  *)
(* or in no list, leaves all lists in order.                                *)
LEMMA OneListChanges ==
  ASSUME ListInv, NEW h \in Heads, NEW r \in Seq(Entries), IsInjective(r),
         ToSet(r) \subseteq ToSet(order[h]) \cup Unlinked,
         order' = [order EXCEPT ![h] = r],
         links' \in Pointers, Leads(links', r, h),
         NEW A, AgreeOutside(links, links', A), A \subseteq ToSet(order[h]) \cup {h} \cup Unlinked
  PROVE  ListInv'
<1>1. /\ order \in [Heads -> Seq(Entries)] /\ \A g \in Heads : IsInjective(order[g])
      /\ \A h1, h2 \in Heads : h1 # h2 => ToSet(order[h1]) \cap ToSet(order[h2]) = {}
  BY DEF ListInv, Ordered
<1>2. order'[h] = r /\ \A g \in Heads : g # h => order'[g] = order[g]
  BY <1>1
<1>3. ASSUME NEW g \in Heads, g # h
      PROVE  ToSet(order[g]) \cap (ToSet(order[h]) \cup {h} \cup Unlinked) = {} /\ g \notin A
  <2>1. Unlinked \subseteq Entries /\ ToSet(order[g]) \cap Unlinked = {}
    BY <1>3, ListOf
  <2>2. ToSet(order[g]) \cap ToSet(order[h]) = {}
    BY <1>1, <1>3
  <2>3. ToSet(order[g]) \subseteq Entries /\ ToSet(order[h]) \subseteq Entries
    BY <1>1 DEF ToSet
  <2>4. h \notin Entries /\ g \notin Entries
    BY ListAssumption
  <2> QED  BY <1>3, <2>1, <2>2, <2>3, <2>4
<1>4. Ordered'
  <2>1. order' \in [Heads -> Seq(Entries)]
    BY <1>1
  <2>2. \A g \in Heads : IsInjective(order'[g])
    BY <1>1, <1>2
  <2>3. ASSUME NEW h1 \in Heads, NEW h2 \in Heads, h1 # h2
        PROVE  ToSet(order'[h1]) \cap ToSet(order'[h2]) = {}
    <3>1. CASE h1 = h
      BY <1>2, <1>3, <2>3, <3>1
    <3>2. CASE h2 = h
      BY <1>2, <1>3, <2>3, <3>2
    <3>3. CASE h1 # h /\ h2 # h
      BY <1>1, <1>2, <2>3, <3>3
    <3> QED  BY <3>1, <3>2, <3>3
  <2> QED  BY <2>1, <2>2, <2>3 DEF Ordered
<1>5. ASSUME NEW g \in Heads
      PROVE  Leads(links', order'[g], g)
  <2>1. CASE g = h
    BY <1>2, <2>1
  <2>2. CASE g # h
    <3>1. IsList(links, order[g], g)
      BY ListOf
    <3>2. A \cap ToSet(order[g]) = {} /\ g \notin A
      BY <1>3, <2>2
    <3>3. Leads(links', order[g], g)
      BY <3>1, <3>2, LeadsElsewhere
    <3> QED  BY <1>2, <2>2, <3>3
  <2> QED  BY <2>1, <2>2
<1> QED  BY <1>4, <1>5, FollowOneNext DEF ListInv

(* One step per operation of list.h: a task is linked behind the others.    *)
LEMMA StepLinkLast ==
  ASSUME ListInv, NEW h \in Heads, NEW t \in Entries, link_last(h, t)
  PROVE  ListInv'
<1> DEFINE q == order[h]
           A == ToSet(q) \cup {h, t}
<1>1. IsList(links, q, h) /\ q \in Seq(Entries) /\ IsInjective(q) /\ t \in Unlinked /\ t \notin ToSet(q)
  BY ListOf DEF link_last, IsList
<1>2. links' \in Pointers /\ Leads(links', Append(q, t), h) /\ AgreeOutside(links, links', A)
  BY <1>1, AddLast DEF link_last
<1>3. /\ Append(q, t) \in Seq(Entries) /\ IsInjective(Append(q, t))
      /\ ToSet(Append(q, t)) = ToSet(q) \cup {t}
  BY <1>1, AppendLemma
<1>4. order' = [order EXCEPT ![h] = Append(q, t)]
  BY DEF link_last
<1>5. A \subseteq ToSet(q) \cup {h} \cup Unlinked /\ ToSet(Append(q, t)) \subseteq ToSet(q) \cup Unlinked
  BY <1>1, <1>3
<1> HIDE DEF A
<1> QED  BY <1>2, <1>3, <1>4, <1>5, OneListChanges

(* A partly served reader is linked in front.                               *)
LEMMA StepLinkFirst ==
  ASSUME ListInv, NEW h \in Heads, NEW t \in Entries, link_first(h, t)
  PROVE  ListInv'
<1> DEFINE q == order[h]
           A == ToSet(q) \cup {h, t}
<1>1. IsList(links, q, h) /\ q \in Seq(Entries) /\ IsInjective(q) /\ t \in Unlinked /\ t \notin ToSet(q)
  BY ListOf DEF link_first, IsList
<1>2. links' \in Pointers /\ Leads(links', <<t>> \o q, h) /\ AgreeOutside(links, links', A)
  BY <1>1, AddFirst DEF link_first
<1>3. /\ <<t>> \o q \in Seq(Entries) /\ IsInjective(<<t>> \o q)
      /\ ToSet(<<t>> \o q) = ToSet(q) \cup {t}
  BY <1>1, ConsLemma
<1>4. order' = [order EXCEPT ![h] = <<t>> \o q]
  BY DEF link_first
<1>5. A \subseteq ToSet(q) \cup {h} \cup Unlinked /\ ToSet(<<t>> \o q) \subseteq ToSet(q) \cup Unlinked
  BY <1>1, <1>3
<1> HIDE DEF A
<1> QED  BY <1>2, <1>3, <1>4, <1>5, OneListChanges

(* The first entry is taken.                                                *)
LEMMA StepUnlinkFirst ==
  ASSUME ListInv, NEW h \in Heads, unlink_first(h)
  PROVE  ListInv'
<1> DEFINE q == order[h]
           A == ToSet(q) \cup {h}
<1>1. IsList(links, q, h) /\ q \in Seq(Entries) /\ IsInjective(q)
  BY ListOf DEF IsList
<1>2. q # <<>>
  BY <1>1, HeadPointer DEF unlink_first
<1>3. links' \in Pointers /\ Leads(links', Tail(q), h) /\ AgreeOutside(links, links', A)
  BY <1>1, <1>2, DelFirst DEF unlink_first
<1>4. Tail(q) \in Seq(Entries) /\ IsInjective(Tail(q)) /\ ToSet(Tail(q)) \subseteq ToSet(q)
  BY <1>1, <1>2, TailLemma
<1>5. order' = [order EXCEPT ![h] = Tail(q)]
  BY DEF unlink_first
<1>6. A \subseteq ToSet(q) \cup {h} \cup Unlinked /\ ToSet(Tail(q)) \subseteq ToSet(q) \cup Unlinked
  BY <1>4
<1> HIDE DEF A
<1> QED  BY <1>3, <1>4, <1>5, <1>6, OneListChanges

(* INIT_LIST_HEAD of an empty list changes nothing.                         *)
LEMMA StepInitAgain ==
  ASSUME ListInv, NEW h \in Heads, init_again(h)
  PROVE  ListInv'
<1>1. IsList(links, <<>>, h) /\ order[h] = <<>>
  BY ListOf DEF init_again
<1>2. links.next[h] = h /\ links.prev[h] = h /\ links \in Pointers
  <2>1. 0 \in 0 .. Len(<<>>) /\ At(<<>>, h, 0) = h /\ At(<<>>, h, 0 + 1) = h
    BY DEF At
  <2> QED  BY <1>1, <2>1 DEF IsList, Leads
<1>3. links' = links
  BY <1>2 DEF init_again, INIT_LIST_HEAD, Pointers
<1> QED  BY <1>3 DEF init_again, ListInv, Ordered, PointersFollowOrder, Stop

(* So does a step of any of them.                                           *)
LEMMA ListStep == ListInv /\ [Next]_vars => ListInv'
<1> SUFFICES ASSUME ListInv, [Next]_vars
             PROVE  ListInv'
  OBVIOUS
<1>1. ASSUME NEW h \in Heads, NEW t \in Entries, link_last(h, t) PROVE ListInv'
  BY <1>1, StepLinkLast
<1>2. ASSUME NEW h \in Heads, NEW t \in Entries, link_first(h, t) PROVE ListInv'
  BY <1>2, StepLinkFirst
<1>3. ASSUME NEW h \in Heads, unlink_first(h) PROVE ListInv'
  BY <1>3, StepUnlinkFirst
<1>4. ASSUME NEW h \in Heads, init_again(h) PROVE ListInv'
  BY <1>4, StepInitAgain
<1>5. CASE UNCHANGED vars
  BY <1>5 DEF vars, ListInv, Ordered, PointersFollowOrder, Stop
<1> QED  BY <1>1, <1>2, <1>3, <1>4, <1>5 DEF Next

(* The lists are empty when they are initialised.                           *)
LEMMA ListStarts == Init => ListInv
<1> SUFFICES ASSUME Init PROVE ListInv
  OBVIOUS
<1>1. links \in Pointers
  BY DEF Init, Pointers, Address
<1>2. Ordered
  <2>1. <<>> \in Seq(Entries) /\ IsInjective(<<>>) /\ ToSet(<<>>) = {}
    BY DEF IsInjective, ToSet
  <2> QED  BY <2>1 DEF Init, Ordered
<1>3. PointersFollowOrder
  <2>1. ASSUME NEW h \in Heads
        PROVE  Len(order[h]) = 0 /\ DOMAIN order[h] = {} /\ links.next[h] = h /\ links.prev[h] = h
    BY DEF Init, Address
  <2> QED  BY <2>1 DEF PointersFollowOrder, Stop
<1> QED  BY <1>1, <1>2, <1>3 DEF ListInv

(* However many lists there are and tasks in them: the pointers of list.h   *)
(* lead once round each list, forwards and backwards (list_add,             *)
(* list_add_tail, list_del of the first entry, INIT_LIST_HEAD).             *)
THEOREM PointersAreRight == Spec => []PointersFollowOrder
<1>1. ListInv => PointersFollowOrder
  BY DEF ListInv
<1> QED  BY <1>1, ListStarts, ListStep, PTL DEF Spec

-----------------------------------------------------------------------------
(* A search that entered the loop without its task being the first one has  *)
(* taken the head itself out of the list: the head points at NULL.          *)
Lost == pc = "loop" /\ ~ found

(* What holds at each place of the search, so that the answer is right when *)
(* it comes back.                                                           *)
SearchState ==
  /\ current \in Entries /\ pid \in Entries \cup {NULL} /\ queue \in Heads /\ found \in BOOLEAN
  /\ pc \in {"user", "search", "loop", "return"}

SearchInv ==
  /\ pc = "search" /\ queue = keyboardqueue =>
       pid # current /\ pid \notin ToSet(order[readyqueue])
  /\ pc = "loop" /\ found =>
       /\ order[queue] # <<>> /\ first = Head(order[queue])
       /\ pid = first /\ desired = first
  /\ Lost => links.next[queue] = NULL /\ first # NULL
  /\ pc = "return" /\ found => desired = pid /\ pid \in {current} \cup ToSet(order[queue])
  /\ pc = "return" /\ ~ found =>
       /\ pid # current /\ order[queue] = <<>>
       /\ queue = keyboardqueue => pid \notin ToSet(order[readyqueue])

GetInv ==
  /\ SearchState
  /\ links \in Pointers /\ Ordered
  /\ Lost \/ PointersFollowOrder
  /\ SearchInv

(* At first nobody searches.                                                *)
LEMMA GetStarts == GetInit => GetInv
  BY ListStarts, GetStatsAssumption
  DEF GetInit, GetInv, ListInv, SearchState, SearchInv, Lost

(* Outside a search that is lost, the lists are those of ListHead.          *)
LEMMA NotLost == GetInv /\ ~ Lost => ListInv
  BY DEF GetInv, ListInv

(* Lists that do not change stay in order.                                  *)
LEMMA OrderStays == Ordered /\ UNCHANGED order => Ordered'
  BY DEF Ordered

(* Pointers that do not change still lead round the lists.                  *)
LEMMA PointersStay == PointersFollowOrder /\ UNCHANGED vars => PointersFollowOrder'
  BY DEF PointersFollowOrder, Stop, vars

(* One step per action of GetStats: the rest of the kernel.                 *)
LEMMA StepOtherCalls == GetInv /\ other_calls => GetInv'
<1> SUFFICES ASSUME GetInv, other_calls PROVE GetInv'
  OBVIOUS
<1>1. ~ Lost /\ ~ Lost' /\ pc' = "user"
  BY DEF other_calls, Lost
<1>2. ListInv'
  BY <1>1, NotLost, ListStep DEF other_calls
<1>3. SearchState'
  BY DEF other_calls, GetInv, SearchState, searchVars, Unlinked
<1> QED  BY <1>1, <1>2, <1>3 DEF GetInv, ListInv, SearchInv

(* The call begins.                                                         *)
LEMMA StepGetStats ==
  ASSUME GetInv, NEW p \in Entries \cup {NULL}, sys_get_stats(p)
  PROVE  GetInv'
<1>1. ~ Lost /\ ~ Lost' /\ UNCHANGED vars /\ links' = links /\ order' = order /\ current' = current
  BY DEF sys_get_stats, Lost, vars
<1>2. SearchState' /\ SearchInv'
  BY <1>1, GetStatsAssumption DEF sys_get_stats, GetInv, SearchState, SearchInv, Lost
<1> QED  BY <1>1, <1>2, OrderStays, PointersStay DEF GetInv

(* The calling task is the one.                                             *)
LEMMA StepSearchCurrent == GetInv /\ search_current => GetInv'
<1> SUFFICES ASSUME GetInv, search_current PROVE GetInv'
  OBVIOUS
<1>1. ~ Lost /\ ~ Lost' /\ UNCHANGED vars /\ links' = links /\ order' = order
  BY DEF search_current, Lost, vars
<1>2. SearchState' /\ SearchInv'
  BY <1>1 DEF search_current, GetInv, SearchState, SearchInv, Lost
<1> QED  BY <1>1, <1>2, OrderStays, PointersStay DEF GetInv

(* The list is empty: the task is not in it.                                *)
LEMMA StepSearchEmpty == GetInv /\ search_empty => GetInv'
<1> SUFFICES ASSUME GetInv, search_empty PROVE GetInv'
  OBVIOUS
<1>1. ~ Lost /\ ~ Lost' /\ UNCHANGED vars /\ links' = links /\ order' = order
  BY DEF search_empty, Lost, vars
<1>2. order[queue] = <<>>
  <2>1. IsList(links, order[queue], queue)
    BY <1>1, NotLost, ListOf DEF GetInv, SearchState
  <2> QED  BY <2>1, HeadPointer DEF search_empty
<1>3. SearchState' /\ SearchInv'
  BY <1>1, <1>2 DEF search_empty, GetInv, SearchState, SearchInv, Lost
<1> QED  BY <1>1, <1>3, OrderStays, PointersStay DEF GetInv

(* Taking the head out of its own list, as the search does, and linking any *)
(* address at the end leaves the head pointing at NULL.                     *)
LEMMA HeadIsTakenOut ==
  ASSUME NEW m \in Pointers, NEW h \in Heads, NEW a \in Address, a # h,
         NEW n, n = list_add_tail(list_del(m, h), a, h)
  PROVE  n \in Pointers /\ n.next[h] = NULL
<1> DEFINE d == list_del(m, h)
<1>1. h \in Address /\ NULL \in Address /\ h # NULL
  BY ListAssumption DEF Address
<1>2. d \in Pointers /\ d.next[h] = NULL /\ d.prev[h] = NULL
  BY <1>1 DEF list_del, Pointers
<1> HIDE DEF d
<1>3. /\ n.next = [d.next EXCEPT ![a] = h, ![NULL] = a]
      /\ n.prev = [d.prev EXCEPT ![h] = a, ![a] = NULL]
      /\ n = [next |-> n.next, prev |-> n.prev]
  BY <1>2 DEF d, list_add_tail, __list_add
<1> QED  BY <1>1, <1>2, <1>3 DEF Pointers

(* The search enters its loop: found, or lost.                              *)
LEMMA StepSearchFirst == GetInv /\ search_first => GetInv'
<1> SUFFICES ASSUME GetInv, search_first PROVE GetInv'
  OBVIOUS
<1>1. ~ Lost /\ order' = order /\ current' = current /\ pid' = pid /\ queue' = queue /\ pc' = "loop"
  BY DEF search_first, Lost
<1>2. queue \in Heads /\ links \in Pointers /\ pid \in Entries \cup {NULL}
  BY DEF GetInv, SearchState
<1>3. order[queue] # <<>> /\ first' = Head(order[queue]) /\ first' \in Entries
  <2>1. IsList(links, order[queue], queue)
    BY <1>1, <1>2, NotLost, ListOf
  <2> QED  BY <2>1, HeadPointer DEF search_first
<1>4. first' # NULL /\ first' # queue /\ first' \in Address
  BY <1>2, <1>3, ListAssumption DEF Address
<1>5. CASE first' = pid
  <2>1. found' = TRUE /\ desired' = pid /\ links' = links /\ ~ Lost'
    BY <1>5 DEF search_first, Lost
  <2>2. SearchState' /\ SearchInv'
    BY <1>1, <1>3, <1>5, <2>1 DEF GetInv, SearchState, SearchInv, Lost
  <2>3. PointersFollowOrder'
    BY <1>1, <2>1, PointersStay DEF GetInv, vars
  <2> QED  BY <1>1, <1>2, <2>1, <2>2, <2>3, OrderStays DEF GetInv
<1>6. CASE first' # pid
  <2>1. found' = FALSE /\ links' = list_add_tail(list_del(links, queue), first', queue) /\ Lost'
    BY <1>1, <1>6 DEF search_first, Lost
  <2>2. links' \in Pointers /\ links'.next[queue] = NULL
    BY <1>2, <1>4, <2>1, HeadIsTakenOut
  <2>3. SearchState' /\ SearchInv'
    BY <1>1, <1>4, <2>1, <2>2 DEF GetInv, SearchState, SearchInv, Lost
  <2> QED  BY <1>1, <2>1, <2>2, <2>3, OrderStays DEF GetInv
<1> QED  BY <1>5, <1>6

(* A search that found its task in the loop takes no turn: only one that is *)
(* lost does, and it finds the head as it left it.                          *)
LEMMA StepSearchTurn == GetInv /\ search_turn => GetInv' /\ Lost /\ Lost'
<1> SUFFICES ASSUME GetInv, search_turn PROVE GetInv' /\ Lost /\ Lost'
  OBVIOUS
<1>1. /\ order' = order /\ current' = current /\ pid' = pid /\ queue' = queue /\ first' = first
      /\ pc' = "loop" /\ pc = "loop"
  BY DEF search_turn
<1>2. queue \in Heads /\ links \in Pointers /\ found \in BOOLEAN
  BY DEF GetInv, SearchState
<1>3. Lost
  <2>1. SUFFICES ASSUME ~ Lost PROVE FALSE
    OBVIOUS
  <2>2. order[queue] # <<>> /\ first = Head(order[queue])
    BY <1>1, <2>1 DEF GetInv, SearchInv, Lost
  <2>3. IsList(links, order[queue], queue)
    BY <1>2, <2>1, NotLost, ListOf
  <2>4. first = list_first(links, queue)
    BY <2>2, <2>3, HeadPointer
  <2> QED  BY <2>4 DEF search_turn
<1>4. list_first(links, queue) = NULL /\ first # NULL
  BY <1>3 DEF GetInv, SearchInv, list_first
<1>5. found' = found /\ links' = list_add_tail(list_del(links, queue), NULL, queue)
  BY <1>4 DEF search_turn
<1>6. NULL \in Address /\ NULL # queue
  BY <1>2, ListAssumption DEF Address
<1>7. links' \in Pointers /\ links'.next[queue] = NULL
  BY <1>2, <1>5, <1>6, HeadIsTakenOut
<1>8. Lost'
  BY <1>1, <1>3, <1>5 DEF Lost
<1>9. SearchState' /\ SearchInv'
  BY <1>1, <1>4, <1>5, <1>7, <1>8 DEF GetInv, SearchState, SearchInv, Lost
<1> QED  BY <1>1, <1>3, <1>7, <1>8, <1>9, OrderStays DEF GetInv

(* Only a search that has found its task leaves the loop.                   *)
LEMMA StepSearchEnd == GetInv /\ search_end => GetInv' /\ ~ Lost
<1> SUFFICES ASSUME GetInv, search_end PROVE GetInv' /\ ~ Lost
  OBVIOUS
<1>1. ~ Lost
  BY DEF search_end, GetInv, SearchInv, Lost, list_first
<1>2. /\ UNCHANGED vars /\ links' = links /\ order' = order /\ UNCHANGED searchVars
      /\ current' = current /\ pc = "loop" /\ pc' = "return" /\ ~ Lost'
  BY DEF search_end, Lost, vars
<1>3. /\ found = TRUE /\ order[queue] # <<>> /\ pid = Head(order[queue]) /\ desired = pid
      /\ order[queue] \in Seq(Entries)
  BY <1>1, <1>2 DEF GetInv, SearchInv, SearchState, Lost, Ordered
<1>4. pid \in ToSet(order[queue])
  BY <1>3, TailLemma
<1>5. SearchState' /\ SearchInv'
  BY <1>2, <1>3, <1>4 DEF GetInv, SearchState, SearchInv, Lost, searchVars
<1> QED  BY <1>1, <1>2, <1>5, OrderStays, PointersStay DEF GetInv

(* The search goes on in keyboardqueue.                                     *)
LEMMA StepAgain == GetInv /\ get_stats_again => GetInv'
<1> SUFFICES ASSUME GetInv, get_stats_again PROVE GetInv'
  OBVIOUS
<1>1. ~ Lost /\ ~ Lost' /\ UNCHANGED vars /\ links' = links /\ order' = order
  BY DEF get_stats_again, Lost, vars
<1>2. pid # current /\ pid \notin ToSet(order[readyqueue])
  BY DEF get_stats_again, GetInv, SearchInv, ToSet
<1>3. SearchState' /\ SearchInv'
  BY <1>1, <1>2, GetStatsAssumption DEF get_stats_again, GetInv, SearchState, SearchInv, Lost
<1> QED  BY <1>1, <1>3, OrderStays, PointersStay DEF GetInv

(* sys_get_stats comes back.                                                *)
LEMMA StepReturn == GetInv /\ get_stats_return => GetInv'
<1> SUFFICES ASSUME GetInv, get_stats_return PROVE GetInv'
  OBVIOUS
<1>1. ~ Lost /\ ~ Lost' /\ UNCHANGED vars /\ links' = links /\ order' = order
  BY DEF get_stats_return, Lost, vars
<1>2. SearchState' /\ SearchInv'
  BY <1>1 DEF get_stats_return, GetInv, SearchState, SearchInv, Lost, searchVars
<1> QED  BY <1>1, <1>2, OrderStays, PointersStay DEF GetInv

(* Nothing happens.                                                         *)
LEMMA GetStays == GetInv /\ UNCHANGED getVars => GetInv'
  BY OrderStays, PointersStay
  DEF getVars, vars, searchVars, GetInv, SearchState, SearchInv, Lost

(* All steps together.                                                      *)
LEMMA GetStepInv == GetInv /\ [GetNext]_getVars => GetInv'
  BY StepOtherCalls, StepGetStats, StepSearchCurrent, StepSearchEmpty, StepSearchFirst,
     StepSearchTurn, StepSearchEnd, StepAgain, StepReturn, GetStays
  DEF GetNext, GetStep

(* GetInv is an invariant.                                                  *)
LEMMA GetAlways == GetSpec => []GetInv
  BY GetStarts, GetStepInv, PTL DEF GetSpec
-----------------------------------------------------------------------------
(* The answer of sys_get_stats, when it gives one, is right but for tasks   *)
(* that wait at a semaphore: for every set of tasks and of semaphores, in   *)
(* whatever order the tasks are ready or wait (getStructPID).               *)
THEOREM StatsAreRight == GetSpec => []AnswerIsRight
<1>1. GetInv => AnswerIsRight
  <2> SUFFICES ASSUME GetInv, pc = "return"
               PROVE  /\ found => pid \in Existing /\ desired = pid
                      /\ ~ found /\ queue = keyboardqueue =>
                           pid \notin Existing \/ \E s \in semqueues : pid \in ToSet(order[s])
    BY DEF AnswerIsRight
  <2>1. ASSUME found
        PROVE  pid \in Existing /\ desired = pid
    BY <2>1 DEF GetInv, SearchState, SearchInv, Existing
  <2>2. ASSUME ~ found, queue = keyboardqueue, pid \in Existing
        PROVE  \E s \in semqueues : pid \in ToSet(order[s])
    <3>1. /\ pid # current /\ pid \notin ToSet(order[readyqueue])
          /\ order[keyboardqueue] = <<>>
      BY <2>2 DEF GetInv, SearchInv
    <3>2. PICK h \in Heads : pid \in ToSet(order[h])
      BY <2>2, <3>1 DEF Existing
    <3>3. ToSet(<<>>) = {}
      BY DEF ToSet
    <3>4. h # readyqueue /\ h # keyboardqueue
      BY <3>1, <3>2, <3>3
    <3> QED  BY <3>2, <3>4, GetStatsAssumption
  <2> QED  BY <2>1, <2>2
<1> QED  BY <1>1, GetAlways, PTL

(* A search that comes back has not harmed the lists: whenever user code    *)
(* runs, their pointers are right (getStructPID moves entries only while it *)
(* is lost).                                                                *)
THEOREM SearchesLeaveLists == GetSpec => []ListsIntact
<1>1. GetInv => ListsIntact
  BY DEF GetInv, ListsIntact, Lost
<1> QED  BY <1>1, GetAlways, PTL

(* A search whose task is not the first of the list never comes back: the   *)
(* step after the loop is never taken from such a state, which is the       *)
(* finding about SearchEnds, for lists of every length (getStructPID).      *)
THEOREM LostForever == GetSpec => [][Lost => Lost']_getVars
<1>1. GetInv /\ [GetNext]_getVars => [Lost => Lost']_getVars
  <2> SUFFICES ASSUME GetInv, GetNext, Lost PROVE Lost'
    OBVIOUS
  <2>1. search_turn \/ search_end
    BY DEF Lost, GetNext, GetStep, other_calls, sys_get_stats, search_current, search_empty,
           search_first, get_stats_again, get_stats_return
  <2> QED  BY <2>1, StepSearchTurn, StepSearchEnd
<1> QED  BY <1>1, GetAlways, PTL DEF GetSpec
=============================================================================
