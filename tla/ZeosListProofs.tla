--------------------------- MODULE ZeosListProofs ---------------------------
(***************************************************************************)
(* The pointers of list.c represent the sequences of ZeosQueues, for any   *)
(* number of lists and entries.  Both insertions are one argument, that of *)
(* a new node between positions k and k + 1 of the ring.                   *)
(***************************************************************************)
EXTENDS ZeosList, SequenceTheorems, TLAPS

\* Represents, of given pointers and lists.
Rep(nx, pv, ls) ==
  /\ \A h \in Heads : IsInjective(ls[h])
  /\ \A g, h \in Heads : g # h => Range(ls[g]) \cap Range(ls[h]) = {}
  /\ \A h \in Heads : Closed(nx, pv, ls[h], h)
  /\ \A e \in Entries : (\A h \in Heads : e \notin Range(ls[h])) =>
       nx[e] = NULL /\ pv[e] = NULL

Pointers == [Nodes -> Nodes \cup {NULL}]
Listing  == [Heads -> Seq(Entries)]

(***************************************************************************)
(* The sequence operations, position by position.                          *)
(***************************************************************************)
\* a is q with t inserted after position k.
Inserted(a, q, t, k) ==
  /\ Len(a) = Len(q) + 1
  /\ \A i \in 1 .. k : a[i] = q[i]
  /\ a[k + 1] = t
  /\ \A i \in k + 1 .. Len(q) : a[i + 1] = q[i]

\* a is q without its position k.
Deleted(a, q, k) ==
  /\ Len(a) = Len(q) - 1
  /\ \A i \in 1 .. k - 1 : a[i] = q[i]
  /\ \A i \in k .. Len(q) - 1 : a[i] = q[i + 1]

LEMMA AddInserts ==
  ASSUME NEW q \in Seq(Entries), NEW t \in Entries
  PROVE  Q!list_add(t, q) \in Seq(Entries) /\ Inserted(Q!list_add(t, q), q, t, 0)
<1> DEFINE a == <<t>> \o q
<1>1. <<t>> \in Seq(Entries) /\ Len(<<t>>) = 1 /\ <<t>>[1] = t
  OBVIOUS
<1>2. /\ a \in Seq(Entries) /\ Len(a) = 1 + Len(q)
      /\ \A i \in 1 .. 1 + Len(q) : a[i] = IF i <= 1 THEN <<t>>[i] ELSE q[i - 1]
  BY <1>1, ConcatProperties
<1>3. Len(q) \in Nat
  BY LenProperties
<1> HIDE DEF a
<1>4. a[1] = t
  BY <1>1, <1>2, <1>3
<1>5. \A i \in 1 .. Len(q) : a[i + 1] = q[i]
  BY <1>2, <1>3
<1>6. Inserted(a, q, t, 0)
  BY <1>2, <1>3, <1>4, <1>5 DEF Inserted
<1>7. Q!list_add(t, q) = a
  BY DEF a, Q!list_add
<1> QED
  BY <1>2, <1>6, <1>7

LEMMA AddTailInserts ==
  ASSUME NEW q \in Seq(Entries), NEW t \in Entries
  PROVE  /\ Q!list_add_tail(t, q) \in Seq(Entries)
         /\ Inserted(Q!list_add_tail(t, q), q, t, Len(q))
<1>1. Len(q) \in Nat
  BY LenProperties
<1> QED
  BY <1>1, AppendProperties DEF Inserted, Q!list_add_tail

LEMMA DelDeletes ==
  ASSUME NEW q \in Seq(Entries), IsInjective(q), NEW k \in 1 .. Len(q)
  PROVE  Q!list_del(q[k], q) \in Seq(Entries) /\ Deleted(Q!list_del(q[k], q), q, k)
<1> DEFINE c == CHOOSE j \in DOMAIN q : q[j] = q[k]
<1>1. Len(q) \in Nat /\ DOMAIN q = 1 .. Len(q)
  BY LenProperties
<1>2. c \in DOMAIN q /\ q[c] = q[k]
  BY <1>1
<1>3. c = k
  BY <1>1, <1>2 DEF IsInjective
<1>4. Q!list_del(q[k], q) = SubSeq(q, 1, c - 1) \o SubSeq(q, c + 1, Len(q))
  BY Zenon DEF Q!list_del
<1> HIDE DEF c
<1> DEFINE u == SubSeq(q, 1, k - 1)
           v == SubSeq(q, k + 1, Len(q))
           a == u \o v
<1>5. Q!list_del(q[k], q) = a
  BY <1>3, <1>4
<1>6. /\ u \in Seq(Entries) /\ Len(u) = k - 1
      /\ \A i \in 1 .. k - 1 : u[i] = q[i]
  BY <1>1, SubSeqProperties
<1>7. /\ v \in Seq(Entries) /\ Len(v) = Len(q) - k
      /\ \A i \in 1 .. Len(q) - k : v[i] = q[k + i]
  <2>1. /\ k + 1 \in Int /\ Len(q) \in Int
        /\ \A i \in k + 1 .. Len(q) : q[i] \in Entries
    BY <1>1
  <2>2. /\ v \in Seq(Entries)
        /\ Len(v) = IF k + 1 <= Len(q) THEN Len(q) - (k + 1) + 1 ELSE 0
        /\ \A i \in 1 .. Len(q) - (k + 1) + 1 : v[i] = q[(k + 1) + i - 1]
    BY <2>1, SubSeqProperties
  <2> HIDE DEF u, v, a
  <2>3. Len(v) = Len(q) - k /\ Len(q) - (k + 1) + 1 = Len(q) - k
    <3>1. Len(v) = IF k + 1 <= Len(q) THEN Len(q) - (k + 1) + 1 ELSE 0
      BY <2>2
    <3>2. ASSUME NEW n \in Nat, NEW j \in 1 .. n
          PROVE  n - (j + 1) + 1 = n - j /\ (j + 1 <= n \/ n - j = 0)
      BY <3>2
    <3> QED
      BY <1>1, <3>1, <3>2
  <2>4. \A i \in 1 .. Len(q) - k : v[i] = q[k + i]
    <3>1. TAKE i \in 1 .. Len(q) - k
    <3>2. (k + 1) + i - 1 = k + i
      BY <1>1
    <3> QED
      BY <2>2, <2>3, <3>2
  <2> QED
    BY <2>2, <2>3, <2>4
<1> HIDE DEF u, v
<1>8. /\ a \in Seq(Entries) /\ Len(a) = Len(u) + Len(v)
      /\ \A i \in 1 .. Len(u) + Len(v) :
           a[i] = IF i <= Len(u) THEN u[i] ELSE v[i - Len(u)]
  BY <1>6, <1>7, ConcatProperties
<1> HIDE DEF a
<1>9. Len(a) = Len(q) - 1
  BY <1>1, <1>6, <1>7, <1>8
<1>10. ASSUME NEW i \in 1 .. k - 1 PROVE a[i] = q[i]
  <2>1. i \in 1 .. Len(u) + Len(v) /\ i <= Len(u)
    BY <1>1, <1>6, <1>7
  <2>2. a[i] = u[i]
    BY <1>8, <2>1
  <2> QED
    BY <1>6, <2>2
<1>11. ASSUME NEW i \in k .. Len(q) - 1 PROVE a[i] = q[i + 1]
  <2>1. i \in 1 .. Len(u) + Len(v) /\ ~(i <= Len(u)) /\ i - Len(u) = i - k + 1
    BY <1>1, <1>6, <1>7
  <2>2. a[i] = v[i - k + 1] /\ i - k + 1 \in 1 .. Len(q) - k
    BY <1>1, <1>8, <2>1
  <2>3. v[i - k + 1] = q[k + (i - k + 1)] /\ k + (i - k + 1) = i + 1
    BY <1>1, <1>7, <2>2
  <2> QED
    BY <2>2, <2>3
<1> QED
  BY <1>5, <1>8, <1>9, <1>10, <1>11 DEF Deleted

(***************************************************************************)
(* Rings.                                                                  *)
(***************************************************************************)
\* The nodes of a ring are its head and its entries.
LEMMA RingNodes ==
  ASSUME NEW h \in Heads, NEW q \in Seq(Entries), NEW i \in Int
  PROVE  /\ Ring(q, h, i) \in Nodes
         /\ i \in 1 .. Len(q) => Ring(q, h, i) = q[i] /\ Ring(q, h, i) \in Range(q)
                                 /\ Ring(q, h, i) \in Entries
         /\ i \notin 1 .. Len(q) => Ring(q, h, i) = h
<1>1. Len(q) \in Nat /\ DOMAIN q = 1 .. Len(q)
  BY LenProperties
<1> QED
  BY <1>1 DEF Ring, Nodes, Range

\* Two rings share no node, and a ring repeats only its head, at both ends.
LEMMA RingDistinct ==
  ASSUME NEW ls \in Listing,
         \A h \in Heads : IsInjective(ls[h]),
         \A g, h \in Heads : g # h => Range(ls[g]) \cap Range(ls[h]) = {},
         NEW g \in Heads, NEW h \in Heads, NEW i \in Int, NEW j \in Int,
         Ring(ls[g], g, i) = Ring(ls[h], h, j)
  PROVE  /\ g = h
         /\ i \in 1 .. Len(ls[g]) \/ j \in 1 .. Len(ls[g]) => i = j
<1> DEFINE p == ls[g]
           q == ls[h]
<1>1. p \in Seq(Entries) /\ q \in Seq(Entries)
  BY DEF Listing
<1>2. Len(p) \in Nat /\ DOMAIN p = 1 .. Len(p) /\ Len(q) \in Nat /\ DOMAIN q = 1 .. Len(q)
  BY <1>1, LenProperties
<1>3. /\ i \in 1 .. Len(p) => /\ Ring(p, g, i) = p[i] /\ Ring(p, g, i) \in Range(p)
                              /\ Ring(p, g, i) \in Entries
      /\ i \notin 1 .. Len(p) => Ring(p, g, i) = g
  BY <1>1, RingNodes
<1>4. /\ j \in 1 .. Len(q) => /\ Ring(q, h, j) = q[j] /\ Ring(q, h, j) \in Range(q)
                              /\ Ring(q, h, j) \in Entries
      /\ j \notin 1 .. Len(q) => Ring(q, h, j) = h
  BY <1>1, RingNodes
<1>5. Ring(p, g, i) = Ring(q, h, j)
  OBVIOUS
<1>6. IsInjective(p) /\ (g # h => Range(p) \cap Range(q) = {}) /\ g \notin Entries /\ h \notin Entries
  BY ListAssumption
<1>7. g = h => p = q
  OBVIOUS
<1> HIDE DEF p, q
<1>8. g = h
  BY <1>3, <1>4, <1>5, <1>6
<1>9. i \in 1 .. Len(p) \/ j \in 1 .. Len(p) => i = j
  <2>1. p = q
    BY <1>7, <1>8
  <2>2. CASE i \in 1 .. Len(p) /\ j \in 1 .. Len(p)
    <3>1. p[i] = p[j]
      BY <1>3, <1>4, <1>5, <2>1, <2>2
    <3> QED
      BY <1>2, <1>6, <2>2, <3>1 DEF IsInjective
  <2>3. CASE ~(i \in 1 .. Len(p) /\ j \in 1 .. Len(p))
    BY <1>3, <1>4, <1>5, <1>6, <2>1, <2>3
  <2> QED
    BY <2>2, <2>3
<1> QED
  BY <1>8, <1>9 DEF p

\* The stores of __list_add, those of list_del, and the change of one list.
Spliced(nx2, pv2, nx, pv, t, b, c) ==
  /\ nx2 = [nx EXCEPT ![t] = c, ![b] = t]
  /\ pv2 = [pv EXCEPT ![c] = t, ![t] = b]
Unspliced(nx2, pv2, nx, pv, t, b, c) ==
  /\ nx2 = [nx EXCEPT ![b] = c, ![t] = NULL]
  /\ pv2 = [pv EXCEPT ![c] = b, ![t] = NULL]
Relisted(ls2, ls, h, a) == ls2 = [ls EXCEPT ![h] = a]

\* Linking the unlinked entry t after position k of the ring of h.
LEMMA InsertRep ==
  ASSUME NEW nx \in Pointers, NEW pv \in Pointers, NEW ls \in Listing,
         Rep(nx, pv, ls), NEW h \in Heads, NEW t \in Entries,
         \A g \in Heads : t \notin Range(ls[g]),
         NEW k \in 0 .. Len(ls[h]), NEW a \in Seq(Entries),
         Inserted(a, ls[h], t, k),
         NEW b, b = Ring(ls[h], h, k), NEW c, c = Ring(ls[h], h, k + 1),
         NEW nx2, NEW pv2, Spliced(nx2, pv2, nx, pv, t, b, c),
         NEW ls2, Relisted(ls2, ls, h, a)
  PROVE  nx2 \in Pointers /\ pv2 \in Pointers /\ ls2 \in Listing /\ Rep(nx2, pv2, ls2)
<1> DEFINE q == ls[h]
<1>1. q \in Seq(Entries) /\ Len(q) \in Nat /\ DOMAIN q = 1 .. Len(q)
  BY LenProperties DEF Listing
<1>2. Len(a) = Len(q) + 1 /\ DOMAIN a = 1 .. Len(q) + 1
  BY LenProperties DEF Inserted
<1>3. /\ \A g \in Heads : IsInjective(ls[g])
      /\ \A g, f \in Heads : g # f => Range(ls[g]) \cap Range(ls[f]) = {}
  BY DEF Rep
<1>4. /\ b \in Nodes /\ c \in Nodes /\ b \in {h} \cup Range(q) /\ c \in {h} \cup Range(q)
  BY <1>1, RingNodes
<1>5. t \in Nodes /\ t # b /\ t # c /\ t # h /\ t \notin Range(q)
  BY <1>4, ListAssumption DEF Nodes
<1>6. /\ nx2 \in Pointers /\ pv2 \in Pointers
      /\ nx2[t] = c /\ nx2[b] = t /\ pv2[c] = t /\ pv2[t] = b
      /\ \A n \in Nodes : n # t /\ n # b => nx2[n] = nx[n]
      /\ \A n \in Nodes : n # t /\ n # c => pv2[n] = pv[n]
  BY <1>4, <1>5 DEF Pointers, Spliced
<1>7. ls2 \in Listing /\ ls2[h] = a /\ \A g \in Heads \ {h} : ls2[g] = ls[g]
  BY DEF Listing, Relisted
<1>8. /\ \A i \in 0 .. k : Ring(a, h, i) = Ring(q, h, i)
      /\ Ring(a, h, k + 1) = t
      /\ \A i \in k + 1 .. Len(q) + 1 : Ring(a, h, i + 1) = Ring(q, h, i)
  <2>1. \A i \in 0 .. k : Ring(a, h, i) = Ring(q, h, i)
    BY <1>1, <1>2 DEF Inserted, Ring
  <2>2. Ring(a, h, k + 1) = t
    BY <1>1, <1>2 DEF Inserted, Ring
  <2>3. ASSUME NEW i \in k + 1 .. Len(q) + 1 PROVE Ring(a, h, i + 1) = Ring(q, h, i)
    <3>1. CASE i <= Len(q)
      BY <1>1, <1>2, <3>1 DEF Inserted, Ring
    <3>2. CASE i = Len(q) + 1
      BY <1>1, <1>2, <3>2 DEF Ring
    <3> QED
      BY <1>1, <3>1, <3>2
  <2> QED
    BY <2>1, <2>2, <2>3
<1>9. Closed(nx, pv, q, h)
  BY DEF Rep
<1>10. \A i \in 0 .. Len(q) : i # k => Ring(q, h, i) # b /\ Ring(q, h, i + 1) # c
  <2>1. SUFFICES ASSUME NEW i \in 0 .. Len(q), i # k
                 PROVE  Ring(q, h, i) # b /\ Ring(q, h, i + 1) # c
    OBVIOUS
  <2>2. i \in 1 .. Len(q) \/ k \in 1 .. Len(q)
    BY <1>1, <2>1
  <2>3. i + 1 \in 1 .. Len(q) \/ k + 1 \in 1 .. Len(q)
    BY <1>1, <2>1
  <2>4. ASSUME NEW m \in Int, NEW n \in Int, Ring(q, h, m) = Ring(q, h, n),
               m \in 1 .. Len(q) \/ n \in 1 .. Len(q)
        PROVE  m = n
    BY <1>3, <2>4, RingDistinct
  <2> HIDE DEF q
  <2>5. i \in Int /\ k \in Int /\ i + 1 \in Int /\ k + 1 \in Int /\ i + 1 # k + 1
    BY <1>1, <2>1
  <2>6. b = Ring(q, h, k) /\ c = Ring(q, h, k + 1)
    BY DEF q
  <2>7. Ring(q, h, i) # b
    BY <2>1, <2>2, <2>4, <2>5, <2>6
  <2>8. Ring(q, h, i + 1) # c
    BY <2>3, <2>4, <2>5, <2>6
  <2> QED
    BY <2>7, <2>8
<1>11. \A i \in 0 .. Len(q) + 1 : Ring(q, h, i) \in Nodes /\ Ring(q, h, i) # t
  <2>1. SUFFICES ASSUME NEW i \in 0 .. Len(q) + 1
                 PROVE  Ring(q, h, i) \in Nodes /\ Ring(q, h, i) # t
    OBVIOUS
  <2>2. i \in Int
    BY <1>1
  <2> QED
    BY <1>1, <1>5, <2>2, RingNodes
<1> HIDE DEF q
<1>12. Closed(nx2, pv2, a, h)
  <2>1. SUFFICES ASSUME NEW i \in 0 .. Len(q) + 1
                 PROVE  /\ nx2[Ring(a, h, i)] = Ring(a, h, i + 1)
                        /\ pv2[Ring(a, h, i + 1)] = Ring(a, h, i)
    BY <1>2 DEF Closed
  <2>2. CASE i < k
    <3>1. /\ Ring(a, h, i) = Ring(q, h, i) /\ Ring(a, h, i + 1) = Ring(q, h, i + 1)
          /\ i \in 0 .. Len(q) /\ i # k /\ i + 1 \in 0 .. Len(q) + 1
      BY <1>1, <1>8, <2>2 DEF q
    <3>2. nx[Ring(q, h, i)] = Ring(q, h, i + 1) /\ pv[Ring(q, h, i + 1)] = Ring(q, h, i)
      BY <1>9, <3>1 DEF Closed
    <3>3. Ring(q, h, i) \notin {t, b} /\ Ring(q, h, i + 1) \notin {t, c}
      BY <1>1, <1>10, <1>11, <3>1
    <3> QED
      BY <1>1, <1>6, <1>11, <3>1, <3>2, <3>3
  <2>3. CASE i = k
    <3>1. Ring(a, h, i) = b /\ Ring(a, h, i + 1) = t
      BY <1>1, <1>8, <2>3 DEF q
    <3> QED
      BY <1>6, <3>1
  <2>4. CASE i = k + 1
    <3>1. Ring(a, h, i) = t /\ Ring(a, h, i + 1) = c
      BY <1>1, <1>8, <2>4 DEF q
    <3> QED
      BY <1>6, <3>1
  <2>5. CASE i > k + 1
    <3>1. /\ i - 1 \in 0 .. Len(q) /\ i - 1 # k /\ (i - 1) + 1 = i
          /\ i - 1 \in k + 1 .. Len(q) + 1 /\ i \in k + 1 .. Len(q) + 1
      BY <1>1, <2>5 DEF q
    <3>2. Ring(a, h, i) = Ring(q, h, i - 1) /\ Ring(a, h, i + 1) = Ring(q, h, i)
      BY <1>8, <3>1
    <3>3. nx[Ring(q, h, i - 1)] = Ring(q, h, i) /\ pv[Ring(q, h, i)] = Ring(q, h, i - 1)
      BY <1>9, <3>1 DEF Closed
    <3>4. Ring(q, h, i - 1) \notin {t, b} /\ Ring(q, h, i) \notin {t, c}
      <4>1. i - 1 \in 0 .. Len(q) + 1 /\ i \in 0 .. Len(q) + 1
        BY <1>1, <3>1
      <4>2. Ring(q, h, i - 1) # b /\ Ring(q, h, (i - 1) + 1) # c
        BY <1>10, <3>1
      <4> QED
        BY <1>11, <3>1, <4>1, <4>2
    <3>5. Ring(q, h, i - 1) \in Nodes /\ Ring(q, h, i) \in Nodes
      BY <1>1, <1>11, <3>1
    <3>6. nx2[Ring(q, h, i - 1)] = nx[Ring(q, h, i - 1)] /\ pv2[Ring(q, h, i)] = pv[Ring(q, h, i)]
      BY <1>6, <3>4, <3>5
    <3> QED
      BY <3>2, <3>3, <3>6
  <2> QED
    BY <1>1, <2>2, <2>3, <2>4, <2>5 DEF q
<1>13. ASSUME NEW g \in Heads, g # h PROVE Closed(nx2, pv2, ls[g], g)
  <2>1. ls[g] \in Seq(Entries) /\ Len(ls[g]) \in Nat /\ Closed(nx, pv, ls[g], g)
    BY LenProperties DEF Listing, Rep
  <2>2. ASSUME NEW i \in Int
        PROVE  Ring(ls[g], g, i) \in Nodes /\ Ring(ls[g], g, i) \notin {t, b, c}
    <3>1. Ring(ls[g], g, i) \in Nodes /\ Ring(ls[g], g, i) \in {g} \cup Range(ls[g])
      BY <2>1, RingNodes
    <3>2. Ring(ls[g], g, i) # t
      BY <3>1, ListAssumption
    <3>3. Ring(ls[g], g, i) # b /\ Ring(ls[g], g, i) # c
      <4>1. k \in Int /\ k + 1 \in Int
        BY <1>1 DEF q
      <4> QED
        BY <1>3, <1>13, <4>1, RingDistinct
    <3> QED
      BY <3>1, <3>2, <3>3
  <2>3. SUFFICES ASSUME NEW i \in 0 .. Len(ls[g])
                 PROVE  /\ nx2[Ring(ls[g], g, i)] = Ring(ls[g], g, i + 1)
                        /\ pv2[Ring(ls[g], g, i + 1)] = Ring(ls[g], g, i)
    BY DEF Closed
  <2>4. i \in Int /\ i + 1 \in Int
    BY <2>1
  <2>5. nx[Ring(ls[g], g, i)] = Ring(ls[g], g, i + 1) /\ pv[Ring(ls[g], g, i + 1)] = Ring(ls[g], g, i)
    BY <2>1, <2>3 DEF Closed
  <2> QED
    BY <1>6, <2>2, <2>4, <2>5
<1>14. Range(a) = Range(q) \cup {t} /\ IsInjective(a)
  <2>1. \A i \in 1 .. Len(q) + 1 :
          a[i] = IF i <= k THEN q[i] ELSE IF i = k + 1 THEN t ELSE q[i - 1]
    <3>1. SUFFICES ASSUME NEW i \in 1 .. Len(q) + 1, i > k + 1 PROVE a[i] = q[i - 1]
      BY <1>1, <1>2 DEF Inserted, q
    <3>2. i - 1 \in k + 1 .. Len(q) /\ (i - 1) + 1 = i
      BY <1>1, <3>1 DEF q
    <3> QED
      BY <3>2 DEF Inserted, q
  <2>2. k \in 0 .. Len(q) /\ IsInjective(q)
    BY <1>3 DEF q
  <2>3. \A i \in 1 .. Len(q) : q[i] # t
    BY <1>1, <1>5 DEF Range
  <2>4. IsInjective(a)
    <3>1. SUFFICES ASSUME NEW i \in 1 .. Len(q) + 1, NEW j \in 1 .. Len(q) + 1, a[i] = a[j]
                   PROVE  i = j
      BY <1>2 DEF IsInjective
    <3>2. \A m, n \in 1 .. Len(q) : q[m] = q[n] => m = n
      BY <1>1, <2>2 DEF IsInjective
    <3> DEFINE old(n) == IF n <= k THEN n ELSE n - 1
    <3>3. ASSUME NEW n \in 1 .. Len(q) + 1, n # k + 1
          PROVE  old(n) \in 1 .. Len(q) /\ a[n] = q[old(n)] /\ a[n] # t
      <4>1. old(n) \in 1 .. Len(q)
        BY <1>1, <2>2, <3>3
      <4>2. a[n] = q[old(n)]
        BY <1>1, <2>1, <2>2, <3>3
      <4> QED
        BY <2>3, <4>1, <4>2
    <3>4. a[k + 1] = t
      BY DEF Inserted
    <3>5. CASE i = k + 1 \/ j = k + 1
      BY <3>1, <3>3, <3>4, <3>5
    <3>6. CASE i # k + 1 /\ j # k + 1
      <4>1. old(i) = old(j)
        BY <3>1, <3>2, <3>3, <3>6
      <4> QED
        BY <1>1, <2>2, <3>6, <4>1
    <3> QED
      BY <3>5, <3>6
  <2>5. \A x \in Range(a) : x \in Range(q) \cup {t}
    BY <1>1, <1>2, <2>1, <2>2 DEF Range
  <2>6. t \in Range(a)
    BY <1>1, <1>2, <2>1, <2>2 DEF Range
  <2>7. ASSUME NEW i \in 1 .. Len(q) PROVE q[i] \in Range(a)
    <3>1. CASE i <= k
      BY <1>1, <1>2, <2>1, <2>2, <3>1 DEF Range
    <3>2. CASE i > k
      <4>1. i + 1 \in 1 .. Len(q) + 1 /\ a[i + 1] = q[i]
        BY <1>1, <2>2, <3>2 DEF Inserted, q
      <4> QED
        BY <1>2, <4>1 DEF Range
    <3> QED
      BY <1>1, <2>2, <3>1, <3>2
  <2>8. Range(q) \subseteq Range(a)
    BY <1>1, <2>7 DEF Range
  <2> QED
    BY <2>4, <2>5, <2>6, <2>8
<1>15. \A g \in Heads : IsInjective(ls2[g]) /\ Closed(nx2, pv2, ls2[g], g)
  BY <1>3, <1>7, <1>12, <1>13, <1>14
<1>16. \A g, f \in Heads : g # f => Range(ls2[g]) \cap Range(ls2[f]) = {}
  <2>1. SUFFICES ASSUME NEW g \in Heads, NEW f \in Heads, g # f
                 PROVE  Range(ls2[g]) \cap Range(ls2[f]) = {}
    OBVIOUS
  <2>2. Range(ls[g]) \cap Range(ls[f]) = {} /\ t \notin Range(ls[g]) /\ t \notin Range(ls[f])
    BY <1>3, <2>1
  <2>3. CASE g = h
    BY <1>7, <1>14, <2>1, <2>2, <2>3 DEF q
  <2>4. CASE f = h
    BY <1>7, <1>14, <2>1, <2>2, <2>4 DEF q
  <2>5. CASE g # h /\ f # h
    BY <1>7, <2>2, <2>5
  <2> QED
    BY <2>3, <2>4, <2>5
<1>17. ASSUME NEW e \in Entries, \A g \in Heads : e \notin Range(ls2[g])
       PROVE  nx2[e] = NULL /\ pv2[e] = NULL
  <2>1. e \notin Range(a)
    BY <1>7, <1>17
  <2>2. e # t /\ e \notin Range(q) /\ e # h /\ e \in Nodes
    BY <1>14, <2>1, ListAssumption DEF Nodes
  <2>3. \A g \in Heads : e \notin Range(ls[g])
    BY <1>7, <1>17, <2>2 DEF q
  <2>4. nx[e] = NULL /\ pv[e] = NULL
    BY <2>3 DEF Rep
  <2> QED
    BY <1>4, <1>6, <2>2, <2>4 DEF q
<1> QED
  BY <1>6, <1>7, <1>15, <1>16, <1>17 DEF Rep

\* Unlinking the entry at position k of the ring of h.
LEMMA DeleteRep ==
  ASSUME NEW nx \in Pointers, NEW pv \in Pointers, NEW ls \in Listing,
         Rep(nx, pv, ls), NEW h \in Heads, NEW k \in 1 .. Len(ls[h]),
         NEW t, t = ls[h][k], NEW a \in Seq(Entries), Deleted(a, ls[h], k),
         NEW b, b = pv[t], NEW c, c = nx[t],
         NEW nx2, NEW pv2, Unspliced(nx2, pv2, nx, pv, t, b, c),
         NEW ls2, Relisted(ls2, ls, h, a)
  PROVE  nx2 \in Pointers /\ pv2 \in Pointers /\ ls2 \in Listing /\ Rep(nx2, pv2, ls2)
<1> DEFINE q == ls[h]
<1>1. q \in Seq(Entries) /\ Len(q) \in Nat /\ DOMAIN q = 1 .. Len(q) /\ k \in 1 .. Len(q)
  BY LenProperties DEF Listing
<1>2. Len(a) = Len(q) - 1 /\ DOMAIN a = 1 .. Len(q) - 1
  BY LenProperties DEF Deleted
<1>3. /\ \A g \in Heads : IsInjective(ls[g])
      /\ \A g, f \in Heads : g # f => Range(ls[g]) \cap Range(ls[f]) = {}
  BY DEF Rep
<1>4. Closed(nx, pv, q, h)
  BY DEF Rep
<1>5. t = Ring(q, h, k) /\ t \in Entries /\ t \in Range(q) /\ t \in Nodes /\ t # h
  BY <1>1, RingNodes, ListAssumption DEF Nodes
<1>6. b = Ring(q, h, k - 1) /\ c = Ring(q, h, k + 1)
  <2>1. k \in 0 .. Len(q) /\ k - 1 \in 0 .. Len(q) /\ (k - 1) + 1 = k
    BY <1>1
  <2> QED
    BY <1>4, <1>5, <2>1 DEF Closed
<1>7. ASSUME NEW m \in Int, NEW n \in Int, Ring(q, h, m) = Ring(q, h, n),
             m \in 1 .. Len(q) \/ n \in 1 .. Len(q)
      PROVE  m = n
  BY <1>3, <1>7, RingDistinct
<1>8. /\ b \in Nodes /\ c \in Nodes /\ b \in {h} \cup Range(q) /\ c \in {h} \cup Range(q)
      /\ b # t /\ c # t
  <2>1. k - 1 \in Int /\ k + 1 \in Int /\ k \in Int /\ k - 1 # k /\ k + 1 # k
    BY <1>1
  <2>2. b # t /\ c # t
    BY <1>1, <1>5, <1>6, <1>7, <2>1
  <2> QED
    BY <1>1, <1>6, <2>1, <2>2, RingNodes
<1>9. /\ nx2 \in Pointers /\ pv2 \in Pointers
      /\ nx2[t] = NULL /\ nx2[b] = c /\ pv2[c] = b /\ pv2[t] = NULL
      /\ \A n \in Nodes : n # t /\ n # b => nx2[n] = nx[n]
      /\ \A n \in Nodes : n # t /\ n # c => pv2[n] = pv[n]
  BY <1>5, <1>8 DEF Pointers, Unspliced
<1>10. ls2 \in Listing /\ ls2[h] = a /\ \A g \in Heads \ {h} : ls2[g] = ls[g]
  BY DEF Listing, Relisted
<1>11. /\ \A i \in 0 .. k - 1 : Ring(a, h, i) = Ring(q, h, i)
       /\ \A i \in k .. Len(q) : Ring(a, h, i) = Ring(q, h, i + 1)
  <2>1. \A i \in 0 .. k - 1 : Ring(a, h, i) = Ring(q, h, i)
    BY <1>1, <1>2 DEF Deleted, Ring
  <2>2. ASSUME NEW i \in k .. Len(q) PROVE Ring(a, h, i) = Ring(q, h, i + 1)
    <3>1. CASE i <= Len(q) - 1
      <4>1. /\ i \in k .. Len(q) - 1 /\ i \in 1 .. Len(a) /\ i + 1 \in 1 .. Len(q)
        BY <1>1, <1>2, <3>1
      <4> QED
        BY <4>1 DEF Deleted, Ring
    <3>2. CASE i = Len(q)
      BY <1>1, <1>2, <3>2 DEF Ring
    <3> QED
      BY <1>1, <3>1, <3>2
  <2> QED
    BY <2>1, <2>2
<1>12. \A i \in 0 .. Len(q) + 1 : Ring(q, h, i) \in Nodes
  <2>1. SUFFICES ASSUME NEW i \in 0 .. Len(q) + 1 PROVE Ring(q, h, i) \in Nodes
    OBVIOUS
  <2>2. i \in Int
    BY <1>1
  <2> QED
    BY <1>1, <2>2, RingNodes
<1> HIDE DEF q
<1>13. ASSUME NEW i \in 0 .. Len(q), i # k, i # k - 1
       PROVE  /\ nx2[Ring(q, h, i)] = Ring(q, h, i + 1)
              /\ pv2[Ring(q, h, i + 1)] = Ring(q, h, i)
  <2>1. nx[Ring(q, h, i)] = Ring(q, h, i + 1) /\ pv[Ring(q, h, i + 1)] = Ring(q, h, i)
    BY <1>4 DEF Closed
  <2>2. /\ i \in Int /\ i + 1 \in Int /\ k - 1 \in Int /\ k + 1 \in Int /\ k \in Int
        /\ i + 1 # k /\ i + 1 # k + 1
        /\ i \in 1 .. Len(q) \/ k - 1 \in 1 .. Len(q)
        /\ i + 1 \in 1 .. Len(q) \/ k + 1 \in 1 .. Len(q)
        /\ i \in 0 .. Len(q) + 1 /\ i + 1 \in 0 .. Len(q) + 1
    <3>1. i \in 1 .. Len(q) \/ k - 1 \in 1 .. Len(q)
      BY <1>1, <1>13
    <3>2. i + 1 \in 1 .. Len(q) \/ k + 1 \in 1 .. Len(q)
      BY <1>1, <1>13
    <3> QED
      BY <1>1, <1>13, <3>1, <3>2
  <2>3. Ring(q, h, i) # t /\ Ring(q, h, i + 1) # t
    BY <1>1, <1>5, <1>7, <1>13, <2>2
  <2>4. Ring(q, h, i) # b
    BY <1>6, <1>7, <1>13, <2>2
  <2>5. Ring(q, h, i + 1) # c
    BY <1>6, <1>7, <2>2
  <2>6. Ring(q, h, i) \in Nodes /\ Ring(q, h, i + 1) \in Nodes
    BY <1>12, <2>2
  <2> QED
    BY <1>9, <2>1, <2>3, <2>4, <2>5, <2>6
<1>14. Closed(nx2, pv2, a, h)
  <2>1. SUFFICES ASSUME NEW i \in 0 .. Len(q) - 1
                 PROVE  /\ nx2[Ring(a, h, i)] = Ring(a, h, i + 1)
                        /\ pv2[Ring(a, h, i + 1)] = Ring(a, h, i)
    BY <1>2 DEF Closed
  <2>2. CASE i < k - 1
    <3>1. /\ Ring(a, h, i) = Ring(q, h, i) /\ Ring(a, h, i + 1) = Ring(q, h, i + 1)
          /\ i \in 0 .. Len(q) /\ i # k /\ i # k - 1
      <4>1. /\ i \in 0 .. k - 1 /\ i + 1 \in 0 .. k - 1
            /\ i \in 0 .. Len(q) /\ i # k /\ i # k - 1
        BY <1>1, <2>2
      <4> QED
        BY <1>11, <4>1
    <3> QED
      BY <1>13, <3>1
  <2>3. CASE i = k - 1
    <3>1. Ring(a, h, i) = b /\ Ring(a, h, i + 1) = c
      <4>1. i \in 0 .. k - 1 /\ i + 1 = k /\ k \in k .. Len(q)
        BY <1>1, <2>3
      <4> QED
        BY <1>6, <1>11, <2>3, <4>1
    <3> QED
      BY <1>9, <3>1
  <2>4. CASE i >= k
    <3>1. /\ i \in k .. Len(q) /\ i + 1 \in k .. Len(q) /\ i + 1 \in 0 .. Len(q)
          /\ i + 1 # k /\ i + 1 # k - 1
      BY <1>1, <2>4
    <3>2. Ring(a, h, i) = Ring(q, h, i + 1) /\ Ring(a, h, i + 1) = Ring(q, h, (i + 1) + 1)
      BY <1>11, <3>1
    <3> QED
      BY <1>13, <3>1, <3>2
  <2> QED
    BY <1>1, <2>2, <2>3, <2>4
<1>15. ASSUME NEW g \in Heads, g # h PROVE Closed(nx2, pv2, ls[g], g)
  <2>1. ls[g] \in Seq(Entries) /\ Len(ls[g]) \in Nat /\ Closed(nx, pv, ls[g], g)
    BY LenProperties DEF Listing, Rep
  <2>2. ASSUME NEW i \in Int
        PROVE  Ring(ls[g], g, i) \in Nodes /\ Ring(ls[g], g, i) \notin {t, b, c}
    <3>1. k \in Int /\ k + 1 \in Int /\ k - 1 \in Int
      BY <1>1
    <3>2. t = Ring(ls[h], h, k) /\ b = Ring(ls[h], h, k - 1) /\ c = Ring(ls[h], h, k + 1)
      BY <1>5, <1>6 DEF q
    <3>3. ASSUME NEW j \in Int, Ring(ls[g], g, i) = Ring(ls[h], h, j) PROVE FALSE
      BY <1>3, <1>15, <3>3, RingDistinct
    <3>4. Ring(ls[g], g, i) \notin {t, b, c}
      BY <3>1, <3>2, <3>3
    <3> QED
      BY <2>1, <3>4, RingNodes
  <2>3. SUFFICES ASSUME NEW i \in 0 .. Len(ls[g])
                 PROVE  /\ nx2[Ring(ls[g], g, i)] = Ring(ls[g], g, i + 1)
                        /\ pv2[Ring(ls[g], g, i + 1)] = Ring(ls[g], g, i)
    BY DEF Closed
  <2>4. i \in Int /\ i + 1 \in Int
    BY <2>1
  <2>5. nx[Ring(ls[g], g, i)] = Ring(ls[g], g, i + 1) /\ pv[Ring(ls[g], g, i + 1)] = Ring(ls[g], g, i)
    BY <2>1, <2>3 DEF Closed
  <2> QED
    BY <1>9, <2>2, <2>4, <2>5
<1>16. Range(a) = Range(q) \ {t} /\ IsInjective(a)
  <2> DEFINE old(n) == IF n < k THEN n ELSE n + 1
  <2>1. ASSUME NEW n \in 1 .. Len(q) - 1
        PROVE  old(n) \in 1 .. Len(q) /\ old(n) # k /\ a[n] = q[old(n)]
    <3>1. old(n) \in 1 .. Len(q) /\ old(n) # k
      BY <1>1
    <3>2. CASE n < k
      <4>1. n \in 1 .. k - 1 /\ old(n) = n
        BY <1>1, <3>2
      <4> QED
        BY <4>1 DEF Deleted, q
    <3>3. CASE n >= k
      <4>1. n \in k .. Len(q) - 1
        BY <1>1, <3>3
      <4> QED
        BY <1>1, <3>3, <4>1 DEF Deleted, q
    <3> QED
      BY <1>1, <3>1, <3>2, <3>3
  <2>2. \A m, n \in 1 .. Len(q) : q[m] = q[n] => m = n
    BY <1>1, <1>3 DEF IsInjective, q
  <2>3. t = q[k]
    BY DEF q
  <2>4. IsInjective(a)
    <3>1. SUFFICES ASSUME NEW i \in 1 .. Len(q) - 1, NEW j \in 1 .. Len(q) - 1, a[i] = a[j]
                   PROVE  i = j
      BY <1>2 DEF IsInjective
    <3>2. old(i) = old(j)
      BY <2>1, <2>2, <3>1
    <3> QED
      BY <1>1, <3>2
  <2>5. Range(a) \subseteq Range(q) \ {t}
    <3>1. SUFFICES ASSUME NEW n \in 1 .. Len(q) - 1 PROVE a[n] \in Range(q) /\ a[n] # t
      BY <1>2 DEF Range
    <3>2. old(n) \in 1 .. Len(q) /\ old(n) # k /\ a[n] = q[old(n)]
      BY <2>1
    <3> HIDE DEF old
    <3> QED
      BY <1>1, <2>2, <2>3, <3>2 DEF Range
  <2>6. ASSUME NEW m \in 1 .. Len(q), m # k PROVE q[m] \in Range(a)
    <3> DEFINE n == IF m < k THEN m ELSE m - 1
    <3>1. n \in 1 .. Len(q) - 1 /\ old(n) = m
      BY <1>1, <2>6
    <3> HIDE DEF n, old
    <3> QED
      BY <1>2, <2>1, <3>1 DEF Range
  <2>7. Range(q) \ {t} \subseteq Range(a)
    BY <1>1, <2>3, <2>6 DEF Range
  <2> QED
    BY <2>4, <2>5, <2>7
<1>17. \A g \in Heads : IsInjective(ls2[g]) /\ Closed(nx2, pv2, ls2[g], g)
  BY <1>3, <1>10, <1>14, <1>15, <1>16
<1>18. \A g, f \in Heads : g # f => Range(ls2[g]) \cap Range(ls2[f]) = {}
  BY <1>3, <1>10, <1>16 DEF q
<1>19. ASSUME NEW e \in Entries, \A g \in Heads : e \notin Range(ls2[g])
       PROVE  nx2[e] = NULL /\ pv2[e] = NULL
  <2>1. CASE e = t
    BY <1>9, <2>1
  <2>2. CASE e # t
    <3>1. e \notin Range(q) /\ e # h /\ e \in Nodes
      BY <1>10, <1>16, <1>19, <2>2, ListAssumption DEF Nodes
    <3>2. \A g \in Heads : e \notin Range(ls[g])
      BY <1>10, <1>19, <3>1 DEF q
    <3>3. nx[e] = NULL /\ pv[e] = NULL
      BY <3>2 DEF Rep
    <3> QED
      BY <1>8, <1>9, <2>2, <3>1, <3>3
  <2> QED
    BY <2>1, <2>2
<1> QED
  BY <1>9, <1>10, <1>17, <1>18, <1>19 DEF Rep

(***************************************************************************)
(* The specification.                                                      *)
(***************************************************************************)
IInv == TypeOK /\ Represents

LEMMA IInvRep == IInv <=> /\ next \in Pointers /\ prev \in Pointers /\ lists \in Listing
                          /\ Rep(next, prev, lists)
BY DEF IInv, TypeOK, Represents, Rep, Pointers, Listing

LEMMA IInvRepNext == IInv' <=> /\ next' \in Pointers /\ prev' \in Pointers /\ lists' \in Listing
                               /\ Rep(next', prev', lists')
BY DEF IInv, TypeOK, Represents, Rep, Pointers, Listing

\* An entry whose pointers are null is in no list, and one with a successor is.
LEMMA NullUnlinked ==
  ASSUME IInv, NEW e \in Entries
  PROVE  next[e] = NULL <=> \A h \in Heads : e \notin Range(lists[h])
<1>1. ASSUME NEW h \in Heads, e \in Range(lists[h]) PROVE next[e] # NULL
  <2>1. lists[h] \in Seq(Entries) /\ Len(lists[h]) \in Nat
    BY LenProperties DEF IInv, TypeOK
  <2>2. PICK i \in 1 .. Len(lists[h]) : e = lists[h][i]
    BY <1>1, <2>1, LenProperties DEF Range
  <2>3. i \in 0 .. Len(lists[h]) /\ i \in Int /\ i + 1 \in Int
    BY <2>1
  <2>4. e = Ring(lists[h], h, i) /\ Ring(lists[h], h, i + 1) \in Nodes
    BY <2>1, <2>2, <2>3, RingNodes
  <2>5. next[e] = Ring(lists[h], h, i + 1)
    BY <2>3, <2>4 DEF IInv, Represents, Closed
  <2> QED
    BY <2>4, <2>5, ListAssumption
<1> QED
  BY <1>1 DEF IInv, Represents

LEMMA InitIInv == Init => IInv
<1> SUFFICES ASSUME Init PROVE IInv
  OBVIOUS
<1>1. TypeOK
  BY DEF Init, TypeOK, Nodes
<1>2. \A h \in Heads : lists[h] = <<>> /\ Range(lists[h]) = {} /\ Len(lists[h]) = 0
                       /\ next[h] = h /\ prev[h] = h
  BY DEF Init, Nodes, Range
<1>3. \A h \in Heads : IsInjective(lists[h])
  BY <1>2 DEF IsInjective
<1>4. \A h \in Heads : Closed(next, prev, lists[h], h)
  BY <1>2 DEF Closed, Ring
<1>5. \A e \in Entries : next[e] = NULL /\ prev[e] = NULL
  BY ListAssumption DEF Init, Nodes
<1> QED
  BY <1>1, <1>2, <1>3, <1>4, <1>5 DEF IInv, Represents

LEMMA AddIInv ==
  ASSUME IInv, NEW e \in Entries, NEW h \in Heads, list_add(e, h)
  PROVE  IInv'
<1> DEFINE a == Q!list_add(e, lists[h])
<1>1. /\ next \in Pointers /\ prev \in Pointers /\ lists \in Listing
      /\ Rep(next, prev, lists)
  BY IInvRep
<1>2. \A g \in Heads : e \notin Range(lists[g])
  BY NullUnlinked DEF list_add
<1>3. lists[h] \in Seq(Entries) /\ Len(lists[h]) \in Nat
  BY <1>1, LenProperties DEF Listing
<1>4. a \in Seq(Entries) /\ Inserted(a, lists[h], e, 0) /\ 0 \in 0 .. Len(lists[h])
  BY <1>3, AddInserts
<1>5. h = Ring(lists[h], h, 0) /\ next[h] = Ring(lists[h], h, 0 + 1)
  BY <1>1, <1>3 DEF Rep, Closed, Ring
<1>6. Spliced(next', prev', next, prev, e, h, next[h]) /\ Relisted(lists', lists, h, a)
  BY DEF list_add, InsertBetween, Spliced, Relisted
<1> HIDE DEF a
<1>7. /\ next' \in Pointers /\ prev' \in Pointers /\ lists' \in Listing
      /\ Rep(next', prev', lists')
  BY <1>1, <1>2, <1>4, <1>5, <1>6, InsertRep
<1> QED
  BY <1>7, IInvRepNext

LEMMA AddTailIInv ==
  ASSUME IInv, NEW e \in Entries, NEW h \in Heads, list_add_tail(e, h)
  PROVE  IInv'
<1> DEFINE a == Q!list_add_tail(e, lists[h])
           k == Len(lists[h])
<1>1. /\ next \in Pointers /\ prev \in Pointers /\ lists \in Listing
      /\ Rep(next, prev, lists)
  BY IInvRep
<1>2. \A g \in Heads : e \notin Range(lists[g])
  BY NullUnlinked DEF list_add_tail
<1>3. lists[h] \in Seq(Entries) /\ k \in Nat
  BY <1>1, LenProperties DEF Listing
<1>4. a \in Seq(Entries) /\ Inserted(a, lists[h], e, k) /\ k \in 0 .. Len(lists[h])
  BY <1>3, AddTailInserts
<1>5. h = Ring(lists[h], h, k + 1) /\ prev[h] = Ring(lists[h], h, k)
  <2>1. h = Ring(lists[h], h, k + 1)
    BY <1>3 DEF Ring
  <2> QED
    BY <1>1, <1>4, <2>1 DEF Rep, Closed
<1>6. Spliced(next', prev', next, prev, e, prev[h], h) /\ Relisted(lists', lists, h, a)
  BY DEF list_add_tail, InsertBetween, Spliced, Relisted
<1> HIDE DEF a, k
<1>7. /\ next' \in Pointers /\ prev' \in Pointers /\ lists' \in Listing
      /\ Rep(next', prev', lists')
  BY <1>1, <1>2, <1>4, <1>5, <1>6, InsertRep
<1> QED
  BY <1>7, IInvRepNext

LEMMA DelIInv ==
  ASSUME IInv, NEW e \in Entries, list_del(e)
  PROVE  IInv'
<1>1. /\ next \in Pointers /\ prev \in Pointers /\ lists \in Listing
      /\ Rep(next, prev, lists)
  BY IInvRep
<1>2. PICK h \in Heads : e \in Range(lists[h])
  BY NullUnlinked DEF list_del
<1>3. lists[h] \in Seq(Entries) /\ IsInjective(lists[h])
  BY <1>1 DEF Listing, Rep
<1>4. PICK k \in 1 .. Len(lists[h]) : e = lists[h][k]
  BY <1>2, <1>3, LenProperties DEF Range
<1> DEFINE a == Q!list_del(e, lists[h])
<1>5. a \in Seq(Entries) /\ Deleted(a, lists[h], k)
  BY <1>3, <1>4, DelDeletes
<1>6. \A g \in Heads : e \in Range(lists[g]) <=> g = h
  BY <1>1, <1>2 DEF Rep
<1>7. Relisted(lists', lists, h, a)
  BY <1>1, <1>6 DEF list_del, Listing, Relisted
<1>8. Unspliced(next', prev', next, prev, e, prev[e], next[e])
  BY DEF list_del, Unspliced
<1> HIDE DEF a
<1>9. /\ next' \in Pointers /\ prev' \in Pointers /\ lists' \in Listing
      /\ Rep(next', prev', lists')
  BY <1>1, <1>4, <1>5, <1>7, <1>8, DeleteRep
<1> QED
  BY <1>9, IInvRepNext

LEMMA NextIInv == IInv /\ [Next]_vars => IInv'
<1> SUFFICES ASSUME IInv, [Next]_vars PROVE IInv'
  OBVIOUS
<1>1. CASE UNCHANGED vars
  BY <1>1 DEF vars, IInv, TypeOK, Represents, Closed
<1>2. ASSUME NEW e \in Entries, NEW h \in Heads, list_add(e, h) PROVE IInv'
  BY <1>2, AddIInv
<1>3. ASSUME NEW e \in Entries, NEW h \in Heads, list_add_tail(e, h) PROVE IInv'
  BY <1>3, AddTailIInv
<1>4. ASSUME NEW e \in Entries, list_del(e) PROVE IInv'
  BY <1>4, DelIInv
<1> QED
  BY <1>1, <1>2, <1>3, <1>4, Zenon DEF Next

\* Whatever sequence of insertions and removals, in any number of lists: the
\* pointers of list.c represent the sequences of which the kernel's model is
\* made.
THEOREM ListsRepresent == Spec => []Represents
<1>1. IInv => Represents
  BY DEF IInv
<1> QED
  BY <1>1, InitIInv, NextIInv, PTL DEF Spec

\* list_empty, list_first and list_is_last read off the pointers what the
\* sequences say.
THEOREM ReadsCorrect == Spec => []ReadsAgree
<1>1. IInv => ReadsAgree
  <2> SUFFICES ASSUME IInv, NEW h \in Heads
               PROVE  /\ list_empty(h) <=> Q!list_empty(lists[h])
                      /\ ~Q!list_empty(lists[h]) => list_first(h) = Q!list_first(lists[h])
                      /\ \A e \in Range(lists[h]) :
                           list_is_last(e, h) <=> e = lists[h][Len(lists[h])]
    BY DEF ReadsAgree
  <2> DEFINE q == lists[h]
  <2>1. /\ q \in Seq(Entries) /\ Len(q) \in Nat /\ DOMAIN q = 1 .. Len(q)
        /\ Len(q) = 0 <=> q = <<>>
    BY LenProperties, EmptySeq DEF IInv, TypeOK
  <2>2. \A i \in 0 .. Len(q) : next[Ring(q, h, i)] = Ring(q, h, i + 1)
    BY DEF IInv, Represents, Closed
  <2>3. IsInjective(q) /\ h \notin Entries
    BY ListAssumption DEF IInv, Represents
  <2> HIDE DEF q
  <2>4. next[h] = IF q = <<>> THEN h ELSE q[1]
    BY <2>1, <2>2 DEF Ring
  <2>5. \A i \in 1 .. Len(q) : q[i] \in Entries
    BY <2>1
  <2>6. q # <<>> => Head(q) = q[1] /\ q[1] \in Entries
    BY <2>1, <2>5
  <2>7. ASSUME NEW e \in Range(q) PROVE next[e] = h <=> e = q[Len(q)]
    <3>1. PICK i \in 1 .. Len(q) : e = q[i]
      BY <2>1 DEF Range
    <3>2. next[e] = IF i = Len(q) THEN h ELSE q[i + 1]
      <4>1. i \in 0 .. Len(q) /\ Ring(q, h, i) = e
        BY <2>1, <3>1 DEF Ring
      <4>2. next[e] = Ring(q, h, i + 1)
        BY <2>2, <4>1
      <4>3. ASSUME NEW n \in Nat, NEW j \in 1 .. n
            PROVE  j + 1 \in 1 .. n <=> j # n
        BY <4>3
      <4>4. i + 1 \in 1 .. Len(q) <=> i # Len(q)
        BY <2>1, <3>1, <4>3
      <4> QED
        BY <4>2, <4>4 DEF Ring
    <3>3. CASE i = Len(q)
      BY <3>1, <3>2, <3>3
    <3>4. CASE i # Len(q)
      <4>1. i + 1 \in 1 .. Len(q) /\ Len(q) \in 1 .. Len(q)
        <5>1. ASSUME NEW n \in Nat, NEW j \in 1 .. n, j # n
              PROVE  j + 1 \in 1 .. n /\ n \in 1 .. n
          BY <5>1
        <5> QED
          BY <2>1, <3>1, <3>4, <5>1
      <4>2. next[e] # h
        BY <2>3, <2>5, <3>2, <3>4, <4>1
      <4>3. e # q[Len(q)]
        BY <2>1, <2>3, <3>1, <3>4, <4>1 DEF IsInjective
      <4> QED
        BY <4>2, <4>3
    <3> QED
      BY <3>3, <3>4
  <2>8. list_empty(h) <=> q = <<>>
    BY <2>3, <2>4, <2>6 DEF list_empty
  <2>9. q # <<>> => list_first(h) = Head(q)
    BY <2>4, <2>6 DEF list_first
  <2> QED
    BY <2>7, <2>8, <2>9 DEF q, list_is_last, Q!list_empty, Q!list_first
<1> QED
  BY <1>1, InitIInv, NextIInv, PTL DEF Spec
=============================================================================
