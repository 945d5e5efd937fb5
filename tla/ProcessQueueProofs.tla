------------------------- MODULE ProcessQueueProofs -------------------------
(***************************************************************************)
(* Lemmas on the queue operations of ProcessQueue, for queues of any       *)
(* length: what each puts into a queue, leaves in it, and keeps in order.  *)
(***************************************************************************)
EXTENDS ProcessQueue, WellFoundedInduction, SequenceTheorems, TLAPS

\* x is in the sequence q.
In(q, x) == \E i \in 1 .. Len(q) : q[i] = x

\* No element occurs twice.
Distinct(q) == \A i, j \in 1 .. Len(q) : q[i] = q[j] => i = j

\* The numbers pri gives to the elements do not decrease.
Sorted(q, pri) == \A i, j \in 1 .. Len(q) : i < j => pri[q[i]] <= pri[q[j]]

\* Some occurrence of x is in front of some occurrence of y.
Before(q, x, y) == \E i, j \in 1 .. Len(q) : i < j /\ q[i] = x /\ q[j] = y

-----------------------------------------------------------------------------
\* A nonempty set of naturals has a least element, which is Min.
LEMMA NatMin ==
  ASSUME NEW S \in SUBSET Nat, S # {}
  PROVE  /\ Min(S) \in S
         /\ \A j \in S : Min(S) <= j
<1>1. PICK x \in S : \A y \in S : <<y, x>> \notin OpToRel(<, Nat)
  BY NatLessThanWellFounded, WFMin, Zenon
<1>2. \A y \in S : ~(y < x)
  BY <1>1, Zenon DEF OpToRel
<1>3. \A y \in S : x <= y
  BY <1>2
<1> QED BY <1>3 DEF Min

\* InsertAt shifts the tail by one place and leaves the rest alone.
LEMMA InsertAtIs ==
  ASSUME NEW T, NEW q \in Seq(T), NEW e \in T, NEW k \in 1 .. Len(q) + 1
  PROVE  /\ InsertAt(q, k, e) \in Seq(T)
         /\ Len(InsertAt(q, k, e)) = Len(q) + 1
         /\ InsertAt(q, k, e)[k] = e
         /\ \A j \in 1 .. Len(q) : j < k  => InsertAt(q, k, e)[j] = q[j]
         /\ \A j \in 1 .. Len(q) : j >= k => InsertAt(q, k, e)[j+1] = q[j]
<1> DEFINE a == SubSeq(q, 1, k-1)
           b == SubSeq(q, k, Len(q))
           c == a \o <<e>>
           d == c \o b
<1>1. Len(q) \in Nat
  OBVIOUS
<1>2. a \in Seq(T) /\ Len(a) = k-1 /\ \A j \in 1 .. k-1 : a[j] = q[j]
  BY <1>1
<1>3. b \in Seq(T) /\ Len(b) = Len(q)-k+1 /\ \A j \in 1 .. Len(q)-k+1 : b[j] = q[k+j-1]
  BY <1>1
<1> HIDE DEF a, b
<1>4. c \in Seq(T) /\ Len(c) = k /\ c[k] = e /\ \A j \in 1 .. k-1 : c[j] = q[j]
  BY <1>1, <1>2
<1> HIDE DEF c
<1>5. /\ d \in Seq(T)
      /\ Len(d) = Len(c) + Len(b)
      /\ \A i \in 1 .. Len(c) + Len(b) :
           d[i] = IF i <= Len(c) THEN c[i] ELSE b[i - Len(c)]
  BY <1>3, <1>4, ConcatProperties
<1>6. InsertAt(q, k, e) = d
  BY DEF InsertAt, a, b, c
<1> HIDE DEF d
<1>7. Len(d) = Len(q) + 1 /\ d[k] = e
  BY <1>1, <1>3, <1>4, <1>5
<1>8. ASSUME NEW j \in 1 .. Len(q), j < k PROVE d[j] = q[j]
  <2>1. j <= Len(c) /\ j \in 1 .. Len(c) + Len(b) /\ j \in 1 .. k-1
    BY <1>1, <1>3, <1>4, <1>8
  <2> QED BY <2>1, <1>4, <1>5
<1>9. ASSUME NEW j \in 1 .. Len(q), j >= k PROVE d[j+1] = q[j]
  <2> DEFINE m == j+1-k
  <2>1. m \in 1 .. Len(q)-k+1 /\ k+m-1 = j
    BY <1>1, <1>9
  <2>2. j+1 \in 1 .. Len(c) + Len(b) /\ ~(j+1 <= Len(c)) /\ j+1 - Len(c) = m
    BY <1>1, <1>3, <1>4, <1>9
  <2>3. d[j+1] = b[m]
    BY <2>2, <1>5
  <2> QED BY <2>1, <2>3, <1>3
<1> QED BY <1>5, <1>6, <1>7, <1>8, <1>9

LEMMA InsertAtPcb ==
  ASSUME NEW q \in Seq(Pcb), NEW p \in Pcb, NEW k \in 1 .. Len(q) + 1
  PROVE  /\ InsertAt(q, k, p) \in Seq(Pcb)
         /\ Len(InsertAt(q, k, p)) = Len(q) + 1
         /\ InsertAt(q, k, p)[k] = p
         /\ \A j \in 1 .. Len(q) : j < k  => InsertAt(q, k, p)[j] = q[j]
         /\ \A j \in 1 .. Len(q) : j >= k => InsertAt(q, k, p)[j+1] = q[j]
<1>1. InsertAt(q, k, p) \in Seq(Pcb) /\ Len(InsertAt(q, k, p)) = Len(q) + 1
  BY InsertAtIs
<1>2. InsertAt(q, k, p)[k] = p
  BY InsertAtIs
<1>3. \A j \in 1 .. Len(q) : j < k  => InsertAt(q, k, p)[j] = q[j]
  BY InsertAtIs
<1>4. \A j \in 1 .. Len(q) : j >= k => InsertAt(q, k, p)[j+1] = q[j]
  BY InsertAtIs
<1> QED BY <1>1, <1>2, <1>3, <1>4

\* RemoveAt closes the gap.
LEMMA RemoveAtIs ==
  ASSUME NEW T, NEW q \in Seq(T), NEW k \in 1 .. Len(q)
  PROVE  /\ RemoveAt(q, k) \in Seq(T)
         /\ Len(RemoveAt(q, k)) = Len(q) - 1
         /\ \A j \in 1 .. Len(q) - 1 : j < k  => RemoveAt(q, k)[j] = q[j]
         /\ \A j \in 1 .. Len(q) - 1 : j >= k => RemoveAt(q, k)[j] = q[j+1]
<1> DEFINE a == SubSeq(q, 1, k-1)
           b == SubSeq(q, k+1, Len(q))
           d == a \o b
<1>1. Len(q) \in Nat
  OBVIOUS
<1>2. a \in Seq(T) /\ Len(a) = k-1 /\ \A j \in 1 .. k-1 : a[j] = q[j]
  BY <1>1
<1>3. b \in Seq(T) /\ Len(b) = Len(q)-k /\ \A j \in 1 .. Len(q)-k : b[j] = q[k+j]
  BY <1>1
<1> HIDE DEF a, b
<1>4. /\ d \in Seq(T)
      /\ Len(d) = Len(a) + Len(b)
      /\ \A i \in 1 .. Len(a) + Len(b) :
           d[i] = IF i <= Len(a) THEN a[i] ELSE b[i - Len(a)]
  BY <1>2, <1>3, ConcatProperties
<1>5. RemoveAt(q, k) = d
  BY DEF RemoveAt, a, b
<1> HIDE DEF d
<1>6. Len(d) = Len(q) - 1
  BY <1>1, <1>2, <1>3, <1>4
<1>7. ASSUME NEW j \in 1 .. Len(q) - 1, j < k PROVE d[j] = q[j]
  <2>1. j <= Len(a) /\ j \in 1 .. Len(a) + Len(b) /\ j \in 1 .. k-1
    BY <1>1, <1>2, <1>3, <1>7
  <2> QED BY <2>1, <1>2, <1>4
<1>8. ASSUME NEW j \in 1 .. Len(q) - 1, j >= k PROVE d[j] = q[j+1]
  <2> DEFINE m == j-(k-1)
  <2>1. m \in 1 .. Len(q)-k /\ k+m = j+1
    BY <1>1, <1>8
  <2>2. j \in 1 .. Len(a) + Len(b) /\ ~(j <= Len(a)) /\ j - Len(a) = m
    BY <1>1, <1>2, <1>3, <1>8
  <2>3. d[j] = b[m]
    BY <2>2, <1>4
  <2> QED BY <2>1, <2>3, <1>3
<1> QED BY <1>4, <1>5, <1>6, <1>7, <1>8

-----------------------------------------------------------------------------
\* enqueue_pri stops at the first node of a greater priority number.
LEMMA InsertionPointIs ==
  ASSUME NEW pri \in [Pcb -> Nat], NEW q \in Seq(Pcb), NEW p \in Pcb
  PROVE  /\ InsertionPoint(q, pri, p) \in 1 .. Len(q) + 1
         /\ InsertionPoint(q, pri, p) <= Len(q)
              => pri[p] < pri[q[InsertionPoint(q, pri, p)]]
         /\ \A j \in 1 .. Len(q) :
              j < InsertionPoint(q, pri, p) => pri[q[j]] <= pri[p]
<1> DEFINE S == {i \in 1 .. Len(q) + 1 : i > Len(q) \/ pri[p] < pri[q[i]]}
<1>1. Len(q) \in Nat /\ \A j \in 1 .. Len(q) : q[j] \in Pcb
  OBVIOUS
<1>2. S \in SUBSET Nat /\ Len(q) + 1 \in S
  BY <1>1
<1>3. Min(S) \in S /\ \A j \in S : Min(S) <= j
  BY <1>2, NatMin
<1>4. \A j \in 1 .. Len(q) : j < Min(S) => pri[q[j]] <= pri[p]
  BY <1>1, <1>3
<1> QED BY <1>1, <1>3, <1>4 DEF InsertionPoint

\* There it puts p, between the nodes it has passed and the others.
LEMMA EnqueuePriAt ==
  ASSUME NEW pri \in [Pcb -> Nat], NEW q \in Seq(Pcb), NEW p \in Pcb
  PROVE  LET r == enqueue_pri(q, pri, p)
         IN  \E k \in 1 .. Len(q) + 1 :
               /\ k <= Len(q) => pri[p] < pri[q[k]]
               /\ \A j \in 1 .. Len(q) : j < k => pri[q[j]] <= pri[p]
               /\ r \in Seq(Pcb)
               /\ Len(r) = Len(q) + 1
               /\ r[k] = p
               /\ \A j \in 1 .. Len(q) : j < k  => r[j] = q[j]
               /\ \A j \in 1 .. Len(q) : j >= k => r[j+1] = q[j]
<1> DEFINE r == enqueue_pri(q, pri, p)
<1>1. PICK k \in 1 .. Len(q) + 1 : k = InsertionPoint(q, pri, p)
  BY InsertionPointIs
<1>2. /\ k <= Len(q) => pri[p] < pri[q[k]]
      /\ \A j \in 1 .. Len(q) : j < k => pri[q[j]] <= pri[p]
  BY <1>1, InsertionPointIs
<1>3. /\ InsertAt(q, k, p) \in Seq(Pcb)
      /\ Len(InsertAt(q, k, p)) = Len(q) + 1
      /\ InsertAt(q, k, p)[k] = p
      /\ \A j \in 1 .. Len(q) : j < k  => InsertAt(q, k, p)[j] = q[j]
      /\ \A j \in 1 .. Len(q) : j >= k => InsertAt(q, k, p)[j+1] = q[j]
  BY InsertAtPcb
<1>4. r = InsertAt(q, k, p)
  BY <1>1 DEF enqueue_pri
<1> HIDE DEF r
<1>5. \E m \in 1 .. Len(q) + 1 :
        /\ m <= Len(q) => pri[p] < pri[q[m]]
        /\ \A j \in 1 .. Len(q) : j < m => pri[q[j]] <= pri[p]
        /\ r \in Seq(Pcb)
        /\ Len(r) = Len(q) + 1
        /\ r[m] = p
        /\ \A j \in 1 .. Len(q) : j < m  => r[j] = q[j]
        /\ \A j \in 1 .. Len(q) : j >= m => r[j+1] = q[j]
  BY <1>2, <1>3, <1>4
<1> QED BY <1>5 DEF r

\* enqueue_pri adds exactly p; order and uniqueness survive.
LEMMA EnqueuePriIs ==
  ASSUME NEW pri \in [Pcb -> Nat], NEW q \in Seq(Pcb), NEW p \in Pcb
  PROVE  /\ enqueue_pri(q, pri, p) \in Seq(Pcb)
         /\ \A x : In(enqueue_pri(q, pri, p), x) <=> In(q, x) \/ x = p
         /\ Distinct(q) /\ ~In(q, p) => Distinct(enqueue_pri(q, pri, p))
         /\ Sorted(q, pri) => Sorted(enqueue_pri(q, pri, p), pri)
<1> DEFINE r == enqueue_pri(q, pri, p)
<1>1. Len(q) \in Nat /\ \A j \in 1 .. Len(q) : q[j] \in Pcb
  OBVIOUS
<1>2. PICK k \in 1 .. Len(q) + 1 :
        /\ k <= Len(q) => pri[p] < pri[q[k]]
        /\ \A j \in 1 .. Len(q) : j < k => pri[q[j]] <= pri[p]
        /\ r \in Seq(Pcb)
        /\ Len(r) = Len(q) + 1
        /\ r[k] = p
        /\ \A j \in 1 .. Len(q) : j < k  => r[j] = q[j]
        /\ \A j \in 1 .. Len(q) : j >= k => r[j+1] = q[j]
  BY EnqueuePriAt
<1> HIDE DEF r
<1>b. /\ k \in Nat /\ Len(q) \in Nat /\ Len(r) = Len(q) + 1
      /\ 1 <= k /\ k <= Len(q) + 1
  BY <1>1, <1>2
\* Where the node at place m of r was in q.
<1> DEFINE old(m) == IF m < k THEN m ELSE m - 1
<1>4. \A m \in 1 .. Len(r) : m # k => old(m) \in 1 .. Len(q) /\ r[m] = q[old(m)]
  <2> SUFFICES ASSUME NEW m \in 1 .. Len(r), m # k
               PROVE  old(m) \in 1 .. Len(q) /\ r[m] = q[old(m)]
    OBVIOUS
  <2>1. CASE m < k
    <3>1. m \in 1 .. Len(q) /\ old(m) = m
      BY <2>1, <1>b
    <3> QED BY <3>1, <2>1, <1>2
  <2>2. CASE m > k
    <3> DEFINE n == m-1
    <3>1. n \in 1 .. Len(q) /\ n >= k /\ n+1 = m /\ old(m) = n
      BY <2>2, <1>b
    <3>2. r[n+1] = q[n]
      BY <3>1, <1>2
    <3> QED BY <3>1, <3>2
  <2> QED BY <2>1, <2>2, <1>b
<1>5. \A m, n \in 1 .. Len(r) : m # k /\ n # k /\ m < n => old(m) < old(n)
  BY <1>b
<1>6. ASSUME NEW x PROVE In(r, x) <=> In(q, x) \/ x = p
  <2>1. In(r, x) => In(q, x) \/ x = p
    BY <1>2, <1>4 DEF In
  <2>2. x = p => In(r, x)
    <3>1. k \in 1 .. Len(r)
      BY <1>b
    <3> QED BY <3>1, <1>2 DEF In
  <2>3. ASSUME NEW i \in 1 .. Len(q), q[i] = x PROVE In(r, x)
    <3>1. i \in 1 .. Len(r) /\ i+1 \in 1 .. Len(r)
      BY <1>b
    <3>2. CASE i < k
      BY <3>1, <3>2, <2>3, <1>2 DEF In
    <3>3. CASE i >= k
      BY <3>1, <3>3, <2>3, <1>2 DEF In
    <3> QED BY <3>2, <3>3, <1>b
  <2> QED BY <2>1, <2>2, <2>3 DEF In
<1>7. ASSUME Distinct(q), ~In(q, p) PROVE Distinct(r)
  <2> SUFFICES ASSUME NEW i \in 1 .. Len(r), NEW j \in 1 .. Len(r), i < j
               PROVE  r[i] # r[j]
    BY <1>1, <1>2 DEF Distinct
  <2>1. CASE i = k \/ j = k
    <3>1. \A m \in 1 .. Len(r) : m # k => r[m] # p
      BY <1>4, <1>7 DEF In
    <3> QED BY <2>1, <3>1, <1>2
  <2>2. CASE i # k /\ j # k
    <3>1. old(i) \in 1 .. Len(q) /\ old(j) \in 1 .. Len(q) /\ old(i) < old(j)
      BY <2>2, <1>4, <1>5
    <3>2. r[i] = q[old(i)] /\ r[j] = q[old(j)]
      BY <2>2, <1>4
    <3> HIDE DEF old
    <3>3. old(i) # old(j)
      BY <3>1
    <3> QED BY <3>1, <3>2, <3>3, <1>7 DEF Distinct
  <2> QED BY <2>1, <2>2
<1>8. ASSUME Sorted(q, pri) PROVE Sorted(r, pri)
  <2> SUFFICES ASSUME NEW i \in 1 .. Len(r), NEW j \in 1 .. Len(r), i < j
               PROVE  pri[r[i]] <= pri[r[j]]
    BY DEF Sorted
  <2>1. \A m \in 1 .. Len(q) : m >= k => pri[p] <= pri[q[m]]
    <3> SUFFICES ASSUME NEW m \in 1 .. Len(q), m >= k PROVE pri[p] <= pri[q[m]]
      OBVIOUS
    <3>1. k \in 1 .. Len(q) /\ pri[p] < pri[q[k]]
      BY <1>1, <1>2
    <3>2. k = m \/ pri[q[k]] <= pri[q[m]]
      BY <3>1, <1>8, <1>1 DEF Sorted
    <3>3. pri[p] \in Nat /\ pri[q[k]] \in Nat /\ pri[q[m]] \in Nat
      BY <3>1, <1>1
    <3> QED BY <3>1, <3>2, <3>3
  <2>2. CASE j = k
    <3>1. i \in 1 .. Len(q) /\ i < k
      BY <2>2, <1>b
    <3> QED BY <3>1, <2>2, <1>2
  <2>3. CASE i = k
    <3>1. j # k /\ old(j) >= k
      BY <2>3, <1>b
    <3>2. old(j) \in 1 .. Len(q) /\ r[j] = q[old(j)]
      BY <3>1, <1>4
    <3> HIDE DEF old
    <3> QED BY <3>1, <3>2, <2>1, <2>3, <1>2
  <2>4. CASE i # k /\ j # k
    <3>1. old(i) \in 1 .. Len(q) /\ old(j) \in 1 .. Len(q) /\ old(i) < old(j)
      BY <2>4, <1>4, <1>5
    <3>2. r[i] = q[old(i)] /\ r[j] = q[old(j)]
      BY <2>4, <1>4
    <3> HIDE DEF old
    <3> QED BY <3>1, <3>2, <1>8 DEF Sorted
  <2> QED BY <2>2, <2>3, <2>4
<1> QED BY <1>2, <1>6, <1>7, <1>8 DEF r

\* enqueue_reg leaves p in the queue and adds nothing else.
LEMMA EnqueueRegIs ==
  ASSUME NEW q \in Seq(Pcb), NEW p \in Pcb
  PROVE  /\ enqueue_reg(q, p) \in Seq(Pcb)
         /\ \A x : In(enqueue_reg(q, p), x) <=> In(q, x) \/ x = p
         /\ Distinct(q) /\ ~In(q, p) => Distinct(enqueue_reg(q, p))
<1> DEFINE r == enqueue_reg(q, p)
<1>1. CASE q # <<>> /\ q[Len(q)] = p
  <2>1. r = q /\ Len(q) \in 1 .. Len(q)
    BY <1>1 DEF enqueue_reg
  <2> QED BY <2>1, <1>1 DEF In
<1>2. CASE ~(q # <<>> /\ q[Len(q)] = p)
  <2>1. r = Append(q, p)
    BY <1>2 DEF enqueue_reg
  <2> HIDE DEF r
  <2>2. /\ r \in Seq(Pcb) /\ Len(q) \in Nat /\ Len(r) = Len(q) + 1 /\ r[Len(q) + 1] = p
        /\ \A j \in 1 .. Len(q) : r[j] = q[j]
    BY <2>1
  <2>3. 1 .. Len(r) = 1 .. Len(q) \cup {Len(q) + 1} /\ Len(q) + 1 \notin 1 .. Len(q)
    BY <2>2
  <2>4. \A x : In(r, x) <=> In(q, x) \/ x = p
    BY <2>2, <2>3 DEF In
  <2>5. Distinct(q) /\ ~In(q, p) => Distinct(r)
    BY <2>2, <2>3 DEF In, Distinct
  <2> QED BY <2>2, <2>4, <2>5 DEF r
<1> QED BY <1>1, <1>2

\* dequeue takes away at most p, all of p if it was there once, and keeps
\* the order of the rest.
LEMMA DequeueIs ==
  ASSUME NEW q \in Seq(Pcb), NEW p \in Pcb
  PROVE  /\ dequeue(q, p) \in Seq(Pcb)
         /\ \A x : In(dequeue(q, p), x) => In(q, x)
         /\ \A x : In(q, x) /\ x # p => In(dequeue(q, p), x)
         /\ Distinct(q) => Distinct(dequeue(q, p)) /\ ~In(dequeue(q, p), p)
         /\ \A pri : Sorted(q, pri) => Sorted(dequeue(q, p), pri)
<1> DEFINE r == dequeue(q, p)
<1>1. CASE ~In(q, p)
  <2>1. r = q
    BY <1>1 DEF dequeue, RemoveFirst, In
  <2> QED BY <1>1, <2>1
<1>2. CASE In(q, p)
  <2> DEFINE I == {i \in 1 .. Len(q) : q[i] = p}
             k == Min(I)
  <2>1. Len(q) \in Nat /\ I \in SUBSET Nat /\ I # {}
    BY <1>2 DEF In
  <2>2. k \in I
    BY <2>1, NatMin
  <2>3. r = RemoveAt(q, k)
    BY <1>2, <2>1 DEF dequeue, RemoveFirst, SelectInSeq, In
  <2>4. k \in 1 .. Len(q) /\ q[k] = p
    BY <2>2
  <2> HIDE DEF k, r
  <2>5. /\ RemoveAt(q, k) \in Seq(Pcb)
        /\ Len(RemoveAt(q, k)) = Len(q) - 1
        /\ \A j \in 1 .. Len(q) - 1 : j < k  => RemoveAt(q, k)[j] = q[j]
        /\ \A j \in 1 .. Len(q) - 1 : j >= k => RemoveAt(q, k)[j] = q[j+1]
    BY <2>4, RemoveAtIs
  \* Where the node at place m of r was in q.
  <2> DEFINE old(m) == IF m < k THEN m ELSE m + 1
  <2>6. r \in Seq(Pcb) /\ Len(r) = Len(q) - 1
    BY <2>3, <2>5
  <2>7. \A m \in 1 .. Len(r) :
           old(m) \in 1 .. Len(q) /\ old(m) # k /\ r[m] = q[old(m)]
    BY <2>1, <2>3, <2>4, <2>5, <2>6
  <2>8. \A m, n \in 1 .. Len(r) : m < n => old(m) < old(n)
    BY <2>1, <2>4, <2>6
  <2>9. \A x : In(r, x) => In(q, x)
    BY <2>7 DEF In
  <2>10. ASSUME NEW x, In(q, x), x # p PROVE In(r, x)
    <3>1. PICK i \in 1 .. Len(q) : q[i] = x
      BY <2>10 DEF In
    <3>2. i # k
      BY <3>1, <2>4, <2>10
    <3>3. CASE i < k
      <4>1. i \in 1 .. Len(r) /\ r[i] = q[i]
        BY <3>3, <2>1, <2>3, <2>4, <2>5, <2>6
      <4> QED BY <4>1, <3>1 DEF In
    <3>4. CASE i > k
      <4> DEFINE n == i - 1
      <4>1. n \in 1 .. Len(r) /\ n >= k /\ n+1 = i
        BY <3>4, <2>1, <2>4, <2>6
      <4>2. r[n] = q[n+1]
        BY <4>1, <2>3, <2>5, <2>6
      <4> QED BY <4>1, <4>2, <3>1 DEF In
    <3> QED BY <3>2, <3>3, <3>4, <2>1, <2>4
  <2>11. ASSUME Distinct(q) PROVE Distinct(r) /\ ~In(r, p)
    <3>1. ~In(r, p)
      BY <2>4, <2>7, <2>11 DEF In, Distinct
    <3>2. ASSUME NEW i \in 1 .. Len(r), NEW j \in 1 .. Len(r), i < j
          PROVE  r[i] # r[j]
      <4>1. old(i) \in 1 .. Len(q) /\ old(j) \in 1 .. Len(q) /\ old(i) < old(j)
        BY <3>2, <2>7, <2>8
      <4>2. r[i] = q[old(i)] /\ r[j] = q[old(j)]
        BY <2>7
      <4> HIDE DEF old
      <4>3. old(i) # old(j)
        BY <4>1
      <4> QED BY <4>1, <4>2, <4>3, <2>11 DEF Distinct
    <3>3. Distinct(r)
      BY <3>2, <2>1, <2>6 DEF Distinct
    <3> QED BY <3>1, <3>3
  <2>12. ASSUME NEW pri, Sorted(q, pri) PROVE Sorted(r, pri)
    <3> SUFFICES ASSUME NEW i \in 1 .. Len(r), NEW j \in 1 .. Len(r), i < j
                 PROVE  pri[r[i]] <= pri[r[j]]
      BY DEF Sorted
    <3>1. old(i) \in 1 .. Len(q) /\ old(j) \in 1 .. Len(q) /\ old(i) < old(j)
      BY <2>7, <2>8
    <3>2. r[i] = q[old(i)] /\ r[j] = q[old(j)]
      BY <2>7
    <3> HIDE DEF old
    <3> QED BY <3>1, <3>2, <2>12 DEF Sorted
  <2> QED BY <2>6, <2>9, <2>10, <2>11, <2>12 DEF r
<1> QED BY <1>1, <1>2

-----------------------------------------------------------------------------
\* Without duplicates two elements have one order.
LEMMA OneOrder ==
  ASSUME NEW T, NEW q \in Seq(T), Distinct(q), NEW x, NEW y, Before(q, x, y)
  PROVE  ~Before(q, y, x)
<1> SUFFICES ASSUME Before(q, y, x) PROVE FALSE
  OBVIOUS
<1>1. PICK i, j \in 1 .. Len(q) : i < j /\ q[i] = x /\ q[j] = y
  BY DEF Before
<1>2. PICK m, n \in 1 .. Len(q) : m < n /\ q[m] = y /\ q[n] = x
  BY DEF Before
<1>3. i = n /\ j = m
  BY <1>1, <1>2 DEF Distinct
<1> QED BY <1>1, <1>2, <1>3

\* enqueue_pri keeps the order of the nodes it finds, and goes behind those of
\* the same priority.
LEMMA EnqueuePriOrder ==
  ASSUME NEW pri \in [Pcb -> Nat], NEW q \in Seq(Pcb), NEW p \in Pcb, ~In(q, p)
  PROVE  /\ \A x, y : Before(enqueue_pri(q, pri, p), x, y) /\ x # p /\ y # p
                       => Before(q, x, y)
         /\ \A x : Sorted(q, pri) /\ Before(enqueue_pri(q, pri, p), p, x)
                    => pri[p] < pri[x]
<1> DEFINE r == enqueue_pri(q, pri, p)
<1>1. Len(q) \in Nat /\ \A j \in 1 .. Len(q) : q[j] \in Pcb /\ q[j] # p
  BY DEF In
<1>2. PICK k \in 1 .. Len(q) + 1 :
        /\ k <= Len(q) => pri[p] < pri[q[k]]
        /\ \A j \in 1 .. Len(q) : j < k => pri[q[j]] <= pri[p]
        /\ r \in Seq(Pcb)
        /\ Len(r) = Len(q) + 1
        /\ r[k] = p
        /\ \A j \in 1 .. Len(q) : j < k  => r[j] = q[j]
        /\ \A j \in 1 .. Len(q) : j >= k => r[j+1] = q[j]
  BY EnqueuePriAt
<1> HIDE DEF r
\* Where the node at place m of r was in q.
<1> DEFINE old(m) == IF m < k THEN m ELSE m - 1
<1>5. ASSUME NEW m \in 1 .. Len(r), m # k
      PROVE  old(m) \in 1 .. Len(q) /\ r[m] = q[old(m)]
  <2>1. CASE m < k
    <3>1. m \in 1 .. Len(q) /\ old(m) = m
      BY <2>1, <1>1, <1>2
    <3> QED BY <3>1, <2>1, <1>2
  <2>2. CASE m > k
    <3> DEFINE n == m - 1
    <3>1. n \in 1 .. Len(q) /\ n >= k /\ n + 1 = m /\ old(m) = n
      BY <2>2, <1>1, <1>2
    <3>2. r[n + 1] = q[n]
      BY <3>1, <1>2
    <3> QED BY <3>1, <3>2
  <2>3. m \in Nat /\ k \in Nat
    BY <1>1, <1>2
  <2> QED BY <1>5, <2>1, <2>2, <2>3
<1>6. \A m, n \in 1 .. Len(r) : m # k /\ n # k /\ m < n => old(m) < old(n)
  <2>1. k \in Nat /\ Len(r) \in Nat
    BY <1>1, <1>2
  <2> QED BY <2>1
<1>7. \A m \in 1 .. Len(r) : r[m] = p => m = k
  BY <1>1, <1>5
<1>8. ASSUME NEW x, NEW y, Before(r, x, y), x # p, y # p PROVE Before(q, x, y)
  <2>1. PICK i, j \in 1 .. Len(r) : i < j /\ r[i] = x /\ r[j] = y
    BY <1>8 DEF Before
  <2>2. i # k /\ j # k
    BY <1>2, <1>8, <2>1
  <2>3. /\ old(i) \in 1 .. Len(q) /\ q[old(i)] = x
        /\ old(j) \in 1 .. Len(q) /\ q[old(j)] = y
    BY <1>5, <2>1, <2>2
  <2>4. old(i) < old(j)
    BY <1>6, <2>1, <2>2
  <2> HIDE DEF old
  <2> QED BY <2>3, <2>4 DEF Before
<1>9. ASSUME NEW x, Sorted(q, pri), Before(r, p, x) PROVE pri[p] < pri[x]
  <2>1. PICK i, j \in 1 .. Len(r) : i < j /\ r[i] = p /\ r[j] = x
    BY <1>9 DEF Before
  <2>2. i = k /\ j # k /\ j > k
    BY <1>7, <1>1, <1>2, <2>1
  <2>3. old(j) \in 1 .. Len(q) /\ x = q[old(j)]
    BY <1>5, <2>1, <2>2
  <2>4. old(j) >= k /\ k \in 1 .. Len(q)
    BY <1>1, <1>2, <2>1, <2>2
  <2> HIDE DEF old
  <2>5. q[k] \in Pcb /\ x \in Pcb
    BY <1>1, <2>3, <2>4
  <2>8. pri[p] < pri[q[k]]
    BY <1>2, <2>4
  <2>6. k = old(j) \/ pri[q[k]] <= pri[x]
    BY <1>9, <2>3, <2>4 DEF Sorted
  <2>7. pri[p] \in Nat /\ pri[q[k]] \in Nat /\ pri[x] \in Nat
    BY <2>5
  <2> QED BY <2>3, <2>6, <2>7, <2>8
<1> QED BY <1>8, <1>9 DEF r

\* enqueue_reg puts p at the rear, if anywhere.
LEMMA EnqueueRegOrder ==
  ASSUME NEW q \in Seq(Pcb), NEW p \in Pcb, NEW x, NEW y, y # p,
         Before(enqueue_reg(q, p), x, y)
  PROVE  Before(q, x, y)
<1> DEFINE r == enqueue_reg(q, p)
<1>1. CASE r = q
  BY <1>1
<1>2. CASE r = Append(q, p)
  <2> HIDE DEF r
  <2>1. /\ Len(q) \in Nat /\ Len(r) = Len(q) + 1 /\ r[Len(q) + 1] = p
        /\ \A j \in 1 .. Len(q) : r[j] = q[j]
    BY <1>2
  <2>2. PICK i, j \in 1 .. Len(r) : i < j /\ r[i] = x /\ r[j] = y
    BY DEF Before, r
  <2>3. i \in 1 .. Len(q) /\ j \in 1 .. Len(q)
    BY <2>1, <2>2
  <2> QED BY <2>1, <2>2, <2>3 DEF Before
<1> QED BY <1>1, <1>2 DEF enqueue_reg

\* dequeue changes the order of nothing.
LEMMA DequeueOrder ==
  ASSUME NEW q \in Seq(Pcb), NEW p \in Pcb, NEW x, NEW y,
         Before(dequeue(q, p), x, y)
  PROVE  Before(q, x, y)
<1> DEFINE r == dequeue(q, p)
<1>1. CASE ~In(q, p)
  BY <1>1 DEF dequeue, RemoveFirst, In
<1>2. CASE In(q, p)
  <2> DEFINE I == {i \in 1 .. Len(q) : q[i] = p}
             k == Min(I)
  <2>1. Len(q) \in Nat /\ I \in SUBSET Nat /\ I # {}
    BY <1>2 DEF In
  <2>2. k \in I
    BY <2>1, NatMin
  <2>3. r = RemoveAt(q, k)
    BY <1>2, <2>1 DEF dequeue, RemoveFirst, SelectInSeq, In
  <2>4. k \in 1 .. Len(q)
    BY <2>2
  <2>a. Before(r, x, y)
    OBVIOUS
  <2> HIDE DEF k, r
  <2>5. /\ Len(r) = Len(q) - 1
        /\ \A j \in 1 .. Len(q) - 1 : j < k  => r[j] = q[j]
        /\ \A j \in 1 .. Len(q) - 1 : j >= k => r[j] = q[j+1]
    BY <2>3, <2>4, RemoveAtIs
  <2>6. PICK i, j \in 1 .. Len(r) : i < j /\ r[i] = x /\ r[j] = y
    BY <2>a DEF Before
  <2> DEFINE old(m) == IF m < k THEN m ELSE m + 1
  <2>7. \A m \in 1 .. Len(r) : old(m) \in 1 .. Len(q) /\ r[m] = q[old(m)]
    BY <2>1, <2>4, <2>5
  <2>8. old(i) < old(j)
    BY <2>1, <2>4, <2>5, <2>6
  <2>9. /\ old(i) \in 1 .. Len(q) /\ q[old(i)] = x
        /\ old(j) \in 1 .. Len(q) /\ q[old(j)] = y
    BY <2>6, <2>7
  <2> HIDE DEF old
  <2> QED BY <2>8, <2>9 DEF Before
<1> QED BY <1>1, <1>2

-----------------------------------------------------------------------------
\* pcb_insert adds p to the queue of its state and touches no other queue.
LEMMA PcbInsertIs ==
  ASSUME NEW qs \in [States -> Seq(Pcb)], NEW st \in [Pcb -> States],
         NEW pri \in [Pcb -> Nat], NEW p \in Pcb
  PROVE  /\ pcb_insert(qs, st, pri, p) \in [States -> Seq(Pcb)]
         /\ \A s \in States : s # st[p] => pcb_insert(qs, st, pri, p)[s] = qs[s]
         /\ \A x : In(pcb_insert(qs, st, pri, p)[st[p]], x)
                     <=> In(qs[st[p]], x) \/ x = p
         /\ Distinct(qs[st[p]]) /\ ~In(qs[st[p]], p)
              => Distinct(pcb_insert(qs, st, pri, p)[st[p]])
         /\ st[p] \in ReadyStates /\ Sorted(qs[st[p]], pri)
              => Sorted(pcb_insert(qs, st, pri, p)[st[p]], pri)
<1> DEFINE q == qs[st[p]]
           r == pcb_insert(qs, st, pri, p)
<1>1. q \in Seq(Pcb) /\ st[p] \in States
  OBVIOUS
<1>2. CASE st[p] \in ReadyStates
  <2>1. r = [qs EXCEPT ![st[p]] = enqueue_pri(q, pri, p)]
    BY <1>2 DEF pcb_insert
  <2>2. r[st[p]] = enqueue_pri(q, pri, p) /\ \A s \in States : s # st[p] => r[s] = qs[s]
    BY <1>1, <2>1
  <2> HIDE DEF q
  <2>3. enqueue_pri(q, pri, p) \in Seq(Pcb)
    BY <1>1, EnqueuePriIs
  <2>4. r \in [States -> Seq(Pcb)]
    BY <2>1, <2>3
  <2> HIDE DEF r
  <2> QED BY <1>1, <2>2, <2>4, EnqueuePriIs DEF q, r
<1>3. CASE st[p] \notin ReadyStates
  <2>1. r = [qs EXCEPT ![st[p]] = enqueue_reg(q, p)]
    BY <1>3 DEF pcb_insert
  <2>2. r[st[p]] = enqueue_reg(q, p) /\ \A s \in States : s # st[p] => r[s] = qs[s]
    BY <1>1, <2>1
  <2> HIDE DEF q
  <2>3. enqueue_reg(q, p) \in Seq(Pcb)
    BY <1>1, EnqueueRegIs
  <2>4. r \in [States -> Seq(Pcb)]
    BY <2>1, <2>3
  <2> HIDE DEF r
  <2> QED BY <1>1, <1>3, <2>2, <2>4, EnqueueRegIs DEF q, r
<1> QED BY <1>2, <1>3

\* pcb_remove takes p out of the queue of its state and touches no other.
LEMMA PcbRemoveIs ==
  ASSUME NEW qs \in [States -> Seq(Pcb)], NEW st \in [Pcb -> States], NEW p \in Pcb
  PROVE  /\ pcb_remove(qs, st, p) \in [States -> Seq(Pcb)]
         /\ \A s \in States : s # st[p] => pcb_remove(qs, st, p)[s] = qs[s]
         /\ \A s \in States : \A x : In(pcb_remove(qs, st, p)[s], x) => In(qs[s], x)
         /\ \A s \in States : \A x : In(qs[s], x) /\ x # p => In(pcb_remove(qs, st, p)[s], x)
         /\ Distinct(qs[st[p]]) => ~In(pcb_remove(qs, st, p)[st[p]], p)
         /\ \A s \in States : Distinct(qs[s]) => Distinct(pcb_remove(qs, st, p)[s])
         /\ \A pri : \A s \in States : Sorted(qs[s], pri) => Sorted(pcb_remove(qs, st, p)[s], pri)
<1> DEFINE q == qs[st[p]]
           r == pcb_remove(qs, st, p)
<1>1. q \in Seq(Pcb) /\ st[p] \in States
  OBVIOUS
<1>2. r = [qs EXCEPT ![st[p]] = dequeue(q, p)]
  BY DEF pcb_remove
<1>3. r[st[p]] = dequeue(q, p) /\ \A s \in States : s # st[p] => r[s] = qs[s]
  BY <1>1, <1>2
<1> HIDE DEF q
<1>4. dequeue(q, p) \in Seq(Pcb)
  BY <1>1, DequeueIs
<1>5. r \in [States -> Seq(Pcb)]
  BY <1>2, <1>4
<1> HIDE DEF r
<1>6. /\ \A x : In(r[st[p]], x) => In(q, x)
      /\ \A x : In(q, x) /\ x # p => In(r[st[p]], x)
      /\ Distinct(q) => Distinct(r[st[p]]) /\ ~In(r[st[p]], p)
      /\ \A pri : Sorted(q, pri) => Sorted(r[st[p]], pri)
  BY <1>1, <1>3, DequeueIs
<1>7. \A s \in States : \A x : In(r[s], x) => In(qs[s], x)
  BY <1>3, <1>6 DEF q
<1>8. \A s \in States : \A x : In(qs[s], x) /\ x # p => In(r[s], x)
  BY <1>3, <1>6 DEF q
<1>9. \A s \in States : Distinct(qs[s]) => Distinct(r[s])
  BY <1>3, <1>6 DEF q
<1>10. \A pri : \A s \in States : Sorted(qs[s], pri) => Sorted(r[s], pri)
  BY <1>3, <1>6 DEF q
<1>11. Distinct(qs[st[p]]) => ~In(r[st[p]], p)
  BY <1>6 DEF q
<1> QED BY <1>3, <1>5, <1>7, <1>8, <1>9, <1>10, <1>11 DEF r

\* pcb_find answers NULL or the PCB of a node with that name.
LEMMA PcbFindIs ==
  ASSUME NEW qs \in [States -> Seq(Pcb)], NEW names, NEW n
  PROVE  LET p == pcb_find(qs, names, n)
         IN  \/ p = NULL /\ \A s \in States : \A x : In(qs[s], x) => names[x] # n
             \/ p \in Pcb /\ names[p] = n /\ \E s \in States : In(qs[s], p)
<1> DEFINE a == qs[READY_NOT_SUSPENDED]
           b == qs[READY_SUSPENDED]
           c == qs[BLOCKED_NOT_SUSPENDED]
           d == qs[BLOCKED_SUSPENDED]
           all == ((a \o b) \o c) \o d
           found == {i \in 1 .. Len(all) : names[all[i]] = n}
           p == pcb_find(qs, names, n)
<1>1. a \in Seq(Pcb) /\ b \in Seq(Pcb) /\ c \in Seq(Pcb) /\ d \in Seq(Pcb)
  BY DEF States, ReadyStates, BlockedStates
<1> HIDE DEF a, b, c, d
<1>2. \A s1, s2 \in Seq(Pcb) :
         s1 \o s2 \in Seq(Pcb) /\ \A x : In(s1 \o s2, x) <=> In(s1, x) \/ In(s2, x)
  <2> SUFFICES ASSUME NEW s1 \in Seq(Pcb), NEW s2 \in Seq(Pcb)
               PROVE  /\ s1 \o s2 \in Seq(Pcb)
                      /\ \A x : In(s1 \o s2, x) <=> In(s1, x) \/ In(s2, x)
    OBVIOUS
  <2>1. \A x, s : s \in Seq(Pcb) => (In(s, x) <=> x \in Range(s))
    BY DEF In, Range
  <2>2. s1 \o s2 \in Seq(Pcb) /\ Range(s1 \o s2) = Range(s1) \cup Range(s2)
    BY ConcatProperties, RangeConcatenation
  <2> QED BY <2>1, <2>2
<1>3. /\ all \in Seq(Pcb)
      /\ \A x : In(all, x) <=> In(a, x) \/ In(b, x) \/ In(c, x) \/ In(d, x)
  <2> DEFINE ab == a \o b
             abc == ab \o c
  <2>1. ab \in Seq(Pcb) /\ \A x : In(ab, x) <=> In(a, x) \/ In(b, x)
    BY <1>1, <1>2
  <2> HIDE DEF ab
  <2>2. abc \in Seq(Pcb) /\ \A x : In(abc, x) <=> In(ab, x) \/ In(c, x)
    BY <1>1, <1>2, <2>1
  <2> HIDE DEF abc
  <2>3. (abc \o d) \in Seq(Pcb) /\ \A x : In(abc \o d, x) <=> In(abc, x) \/ In(d, x)
    BY <1>1, <1>2, <2>2
  <2> QED BY <2>1, <2>2, <2>3 DEF ab, abc
<1>4. p = IF found = {} THEN NULL ELSE all[Min(found)]
  BY DEF pcb_find, a, b, c, d
<1>5. \A x : In(all, x) <=> \E s \in States : In(qs[s], x)
  BY <1>3 DEF a, b, c, d, States, ReadyStates, BlockedStates
<1> HIDE DEF all, p
<1>6. CASE found = {}
  BY <1>4, <1>5, <1>6 DEF In, p
<1>7. CASE found # {}
  <2> DEFINE k == Min(found)
  <2>1. Len(all) \in Nat
    BY <1>3
  <2>2. found \in SUBSET Nat
    BY <2>1
  <2>3. p = all[k]
    BY <1>4, <1>7
  <2> HIDE DEF found
  <2>4. k \in found
    BY <1>7, <2>2, NatMin
  <2> HIDE DEF k
  <2>5. k \in 1 .. Len(all) /\ names[all[k]] = n
    BY <2>4 DEF found
  <2>6. p \in Pcb /\ names[p] = n /\ In(all, p)
    BY <1>3, <2>3, <2>5 DEF In
  <2> QED BY <2>6, <1>5 DEF p
<1> QED BY <1>6, <1>7

-----------------------------------------------------------------------------
(***************************************************************************)
(* The queues as a whole.                                                  *)
(***************************************************************************)

\* Each PCB is at most once in the queue of its state and in no other, and
\* the two ready queues are in the order of priority.
Orderly(qs, st, pri) ==
    /\ qs \in [States -> Seq(Pcb)]
    /\ st \in [Pcb -> States]
    /\ pri \in [Pcb -> Priorities]
    /\ \A s \in States : Distinct(qs[s])
    /\ \A s \in States : \A x : In(qs[s], x) => st[x] = s
    /\ \A s \in ReadyStates : Sorted(qs[s], pri)

\* Being queued is being in one of the sequences.
LEMMA QueuedIs ==
  ASSUME NEW qs, NEW x
  PROVE  Queued(qs, x) <=> \E s \in States : In(qs[s], x)
BY DEF Queued, In

\* Removing p takes p out of the queues and nothing else.
LEMMA RemoveOrderly ==
  ASSUME NEW qs, NEW st, NEW pri, NEW p \in Pcb, Orderly(qs, st, pri)
  PROVE  /\ Orderly(pcb_remove(qs, st, p), st, pri)
         /\ \A x : Queued(pcb_remove(qs, st, p), x) <=> Queued(qs, x) /\ x # p
<1> DEFINE r == pcb_remove(qs, st, p)
<1>1. /\ qs \in [States -> Seq(Pcb)] /\ st \in [Pcb -> States] /\ st[p] \in States
      /\ \A s \in States : Distinct(qs[s])
      /\ \A s \in States : \A x : In(qs[s], x) => st[x] = s
      /\ \A s \in ReadyStates : s \in States /\ Sorted(qs[s], pri)
  BY DEF Orderly, States
<1>2. /\ r \in [States -> Seq(Pcb)]
      /\ \A s \in States : s # st[p] => r[s] = qs[s]
      /\ \A s \in States : \A x : In(r[s], x) => In(qs[s], x)
      /\ \A s \in States : \A x : In(qs[s], x) /\ x # p => In(r[s], x)
      /\ Distinct(qs[st[p]]) => ~In(r[st[p]], p)
      /\ \A s \in States : Distinct(qs[s]) => Distinct(r[s])
      /\ \A o : \A s \in States : Sorted(qs[s], o) => Sorted(r[s], o)
  BY <1>1, PcbRemoveIs
<1> HIDE DEF r
<1>3. \A s \in States : ~In(r[s], p)
  BY <1>1, <1>2
<1>4. Orderly(r, st, pri)
  BY <1>1, <1>2 DEF Orderly
<1>5. \A x : Queued(r, x) <=> Queued(qs, x) /\ x # p
  BY <1>2, <1>3, QueuedIs
<1> QED BY <1>4, <1>5 DEF r

\* Inserting a PCB that is in no queue adds that PCB and nothing else.
LEMMA InsertOrderly ==
  ASSUME NEW qs, NEW st, NEW pri, NEW p \in Pcb, Orderly(qs, st, pri), ~Queued(qs, p)
  PROVE  /\ Orderly(pcb_insert(qs, st, pri, p), st, pri)
         /\ \A x : Queued(pcb_insert(qs, st, pri, p), x) <=> Queued(qs, x) \/ x = p
<1> DEFINE r == pcb_insert(qs, st, pri, p)
<1>1. /\ qs \in [States -> Seq(Pcb)] /\ st \in [Pcb -> States] /\ st[p] \in States
      /\ pri \in [Pcb -> Priorities] /\ pri \in [Pcb -> Nat]
      /\ \A s \in States : Distinct(qs[s]) /\ ~In(qs[s], p)
      /\ \A s \in States : \A x : In(qs[s], x) => st[x] = s
      /\ \A s \in ReadyStates : s \in States /\ Sorted(qs[s], pri)
  BY PriorityAssumption, QueuedIs DEF Orderly, States, Priorities
<1>2. /\ r \in [States -> Seq(Pcb)]
      /\ \A s \in States : s # st[p] => r[s] = qs[s]
      /\ \A x : In(r[st[p]], x) <=> In(qs[st[p]], x) \/ x = p
      /\ Distinct(qs[st[p]]) /\ ~In(qs[st[p]], p) => Distinct(r[st[p]])
      /\ st[p] \in ReadyStates /\ Sorted(qs[st[p]], pri) => Sorted(r[st[p]], pri)
  BY <1>1, PcbInsertIs
<1> HIDE DEF r
<1>3. \A s \in States : Distinct(r[s])
  BY <1>1, <1>2
<1>4. \A s \in States : \A x : In(r[s], x) => st[x] = s
  BY <1>1, <1>2
<1>5. \A s \in ReadyStates : Sorted(r[s], pri)
  BY <1>1, <1>2
<1>6. Orderly(r, st, pri)
  BY <1>1, <1>2, <1>3, <1>4, <1>5 DEF Orderly
<1>7. \A x : Queued(r, x) <=> Queued(qs, x) \/ x = p
  BY <1>1, <1>2, QueuedIs
<1> QED BY <1>6, <1>7 DEF r

\* The state of a PCB may change while it is in no queue.
LEMMA RestateOrderly ==
  ASSUME NEW qs, NEW st, NEW pri, NEW p \in Pcb, NEW t \in States,
         Orderly(qs, st, pri), ~Queued(qs, p)
  PROVE  Orderly(qs, [st EXCEPT ![p] = t], pri)
<1>1. \A s \in States : ~In(qs[s], p)
  BY QueuedIs
<1>2. \A s \in States : \A x : In(qs[s], x) => x \in Pcb /\ x # p
  BY <1>1 DEF Orderly, In
<1> QED BY <1>2 DEF Orderly

\* The priority of a PCB may change while it is in no ready queue.
LEMMA ReprioritizeOrderly ==
  ASSUME NEW qs, NEW st, NEW pri, NEW p \in Pcb, NEW v \in Priorities,
         Orderly(qs, st, pri), Queued(qs, p) => st[p] \notin ReadyStates
  PROVE  Orderly(qs, st, [pri EXCEPT ![p] = v])
<1> DEFINE o == [pri EXCEPT ![p] = v]
<1>1. \A s \in ReadyStates : s \in States /\ ~In(qs[s], p)
  BY QueuedIs DEF Orderly, States
<1>2. \A s \in ReadyStates : \A i \in 1 .. Len(qs[s]) :
         qs[s][i] \in Pcb /\ qs[s][i] # p
  BY <1>1 DEF Orderly, In
<1>3. \A s \in ReadyStates : \A i \in 1 .. Len(qs[s]) : o[qs[s][i]] = pri[qs[s][i]]
  BY <1>2 DEF Orderly
<1>4. o \in [Pcb -> Priorities]
  BY DEF Orderly
<1> HIDE DEF o
<1>5. \A s \in ReadyStates : Sorted(qs[s], o)
  BY <1>3 DEF Orderly, Sorted
<1>6. Orderly(qs, st, o)
  BY <1>4, <1>5 DEF Orderly
<1> QED BY <1>6 DEF o
\* Removing a PCB changes the order of no queue.
LEMMA RemoveOrder ==
  ASSUME NEW qs, NEW st, NEW pri, NEW p \in Pcb, Orderly(qs, st, pri),
         NEW s \in States, NEW x, NEW y, Before(pcb_remove(qs, st, p)[s], x, y)
  PROVE  Before(qs[s], x, y)
<1> DEFINE r == pcb_remove(qs, st, p)
<1>1. qs \in [States -> Seq(Pcb)] /\ st[p] \in States
  BY DEF Orderly
<1>2. CASE s = st[p]
  <2>1. r[s] = dequeue(qs[s], p) /\ qs[s] \in Seq(Pcb)
    BY <1>1, <1>2 DEF pcb_remove
  <2> QED BY <2>1, DequeueOrder
<1>3. CASE s # st[p]
  <2>1. r[s] = qs[s]
    BY <1>1, <1>3 DEF pcb_remove
  <2> QED BY <2>1
<1> QED BY <1>2, <1>3

\* Inserting p keeps the order of the others, and in a ready queue everything
\* behind p is less urgent.
LEMMA InsertOrder ==
  ASSUME NEW qs, NEW st, NEW pri, NEW p \in Pcb, Orderly(qs, st, pri), ~Queued(qs, p),
         NEW s \in States, NEW x, NEW y, Before(pcb_insert(qs, st, pri, p)[s], x, y), y # p
  PROVE  /\ x # p => Before(qs[s], x, y)
         /\ x = p => s = st[p] /\ (s \in ReadyStates => pri[p] < pri[y])
<1> DEFINE r == pcb_insert(qs, st, pri, p)
<1>1. /\ qs \in [States -> Seq(Pcb)] /\ st[p] \in States /\ pri \in [Pcb -> Nat]
      /\ ~In(qs[s], p) /\ qs[s] \in Seq(Pcb)
      /\ s \in ReadyStates => Sorted(qs[s], pri)
  BY PriorityAssumption, QueuedIs DEF Orderly, Priorities
<1>2. CASE s # st[p]
  <2>1. r[s] = qs[s]
    BY <1>1, <1>2 DEF pcb_insert
  <2>2. Before(qs[s], x, y) /\ x # p
    BY <1>1, <2>1 DEF Before, In
  <2> QED BY <2>2
<1>3. CASE s = st[p] /\ s \in ReadyStates
  <2>1. r[s] = enqueue_pri(qs[s], pri, p)
    BY <1>1, <1>3 DEF pcb_insert
  <2>2. Before(enqueue_pri(qs[s], pri, p), x, y)
    BY <2>1
  <2> QED BY <1>1, <1>3, <2>2, EnqueuePriOrder
<1>4. CASE s = st[p] /\ s \notin ReadyStates
  <2>1. r[s] = enqueue_reg(qs[s], p)
    BY <1>1, <1>4 DEF pcb_insert
  <2>2. Before(qs[s], x, y)
    BY <1>1, <2>1, EnqueueRegOrder
  <2> QED BY <1>1, <1>4, <2>2 DEF Before, In
<1> QED BY <1>2, <1>3, <1>4


-----------------------------------------------------------------------------
\* The operations on a queue of one node or two.
LEMMA ShortQueues ==
  ASSUME NEW pri \in [Pcb -> Nat], NEW p \in Pcb, NEW x \in Pcb
  PROVE  /\ enqueue_pri(<<>>, pri, p) = <<p>>
         /\ pri[p] <= pri[x] => enqueue_pri(<<p>>, pri, x) = <<p, x>>
         /\ enqueue_reg(<<>>, p) = <<p>> /\ enqueue_reg(<<p>>, p) = <<p>>
         /\ dequeue(<<p>>, p) = <<>>
         /\ dequeue(<<p, x>>, p) = <<x>>
<1>1. ASSUME NEW q \in Seq(Pcb), NEW e \in Pcb, InsertionPoint(q, pri, e) = Len(q) + 1
      PROVE  enqueue_pri(q, pri, e) = Append(q, e)
  <2>1. Len(q) \in Nat /\ Len(q) + 1 \in 1 .. Len(q) + 1
    OBVIOUS
  <2>2. SubSeq(q, 1, (Len(q) + 1) - 1) = q /\ SubSeq(q, Len(q) + 1, Len(q)) = <<>>
    BY <2>1
  <2>3. enqueue_pri(q, pri, e) = InsertAt(q, Len(q) + 1, e)
    BY <1>1 DEF enqueue_pri
  <2>4. InsertAt(q, Len(q) + 1, e) = (q \o <<e>>) \o <<>>
    BY <2>2 DEF InsertAt
  <2>5. (q \o <<e>>) \o <<>> = Append(q, e)
    OBVIOUS
  <2> QED BY <2>3, <2>4, <2>5
<1>2. enqueue_pri(<<>>, pri, p) = <<p>>
  <2> DEFINE q == <<>>
  <2>1. q \in Seq(Pcb) /\ Len(q) = 0
    BY EmptySeq
  <2>2. Append(q, p) = <<p>>
    OBVIOUS
  <2> HIDE DEF q
  <2>3. InsertionPoint(q, pri, p) \in 1 .. Len(q) + 1
    BY <2>1, InsertionPointIs
  <2>4. InsertionPoint(q, pri, p) = Len(q) + 1
    BY <2>1, <2>3
  <2>5. enqueue_pri(q, pri, p) = Append(q, p)
    BY <1>1, <2>1, <2>4
  <2> QED BY <2>2, <2>5 DEF q
<1>3. ASSUME pri[p] <= pri[x] PROVE enqueue_pri(<<p>>, pri, x) = <<p, x>>
  <2> DEFINE q == <<p>>
  <2>1. q \in Seq(Pcb) /\ Len(q) = 1 /\ q[1] = p
    OBVIOUS
  <2>2. Append(q, x) = <<p, x>>
    <3>1. Append(q, x) \in Seq(Pcb) /\ <<p, x>> \in Seq(Pcb)
      BY <2>1
    <3>2. Len(Append(q, x)) = 2 /\ Len(<<p, x>>) = 2
      BY <2>1
    <3>3. \A i \in 1 .. 2 : Append(q, x)[i] = <<p, x>>[i]
      <4>1. Append(q, x)[1] = p /\ Append(q, x)[2] = x
        BY <2>1
      <4>2. <<p, x>>[1] = p /\ <<p, x>>[2] = x
        OBVIOUS
      <4>3. \A i \in 1 .. 2 : i = 1 \/ i = 2
        OBVIOUS
      <4> QED BY <4>1, <4>2, <4>3
    <3> HIDE DEF q
    <3> QED BY <3>1, <3>2, <3>3, SeqEqual
  <2> HIDE DEF q
  <2>3. /\ InsertionPoint(q, pri, x) \in 1 .. Len(q) + 1
        /\ InsertionPoint(q, pri, x) <= Len(q) => pri[x] < pri[q[InsertionPoint(q, pri, x)]]
    BY <2>1, InsertionPointIs
  <2>4. InsertionPoint(q, pri, x) = Len(q) + 1
    BY <1>3, <2>1, <2>3
  <2>5. enqueue_pri(q, pri, x) = Append(q, x)
    BY <1>1, <2>1, <2>4
  <2> QED BY <2>2, <2>5 DEF q
<1>4. enqueue_reg(<<>>, p) = <<p>> /\ enqueue_reg(<<p>>, p) = <<p>>
  BY DEF enqueue_reg
<1>5. ASSUME NEW q \in Seq(Pcb), Len(q) >= 1, q[1] = p PROVE dequeue(q, p) = Tail(q)
  <2> DEFINE I == {i \in 1 .. Len(q) : q[i] = p}
  <2>1. Len(q) \in Nat /\ 1 \in I /\ I \in SUBSET Nat
    BY <1>5
  <2>2. Min(I) \in I /\ Min(I) <= 1
    BY <2>1, NatMin
  <2>3. Min(I) = 1
    BY <2>2
  <2>4. dequeue(q, p) = RemoveAt(q, 1)
    BY <1>5, <2>1, <2>3 DEF dequeue, RemoveFirst, SelectInSeq
  <2>5. RemoveAt(q, 1) = SubSeq(q, 1, 0) \o SubSeq(q, 2, Len(q))
    BY DEF RemoveAt
  <2>6. SubSeq(q, 1, 0) = <<>>
    BY SubSeqEmpty
  <2>7. q # <<>> /\ SubSeq(q, 2, Len(q)) = Tail(q) /\ Tail(q) \in Seq(Pcb)
    BY <1>5, <2>1, EmptySeq, TailIsSubSeq, HeadTailProperties
  <2>8. <<>> \o Tail(q) = Tail(q)
    BY <2>7, ConcatEmptySeq
  <2> QED BY <2>4, <2>5, <2>6, <2>7, <2>8
<1>6. dequeue(<<p>>, p) = <<>>
  <2> DEFINE q == <<p>>
  <2>1. q \in Seq(Pcb) /\ Len(q) = 1 /\ q[1] = p /\ Tail(q) = <<>>
    OBVIOUS
  <2> HIDE DEF q
  <2>2. dequeue(q, p) = Tail(q)
    BY <1>5, <2>1
  <2> QED BY <2>1, <2>2 DEF q
<1>7. dequeue(<<p, x>>, p) = <<x>>
  <2> DEFINE q == <<p, x>>
  <2>1. q \in Seq(Pcb) /\ Len(q) = 2 /\ q[1] = p /\ Tail(q) = <<x>>
    OBVIOUS
  <2> HIDE DEF q
  <2>2. dequeue(q, p) = Tail(q)
    BY <1>5, <2>1
  <2> QED BY <2>1, <2>2 DEF q
<1> QED BY <1>2, <1>3, <1>4, <1>6, <1>7

=============================================================================
