-------------------------- MODULE LinkedQueueProofs --------------------------
(***************************************************************************)
(* The linked lists of LinkedQueue represent sequences of nodes, and their *)
(* operations implement those of Queues, for any number of PCBs and nodes. *)
(* The walk of the show functions misses no PCB that stays in its queue.   *)
(***************************************************************************)
EXTENDS LinkedQueue, ProcessQueueProofs

-----------------------------------------------------------------------------
(***************************************************************************)
(* Lists.                                                                  *)
(***************************************************************************)

\* Where the nodes of the longer sequence come from.
LEMMA InsertNode ==
  ASSUME NEW q \in Seq(Node), NEW n \in Node, NEW k \in 1 .. Len(q) + 1
  PROVE  /\ InsertAt(q, k, n) \in Seq(Node)
         /\ Len(InsertAt(q, k, n)) = Len(q) + 1
         /\ \A j \in 1 .. Len(q) + 1 :
              \/ j = k /\ InsertAt(q, k, n)[j] = n
              \/ j < k /\ j \in 1 .. Len(q) /\ InsertAt(q, k, n)[j] = q[j]
              \/ j > k /\ j-1 \in 1 .. Len(q) /\ InsertAt(q, k, n)[j] = q[j-1]
<1>1. Len(q) \in Nat
  OBVIOUS
<1>2. /\ InsertAt(q, k, n) \in Seq(Node)
      /\ Len(InsertAt(q, k, n)) = Len(q) + 1
      /\ InsertAt(q, k, n)[k] = n
      /\ \A j \in 1 .. Len(q) : j < k  => InsertAt(q, k, n)[j] = q[j]
      /\ \A j \in 1 .. Len(q) : j >= k => InsertAt(q, k, n)[j+1] = q[j]
  BY <1>1, InsertAtIs
<1> DEFINE d == InsertAt(q, k, n)
<1>4. /\ Len(d) = Len(q) + 1
      /\ d[k] = n
      /\ \A j \in 1 .. Len(q) : j < k  => d[j] = q[j]
      /\ \A j \in 1 .. Len(q) : j >= k => d[j+1] = q[j]
  BY <1>2
<1> HIDE DEF d
<1>3. ASSUME NEW j \in 1 .. Len(q) + 1
      PROVE  \/ j = k /\ d[j] = n
             \/ j < k /\ j \in 1 .. Len(q) /\ d[j] = q[j]
             \/ j > k /\ j-1 \in 1 .. Len(q) /\ d[j] = q[j-1]
  <2>1. CASE j < k
    BY <2>1, <1>1, <1>4
  <2>2. CASE j = k
    BY <2>2, <1>4
  <2>3. CASE j > k
    <3>1. j-1 \in 1 .. Len(q) /\ j-1 >= k /\ (j-1)+1 = j
      BY <2>3, <1>1
    <3> QED BY <2>3, <3>1, <1>4
  <2> QED BY <2>1, <2>2, <2>3, <1>1
<1> QED BY <1>2, <1>3 DEF d

\* Where the nodes of the shorter sequence were.
LEMMA RemoveNode ==
  ASSUME NEW q \in Seq(Node), NEW k \in 1 .. Len(q)
  PROVE  /\ RemoveAt(q, k) \in Seq(Node)
         /\ Len(RemoveAt(q, k)) = Len(q) - 1
         /\ \A j \in 1 .. Len(q) - 1 :
              \/ j < k /\ RemoveAt(q, k)[j] = q[j]
              \/ j >= k /\ j+1 \in 1 .. Len(q) /\ RemoveAt(q, k)[j] = q[j+1]
<1>1. Len(q) \in Nat
  OBVIOUS
<1> QED BY <1>1, RemoveAtIs

\* A list none of whose nodes is touched stays as it is.
LEMMA LinkedFrame ==
  ASSUME NEW q, NEW f, NEW r, NEW nx, NEW pv, NEW nx2, NEW pv2,
         Linked(q, f, r, nx, pv),
         \A i \in 1 .. Len(q) : nx2[q[i]] = nx[q[i]] /\ pv2[q[i]] = pv[q[i]]
  PROVE  Linked(q, f, r, nx2, pv2)
BY DEF Linked

\* A node n is linked in at place k by the four pointers around it.
LEMMA LinkedInsert ==
  ASSUME NEW q \in Seq(Node), NEW n \in Node, NEW k \in 1 .. Len(q) + 1,
         NEW f, NEW r, NEW nx, NEW pv, NEW nx2, NEW pv2,
         Linked(q, f, r, nx, pv),
         nx2[n] = IF k = Len(q) + 1 THEN NULL ELSE q[k],
         pv2[n] = IF k = 1 THEN NULL ELSE q[k-1],
         \A i \in 1 .. Len(q) : nx2[q[i]] = IF i = k - 1 THEN n ELSE nx[q[i]],
         \A i \in 1 .. Len(q) : pv2[q[i]] = IF i = k THEN n ELSE pv[q[i]]
  PROVE  Linked(InsertAt(q, k, n), IF k = 1 THEN n ELSE f,
                IF k = Len(q) + 1 THEN n ELSE r, nx2, pv2)
<1> DEFINE d == InsertAt(q, k, n)
           f2 == IF k = 1 THEN n ELSE f
           r2 == IF k = Len(q) + 1 THEN n ELSE r
<1>1. Len(q) \in Nat
  OBVIOUS
<1>2. /\ d \in Seq(Node)
      /\ Len(d) = Len(q) + 1
      /\ d[k] = n
      /\ \A j \in 1 .. Len(q) : j < k  => d[j] = q[j]
      /\ \A j \in 1 .. Len(q) : j >= k => d[j+1] = q[j]
  BY InsertAtIs
<1> HIDE DEF d
<1>3. /\ f = IF q = <<>> THEN NULL ELSE q[1]
      /\ r = IF q = <<>> THEN NULL ELSE q[Len(q)]
      /\ \A i \in 1 .. Len(q) : nx[q[i]] = IF i = Len(q) THEN NULL ELSE q[i+1]
      /\ \A i \in 1 .. Len(q) : pv[q[i]] = IF i = 1 THEN NULL ELSE q[i-1]
  BY DEF Linked
<1>4. d # <<>> /\ (q = <<>> <=> Len(q) = 0)
  BY <1>1, <1>2
<1>5. f2 = d[1]
  BY <1>1, <1>2, <1>3, <1>4
<1>6. r2 = d[Len(d)]
  <2>1. CASE k = Len(q) + 1
    BY <2>1, <1>1, <1>2
  <2>2. CASE k # Len(q) + 1
    BY <2>2, <1>1, <1>2, <1>3, <1>4
  <2> QED BY <2>1, <2>2
<1>7. ASSUME NEW i \in 1 .. Len(d)
      PROVE  /\ nx2[d[i]] = IF i = Len(d) THEN NULL ELSE d[i+1]
             /\ pv2[d[i]] = IF i = 1 THEN NULL ELSE d[i-1]
  <2>1. CASE i < k
    <3>1. i \in 1 .. Len(q) /\ d[i] = q[i] /\ i # Len(d)
      BY <2>1, <1>1, <1>2
    <3>2. nx2[d[i]] = d[i+1]
      <4>1. CASE i = k - 1
        BY <4>1, <3>1, <1>2
      <4>2. CASE i # k - 1
        <5>1. i + 1 \in 1 .. Len(q) /\ i + 1 < k /\ i # Len(q)
          BY <4>2, <2>1, <3>1, <1>1
        <5>2. nx2[d[i]] = q[i+1]
          BY <4>2, <5>1, <3>1, <1>3
        <5> QED BY <5>1, <5>2, <3>1, <1>2
      <4> QED BY <4>1, <4>2
    <3>3. pv2[d[i]] = IF i = 1 THEN NULL ELSE d[i-1]
      <4>1. pv2[d[i]] = IF i = 1 THEN NULL ELSE q[i-1]
        BY <2>1, <3>1, <1>3
      <4>2. i # 1 => i-1 \in 1 .. Len(q) /\ i-1 < k
        BY <2>1, <3>1, <1>1
      <4> QED BY <4>1, <4>2, <1>2
    <3> QED BY <3>1, <3>2, <3>3
  <2>2. CASE i = k
    <3>1. i # Len(d) => i \in 1 .. Len(q) /\ d[i+1] = q[i]
      BY <2>2, <1>1, <1>2
    <3>2. i # 1 => i-1 \in 1 .. Len(q) /\ i-1 < k
      BY <2>2, <1>1, <1>2
    <3> QED BY <2>2, <3>1, <3>2, <1>2
  <2>3. CASE i > k
    <3> DEFINE m == i - 1
    <3>1. m \in 1 .. Len(q) /\ m >= k /\ d[i] = q[m] /\ i # 1 /\ i = m + 1
      BY <2>3, <1>1, <1>2
    <3>2. nx2[d[i]] = IF m = Len(q) THEN NULL ELSE q[m+1]
      BY <3>1, <1>3
    <3>3. m # Len(q) => m+1 \in 1 .. Len(q) /\ m+1 >= k
      BY <3>1, <1>1
    <3>4. nx2[d[i]] = IF i = Len(d) THEN NULL ELSE d[i+1]
      BY <3>1, <3>2, <3>3, <1>1, <1>2
    <3>5. pv2[d[i]] = d[m]
      <4>1. CASE m = k
        BY <4>1, <3>1, <1>2
      <4>2. CASE m # k
        <5>1. m-1 \in 1 .. Len(q) /\ m-1 >= k /\ m # 1
          BY <4>2, <3>1, <1>1
        <5>2. pv2[d[i]] = q[m-1] /\ d[(m-1)+1] = q[m-1]
          BY <4>2, <5>1, <3>1, <1>2, <1>3
        <5> QED BY <5>1, <5>2, <3>1
      <4> QED BY <4>1, <4>2
    <3> QED BY <3>1, <3>4, <3>5
  <2> QED BY <2>1, <2>2, <2>3, <1>1, <1>2
<1> QED BY <1>4, <1>5, <1>6, <1>7 DEF Linked, d

\* A node is unlinked from place k by the pointers of its neighbours.
LEMMA LinkedRemove ==
  ASSUME NEW q \in Seq(Node), NEW k \in 1 .. Len(q),
         NEW f, NEW r, NEW nx, NEW pv, NEW nx2, NEW pv2,
         Linked(q, f, r, nx, pv),
         \A i \in 1 .. Len(q) : i # k => nx2[q[i]] = IF i = k-1 THEN nx[q[k]] ELSE nx[q[i]],
         \A i \in 1 .. Len(q) : i # k => pv2[q[i]] = IF i = k+1 THEN pv[q[k]] ELSE pv[q[i]]
  PROVE  Linked(RemoveAt(q, k), IF k = 1 THEN nx[q[k]] ELSE f,
                IF k = Len(q) THEN pv[q[k]] ELSE r, nx2, pv2)
<1> DEFINE d == RemoveAt(q, k)
           f2 == IF k = 1 THEN nx[q[k]] ELSE f
           r2 == IF k = Len(q) THEN pv[q[k]] ELSE r
<1>1. Len(q) \in Nat
  OBVIOUS
<1>2. /\ d \in Seq(Node)
      /\ Len(d) = Len(q) - 1
      /\ \A j \in 1 .. Len(q) - 1 : j < k  => d[j] = q[j]
      /\ \A j \in 1 .. Len(q) - 1 : j >= k => d[j] = q[j+1]
  BY RemoveAtIs
<1> HIDE DEF d
<1>3. /\ f = q[1]
      /\ r = q[Len(q)]
      /\ \A i \in 1 .. Len(q) : nx[q[i]] = IF i = Len(q) THEN NULL ELSE q[i+1]
      /\ \A i \in 1 .. Len(q) : pv[q[i]] = IF i = 1 THEN NULL ELSE q[i-1]
  BY <1>1 DEF Linked
<1>4. d = <<>> <=> Len(q) = 1
  BY <1>1, <1>2
<1>5. f2 = IF d = <<>> THEN NULL ELSE d[1]
  <2>1. CASE k = 1
    BY <2>1, <1>1, <1>2, <1>3, <1>4
  <2>2. CASE k # 1
    BY <2>2, <1>1, <1>2, <1>3, <1>4
  <2> QED BY <2>1, <2>2
<1>6. r2 = IF d = <<>> THEN NULL ELSE d[Len(d)]
  <2>1. CASE k = Len(q)
    <3>1. CASE Len(q) = 1
      BY <2>1, <3>1, <1>3, <1>4
    <3>2. CASE Len(q) # 1
      <4>1. Len(q)-1 \in 1 .. Len(q)-1 /\ Len(q)-1 < k
        BY <2>1, <3>2, <1>1
      <4> QED BY <4>1, <2>1, <3>2, <1>2, <1>3, <1>4
    <3> QED BY <3>1, <3>2
  <2>2. CASE k # Len(q)
    <3>1. Len(q)-1 \in 1 .. Len(q)-1 /\ Len(q)-1 >= k
      BY <2>2, <1>1
    <3>2. d[Len(q)-1] = q[(Len(q)-1)+1]
      BY <3>1, <1>2
    <3> QED BY <3>1, <3>2, <2>2, <1>1, <1>2, <1>3, <1>4
  <2> QED BY <2>1, <2>2
<1>7. ASSUME NEW i \in 1 .. Len(d)
      PROVE  /\ nx2[d[i]] = IF i = Len(d) THEN NULL ELSE d[i+1]
             /\ pv2[d[i]] = IF i = 1 THEN NULL ELSE d[i-1]
  <2>1. CASE i < k
    <3>1. i \in 1 .. Len(q) /\ i \in 1 .. Len(q)-1 /\ d[i] = q[i] /\ i # k
      BY <2>1, <1>1, <1>2
    <3>2. nx2[d[i]] = IF i = Len(d) THEN NULL ELSE d[i+1]
      <4>1. CASE i = k - 1
        <5>1. nx2[d[i]] = IF k = Len(q) THEN NULL ELSE q[k+1]
          BY <4>1, <3>1, <1>3
        <5>2. k # Len(q) => d[k] = q[k+1]
          BY <1>1, <1>2
        <5> QED BY <5>1, <5>2, <4>1, <1>1, <1>2
      <4>2. CASE i # k - 1
        <5>1. i + 1 \in 1 .. Len(q)-1 /\ i + 1 < k /\ i # Len(q)
          BY <4>2, <2>1, <3>1, <1>1
        <5>2. nx2[d[i]] = q[i+1]
          BY <4>2, <5>1, <3>1, <1>3
        <5> QED BY <5>1, <5>2, <1>1, <1>2
      <4> QED BY <4>1, <4>2
    <3>3. pv2[d[i]] = IF i = 1 THEN NULL ELSE q[i-1]
      BY <2>1, <3>1, <1>3
    <3>4. i # 1 => i-1 \in 1 .. Len(q)-1 /\ i-1 < k
      BY <2>1, <3>1, <1>1
    <3> QED BY <3>2, <3>3, <3>4, <1>2
  <2>2. CASE i >= k
    <3> DEFINE m == i + 1
    <3>1. m \in 1 .. Len(q) /\ m # k /\ m # k-1 /\ d[i] = q[m] /\ m # 1 /\ i = m - 1
      BY <2>2, <1>1, <1>2
    <3>2. nx2[d[i]] = IF m = Len(q) THEN NULL ELSE q[m+1]
      BY <3>1, <1>3
    <3>3. m # Len(q) => i+1 \in 1 .. Len(q)-1 /\ i+1 >= k
      BY <2>2, <3>1, <1>1
    <3>4. nx2[d[i]] = IF i = Len(d) THEN NULL ELSE d[i+1]
      BY <3>1, <3>2, <3>3, <1>1, <1>2
    <3>5. pv2[d[i]] = IF i = 1 THEN NULL ELSE d[i-1]
      <4>1. CASE i = k
        <5>1. m = k + 1
          BY <4>1
        <5>2. pv2[d[i]] = IF k = 1 THEN NULL ELSE q[k-1]
          BY <5>1, <3>1, <1>3
        <5>3. k # 1 => k-1 \in 1 .. Len(q)-1 /\ k-1 < k
          BY <1>1
        <5> QED BY <4>1, <5>2, <5>3, <1>2
      <4>2. CASE i # k
        <5>1. i-1 \in 1 .. Len(q)-1 /\ i-1 >= k /\ i # 1 /\ m # k + 1
          BY <4>2, <2>2, <3>1, <1>1
        <5>2. d[i-1] = q[i]
          BY <5>1, <1>2
        <5>3. pv2[d[i]] = pv[q[m]]
          BY <5>1, <3>1
        <5>4. pv[q[m]] = q[i]
          BY <3>1, <1>3
        <5> QED BY <5>1, <5>2, <5>3, <5>4
      <4> QED BY <4>1, <4>2
    <3> QED BY <3>4, <3>5
  <2> QED BY <2>1, <2>2, <1>1, <1>2
<1> QED BY <1>5, <1>6, <1>7 DEF Linked, d

\* The lists differ by the node n, which is linked in at place k of queue t.
LinkedIn(qs, t, k, n, f, r, nx, pv, qs2, f2, r2, nx2, pv2) ==
    /\ qs \in [States -> Seq(Node)] /\ t \in States /\ n \in Node
    /\ k \in 1 .. Len(qs[t]) + 1
    /\ f \in [States -> Pointer] /\ r \in [States -> Pointer]
    /\ \A s \in States : \A i \in 1 .. Len(qs[s]) : qs[s][i] # n
    /\ qs2 = [qs EXCEPT ![t] = InsertAt(qs[t], k, n)]
    /\ f2 = [f EXCEPT ![t] = IF k = 1 THEN n ELSE f[t]]
    /\ r2 = [r EXCEPT ![t] = IF k = Len(qs[t]) + 1 THEN n ELSE r[t]]
    /\ nx2[n] = IF k = Len(qs[t]) + 1 THEN NULL ELSE qs[t][k]
    /\ pv2[n] = IF k = 1 THEN NULL ELSE qs[t][k-1]
    /\ \A m \in Node \ {n} :
          nx2[m] = IF k # 1 /\ m = qs[t][k-1] THEN n ELSE nx[m]
    /\ \A m \in Node \ {n} :
          pv2[m] = IF k # Len(qs[t]) + 1 /\ m = qs[t][k] THEN n ELSE pv[m]

\* Such a step leads from lists to lists.
LEMMA ListsInsert ==
  ASSUME NEW qs, NEW t, NEW k, NEW n, NEW f, NEW r, NEW nx, NEW pv,
         NEW qs2, NEW f2, NEW r2, NEW nx2, NEW pv2,
         LinkedIn(qs, t, k, n, f, r, nx, pv, qs2, f2, r2, nx2, pv2),
         Lists(qs, f, r, nx, pv)
  PROVE  /\ qs2 \in [States -> Seq(Node)]
         /\ Lists(qs2, f2, r2, nx2, pv2)
         /\ \A s \in States : \A i \in 1 .. Len(qs2[s]) :
              qs2[s][i] = n \/ \E j \in 1 .. Len(qs[s]) : qs2[s][i] = qs[s][j]
<1> DEFINE q == qs[t]
           d == InsertAt(q, k, n)
<1>1. /\ q \in Seq(Node) /\ Len(q) \in Nat /\ k \in 1 .. Len(q) + 1
      /\ t \in States /\ n \in Node /\ qs \in [States -> Seq(Node)]
  BY DEF LinkedIn
<1>14. /\ nx2[n] = IF k = Len(q) + 1 THEN NULL ELSE q[k]
       /\ pv2[n] = IF k = 1 THEN NULL ELSE q[k-1]
       /\ \A m \in Node \ {n} : nx2[m] = IF k # 1 /\ m = q[k-1] THEN n ELSE nx[m]
       /\ \A m \in Node \ {n} : pv2[m] = IF k # Len(q) + 1 /\ m = q[k] THEN n ELSE pv[m]
  BY DEF LinkedIn
<1>2. /\ d \in Seq(Node)
      /\ Len(d) = Len(q) + 1
      /\ \A j \in 1 .. Len(q) + 1 :
           \/ j = k /\ d[j] = n
           \/ j < k /\ j \in 1 .. Len(q) /\ d[j] = q[j]
           \/ j > k /\ j-1 \in 1 .. Len(q) /\ d[j] = q[j-1]
  BY <1>1, InsertNode
<1>3. /\ \A s \in States : Linked(qs[s], f[s], r[s], nx, pv)
      /\ \A s, u \in States : \A i \in 1 .. Len(qs[s]), j \in 1 .. Len(qs[u]) :
           qs[s][i] = qs[u][j] => s = u /\ i = j
  BY DEF Lists
<1>4. \A s \in States : \A i \in 1 .. Len(qs[s]) : qs[s][i] \in Node \ {n}
  BY DEF LinkedIn
<1>13. qs2 = [qs EXCEPT ![t] = d]
  BY DEF LinkedIn
<1> HIDE DEF d
<1>5. /\ qs2 \in [States -> Seq(Node)]
      /\ qs2[t] = d
      /\ \A s \in States : s # t => qs2[s] = qs[s]
  BY <1>1, <1>2, <1>13
<1>6. Linked(d, f2[t], r2[t], nx2, pv2)
  <2>1. \A i \in 1 .. Len(q) : nx2[q[i]] = IF i = k - 1 THEN n ELSE nx[q[i]]
    <3>1. \A i \in 1 .. Len(q) : k # 1 => (q[i] = q[k-1] <=> i = k-1)
      BY <1>1, <1>3
    <3> QED BY <3>1, <1>1, <1>4, <1>14
  <2>2. \A i \in 1 .. Len(q) : pv2[q[i]] = IF i = k THEN n ELSE pv[q[i]]
    <3>1. \A i \in 1 .. Len(q) : k # Len(q) + 1 => (q[i] = q[k] <=> i = k)
      BY <1>1, <1>3
    <3> QED BY <3>1, <1>1, <1>4, <1>14
  <2>3. /\ f2[t] = IF k = 1 THEN n ELSE f[t]
        /\ r2[t] = IF k = Len(q) + 1 THEN n ELSE r[t]
    BY DEF LinkedIn
  <2>4. Linked(q, f[t], r[t], nx, pv)
    BY <1>1, <1>3
  <2>5. Linked(d, IF k = 1 THEN n ELSE f[t], IF k = Len(q) + 1 THEN n ELSE r[t], nx2, pv2)
    <3>1. ASSUME NEW a, NEW b, Linked(q, a, b, nx, pv)
          PROVE  Linked(InsertAt(q, k, n), IF k = 1 THEN n ELSE a,
                        IF k = Len(q) + 1 THEN n ELSE b, nx2, pv2)
      BY <3>1, <1>1, <1>14, <2>1, <2>2, LinkedInsert, Zenon
    <3> HIDE DEF q
    <3> QED BY <3>1, <2>4, Zenon DEF d
  <2> QED BY <2>3, <2>5
<1>7. ASSUME NEW s \in States, s # t
      PROVE  Linked(qs2[s], f2[s], r2[s], nx2, pv2)
  <2>1. f2[s] = f[s] /\ r2[s] = r[s] /\ qs2[s] = qs[s]
    BY <1>5, <1>7 DEF LinkedIn
  <2>2. \A i \in 1 .. Len(qs[s]) :
           nx2[qs[s][i]] = nx[qs[s][i]] /\ pv2[qs[s][i]] = pv[qs[s][i]]
    <3>1. \A i \in 1 .. Len(qs[s]) : qs[s][i] \in Node \ {n}
      BY <1>4
    <3>2. \A i \in 1 .. Len(qs[s]) : \A j \in 1 .. Len(q) : qs[s][i] # q[j]
      BY <1>1, <1>3, <1>7
    <3>3. k # 1 => k-1 \in 1 .. Len(q)
      BY <1>1
    <3>4. k # Len(q) + 1 => k \in 1 .. Len(q)
      BY <1>1
    <3> QED BY <3>1, <3>2, <3>3, <3>4, <1>14
  <2>3. Linked(qs[s], f[s], r[s], nx, pv)
    BY <1>3
  <2>4. Linked(qs[s], f[s], r[s], nx2, pv2)
    BY <2>2, <2>3, LinkedFrame
  <2> QED BY <2>1, <2>4
<1>11. \A j \in 1 .. Len(q) + 1 : j # k => \E a \in 1 .. Len(q) : d[j] = q[a]
  BY <1>1, <1>2
<1>12. d[k] = n
  BY <1>1, <1>2
<1>15. \A s, u \in States : \A i \in 1 .. Len(qs[s]), j \in 1 .. Len(qs[u]) :
          qs[s][i] = qs[u][j] => s = u
  BY <1>3
<1>8. ASSUME NEW s \in States, NEW u \in States,
             NEW i \in 1 .. Len(qs2[s]), NEW j \in 1 .. Len(qs2[u]),
             qs2[s][i] = qs2[u][j]
      PROVE  s = u /\ i = j
  <2>1. CASE s # t /\ u # t
    BY <2>1, <1>3, <1>5, <1>8
  <2>2. CASE s = t /\ u # t
    <3>1. d[i] = qs[u][j] /\ i \in 1 .. Len(q) + 1 /\ j \in 1 .. Len(qs[u])
      BY <2>2, <1>2, <1>5, <1>8
    <3>2. i # k
      BY <3>1, <1>4, <1>12
    <3>3. PICK a \in 1 .. Len(q) : d[i] = q[a]
      BY <3>1, <3>2, <1>11
    <3>4. qs[t][a] = qs[u][j] /\ a \in 1 .. Len(qs[t])
      BY <3>1, <3>3
    <3>5. t = u
      BY <3>1, <3>4, <1>1, <1>15
    <3> QED BY <2>2, <3>5
  <2>3. CASE s # t /\ u = t
    <3>1. d[j] = qs[s][i] /\ j \in 1 .. Len(q) + 1 /\ i \in 1 .. Len(qs[s])
      BY <2>3, <1>2, <1>5, <1>8
    <3>2. j # k
      BY <3>1, <1>4, <1>12
    <3>3. PICK a \in 1 .. Len(q) : d[j] = q[a]
      BY <3>1, <3>2, <1>11
    <3>4. qs[t][a] = qs[s][i] /\ a \in 1 .. Len(qs[t])
      BY <3>1, <3>3
    <3>5. t = s
      BY <3>1, <3>4, <1>1, <1>15
    <3> QED BY <2>3, <3>5
  <2>4. CASE s = t /\ u = t
    <3>1. i \in 1 .. Len(q) + 1 /\ j \in 1 .. Len(q) + 1 /\ d[i] = d[j]
      BY <2>4, <1>2, <1>5, <1>8
    <3>2. \A a, b \in 1 .. Len(q) : q[a] = q[b] => a = b
      BY <1>1, <1>3
    <3>3. \A a \in 1 .. Len(q) : q[a] # n
      BY <1>1, <1>4
    <3> DEFINE old(m) == IF m < k THEN m ELSE m - 1
    <3> HIDE DEF q
    <3>4. \A m \in 1 .. Len(q) + 1 : m # k => old(m) \in 1 .. Len(q) /\ d[m] = q[old(m)]
      <4>1. ASSUME NEW m \in 1 .. Len(q) + 1, m # k
            PROVE  old(m) \in 1 .. Len(q) /\ d[m] = q[old(m)]
        <5>1. CASE m < k
          <6>1. ~(m > k) /\ m # k
            BY <4>1, <5>1, <1>1
          <6>2. m \in 1 .. Len(q) /\ d[m] = q[m]
            BY <6>1, <1>2
          <6>3. old(m) = m
            BY <5>1
          <6> QED BY <6>2, <6>3
        <5>2. CASE m > k
          BY <4>1, <5>2, <1>1, <1>2
        <5> QED BY <4>1, <5>1, <5>2, <1>1
      <4> QED BY <4>1
    <3>5. CASE i = k \/ j = k
      <4>1. \A m \in 1 .. Len(q) + 1 : m # k => d[m] # n
        <5> HIDE DEF old
        <5> QED BY <3>3, <3>4
      <4> QED BY <2>4, <3>1, <3>5, <4>1, <1>12
    <3>6. CASE i # k /\ j # k
      <4>1. old(i) = old(j)
        <5> HIDE DEF old
        <5>1. /\ old(i) \in 1 .. Len(q) /\ d[i] = q[old(i)]
              /\ old(j) \in 1 .. Len(q) /\ d[j] = q[old(j)]
          BY <3>1, <3>4, <3>6
        <5> QED BY <5>1, <3>1, <3>2
      <4> QED BY <2>4, <3>1, <3>6, <4>1, <1>1
    <3> QED BY <3>5, <3>6
  <2> QED BY <2>1, <2>2, <2>3, <2>4
<1>9. Lists(qs2, f2, r2, nx2, pv2)
  BY <1>5, <1>6, <1>7, <1>8 DEF Lists
<1>10. ASSUME NEW s \in States, NEW i \in 1 .. Len(qs2[s])
       PROVE  qs2[s][i] = n \/ \E j \in 1 .. Len(qs[s]) : qs2[s][i] = qs[s][j]
  BY <1>2, <1>5
<1> QED BY <1>5, <1>9, <1>10

\* The lists differ by the node at place k of queue t, which is unlinked.
LinkedOut(qs, t, k, f, r, nx, pv, qs2, f2, r2, nx2, pv2) ==
    /\ qs \in [States -> Seq(Node)] /\ t \in States
    /\ k \in 1 .. Len(qs[t])
    /\ f \in [States -> Pointer] /\ r \in [States -> Pointer]
    /\ qs2 = [qs EXCEPT ![t] = RemoveAt(qs[t], k)]
    /\ f2 = [f EXCEPT ![t] = IF k = 1 THEN nx[qs[t][k]] ELSE f[t]]
    /\ r2 = [r EXCEPT ![t] = IF k = Len(qs[t]) THEN pv[qs[t][k]] ELSE r[t]]
    /\ \A m \in Node : m # qs[t][k] =>
          nx2[m] = IF k # 1 /\ m = qs[t][k-1] THEN nx[qs[t][k]] ELSE nx[m]
    /\ \A m \in Node : m # qs[t][k] =>
          pv2[m] = IF k # Len(qs[t]) /\ m = qs[t][k+1] THEN pv[qs[t][k]] ELSE pv[m]

\* Such a step leads from lists to lists.
LEMMA ListsRemove ==
  ASSUME NEW qs, NEW t, NEW k, NEW f, NEW r, NEW nx, NEW pv,
         NEW qs2, NEW f2, NEW r2, NEW nx2, NEW pv2,
         LinkedOut(qs, t, k, f, r, nx, pv, qs2, f2, r2, nx2, pv2),
         Lists(qs, f, r, nx, pv)
  PROVE  /\ qs2 \in [States -> Seq(Node)]
         /\ Lists(qs2, f2, r2, nx2, pv2)
         /\ \A s \in States : \A i \in 1 .. Len(qs2[s]) :
              \E j \in 1 .. Len(qs[s]) : qs2[s][i] = qs[s][j]
<1> DEFINE q == qs[t]
           d == RemoveAt(q, k)
           old(m) == IF m < k THEN m ELSE m + 1
<1>1. /\ q \in Seq(Node) /\ Len(q) \in Nat /\ k \in 1 .. Len(q)
      /\ t \in States /\ qs \in [States -> Seq(Node)]
  BY DEF LinkedOut
<1>14. /\ \A m \in Node : m # q[k] =>
            nx2[m] = IF k # 1 /\ m = q[k-1] THEN nx[q[k]] ELSE nx[m]
       /\ \A m \in Node : m # q[k] =>
            pv2[m] = IF k # Len(q) /\ m = q[k+1] THEN pv[q[k]] ELSE pv[m]
  BY DEF LinkedOut
<1>2. /\ d \in Seq(Node)
      /\ Len(d) = Len(q) - 1
      /\ \A j \in 1 .. Len(q) - 1 :
           \/ j < k /\ d[j] = q[j]
           \/ j >= k /\ j+1 \in 1 .. Len(q) /\ d[j] = q[j+1]
  BY <1>1, RemoveNode
<1>3. /\ \A s \in States : Linked(qs[s], f[s], r[s], nx, pv)
      /\ \A s, u \in States : \A i \in 1 .. Len(qs[s]), j \in 1 .. Len(qs[u]) :
           qs[s][i] = qs[u][j] => s = u /\ i = j
  BY DEF Lists
<1>4. \A s \in States : \A i \in 1 .. Len(qs[s]) : qs[s][i] \in Node
  BY <1>1
<1>13. qs2 = [qs EXCEPT ![t] = d]
  BY DEF LinkedOut
<1> HIDE DEF d
<1>5. /\ qs2 \in [States -> Seq(Node)]
      /\ qs2[t] = d
      /\ \A s \in States : s # t => qs2[s] = qs[s]
  BY <1>1, <1>2, <1>13
<1>6. Linked(d, f2[t], r2[t], nx2, pv2)
  <2>1. \A i \in 1 .. Len(q) : i # k => nx2[q[i]] = IF i = k-1 THEN nx[q[k]] ELSE nx[q[i]]
    <3>1. \A i \in 1 .. Len(q) : /\ k # 1 => (q[i] = q[k-1] <=> i = k-1)
                                 /\ q[i] = q[k] => i = k
      BY <1>1, <1>3
    <3> QED BY <3>1, <1>1, <1>4, <1>14
  <2>2. \A i \in 1 .. Len(q) : i # k => pv2[q[i]] = IF i = k+1 THEN pv[q[k]] ELSE pv[q[i]]
    <3>1. k # Len(q) => k+1 \in 1 .. Len(q)
      BY <1>1
    <3>2. \A i \in 1 .. Len(q) : /\ k # Len(q) => (q[i] = q[k+1] <=> i = k+1)
                                 /\ q[i] = q[k] => i = k
      BY <3>1, <1>1, <1>3
    <3> QED BY <3>1, <3>2, <1>1, <1>4, <1>14
  <2>3. /\ f2[t] = IF k = 1 THEN nx[q[k]] ELSE f[t]
        /\ r2[t] = IF k = Len(q) THEN pv[q[k]] ELSE r[t]
    BY DEF LinkedOut
  <2>4. Linked(q, f[t], r[t], nx, pv)
    BY <1>1, <1>3
  <2>5. Linked(d, IF k = 1 THEN nx[q[k]] ELSE f[t], IF k = Len(q) THEN pv[q[k]] ELSE r[t],
               nx2, pv2)
    <3>1. ASSUME NEW a, NEW b, Linked(q, a, b, nx, pv)
          PROVE  Linked(RemoveAt(q, k), IF k = 1 THEN nx[q[k]] ELSE a,
                        IF k = Len(q) THEN pv[q[k]] ELSE b, nx2, pv2)
      BY <3>1, <1>1, <2>1, <2>2, LinkedRemove, Zenon
    <3> HIDE DEF q
    <3> QED BY <3>1, <2>4, Zenon DEF d
  <2> QED BY <2>3, <2>5
<1>7. ASSUME NEW s \in States, s # t
      PROVE  Linked(qs2[s], f2[s], r2[s], nx2, pv2)
  <2>1. f2[s] = f[s] /\ r2[s] = r[s] /\ qs2[s] = qs[s]
    BY <1>5, <1>7 DEF LinkedOut
  <2>2. \A i \in 1 .. Len(qs[s]) :
           nx2[qs[s][i]] = nx[qs[s][i]] /\ pv2[qs[s][i]] = pv[qs[s][i]]
    BY <1>1, <1>3, <1>4, <1>7, <1>14
  <2>3. Linked(qs[s], f[s], r[s], nx, pv)
    BY <1>3
  <2>4. Linked(qs[s], f[s], r[s], nx2, pv2)
    BY <2>2, <2>3, LinkedFrame
  <2> QED BY <2>1, <2>4
<1>8. \A m \in 1 .. Len(q) - 1 : old(m) \in 1 .. Len(q) /\ d[m] = q[old(m)]
  BY <1>1, <1>2
<1>9. \A s \in States : \A i \in 1 .. Len(qs2[s]) :
         \E j \in 1 .. Len(qs[s]) : qs2[s][i] = qs[s][j]
  <2> HIDE DEF old
  <2> QED BY <1>2, <1>5, <1>8
<1>10. ASSUME NEW s \in States, NEW u \in States,
              NEW i \in 1 .. Len(qs2[s]), NEW j \in 1 .. Len(qs2[u]),
              qs2[s][i] = qs2[u][j]
       PROVE  s = u /\ i = j
  <2>1. s = u
    BY <1>3, <1>9, <1>10
  <2>2. CASE s # t
    BY <2>1, <2>2, <1>3, <1>5, <1>10
  <2>3. CASE s = t
    <3>1. i \in 1 .. Len(q) - 1 /\ j \in 1 .. Len(q) - 1 /\ d[i] = d[j]
      BY <2>1, <2>3, <1>2, <1>5, <1>10
    <3>2. \A a, b \in 1 .. Len(q) : q[a] = q[b] => a = b
      BY <1>1, <1>3
    <3> HIDE DEF q
    <3>3. old(i) = old(j)
      <4> HIDE DEF old
      <4> QED BY <3>1, <3>2, <1>8
    <3> QED BY <2>1, <3>1, <3>3, <1>1
  <2> QED BY <2>2, <2>3
<1>11. Lists(qs2, f2, r2, nx2, pv2)
  BY <1>5, <1>6, <1>7, <1>10 DEF Lists
<1> QED BY <1>5, <1>9, <1>11

-----------------------------------------------------------------------------
(***************************************************************************)
(* The inductive invariant: beside Represents, where the pointer of a loop *)
(* is in its queue and what it has passed.                                 *)
(***************************************************************************)
LinkedTypeOK ==
    /\ front \in [States -> Pointer]
    /\ rear \in [States -> Pointer]
    /\ next \in [Node -> Pointer]
    /\ prev \in [Node -> Pointer]
    /\ pcb \in [Node -> Pcb \cup {NULL}]
    /\ allocated \in 0 .. MaxNode
    /\ state \in [Pcb -> States]
    /\ priority \in [Pcb -> Priorities]
    /\ pc \in {"return", "enqueue_pri", "scan", "enqueue_reg", "dequeue"}
    /\ target \in States \cup {NULL}
    /\ arg \in Pcb \cup {NULL}
    /\ node \in Pointer
    /\ nodes \in [States -> Seq(Node)]

\* The nodes in the queues are allocated and point to PCBs.
NodesInUse ==
    \A s \in States : \A i \in 1 .. Len(nodes[s]) :
        nodes[s][i] <= allocated /\ pcb[nodes[s][i]] \in Pcb

\* The new node is not yet in a queue.
Inserting ==
    pc \in {"enqueue_pri", "scan", "enqueue_reg"} =>
        /\ arg \in Pcb /\ target = state[arg]
        /\ pc = "enqueue_reg" <=> target \notin ReadyStates
        /\ new \in Node /\ pcb[new] = arg /\ next[new] = NULL /\ prev[new] = NULL
        /\ \A s \in States : \A i \in 1 .. Len(nodes[s]) : nodes[s][i] # new

\* Nothing the scan has passed is less urgent than the new node.
Scanning ==
    pc = "scan" =>
        \E k \in 1 .. Len(nodes[target]) :
            /\ node = nodes[target][k]
            /\ \A j \in 1 .. k : priority[pcb[nodes[target][j]]] <= priority[arg]

\* Nothing the search has passed is a node of the PCB.
Searching ==
    pc = "dequeue" =>
        /\ arg \in Pcb /\ target = state[arg]
        /\ \E k \in 1 .. Len(nodes[target]) + 1 :
            /\ node = IF k = Len(nodes[target]) + 1 THEN NULL ELSE nodes[target][k]
            /\ \A j \in 1 .. k - 1 : pcb[nodes[target][j]] # arg

LinkedInv == LinkedTypeOK /\ Represents /\ NodesInUse /\ Inserting /\ Scanning /\ Searching

\* Linking the new node in at place k keeps the invariant.
LEMMA InsertedIs ==
  ASSUME LinkedInv, pc \in {"enqueue_pri", "scan", "enqueue_reg"},
         NEW k \in 1 .. Len(nodes[target]) + 1, Inserted(k),
         next' \in [Node -> Pointer], prev' \in [Node -> Pointer],
         front' = [front EXCEPT ![target] = IF k = 1 THEN new ELSE @],
         rear' = [rear EXCEPT ![target] = IF k = Len(nodes[target]) + 1 THEN new ELSE @],
         next'[new] = IF k = Len(nodes[target]) + 1 THEN NULL ELSE nodes[target][k],
         prev'[new] = IF k = 1 THEN NULL ELSE nodes[target][k-1],
         \A n \in Node \ {new} :
            next'[n] = IF k # 1 /\ n = nodes[target][k-1] THEN new ELSE next[n],
         \A n \in Node \ {new} :
            prev'[n] = IF k # Len(nodes[target]) + 1 /\ n = nodes[target][k] THEN new ELSE prev[n]
  PROVE  LinkedInv'
<1>1. /\ target \in States /\ new \in Node /\ arg \in Pcb /\ pcb[new] = arg
      /\ \A s \in States : \A i \in 1 .. Len(nodes[s]) : nodes[s][i] # new
  BY DEF LinkedInv, LinkedTypeOK, Inserting
<1>2. /\ nodes \in [States -> Seq(Node)]
      /\ front \in [States -> Pointer] /\ rear \in [States -> Pointer]
      /\ Lists(nodes, front, rear, next, prev)
  BY DEF LinkedInv, LinkedTypeOK, Represents
<1>3. /\ nodes' = [nodes EXCEPT ![target] = InsertAt(@, k, new)]
      /\ pc' = "return" /\ target' = NULL /\ arg' = NULL /\ node' = NULL
      /\ UNCHANGED <<pcb, allocated, state, priority>>
  BY DEF Inserted, Returns
<1>4. /\ nodes' \in [States -> Seq(Node)]
      /\ Lists(nodes', front', rear', next', prev')
      /\ \A s \in States : \A i \in 1 .. Len(nodes'[s]) :
           nodes'[s][i] = new \/ \E j \in 1 .. Len(nodes[s]) : nodes'[s][i] = nodes[s][j]
  <2>1. LinkedIn(nodes, target, k, new, front, rear, next, prev,
                 nodes', front', rear', next', prev')
    BY <1>1, <1>2, <1>3 DEF LinkedIn
  <2> QED BY <2>1, <1>2, ListsInsert
<1>5. LinkedTypeOK'
  <2>1. front' \in [States -> Pointer] /\ rear' \in [States -> Pointer]
    BY <1>1, <1>2 DEF Pointer
  <2> QED BY <2>1, <1>3, <1>4 DEF LinkedInv, LinkedTypeOK, Pointer
<1>6. Represents'
  BY <1>4 DEF Represents
<1>7. NodesInUse'
  <2>1. \A r \in States : \A j \in 1 .. Len(nodes[r]) :
           nodes[r][j] <= allocated /\ pcb[nodes[r][j]] \in Pcb
    BY DEF LinkedInv, NodesInUse
  <2>2. new <= allocated /\ pcb[new] \in Pcb
    BY <1>1 DEF new, LinkedInv, LinkedTypeOK, Node
  <2> QED BY <2>1, <2>2, <1>3, <1>4 DEF NodesInUse
<1>8. Inserting' /\ Scanning' /\ Searching'
  BY <1>3 DEF Inserting, Scanning, Searching
<1> QED BY <1>5, <1>6, <1>7, <1>8 DEF LinkedInv

\* Unlinking the node that was found keeps the invariant, and takes the node
\* at its place out of the sequence.
LEMMA UnlinkedIs ==
  ASSUME LinkedInv, pc = "dequeue",
         NEW k \in 1 .. Len(nodes[target]), node = nodes[target][k], Unlinked,
         next' \in [Node -> Pointer], prev' \in [Node -> Pointer],
         front' = [front EXCEPT ![target] = IF k = 1 THEN next[node] ELSE @],
         rear' = [rear EXCEPT ![target] = IF k = Len(nodes[target]) THEN prev[node] ELSE @],
         \A n \in Node : n # node =>
            next'[n] = IF k # 1 /\ n = nodes[target][k-1] THEN next[node] ELSE next[n],
         \A n \in Node : n # node =>
            prev'[n] = IF k # Len(nodes[target]) /\ n = nodes[target][k+1]
                       THEN prev[node] ELSE prev[n]
  PROVE  LinkedInv' /\ nodes' = [nodes EXCEPT ![target] = RemoveAt(@, k)]
<1>1. target \in States /\ node \in Node
  <2>1. target \in States
    BY DEF LinkedInv, LinkedTypeOK, Searching
  <2> QED BY <2>1 DEF LinkedInv, LinkedTypeOK
<1>2. /\ nodes \in [States -> Seq(Node)]
      /\ front \in [States -> Pointer] /\ rear \in [States -> Pointer]
      /\ next \in [Node -> Pointer] /\ prev \in [Node -> Pointer]
      /\ Lists(nodes, front, rear, next, prev)
  BY DEF LinkedInv, LinkedTypeOK, Represents
<1>3. /\ nodes' = [nodes EXCEPT ![target] =
                     RemoveAt(@, PlaceOf(node, @))]
      /\ pc' = "return" /\ target' = NULL /\ arg' = NULL /\ node' = NULL
      /\ UNCHANGED <<pcb, allocated, state, priority>>
  BY DEF Unlinked, Returns
<1>4. PlaceOf(node, nodes[target]) = k
  <2>1. \A i \in 1 .. Len(nodes[target]) : nodes[target][i] = node => i = k
    BY <1>1, <1>2 DEF Lists
  <2> QED BY <2>1 DEF PlaceOf
<1>5. nodes' = [nodes EXCEPT ![target] = RemoveAt(@, k)]
  BY <1>3, <1>4
<1>6. /\ nodes' \in [States -> Seq(Node)]
      /\ Lists(nodes', front', rear', next', prev')
      /\ \A s \in States : \A i \in 1 .. Len(nodes'[s]) :
           \E j \in 1 .. Len(nodes[s]) : nodes'[s][i] = nodes[s][j]
  <2>1. LinkedOut(nodes, target, k, front, rear, next, prev,
                  nodes', front', rear', next', prev')
    BY <1>1, <1>2, <1>5 DEF LinkedOut
  <2> QED BY <2>1, <1>2, ListsRemove
<1>7. LinkedTypeOK'
  <2>1. front' \in [States -> Pointer] /\ rear' \in [States -> Pointer]
    BY <1>1, <1>2
  <2> QED BY <2>1, <1>3, <1>5, <1>6 DEF LinkedInv, LinkedTypeOK, Pointer
<1>8. Represents'
  BY <1>6 DEF Represents
<1>9. NodesInUse'
  <2>1. \A r \in States : \A j \in 1 .. Len(nodes[r]) :
           nodes[r][j] <= allocated /\ pcb[nodes[r][j]] \in Pcb
    BY DEF LinkedInv, NodesInUse
  <2> QED BY <2>1, <1>3, <1>6 DEF NodesInUse
<1>10. Inserting' /\ Scanning' /\ Searching'
  BY <1>3 DEF Inserting, Scanning, Searching
<1> QED BY <1>5, <1>7, <1>8, <1>9, <1>10 DEF LinkedInv

\* What the invariant says of one list.
LEMMA ListIs ==
  ASSUME LinkedInv, NEW s \in States
  PROVE  /\ nodes[s] \in Seq(Node) /\ Len(nodes[s]) \in Nat
         /\ front[s] = IF Len(nodes[s]) = 0 THEN NULL ELSE nodes[s][1]
         /\ rear[s] = IF Len(nodes[s]) = 0 THEN NULL ELSE nodes[s][Len(nodes[s])]
         /\ \A i \in 1 .. Len(nodes[s]) :
              /\ nodes[s][i] \in Node /\ nodes[s][i] # NULL
              /\ pcb[nodes[s][i]] \in Pcb
              /\ next[nodes[s][i]] = IF i = Len(nodes[s]) THEN NULL ELSE nodes[s][i+1]
              /\ prev[nodes[s][i]] = IF i = 1 THEN NULL ELSE nodes[s][i-1]
         /\ \A i, j \in 1 .. Len(nodes[s]) : nodes[s][i] = nodes[s][j] => i = j
<1> DEFINE q == nodes[s]
<1>1. q \in Seq(Node) /\ Len(q) \in Nat
  BY DEF LinkedInv, LinkedTypeOK
<1>2. Linked(q, front[s], rear[s], next, prev)
  BY DEF LinkedInv, Represents, Lists
<1>3. \A i, j \in 1 .. Len(q) : q[i] = q[j] => i = j
  BY DEF LinkedInv, Represents, Lists
<1>4. \A i \in 1 .. Len(q) : pcb[q[i]] \in Pcb
  BY DEF LinkedInv, NodesInUse
<1> HIDE DEF q
<1>5. \A i \in 1 .. Len(q) : q[i] \in Node /\ q[i] # NULL
  BY <1>1, NodeAssumption
<1>6. q = <<>> <=> Len(q) = 0
  BY <1>1
<1>7. /\ front[s] = IF Len(q) = 0 THEN NULL ELSE q[1]
      /\ rear[s] = IF Len(q) = 0 THEN NULL ELSE q[Len(q)]
      /\ \A i \in 1 .. Len(q) :
           /\ next[q[i]] = IF i = Len(q) THEN NULL ELSE q[i+1]
           /\ prev[q[i]] = IF i = 1 THEN NULL ELSE q[i-1]
  BY <1>2, <1>6 DEF Linked
<1> QED BY <1>1, <1>3, <1>4, <1>5, <1>7 DEF q

\* The PCBs of a sequence of nodes.
LEMMA PcbsIs ==
  ASSUME NEW q \in Seq(Node), \A i \in 1 .. Len(q) : pcb[q[i]] \in Pcb
  PROVE  /\ Pcbs(q) \in Seq(Pcb) /\ Len(Pcbs(q)) = Len(q)
         /\ \A i \in 1 .. Len(q) : Pcbs(q)[i] = pcb[q[i]]
<1>1. Len(q) \in Nat
  OBVIOUS
<1>2. Pcbs(q) \in [1 .. Len(q) -> Pcb]
  BY DEF Pcbs
<1> QED BY <1>1, <1>2 DEF Pcbs

\* An insertion that runs, and the list it works on.
LEMMA InsertingIs ==
  ASSUME LinkedInv, pc \in {"enqueue_pri", "scan", "enqueue_reg"}
  PROVE  /\ target \in States /\ arg \in Pcb /\ new \in Node
         /\ next[new] = NULL /\ prev[new] = NULL
         /\ \A i \in 1 .. Len(nodes[target]) : nodes[target][i] # new
         /\ next \in [Node -> Pointer] /\ prev \in [Node -> Pointer]
         /\ front \in [States -> Pointer] /\ rear \in [States -> Pointer]
BY DEF LinkedInv, LinkedTypeOK, Inserting

\* The place the scan of enqueue_pri has found is the one that ProcessQueue names.
LEMMA ScanStops ==
  ASSUME LinkedInv, pc = "scan", ~ScanGoesOn,
         NEW k \in 1 .. Len(nodes[target]), node = nodes[target][k],
         \A j \in 1 .. k : priority[pcb[nodes[target][j]]] <= priority[arg]
  PROVE  InsertionPoint(Pcbs(nodes[target]), priority, arg) = k + 1
<1> DEFINE q == nodes[target]
           ip == InsertionPoint(Pcbs(q), priority, arg)
<1>1. /\ target \in States /\ arg \in Pcb /\ priority \in [Pcb -> Nat]
  <2>1. priority \in [Pcb -> Priorities] /\ Priorities \subseteq Nat
    BY PriorityAssumption DEF LinkedInv, LinkedTypeOK, Priorities
  <2>2. target \in States /\ arg \in Pcb
    BY InsertingIs
  <2> QED BY <2>1, <2>2
<1>2. /\ q \in Seq(Node) /\ Len(q) \in Nat
      /\ \A i \in 1 .. Len(q) :
           /\ q[i] # NULL /\ pcb[q[i]] \in Pcb
           /\ next[q[i]] = IF i = Len(q) THEN NULL ELSE q[i+1]
  BY <1>1, ListIs
<1>3. /\ Pcbs(q) \in Seq(Pcb) /\ Len(Pcbs(q)) = Len(q)
      /\ \A i \in 1 .. Len(q) : Pcbs(q)[i] = pcb[q[i]]
  BY <1>2, PcbsIs
<1>4. /\ ip \in 1 .. Len(q) + 1
      /\ ip <= Len(q) => priority[arg] < priority[Pcbs(q)[ip]]
      /\ \A j \in 1 .. Len(q) : j < ip => priority[Pcbs(q)[j]] <= priority[arg]
  BY <1>1, <1>3, InsertionPointIs
<1>5. k \in 1 .. Len(q) /\ \A j \in 1 .. k : priority[pcb[q[j]]] <= priority[arg]
  OBVIOUS
<1>6. k = Len(q) \/ (k + 1 \in 1 .. Len(q) /\ ~(priority[arg] >= priority[pcb[q[k+1]]]))
  BY <1>2 DEF ScanGoesOn
<1> HIDE DEF q, ip
<1>7. \A j \in 1 .. Len(q) : priority[pcb[q[j]]] \in Nat /\ priority[arg] \in Nat
  BY <1>1, <1>2
<1>8. ~(ip <= k)
  <2>1. SUFFICES ASSUME ip <= k
                 PROVE  FALSE
    OBVIOUS
  <2>2. ip \in 1 .. Len(q) /\ ip \in 1 .. k /\ ip <= Len(q)
    BY <2>1, <1>2, <1>4, <1>5
  <2>3. priority[arg] < priority[pcb[q[ip]]] /\ priority[pcb[q[ip]]] <= priority[arg]
    BY <2>2, <1>3, <1>4, <1>5
  <2> QED BY <2>2, <2>3, <1>7
<1>9. ~(ip > k + 1)
  <2>1. SUFFICES ASSUME ip > k + 1
                 PROVE  FALSE
    OBVIOUS
  <2>2. k + 1 \in 1 .. Len(q) /\ k + 1 < ip
    BY <2>1, <1>2, <1>4, <1>5
  <2>3. priority[pcb[q[k+1]]] <= priority[arg]
    BY <2>2, <1>3, <1>4
  <2>4. ~(priority[arg] >= priority[pcb[q[k+1]]])
    BY <2>2, <1>2, <1>6
  <2> QED BY <2>2, <2>3, <2>4, <1>7
<1> QED BY <1>4, <1>5, <1>8, <1>9 DEF q, ip

-----------------------------------------------------------------------------
(***************************************************************************)
(* The actions.                                                            *)
(***************************************************************************)
LEMMA LinkedInitInv == LinkedInit => LinkedInv
<1> SUFFICES ASSUME LinkedInit
             PROVE  LinkedInv
  OBVIOUS
<1>1. \A s \in States : nodes[s] = <<>> /\ Len(nodes[s]) = 0
  BY DEF LinkedInit
<1>2. LinkedTypeOK
  BY NodeAssumption, CallStatesAssumption DEF LinkedInit, LinkedTypeOK, Pointer
<1>3. Represents
  BY <1>1 DEF LinkedInit, Represents, Lists, Linked
<1>4. NodesInUse
  BY <1>1 DEF NodesInUse
<1>5. Inserting /\ Scanning /\ Searching
  BY DEF LinkedInit, Inserting, Scanning, Searching
<1> QED BY <1>2, <1>3, <1>4, <1>5 DEF LinkedInv

\* A step that touches neither the lists nor the nodes nor the priorities.
LEMMA ListsStay ==
  ASSUME Represents, NodesInUse, UNCHANGED <<front, rear, next, prev, nodes, allocated, pcb>>
  PROVE  Represents' /\ NodesInUse'
BY DEF Represents, NodesInUse, Lists, Linked

LEMMA AssignInv ==
  ASSUME LinkedInv, NEW p \in Pcb, assign(p)
  PROVE  LinkedInv'
<1>1. LinkedTypeOK'
  BY CallStatesAssumption DEF LinkedInv, LinkedTypeOK, assign, lists, call, Pointer
<1>2. Represents' /\ NodesInUse'
  BY ListsStay DEF LinkedInv, assign, lists, call
<1>3. Inserting' /\ Scanning' /\ Searching'
  BY DEF assign, call, Inserting, Scanning, Searching
<1> QED BY <1>1, <1>2, <1>3 DEF LinkedInv

LEMMA ReturnInv ==
  ASSUME LinkedInv, ReturnOnly
  PROVE  LinkedInv'
<1>1. LinkedTypeOK'
  BY DEF LinkedInv, LinkedTypeOK, ReturnOnly, Returns, lists, Pointer
<1>2. Represents' /\ NodesInUse'
  BY ListsStay DEF LinkedInv, ReturnOnly, lists
<1>3. Inserting' /\ Scanning' /\ Searching'
  BY DEF ReturnOnly, Returns, Inserting, Scanning, Searching
<1> QED BY <1>1, <1>2, <1>3 DEF LinkedInv

LEMMA WalkInv ==
  ASSUME LinkedInv, walk_start \/ walk_on
  PROVE  LinkedInv'
<1>0. pc = "return" /\ UNCHANGED <<lists, pcb, allocated, state, priority, call, nodes>>
  BY DEF walk_start, walk_on
<1>1. LinkedTypeOK'
  BY <1>0 DEF LinkedInv, LinkedTypeOK, lists, call, Pointer
<1>2. Represents' /\ NodesInUse'
  BY <1>0, ListsStay DEF LinkedInv, lists
<1>3. Inserting' /\ Scanning' /\ Searching'
  BY <1>0 DEF call, Inserting, Scanning, Searching
<1> QED BY <1>1, <1>2, <1>3 DEF LinkedInv

LEMMA InsertCallInv ==
  ASSUME LinkedInv, NEW p \in Pcb, pcb_insert_call(p)
  PROVE  LinkedInv'
<1>1. /\ allocated \in 0 .. MaxNode /\ MaxNode \in Nat /\ allocated < MaxNode
      /\ allocated' = allocated + 1
      /\ allocated' \in Node
      /\ state[p] \in States
  BY NodeAssumption DEF LinkedInv, LinkedTypeOK, pcb_insert_call, Node
<1>2. \A s \in States : \A i \in 1 .. Len(nodes[s]) :
         nodes[s][i] # allocated' /\ nodes[s][i] \in Node
  <2>1. SUFFICES ASSUME NEW s \in States, NEW i \in 1 .. Len(nodes[s])
                 PROVE  nodes[s][i] # allocated' /\ nodes[s][i] \in Node
    OBVIOUS
  <2>2. nodes[s][i] \in Node
    BY ListIs
  <2>3. nodes[s][i] <= allocated
    BY DEF LinkedInv, NodesInUse
  <2> QED BY <2>2, <2>3, <1>1 DEF Node
<1>3. /\ pcb' = [pcb EXCEPT ![allocated'] = p]
      /\ next' = [next EXCEPT ![allocated'] = NULL]
      /\ prev' = [prev EXCEPT ![allocated'] = NULL]
      /\ target' = state[p] /\ arg' = p
      /\ pc' = IF state[p] \in ReadyStates THEN "enqueue_pri" ELSE "enqueue_reg"
      /\ UNCHANGED <<front, rear, state, priority, node, nodes>>
  BY DEF pcb_insert_call
<1>4. LinkedTypeOK'
  <2>1. /\ pcb' \in [Node -> Pcb \cup {NULL}]
        /\ next' \in [Node -> Pointer] /\ prev' \in [Node -> Pointer]
    BY <1>1, <1>3 DEF LinkedInv, LinkedTypeOK, Pointer
  <2>2. allocated' \in 0 .. MaxNode
    BY <1>1
  <2> QED BY <2>1, <2>2, <1>1, <1>3 DEF LinkedInv, LinkedTypeOK, Pointer
<1>5. Represents'
  <2>1. ASSUME NEW s \in States
        PROVE  Linked(nodes[s], front[s], rear[s], next', prev')
    <3>1. Linked(nodes[s], front[s], rear[s], next, prev)
      BY DEF LinkedInv, Represents, Lists
    <3>2. \A i \in 1 .. Len(nodes[s]) : /\ next'[nodes[s][i]] = next[nodes[s][i]]
                                        /\ prev'[nodes[s][i]] = prev[nodes[s][i]]
      BY <1>1, <1>2, <1>3 DEF LinkedInv, LinkedTypeOK
    <3>3. ASSUME NEW a, NEW b, NEW q, Linked(q, a, b, next, prev),
                 \A i \in 1 .. Len(q) : next'[q[i]] = next[q[i]] /\ prev'[q[i]] = prev[q[i]]
          PROVE  Linked(q, a, b, next', prev')
      BY <3>3, LinkedFrame, Zenon
    <3> QED BY <3>1, <3>2, <3>3, Zenon
  <2>2. \A s, t \in States : \A i \in 1 .. Len(nodes[s]), j \in 1 .. Len(nodes[t]) :
           nodes[s][i] = nodes[t][j] => s = t /\ i = j
    BY DEF LinkedInv, Represents, Lists
  <2> QED BY <2>1, <2>2, <1>3 DEF Represents, Lists
<1>6. NodesInUse'
  <2>1. SUFFICES ASSUME NEW s \in States, NEW i \in 1 .. Len(nodes[s])
                 PROVE  nodes[s][i] <= allocated' /\ pcb'[nodes[s][i]] \in Pcb
    BY <1>3 DEF NodesInUse
  <2>2. nodes[s][i] <= allocated /\ pcb[nodes[s][i]] \in Pcb
    BY DEF LinkedInv, NodesInUse
  <2>3. nodes[s][i] \in Node /\ nodes[s][i] # allocated'
    BY <1>2
  <2>4. pcb'[nodes[s][i]] = pcb[nodes[s][i]]
    BY <2>3, <1>3 DEF LinkedInv, LinkedTypeOK
  <2> QED BY <2>2, <2>3, <2>4, <1>1 DEF Node
<1>7. Inserting'
  <2>1. arg' \in Pcb /\ target' = state'[arg']
    BY <1>3
  <2>2. (pc' = "enqueue_reg") <=> (target' \notin ReadyStates)
    BY <1>3
  <2>3. pcb'[allocated'] = arg' /\ next'[allocated'] = NULL /\ prev'[allocated'] = NULL
    BY <1>1, <1>3 DEF LinkedInv, LinkedTypeOK
  <2> QED BY <2>1, <2>2, <2>3, <1>1, <1>2, <1>3 DEF Inserting, new
<1>8. Scanning' /\ Searching'
  BY <1>3 DEF Scanning, Searching
<1> QED BY <1>4, <1>5, <1>6, <1>7, <1>8 DEF LinkedInv

LEMMA EnqueueFrontInv ==
  ASSUME LinkedInv, enqueue_front
  PROVE  LinkedInv'
<1> DEFINE q == nodes[target]
<1>1. pc \in {"enqueue_pri", "scan", "enqueue_reg"}
  BY DEF enqueue_front
<1>2. /\ target \in States /\ new \in Node /\ next[new] = NULL /\ prev[new] = NULL
      /\ \A i \in 1 .. Len(q) : q[i] # new
      /\ next \in [Node -> Pointer] /\ prev \in [Node -> Pointer]
      /\ front \in [States -> Pointer] /\ rear \in [States -> Pointer]
  BY <1>1, InsertingIs
<1>3. /\ Len(q) \in Nat
      /\ front[target] = IF Len(q) = 0 THEN NULL ELSE q[1]
      /\ rear[target] = IF Len(q) = 0 THEN NULL ELSE q[Len(q)]
      /\ \A i \in 1 .. Len(q) : q[i] \in Node /\ q[i] # NULL
  BY <1>2, ListIs
<1>4. /\ next'  = [next EXCEPT ![new] = front[target]]
      /\ prev'  = [n \in Node |-> IF n = front[target] THEN new ELSE prev[n]]
      /\ front' = [front EXCEPT ![target] = new]
      /\ rear'  = [rear EXCEPT ![target] = IF @ = NULL THEN new ELSE @]
      /\ Inserted(1)
  BY DEF enqueue_front
<1> HIDE DEF q
<1>5. /\ 1 \in 1 .. Len(q) + 1 /\ (1 = Len(q) + 1 <=> Len(q) = 0)
      /\ Len(q) # 0 => 1 \in 1 .. Len(q)
  BY <1>3
<1>6. rear[target] = NULL <=> 1 = Len(q) + 1
  BY <1>3, <1>5
<1>7. next' \in [Node -> Pointer] /\ prev' \in [Node -> Pointer]
  BY <1>2, <1>4 DEF Pointer
<1>8. front' = [front EXCEPT ![target] = IF 1 = 1 THEN new ELSE @]
  BY <1>4
<1>9. rear' = [rear EXCEPT ![target] = IF 1 = Len(q) + 1 THEN new ELSE @]
  BY <1>2, <1>4, <1>6
<1>10. next'[new] = IF 1 = Len(q) + 1 THEN NULL ELSE q[1]
  BY <1>2, <1>3, <1>4, <1>5
<1>11. prev'[new] = IF 1 = 1 THEN NULL ELSE q[1-1]
  BY <1>2, <1>3, <1>4, <1>5, NodeAssumption
<1>12. \A n \in Node \ {new} : next'[n] = IF 1 # 1 /\ n = q[1-1] THEN new ELSE next[n]
  BY <1>2, <1>4
<1>13. \A n \in Node \ {new} :
          prev'[n] = IF 1 # Len(q) + 1 /\ n = q[1] THEN new ELSE prev[n]
  BY <1>2, <1>3, <1>4, <1>5, NodeAssumption
<1> QED BY <1>1, <1>4, <1>5, <1>7, <1>8, <1>9, <1>10, <1>11, <1>12, <1>13, InsertedIs DEF q

LEMMA EnqueueRegInv ==
  ASSUME LinkedInv, enqueue_reg_append
  PROVE  LinkedInv'
<1> DEFINE q == nodes[target]
           k == Len(q) + 1
<1>1. pc \in {"enqueue_pri", "scan", "enqueue_reg"}
  BY DEF enqueue_reg_append
<1>2. /\ target \in States /\ new \in Node /\ next[new] = NULL /\ prev[new] = NULL
      /\ \A i \in 1 .. Len(q) : q[i] # new
      /\ next \in [Node -> Pointer] /\ prev \in [Node -> Pointer]
      /\ front \in [States -> Pointer] /\ rear \in [States -> Pointer]
  BY <1>1, InsertingIs
<1>3. /\ Len(q) \in Nat
      /\ front[target] = IF Len(q) = 0 THEN NULL ELSE q[1]
      /\ rear[target] = IF Len(q) = 0 THEN NULL ELSE q[Len(q)]
      /\ \A i \in 1 .. Len(q) : q[i] \in Node /\ q[i] # NULL
  BY <1>2, ListIs
<1>4. /\ IF rear[target] = NULL
         THEN /\ front' = [front EXCEPT ![target] = new]
              /\ UNCHANGED <<next, prev>>
         ELSE /\ next' = [next EXCEPT ![rear[target]] = new]
              /\ prev' = [prev EXCEPT ![new] = rear[target]]
              /\ UNCHANGED front
      /\ rear' = [rear EXCEPT ![target] = new]
      /\ Inserted(k)
  BY DEF enqueue_reg_append
<1> HIDE DEF q
<1>5. /\ k \in 1 .. Len(q) + 1 /\ (k = 1 <=> Len(q) = 0) /\ k - 1 = Len(q)
      /\ Len(q) # 0 => Len(q) \in 1 .. Len(q)
  BY <1>3
<1>6. rear[target] = NULL <=> k = 1
  BY <1>3, <1>5
<1> HIDE DEF k
<1>13. k = Len(q) + 1
  BY DEF k
<1>14. k # 1 => rear[target] \in Node /\ rear[target] = q[k-1] /\ rear[target] # new
  BY <1>2, <1>3, <1>5
<1>7. next' \in [Node -> Pointer] /\ prev' \in [Node -> Pointer]
  BY <1>2, <1>4, <1>6, <1>14 DEF Pointer
<1>8. /\ front' = [front EXCEPT ![target] = IF k = 1 THEN new ELSE @]
      /\ rear' = [rear EXCEPT ![target] = IF k = Len(q) + 1 THEN new ELSE @]
  BY <1>2, <1>4, <1>6, <1>13
<1>9. next'[new] = IF k = Len(q) + 1 THEN NULL ELSE q[k]
  BY <1>2, <1>4, <1>6, <1>13, <1>14
<1>10. prev'[new] = IF k = 1 THEN NULL ELSE q[k-1]
  BY <1>2, <1>4, <1>6, <1>14
<1>11. \A n \in Node \ {new} : next'[n] = IF k # 1 /\ n = q[k-1] THEN new ELSE next[n]
  BY <1>2, <1>4, <1>6, <1>14
<1>12. \A n \in Node \ {new} :
          prev'[n] = IF k # Len(q) + 1 /\ n = q[k] THEN new ELSE prev[n]
  BY <1>2, <1>4, <1>6, <1>13
<1>15. /\ k \in 1 .. Len(q) + 1 /\ Inserted(k)
  BY <1>4, <1>5 DEF k
<1> QED BY <1>1, <1>15, <1>7, <1>8, <1>9, <1>10, <1>11, <1>12, InsertedIs DEF q

LEMMA EnqueueBehindInv ==
  ASSUME LinkedInv, enqueue_behind
  PROVE  /\ LinkedInv'
         /\ \E k \in 1 .. Len(nodes[target]) + 1 :
              /\ k = InsertionPoint(Pcbs(nodes[target]), priority, arg)
              /\ Inserted(k)
<1> DEFINE q == nodes[target]
<1>1. pc = "scan" /\ ~ScanGoesOn
  BY DEF enqueue_behind
<1>2. /\ target \in States /\ new \in Node /\ next[new] = NULL /\ prev[new] = NULL
      /\ \A i \in 1 .. Len(q) : q[i] # new
      /\ next \in [Node -> Pointer] /\ prev \in [Node -> Pointer]
      /\ front \in [States -> Pointer] /\ rear \in [States -> Pointer]
  BY <1>1, InsertingIs
<1>3. /\ Len(q) \in Nat
      /\ rear[target] = IF Len(q) = 0 THEN NULL ELSE q[Len(q)]
      /\ \A i \in 1 .. Len(q) :
           /\ q[i] \in Node /\ q[i] # NULL
           /\ next[q[i]] = IF i = Len(q) THEN NULL ELSE q[i+1]
      /\ \A i, j \in 1 .. Len(q) : q[i] = q[j] => i = j
  BY <1>2, ListIs
<1>4. PICK m \in 1 .. Len(q) :
         node = q[m] /\ \A j \in 1 .. m : priority[pcb[q[j]]] <= priority[arg]
  BY <1>1 DEF LinkedInv, Scanning
<1>5. InsertionPoint(Pcbs(q), priority, arg) = m + 1
  BY <1>1, <1>4, ScanStops
<1>17. PlaceOf(node, q) = m
  BY <1>3, <1>4 DEF PlaceOf
<1>6. /\ next' = [next EXCEPT ![new] = next[node], ![node] = new]
      /\ prev' = [n \in Node |-> IF n = new THEN node
                                 ELSE IF n = next[node] THEN new ELSE prev[n]]
      /\ rear' = [rear EXCEPT ![target] = IF next[node] = NULL THEN new ELSE @]
      /\ UNCHANGED front
      /\ Inserted(PlaceOf(node, nodes[target]) + 1)
  BY DEF enqueue_behind
<1> HIDE DEF q
<1> DEFINE k == m + 1
<1>7. /\ k \in 1 .. Len(q) + 1 /\ k # 1 /\ k - 1 = m
      /\ k = Len(q) + 1 <=> m = Len(q)
      /\ m # Len(q) => k \in 1 .. Len(q)
      /\ k = m + 1
  BY <1>3, <1>4
<1>8. Inserted(k) /\ k = InsertionPoint(Pcbs(q), priority, arg)
  BY <1>5, <1>6, <1>17 DEF q
<1> HIDE DEF k
<1>9. /\ node = q[k-1] /\ node \in Node /\ node # new
      /\ next[node] = IF k = Len(q) + 1 THEN NULL ELSE q[k]
      /\ next[node] = NULL <=> k = Len(q) + 1
  BY <1>2, <1>3, <1>4, <1>7
<1>10. next' \in [Node -> Pointer] /\ prev' \in [Node -> Pointer]
  BY <1>2, <1>6, <1>9 DEF Pointer
<1>11. /\ front' = [front EXCEPT ![target] = IF k = 1 THEN new ELSE @]
       /\ rear' = [rear EXCEPT ![target] = IF k = Len(q) + 1 THEN new ELSE @]
  BY <1>2, <1>6, <1>7, <1>9
<1>12. next'[new] = IF k = Len(q) + 1 THEN NULL ELSE q[k]
  BY <1>2, <1>6, <1>9
<1>13. prev'[new] = IF k = 1 THEN NULL ELSE q[k-1]
  BY <1>2, <1>6, <1>7, <1>9
<1>14. \A n \in Node \ {new} : next'[n] = IF k # 1 /\ n = q[k-1] THEN new ELSE next[n]
  BY <1>2, <1>6, <1>7, <1>9
<1>15. \A n \in Node \ {new} :
          prev'[n] = IF k # Len(q) + 1 /\ n = q[k] THEN new ELSE prev[n]
  <2>1. \A n \in Node : n = next[node] <=> (k # Len(q) + 1 /\ n = q[k])
    BY <1>9, NodeAssumption
  <2> QED BY <2>1, <1>2, <1>6
<1>16. pc \in {"enqueue_pri", "scan", "enqueue_reg"}
  BY <1>1
<1> QED BY <1>16, <1>7, <1>8, <1>10, <1>11, <1>12, <1>13, <1>14, <1>15, InsertedIs DEF q

\* The two loops move only their own pointer.
LEMMA ScanInv ==
  ASSUME LinkedInv, enqueue_scan \/ scan
  PROVE  LinkedInv'
<1> DEFINE q == nodes[target]
<1>0. /\ pc \in {"enqueue_pri", "scan", "enqueue_reg"} /\ pc' = "scan"
      /\ pc # "enqueue_reg"
      /\ UNCHANGED <<lists, pcb, allocated, state, priority, target, arg, nodes>>
  BY DEF enqueue_scan, scan
<1>1. /\ target \in States /\ arg \in Pcb
      /\ next \in [Node -> Pointer]
  BY <1>0, InsertingIs
<1>2. /\ q \in Seq(Node) /\ Len(q) \in Nat
      /\ front[target] = IF Len(q) = 0 THEN NULL ELSE q[1]
      /\ rear[target] = IF Len(q) = 0 THEN NULL ELSE q[Len(q)]
      /\ \A i \in 1 .. Len(q) :
           /\ q[i] \in Node /\ q[i] # NULL
           /\ next[q[i]] = IF i = Len(q) THEN NULL ELSE q[i+1]
  BY <1>1, ListIs
<1> HIDE DEF q
<1>3. \A i \in 1 .. Len(q) : priority[arg] >= priority[pcb[q[i]]] => priority[pcb[q[i]]] <= priority[arg]
  <2>1. \A i \in 1 .. Len(q) : pcb[q[i]] \in Pcb
    BY <1>1, ListIs DEF q
  <2>2. priority \in [Pcb -> Nat]
    BY PriorityAssumption DEF LinkedInv, LinkedTypeOK, Priorities
  <2> QED BY <2>1, <2>2, <1>1
<1>4. \E k \in 1 .. Len(q) :
         /\ node' = q[k]
         /\ \A j \in 1 .. k : priority[pcb[q[j]]] <= priority[arg]
  <2>1. CASE enqueue_scan
    <3>1. rear[target] # NULL /\ priority[arg] >= priority[pcb[front[target]]] /\ node' = front[target]
      BY <2>1 DEF enqueue_scan, GoesBehindFront
    <3>2. Len(q) # 0 /\ front[target] = q[1] /\ 1 \in 1 .. Len(q)
      BY <3>1, <1>2
    <3>3. priority[pcb[q[1]]] <= priority[arg]
      BY <3>1, <3>2, <1>3
    <3> QED BY <3>1, <3>2, <3>3
  <2>2. CASE scan
    <3>1. /\ pc = "scan" /\ next[node] # NULL /\ node' = next[node]
          /\ priority[arg] >= priority[pcb[next[node]]]
      BY <2>2 DEF scan, ScanGoesOn
    <3>2. PICK m \in 1 .. Len(q) :
             node = q[m] /\ \A j \in 1 .. m : priority[pcb[q[j]]] <= priority[arg]
      BY <3>1 DEF LinkedInv, Scanning, q
    <3>3. next[node] = q[m+1] /\ m + 1 \in 1 .. Len(q)
      BY <3>1, <3>2, <1>2
    <3>4. priority[pcb[q[m+1]]] <= priority[arg]
      BY <3>1, <3>3, <1>3
    <3>5. \A j \in 1 .. m + 1 : j = m + 1 \/ j \in 1 .. m
      BY <3>2, <1>2
    <3>6. \A j \in 1 .. m + 1 : priority[pcb[q[j]]] <= priority[arg]
      BY <3>2, <3>4, <3>5
    <3> QED BY <3>1, <3>3, <3>6
  <2> QED BY <2>1, <2>2
<1>5. node' \in Pointer
  BY <1>2, <1>4 DEF Pointer
<1>6. LinkedTypeOK'
  BY <1>0, <1>5 DEF LinkedInv, LinkedTypeOK, lists, Pointer
<1>7. Represents' /\ NodesInUse'
  BY <1>0, ListsStay DEF LinkedInv, lists
<1>8. Inserting'
  <2>1. (pc = "enqueue_reg") <=> (target \notin ReadyStates)
    BY <1>0 DEF LinkedInv, Inserting
  <2> QED BY <2>1, <1>0 DEF LinkedInv, Inserting, lists, new
<1>9. Scanning' /\ Searching'
  BY <1>0, <1>4 DEF Scanning, Searching, q
<1> QED BY <1>6, <1>7, <1>8, <1>9 DEF LinkedInv

LEMMA RemoveCallInv ==
  ASSUME LinkedInv, NEW p \in Pcb, pcb_remove_call(p)
  PROVE  LinkedInv'
<1> DEFINE s == state[p]
           q == nodes[s]
<1>1. /\ pc' = "dequeue" /\ target' = s /\ arg' = p /\ node' = front[s]
      /\ UNCHANGED <<lists, pcb, allocated, state, priority, nodes>>
  BY DEF pcb_remove_call
<1>2. s \in States
  BY DEF LinkedInv, LinkedTypeOK
<1>3. Len(q) \in Nat /\ front[s] = IF Len(q) = 0 THEN NULL ELSE q[1]
  BY <1>2, ListIs
<1>4. LinkedTypeOK'
  BY <1>1, <1>2 DEF LinkedInv, LinkedTypeOK, lists, Pointer
<1>5. Represents' /\ NodesInUse'
  BY <1>1, ListsStay DEF LinkedInv, lists
<1>6. Inserting' /\ Scanning'
  BY <1>1 DEF Inserting, Scanning
<1>7. Searching'
  <2> HIDE DEF q, s
  <2>1. 1 \in 1 .. Len(q) + 1 /\ (1 = Len(q) + 1 <=> Len(q) = 0) /\ 1 .. 1 - 1 = {}
    BY <1>3
  <2>2. /\ front[s] = IF 1 = Len(q) + 1 THEN NULL ELSE q[1]
        /\ \A j \in 1 .. 1 - 1 : pcb[q[j]] # p
    BY <2>1, <1>3
  <2>3. \E k \in 1 .. Len(q) + 1 :
           /\ front[s] = IF k = Len(q) + 1 THEN NULL ELSE q[k]
           /\ \A j \in 1 .. k - 1 : pcb[q[j]] # p
    BY <2>1, <2>2
  <2> QED BY <2>3, <1>1 DEF Searching, q, s
<1> QED BY <1>4, <1>5, <1>6, <1>7 DEF LinkedInv

\* Where the search of a removal is, as long as there is a node.
LEMMA SearchingIs ==
  ASSUME LinkedInv, pc = "dequeue", node # NULL
  PROVE  /\ target \in States /\ arg \in Pcb /\ target = state[arg]
         /\ \E k \in 1 .. Len(nodes[target]) :
              /\ node = nodes[target][k]
              /\ \A j \in 1 .. k - 1 : pcb[nodes[target][j]] # arg
<1>1. /\ arg \in Pcb /\ target = state[arg] /\ target \in States
  BY DEF LinkedInv, LinkedTypeOK, Searching
<1>2. PICK k \in 1 .. Len(nodes[target]) + 1 :
         /\ node = IF k = Len(nodes[target]) + 1 THEN NULL ELSE nodes[target][k]
         /\ \A j \in 1 .. k - 1 : pcb[nodes[target][j]] # arg
  BY DEF LinkedInv, Searching
<1>3. Len(nodes[target]) \in Nat
  BY <1>1, ListIs
<1>4. k \in 1 .. Len(nodes[target])
  BY <1>2, <1>3
<1>5. k # Len(nodes[target]) + 1
  BY <1>2
<1> QED BY <1>1, <1>2, <1>4, <1>5

LEMMA SearchInv ==
  ASSUME LinkedInv, search
  PROVE  LinkedInv'
<1> DEFINE q == nodes[target]
<1>1. /\ pc = "dequeue" /\ pc' = "dequeue" /\ node # NULL /\ pcb[node] # arg /\ node' = next[node]
      /\ UNCHANGED <<lists, pcb, allocated, state, priority, target, arg, nodes>>
  BY DEF search
<1>2. /\ target \in States /\ arg \in Pcb /\ target = state[arg]
      /\ \E k \in 1 .. Len(q) : /\ node = q[k]
                                /\ \A j \in 1 .. k - 1 : pcb[q[j]] # arg
  BY <1>1, SearchingIs
<1>3. /\ Len(q) \in Nat
      /\ \A i \in 1 .. Len(q) : next[q[i]] = IF i = Len(q) THEN NULL ELSE q[i+1]
  BY <1>2, ListIs
<1>4. LinkedTypeOK'
  BY <1>1 DEF LinkedInv, LinkedTypeOK, lists, Pointer
<1>5. Represents' /\ NodesInUse'
  BY <1>1, ListsStay DEF LinkedInv, lists
<1>6. Inserting' /\ Scanning'
  BY <1>1 DEF Inserting, Scanning
<1>7. Searching'
  <2> HIDE DEF q
  <2>1. PICK m \in 1 .. Len(q) : node = q[m] /\ \A j \in 1 .. m - 1 : pcb[q[j]] # arg
    BY <1>2
  <2>2. /\ m + 1 \in 1 .. Len(q) + 1 /\ (m + 1 = Len(q) + 1 <=> m = Len(q))
        /\ \A j \in 1 .. (m + 1) - 1 : j = m \/ j \in 1 .. m - 1
    BY <2>1, <1>3
  <2>3. /\ next[node] = IF m + 1 = Len(q) + 1 THEN NULL ELSE q[m+1]
        /\ \A j \in 1 .. (m + 1) - 1 : pcb[q[j]] # arg
    BY <2>1, <2>2, <1>1, <1>3
  <2>4. \E k \in 1 .. Len(q) + 1 :
           /\ next[node] = IF k = Len(q) + 1 THEN NULL ELSE q[k]
           /\ \A j \in 1 .. k - 1 : pcb[q[j]] # arg
    BY <2>2, <2>3
  <2> QED BY <2>4, <1>1, <1>2 DEF Searching, q
<1> QED BY <1>4, <1>5, <1>6, <1>7 DEF LinkedInv

\* The node that was found goes, whichever branch of dequeue unlinks it, from
\* the first place that points to the PCB.
LEMMA UnlinkInv ==
  ASSUME LinkedInv, unlink_front \/ unlink_rear \/ unlink_middle
  PROVE  /\ LinkedInv'
         /\ \E k \in 1 .. Len(nodes[target]) :
              /\ pcb[nodes[target][k]] = arg
              /\ \A j \in 1 .. k - 1 : pcb[nodes[target][j]] # arg
              /\ nodes' = [nodes EXCEPT ![target] = RemoveAt(@, k)]
<1> DEFINE q == nodes[target]
<1>1. pc = "dequeue" /\ node # NULL /\ pcb[node] = arg /\ Unlinked
  BY DEF unlink_front, unlink_rear, unlink_middle
<1>2. /\ target \in States /\ arg \in Pcb
      /\ \E k \in 1 .. Len(q) : /\ node = q[k]
                                /\ \A j \in 1 .. k - 1 : pcb[q[j]] # arg
  BY <1>1, SearchingIs
<1>3. /\ Len(q) \in Nat
      /\ front[target] = IF Len(q) = 0 THEN NULL ELSE q[1]
      /\ rear[target] = IF Len(q) = 0 THEN NULL ELSE q[Len(q)]
      /\ \A i \in 1 .. Len(q) :
           /\ q[i] \in Node /\ q[i] # NULL
           /\ next[q[i]] = IF i = Len(q) THEN NULL ELSE q[i+1]
           /\ prev[q[i]] = IF i = 1 THEN NULL ELSE q[i-1]
      /\ \A i, j \in 1 .. Len(q) : q[i] = q[j] => i = j
  BY <1>2, ListIs
<1>4. /\ next \in [Node -> Pointer] /\ prev \in [Node -> Pointer]
      /\ front \in [States -> Pointer] /\ rear \in [States -> Pointer]
  BY DEF LinkedInv, LinkedTypeOK
<1>5. PICK k \in 1 .. Len(q) : node = q[k] /\ \A j \in 1 .. k - 1 : pcb[q[j]] # arg
  BY <1>2
<1> HIDE DEF q
<1>6. /\ front[target] = q[1] /\ rear[target] = q[Len(q)]
      /\ node = front[target] <=> k = 1
      /\ node = rear[target] <=> k = Len(q)
      /\ node \in Node
  <2>1. 1 \in 1 .. Len(q) /\ Len(q) \in 1 .. Len(q) /\ Len(q) # 0
    BY <1>3, <1>5
  <2> QED BY <2>1, <1>3, <1>5
<1>7. /\ next[node] = IF k = Len(q) THEN NULL ELSE q[k+1]
      /\ prev[node] = IF k = 1 THEN NULL ELSE q[k-1]
      /\ k # Len(q) => k + 1 \in 1 .. Len(q) /\ q[k+1] \in Node /\ q[k+1] # NULL
      /\ k # 1 => k - 1 \in 1 .. Len(q) /\ q[k-1] \in Node
  BY <1>3, <1>5
<1>8. /\ next' \in [Node -> Pointer] /\ prev' \in [Node -> Pointer]
      /\ front' = [front EXCEPT ![target] = IF k = 1 THEN next[node] ELSE @]
      /\ rear' = [rear EXCEPT ![target] = IF k = Len(q) THEN prev[node] ELSE @]
      /\ \A n \in Node : n # node =>
            next'[n] = IF k # 1 /\ n = q[k-1] THEN next[node] ELSE next[n]
      /\ \A n \in Node : n # node =>
            prev'[n] = IF k # Len(q) /\ n = q[k+1] THEN prev[node] ELSE prev[n]
  <2>1. CASE unlink_front
    <3>1. /\ k = 1
          /\ front' = [front EXCEPT ![target] = next[node]]
          /\ IF next[node] = NULL
             THEN rear' = [rear EXCEPT ![target] = NULL] /\ UNCHANGED prev
             ELSE prev' = [prev EXCEPT ![next[node]] = NULL] /\ UNCHANGED rear
          /\ UNCHANGED next
      BY <2>1, <1>6 DEF unlink_front
    <3>2. CASE k = Len(q)
      BY <3>1, <3>2, <1>4, <1>7 DEF Pointer
    <3>3. CASE k # Len(q)
      BY <3>1, <3>3, <1>4, <1>7 DEF Pointer
    <3> QED BY <3>2, <3>3
  <2>2. CASE unlink_rear
    <3>1. /\ k # 1 /\ k = Len(q)
          /\ rear' = [rear EXCEPT ![target] = prev[node]]
          /\ next' = [next EXCEPT ![prev[node]] = NULL]
          /\ UNCHANGED <<front, prev>>
      BY <2>2, <1>6 DEF unlink_rear
    <3> QED BY <3>1, <1>4, <1>7 DEF Pointer
  <2>3. CASE unlink_middle
    <3>1. /\ k # 1 /\ k # Len(q)
          /\ next' = [next EXCEPT ![prev[node]] = next[node]]
          /\ prev' = [prev EXCEPT ![next[node]] = prev[node]]
          /\ UNCHANGED <<front, rear>>
      BY <2>3, <1>6 DEF unlink_middle
    <3> QED BY <3>1, <1>4, <1>7 DEF Pointer
  <2> QED BY <2>1, <2>2, <2>3
<1>9. LinkedInv' /\ nodes' = [nodes EXCEPT ![target] = RemoveAt(@, k)]
  BY <1>1, <1>5, <1>8, UnlinkedIs DEF q
<1> QED BY <1>1, <1>5, <1>9 DEF q

-----------------------------------------------------------------------------
(***************************************************************************)
(* Theorems.                                                               *)
(***************************************************************************)
LEMMA LinkedNextInv == LinkedInv /\ [LinkedNext]_lvars => LinkedInv'
<1> SUFFICES ASSUME LinkedInv, [LinkedNext]_lvars
             PROVE  LinkedInv'
  OBVIOUS
<1>1. CASE \E p \in Pcb : assign(p) \/ pcb_insert_call(p) \/ pcb_remove_call(p)
  BY <1>1, AssignInv, InsertCallInv, RemoveCallInv
<1>2. CASE step
  <2>1. CASE enqueue_reg_again \/ not_found
    BY <2>1, ReturnInv DEF enqueue_reg_again, not_found
  <2>2. CASE ~(enqueue_reg_again \/ not_found)
    BY <2>2, <1>2, EnqueueFrontInv, ScanInv, EnqueueBehindInv, EnqueueRegInv,
       SearchInv, UnlinkInv DEF step
  <2> QED BY <2>1, <2>2
<1>3. CASE walk_start \/ walk_on
  BY <1>3, WalkInv
<1>4. CASE UNCHANGED lvars
  <2>1. LinkedTypeOK'
    BY <1>4 DEF LinkedInv, LinkedTypeOK, lvars, lists, call, Pointer
  <2>2. Represents' /\ NodesInUse'
    BY <1>4, ListsStay DEF LinkedInv, lvars, lists
  <2>3. Inserting' /\ Scanning' /\ Searching'
    BY <1>4 DEF LinkedInv, lvars, lists, call, Inserting, Scanning, Searching, new
  <2> QED BY <2>1, <2>2, <2>3 DEF LinkedInv
<1> QED BY <1>1, <1>2, <1>3, <1>4 DEF LinkedNext

\* enqueue_pri, enqueue_reg and dequeue keep each queue one list, linked alike
\* from both ends, whatever the callers have stored in the PCBs and however
\* often a PCB is queued.
THEOREM ListsRepresent == LinkedSpec => []Represents
<1>1. LinkedInv => Represents
  BY DEF LinkedInv
<1> QED BY <1>1, LinkedInitInv, LinkedNextInv, PTL DEF LinkedSpec

-----------------------------------------------------------------------------
(***************************************************************************)
(* The refinement of Queues.                                               *)
(***************************************************************************)

\* The operators of the instance are those of ProcessQueue.
LEMMA SameInsert ==
  ASSUME NEW qs, NEW st, NEW pri, NEW p
  PROVE  Abstract!pcb_insert(qs, st, pri, p) = pcb_insert(qs, st, pri, p)
<1>1. ASSUME NEW q
      PROVE  Abstract!InsertionPoint(q, pri, p) = InsertionPoint(q, pri, p)
  BY Zenon DEF Abstract!InsertionPoint, InsertionPoint, Abstract!Min, Min
<1>2. ASSUME NEW q
      PROVE  Abstract!enqueue_pri(q, pri, p) = enqueue_pri(q, pri, p)
  BY <1>1, Zenon DEF Abstract!enqueue_pri, enqueue_pri, Abstract!InsertAt, InsertAt
<1>3. ASSUME NEW q
      PROVE  Abstract!enqueue_reg(q, p) = enqueue_reg(q, p)
  BY Zenon DEF Abstract!enqueue_reg, enqueue_reg
<1>4. Abstract!ReadyStates = ReadyStates
  BY DEF Abstract!ReadyStates, ReadyStates, Abstract!READY_NOT_SUSPENDED, READY_NOT_SUSPENDED,
         Abstract!READY_SUSPENDED, READY_SUSPENDED
<1> QED BY <1>2, <1>3, <1>4, Zenon DEF Abstract!pcb_insert, pcb_insert

LEMMA SameRemove ==
  ASSUME NEW qs, NEW st, NEW p
  PROVE  Abstract!pcb_remove(qs, st, p) = pcb_remove(qs, st, p)
<1>1. ASSUME NEW q
      PROVE  Abstract!dequeue(q, p) = dequeue(q, p)
  BY Zenon DEF Abstract!dequeue, dequeue, Abstract!RemoveFirst, RemoveFirst,
     Abstract!RemoveAt, RemoveAt, Abstract!SelectInSeq, SelectInSeq, Abstract!Min, Min
<1> QED BY <1>1, Zenon DEF Abstract!pcb_remove, pcb_remove

LEMMA SameStates ==
  Abstract!States = States /\ Abstract!Priorities = Priorities
  /\ Abstract!ReadyStates = ReadyStates
BY DEF Abstract!States, States, Abstract!Priorities, Priorities,
       Abstract!ReadyStates, ReadyStates, Abstract!BlockedStates, BlockedStates,
       Abstract!READY_NOT_SUSPENDED, READY_NOT_SUSPENDED,
       Abstract!READY_SUSPENDED, READY_SUSPENDED,
       Abstract!BLOCKED_NOT_SUSPENDED, BLOCKED_NOT_SUSPENDED,
       Abstract!BLOCKED_SUSPENDED, BLOCKED_SUSPENDED

\* Inserting a node inserts its PCB, and removing it removes the PCB.
LEMMA PcbsInsert ==
  ASSUME NEW q \in Seq(Node), NEW n \in Node, NEW k \in 1 .. Len(q) + 1,
         pcb[n] \in Pcb, \A i \in 1 .. Len(q) : pcb[q[i]] \in Pcb
  PROVE  Pcbs(InsertAt(q, k, n)) = InsertAt(Pcbs(q), k, pcb[n])
<1> DEFINE d == InsertAt(q, k, n)
           e == InsertAt(Pcbs(q), k, pcb[n])
<1>1. Len(q) \in Nat
  OBVIOUS
<1>2. /\ Pcbs(q) \in Seq(Pcb) /\ Len(Pcbs(q)) = Len(q)
      /\ \A i \in 1 .. Len(q) : Pcbs(q)[i] = pcb[q[i]]
  BY PcbsIs
<1>3. /\ d \in Seq(Node) /\ Len(d) = Len(q) + 1 /\ d[k] = n
      /\ \A j \in 1 .. Len(q) : j < k  => d[j] = q[j]
      /\ \A j \in 1 .. Len(q) : j >= k => d[j+1] = q[j]
  BY InsertAtIs
<1>4. /\ e \in Seq(Pcb) /\ Len(e) = Len(q) + 1 /\ e[k] = pcb[n]
      /\ \A j \in 1 .. Len(q) : j < k  => e[j] = pcb[q[j]]
      /\ \A j \in 1 .. Len(q) : j >= k => e[j+1] = pcb[q[j]]
  <2> DEFINE s == Pcbs(q)
  <2>1. s \in Seq(Pcb) /\ Len(s) = Len(q) /\ \A i \in 1 .. Len(q) : s[i] = pcb[q[i]]
    BY <1>2
  <2> HIDE DEF s
  <2>2. /\ InsertAt(s, k, pcb[n]) \in Seq(Pcb)
        /\ Len(InsertAt(s, k, pcb[n])) = Len(s) + 1
        /\ InsertAt(s, k, pcb[n])[k] = pcb[n]
        /\ \A j \in 1 .. Len(s) : j < k  => InsertAt(s, k, pcb[n])[j] = s[j]
        /\ \A j \in 1 .. Len(s) : j >= k => InsertAt(s, k, pcb[n])[j+1] = s[j]
    BY <2>1, InsertAtIs
  <2>3. e = InsertAt(s, k, pcb[n])
    BY DEF s
  <2> HIDE DEF e
  <2> QED BY <2>1, <2>2, <2>3
<1> HIDE DEF d, e
<1>5. ASSUME NEW j \in 1 .. Len(q) + 1
      PROVE  e[j] = pcb[d[j]]
  <2>1. CASE j < k
    BY <2>1, <1>1, <1>3, <1>4
  <2>2. CASE j = k
    BY <2>2, <1>3, <1>4
  <2>3. CASE j > k
    <3>1. j-1 \in 1 .. Len(q) /\ j-1 >= k /\ (j-1)+1 = j
      BY <2>3, <1>1
    <3>2. d[(j-1)+1] = q[j-1] /\ e[(j-1)+1] = pcb[q[j-1]]
      BY <3>1, <1>3, <1>4
    <3> QED BY <3>1, <3>2
  <2> QED BY <2>1, <2>2, <2>3, <1>1
<1>6. e = [j \in 1 .. Len(q) + 1 |-> e[j]]
  BY <1>1, <1>4
<1>7. Pcbs(d) = [j \in 1 .. Len(q) + 1 |-> pcb[d[j]]]
  BY <1>3 DEF Pcbs
<1> QED BY <1>5, <1>6, <1>7 DEF d, e

LEMMA PcbsRemove ==
  ASSUME NEW q \in Seq(Node), NEW k \in 1 .. Len(q),
         \A i \in 1 .. Len(q) : pcb[q[i]] \in Pcb,
         \A j \in 1 .. k - 1 : pcb[q[j]] # pcb[q[k]]
  PROVE  Pcbs(RemoveAt(q, k)) = dequeue(Pcbs(q), pcb[q[k]])
<1> DEFINE s == Pcbs(q)
           p == pcb[q[k]]
           d == RemoveAt(q, k)
           e == RemoveAt(s, k)
           I == {i \in 1 .. Len(s) : s[i] = p}
<1>1. Len(q) \in Nat
  OBVIOUS
<1>2. /\ s \in Seq(Pcb) /\ Len(s) = Len(q)
      /\ \A i \in 1 .. Len(q) : s[i] = pcb[q[i]]
  BY PcbsIs
<1>3. k \in I /\ I \in SUBSET Nat
  BY <1>1, <1>2
<1>4. Min(I) \in I /\ Min(I) <= k
  BY <1>3, NatMin
<1>5. Min(I) = k
  <2> HIDE DEF s
  <2>1. Min(I) \in 1 .. Len(q) /\ pcb[q[Min(I)]] = p
    BY <1>2, <1>4
  <2> HIDE DEF I, p
  <2>2. ~(Min(I) \in 1 .. k - 1)
    BY <2>1 DEF p
  <2> QED BY <2>1, <2>2, <1>1, <1>4
<1>6. dequeue(s, p) = e
  <2>1. \E i \in 1 .. Len(s) : s[i] = p
    BY <1>3
  <2>2. I # {}
    BY <1>3
  <2> HIDE DEF s, p
  <2> QED BY <2>1, <2>2, <1>5 DEF dequeue, RemoveFirst, SelectInSeq
<1>7. /\ d \in Seq(Node) /\ Len(d) = Len(q) - 1
      /\ \A j \in 1 .. Len(q) - 1 : j < k  => d[j] = q[j]
      /\ \A j \in 1 .. Len(q) - 1 : j >= k => d[j] = q[j+1]
  BY RemoveAtIs
<1>8. /\ e \in Seq(Pcb) /\ Len(e) = Len(q) - 1
      /\ \A j \in 1 .. Len(q) - 1 : j < k  => e[j] = s[j]
      /\ \A j \in 1 .. Len(q) - 1 : j >= k => e[j] = s[j+1]
  BY <1>2, RemoveAtIs
<1> HIDE DEF d, e, s
<1>9. ASSUME NEW j \in 1 .. Len(q) - 1
      PROVE  e[j] = pcb[d[j]]
  <2>1. CASE j < k
    BY <2>1, <1>1, <1>2, <1>7, <1>8
  <2>2. CASE j >= k
    <3>1. j+1 \in 1 .. Len(q)
      BY <1>1
    <3> QED BY <2>2, <3>1, <1>2, <1>7, <1>8
  <2> QED BY <2>1, <2>2, <1>1
<1>10. e = [j \in 1 .. Len(q) - 1 |-> e[j]]
  BY <1>1, <1>8
<1>11. Pcbs(d) = [j \in 1 .. Len(q) - 1 |-> pcb[d[j]]]
  BY <1>7 DEF Pcbs
<1>12. Pcbs(d) = dequeue(s, p)
  BY <1>6, <1>9, <1>10, <1>11
<1> QED BY <1>12 DEF d, s

LEMMA AppendIs ==
  ASSUME NEW q \in Seq(Pcb), NEW p \in Pcb
  PROVE  InsertAt(q, Len(q) + 1, p) = Append(q, p)
<1> DEFINE d == InsertAt(q, Len(q) + 1, p)
           e == Append(q, p)
<1>1. Len(q) \in Nat /\ Len(q) + 1 \in 1 .. Len(q) + 1
  OBVIOUS
<1>2. /\ d \in Seq(Pcb) /\ Len(d) = Len(q) + 1 /\ d[Len(q) + 1] = p
      /\ \A j \in 1 .. Len(q) : j < Len(q) + 1 => d[j] = q[j]
  BY <1>1, InsertAtIs
<1>3. /\ e \in Seq(Pcb) /\ Len(e) = Len(q) + 1 /\ e[Len(q) + 1] = p
      /\ \A j \in 1 .. Len(q) : e[j] = q[j]
  BY <1>1
<1> HIDE DEF d, e
<1>4. \A j \in 1 .. Len(q) + 1 : d[j] = e[j]
  BY <1>1, <1>2, <1>3
<1>5. /\ d = [j \in 1 .. Len(q) + 1 |-> d[j]]
      /\ e = [j \in 1 .. Len(q) + 1 |-> e[j]]
  BY <1>1, <1>2, <1>3
<1>6. d = e
  BY <1>4, <1>5
<1> QED BY <1>6 DEF d, e

\* An insertion that ends has done what pcb_insert of ProcessQueue does.
LEMMA InsertedContents ==
  ASSUME LinkedInv, pc \in {"enqueue_pri", "scan", "enqueue_reg"},
         NEW k \in 1 .. Len(nodes[target]) + 1, Inserted(k),
         IF pc = "enqueue_reg"
         THEN k = Len(nodes[target]) + 1 /\ ~AtRear
         ELSE k = InsertionPoint(Pcbs(nodes[target]), priority, arg)
  PROVE  Contents' = pcb_insert(Contents, state, priority, arg)
<1> DEFINE q == nodes[target]
<1>1. /\ target \in States /\ arg \in Pcb /\ new \in Node
      /\ target = state[arg] /\ pcb[new] = arg
      /\ pc = "enqueue_reg" <=> target \notin ReadyStates
  BY InsertingIs DEF LinkedInv, Inserting
<1>2. /\ q \in Seq(Node) /\ Len(q) \in Nat
      /\ rear[target] = IF Len(q) = 0 THEN NULL ELSE q[Len(q)]
      /\ \A i \in 1 .. Len(q) : q[i] # NULL /\ pcb[q[i]] \in Pcb
  BY <1>1, ListIs
<1>3. /\ Pcbs(q) \in Seq(Pcb) /\ Len(Pcbs(q)) = Len(q)
      /\ \A i \in 1 .. Len(q) : Pcbs(q)[i] = pcb[q[i]]
  BY <1>2, PcbsIs
<1>4. nodes' = [nodes EXCEPT ![target] = InsertAt(q, k, new)] /\ UNCHANGED pcb
  BY DEF Inserted
<1>5. nodes \in [States -> Seq(Node)]
  BY DEF LinkedInv, LinkedTypeOK
<1>6. Contents' = [s \in States |-> Pcbs(nodes'[s])]
  BY <1>4 DEF Contents, Pcbs
<1>7. Pcbs(InsertAt(q, k, new)) = InsertAt(Pcbs(q), k, arg)
  <2> HIDE DEF q
  <2>1. k \in 1 .. Len(q) + 1
    BY DEF q
  <2> QED BY <2>1, <1>1, <1>2, PcbsInsert
<1>8. InsertAt(Pcbs(q), k, arg) = IF target \in ReadyStates
                                  THEN enqueue_pri(Pcbs(q), priority, arg)
                                  ELSE enqueue_reg(Pcbs(q), arg)
  <2>1. CASE pc # "enqueue_reg"
    <3>1. k = InsertionPoint(Pcbs(q), priority, arg) /\ target \in ReadyStates
      BY <2>1, <1>1
    <3> QED BY <3>1 DEF enqueue_pri
  <2>2. CASE pc = "enqueue_reg"
    <3>1. k = Len(Pcbs(q)) + 1 /\ target \notin ReadyStates
      BY <2>2, <1>1, <1>3
    <3>2. ~(Pcbs(q) # <<>> /\ Pcbs(q)[Len(Pcbs(q))] = arg)
      <4>1. ~(rear[target] # NULL /\ pcb[rear[target]] = arg)
        BY <2>2 DEF AtRear
      <4> HIDE DEF q
      <4>2. CASE Len(q) = 0
        BY <4>2, <1>3
      <4>3. CASE Len(q) # 0
        <5>1. Len(q) \in 1 .. Len(q)
          BY <4>3, <1>2
        <5> QED BY <4>1, <4>3, <5>1, <1>2, <1>3
      <4> QED BY <4>2, <4>3
    <3>3. InsertAt(Pcbs(q), k, arg) = Append(Pcbs(q), arg)
      <4> DEFINE s == Pcbs(q)
      <4>1. s \in Seq(Pcb)
        BY <1>3
      <4> HIDE DEF s
      <4>2. InsertAt(s, Len(s) + 1, arg) = Append(s, arg)
        BY <4>1, <1>1, AppendIs
      <4> QED BY <4>2, <3>1 DEF s
    <3> QED BY <3>1, <3>2, <3>3 DEF enqueue_reg
  <2> QED BY <2>1, <2>2
<1>9. ASSUME NEW s \in States
      PROVE  Pcbs(nodes'[s]) = IF s = target THEN InsertAt(Pcbs(q), k, arg) ELSE Contents[s]
  <2>1. nodes'[s] = IF s = target THEN InsertAt(q, k, new) ELSE nodes[s]
    BY <1>4, <1>5
  <2>2. Contents[s] = Pcbs(nodes[s])
    BY DEF Contents
  <2> QED BY <2>1, <2>2, <1>7
<1>10. Contents[target] = Pcbs(q)
  BY <1>1 DEF Contents
<1>11. pcb_insert(Contents, state, priority, arg) =
          [s \in States |-> IF s = target THEN InsertAt(Pcbs(q), k, arg) ELSE Contents[s]]
  <2>1. DOMAIN Contents = States
    BY DEF Contents
  <2>2. pcb_insert(Contents, state, priority, arg) =
          [Contents EXCEPT ![target] = IF target \in ReadyStates
                                       THEN enqueue_pri(Pcbs(q), priority, arg)
                                       ELSE enqueue_reg(Pcbs(q), arg)]
    BY <1>1, <1>10, Zenon DEF pcb_insert
  <2> HIDE DEF q
  <2> QED BY <2>1, <2>2, <1>1, <1>8
<1> QED BY <1>6, <1>9, <1>11

\* A removal that ends has done what pcb_remove of ProcessQueue does.
LEMMA UnlinkedContents ==
  ASSUME LinkedInv, unlink_front \/ unlink_rear \/ unlink_middle
  PROVE  Contents' = pcb_remove(Contents, state, arg)
<1> DEFINE q == nodes[target]
<1>1. /\ target \in States /\ arg \in Pcb /\ target = state[arg] /\ UNCHANGED pcb
  <2>1. pc = "dequeue" /\ node # NULL
    BY DEF unlink_front, unlink_rear, unlink_middle
  <2> QED BY <2>1, SearchingIs DEF unlink_front, unlink_rear, unlink_middle, Unlinked
<1>2. PICK k \in 1 .. Len(q) : /\ pcb[q[k]] = arg
                               /\ \A j \in 1 .. k - 1 : pcb[q[j]] # arg
                               /\ nodes' = [nodes EXCEPT ![target] = RemoveAt(@, k)]
  BY UnlinkInv
<1>3. /\ q \in Seq(Node) /\ \A i \in 1 .. Len(q) : pcb[q[i]] \in Pcb
  BY <1>1, ListIs
<1>4. nodes \in [States -> Seq(Node)]
  BY DEF LinkedInv, LinkedTypeOK
<1>5. nodes' = [nodes EXCEPT ![target] = RemoveAt(q, k)]
  BY <1>2
<1>6. Contents' = [s \in States |-> Pcbs(nodes'[s])]
  BY <1>1 DEF Contents, Pcbs
<1>7. Pcbs(RemoveAt(q, k)) = dequeue(Pcbs(q), arg)
  <2> HIDE DEF q
  <2> QED BY <1>2, <1>3, PcbsRemove
<1>8. ASSUME NEW s \in States
      PROVE  Pcbs(nodes'[s]) = IF s = target THEN dequeue(Pcbs(q), arg) ELSE Contents[s]
  <2>1. nodes'[s] = IF s = target THEN RemoveAt(q, k) ELSE nodes[s]
    BY <1>4, <1>5
  <2>2. Contents[s] = Pcbs(nodes[s])
    BY DEF Contents
  <2> QED BY <2>1, <2>2, <1>7
<1>9. Contents[target] = Pcbs(q) /\ DOMAIN Contents = States
  BY <1>1 DEF Contents
<1>10. pcb_remove(Contents, state, arg) =
          [s \in States |-> IF s = target THEN dequeue(Pcbs(q), arg) ELSE Contents[s]]
  <2>1. pcb_remove(Contents, state, arg) = [Contents EXCEPT ![target] = dequeue(Pcbs(q), arg)]
    BY <1>1, <1>9, Zenon DEF pcb_remove
  <2> HIDE DEF q
  <2> QED BY <2>1, <1>1, <1>9
<1> QED BY <1>6, <1>8, <1>10

LEMMA RefinesInit == LinkedInit => Abstract!QueuesInit
<1> SUFFICES ASSUME LinkedInit
             PROVE  Abstract!QueuesInit
  OBVIOUS
<1>1. Contents = Abstract!EmptyQueues
  <2>1. \A s \in States : nodes[s] = <<>> /\ Len(nodes[s]) = 0
    BY DEF LinkedInit
  <2>2. ASSUME NEW s \in States
        PROVE  Pcbs(nodes[s]) = <<>>
    <3>1. Pcbs(nodes[s]) = [i \in 1 .. 0 |-> pcb[nodes[s][i]]]
      BY <2>1 DEF Pcbs
    <3> QED BY <3>1
  <2> QED BY <2>2, SameStates DEF Contents, Abstract!EmptyQueues
<1>2. state \in [Pcb -> States] /\ priority \in [Pcb -> Priorities]
  BY CallStatesAssumption DEF LinkedInit
<1> QED BY <1>1, <1>2, SameStates DEF Abstract!QueuesInit

\* Every step ends an operation of Queues or changes nothing that Queues sees.
LEMMA RefinesNext ==
  LinkedInv /\ LinkedInv' /\ [LinkedNext]_lvars => [Abstract!QueuesNext]_(Abstract!qvars)
<1> SUFFICES ASSUME LinkedInv, LinkedInv', [LinkedNext]_lvars
             PROVE  [Abstract!QueuesNext]_(Abstract!qvars)
  OBVIOUS
<1> USE DEF Abstract!QueuesNext, Abstract!qvars
<1>1. UNCHANGED <<nodes, pcb>> => UNCHANGED Contents
  BY DEF Contents, Pcbs
<1>2. ASSUME NEW p \in Pcb, assign(p)
      PROVE  Abstract!assign(p)
  <2>1. UNCHANGED Contents
    BY <1>1, <1>2 DEF assign
  <2>2. PICK s \in CallStates, pri \in Priorities :
           /\ \/ pri = priority[p]
              \/ \A r \in ReadyStates : \A i \in 1 .. Len(nodes[r]) : pcb[nodes[r][i]] # p
           /\ state' = [state EXCEPT ![p] = s]
           /\ priority' = [priority EXCEPT ![p] = pri]
    BY <1>2 DEF assign
  <2>3. ASSUME \A r \in ReadyStates : \A i \in 1 .. Len(nodes[r]) : pcb[nodes[r][i]] # p
        PROVE  Abstract!Unordered(Contents, p)
    <3>1. SUFFICES ASSUME NEW r \in ReadyStates, NEW i \in 1 .. Len(Contents[r])
                   PROVE  Contents[r][i] # p
      BY SameStates DEF Abstract!Unordered
    <3>2. Contents[r] = Pcbs(nodes[r])
      BY DEF Contents, States
    <3>3. /\ Len(Pcbs(nodes[r])) = Len(nodes[r])
          /\ \A j \in 1 .. Len(nodes[r]) : Pcbs(nodes[r])[j] = pcb[nodes[r][j]]
      <4>1. r \in States
        BY DEF States
      <4> QED BY <4>1, ListIs, PcbsIs
    <3> QED BY <2>3, <3>2, <3>3
  <2>4. s \in States
    BY CallStatesAssumption
  <2> QED BY <2>1, <2>2, <2>3, <2>4, SameStates DEF Abstract!assign
<1>3. ASSUME NEW p \in Pcb, pcb_insert_call(p)
      PROVE  UNCHANGED <<Contents, state, priority>>
  <2>1. /\ allocated' = allocated + 1 /\ pcb' = [pcb EXCEPT ![allocated'] = p]
        /\ UNCHANGED <<state, priority, nodes>>
    BY <1>3 DEF pcb_insert_call
  <2>2. ASSUME NEW s \in States, NEW i \in 1 .. Len(nodes[s])
        PROVE  pcb'[nodes[s][i]] = pcb[nodes[s][i]]
    <3>1. nodes[s][i] \in Node /\ nodes[s][i] <= allocated
      BY ListIs DEF LinkedInv, NodesInUse
    <3>2. nodes[s][i] # allocated'
      BY <3>1, <2>1 DEF LinkedInv, LinkedTypeOK, Node
    <3> QED BY <3>1, <3>2, <2>1 DEF LinkedInv, LinkedTypeOK
  <2> QED BY <2>1, <2>2 DEF Contents, Pcbs
<1>4. ASSUME enqueue_front \/ enqueue_behind \/ enqueue_reg_append
      PROVE  arg \in Pcb /\ Abstract!insert(arg)
  <2>1. pc \in {"enqueue_pri", "scan", "enqueue_reg"} /\ UNCHANGED <<state, priority>>
    BY <1>4 DEF enqueue_front, enqueue_behind, enqueue_reg_append, Inserted
  <2>2. /\ arg \in Pcb /\ target \in States /\ priority \in [Pcb -> Nat]
    BY <2>1, InsertingIs, PriorityAssumption DEF LinkedInv, LinkedTypeOK, Priorities
  <2>3. /\ nodes[target] \in Seq(Node) /\ Len(nodes[target]) \in Nat
        /\ Pcbs(nodes[target]) \in Seq(Pcb) /\ Len(Pcbs(nodes[target])) = Len(nodes[target])
        /\ \A i \in 1 .. Len(nodes[target]) : Pcbs(nodes[target])[i] = pcb[nodes[target][i]]
    BY <2>2, ListIs, PcbsIs
  <2>4. Contents' = pcb_insert(Contents, state, priority, arg)
    <3>1. CASE enqueue_front
      <4> DEFINE q == nodes[target]
                 ip == InsertionPoint(Pcbs(q), priority, arg)
      <4>1. pc = "enqueue_pri" /\ Inserted(1) /\ ~GoesBehindFront
        BY <3>1 DEF enqueue_front
      <4>2. /\ ip \in 1 .. Len(q) + 1
            /\ \A j \in 1 .. Len(q) : j < ip => priority[Pcbs(q)[j]] <= priority[arg]
        <5>1. \A s \in Seq(Pcb) :
                 /\ InsertionPoint(s, priority, arg) \in 1 .. Len(s) + 1
                 /\ \A j \in 1 .. Len(s) : j < InsertionPoint(s, priority, arg)
                                             => priority[s[j]] <= priority[arg]
          BY <2>2, InsertionPointIs
        <5> QED BY <5>1, <2>3
      <4>3. /\ front[target] = IF Len(q) = 0 THEN NULL ELSE q[1]
            /\ rear[target] = IF Len(q) = 0 THEN NULL ELSE q[Len(q)]
            /\ \A i \in 1 .. Len(q) : q[i] # NULL /\ pcb[q[i]] \in Pcb
        BY <2>2, ListIs
      <4>4. Len(q) \in Nat /\ \A i \in 1 .. Len(q) : Pcbs(q)[i] = pcb[q[i]]
        BY <2>3
      <4>5. ~(rear[target] # NULL /\ priority[arg] >= priority[pcb[front[target]]])
        BY <4>1 DEF GoesBehindFront
      <4> HIDE DEF q, ip
      <4>6. ip = 1
        <5>1. CASE Len(q) = 0
          BY <5>1, <4>2
        <5>2. CASE Len(q) # 0
          <6>1. 1 \in 1 .. Len(q) /\ Len(q) \in 1 .. Len(q)
            BY <5>2, <4>4
          <6>2. ~(priority[arg] >= priority[pcb[q[1]]])
            BY <6>1, <5>2, <4>3, <4>5
          <6>3. priority[arg] \in Nat /\ priority[pcb[q[1]]] \in Nat
            BY <6>1, <4>3, <2>2
          <6>4. ~(1 < ip)
            BY <6>1, <6>2, <6>3, <4>2, <4>4
          <6> QED BY <6>4, <4>2, <4>4
        <5> QED BY <5>1, <5>2
      <4>7. 1 \in 1 .. Len(nodes[target]) + 1
        BY <2>3
      <4> QED BY <4>1, <4>6, <4>7, InsertedContents DEF q, ip
    <3>2. CASE enqueue_behind
      <4>1. pc = "scan"
        BY <3>2 DEF enqueue_behind
      <4> QED BY <3>2, <4>1, EnqueueBehindInv, InsertedContents
    <3>3. CASE enqueue_reg_append
      <4>1. pc = "enqueue_reg" /\ Inserted(Len(nodes[target]) + 1) /\ ~AtRear
        BY <3>3 DEF enqueue_reg_append
      <4>2. Len(nodes[target]) + 1 \in 1 .. Len(nodes[target]) + 1
        BY <2>3
      <4> QED BY <4>1, <4>2, InsertedContents
    <3> QED BY <1>4, <3>1, <3>2, <3>3
  <2> QED BY <2>1, <2>2, <2>4, SameInsert DEF Abstract!insert
<1>5. ASSUME unlink_front \/ unlink_rear \/ unlink_middle
      PROVE  arg \in Pcb /\ Abstract!remove(arg)
  <2>1. arg \in Pcb /\ UNCHANGED <<state, priority>>
    <3>1. pc = "dequeue" /\ node # NULL /\ Unlinked
      BY <1>5 DEF unlink_front, unlink_rear, unlink_middle
    <3> QED BY <3>1, SearchingIs DEF Unlinked
  <2>2. Contents' = pcb_remove(Contents, state, arg)
    BY <1>5, UnlinkedContents
  <2> QED BY <2>1, <2>2, SameRemove DEF Abstract!remove
<1>6. ASSUME \/ \E p \in Pcb : pcb_remove_call(p)
             \/ enqueue_scan \/ scan \/ enqueue_reg_again \/ search \/ not_found
             \/ walk_start \/ walk_on \/ UNCHANGED lvars
      PROVE  UNCHANGED <<Contents, state, priority>>
  <2>1. UNCHANGED <<nodes, pcb, state, priority>>
    BY <1>6 DEF pcb_remove_call, enqueue_scan, scan, enqueue_reg_again, search, not_found,
                ReturnOnly, walk_start, walk_on, lvars
  <2> QED BY <2>1, <1>1
<1> QED BY <1>2, <1>3, <1>4, <1>5, <1>6 DEF LinkedNext, step

\* What process_queue.c does pointer by pointer is what ProcessQueue says in
\* one step: the modules built on ProcessQueue lose nothing by using sequences.
THEOREM ListsImplementQueues == LinkedSpec => QueuesSpec
<1>1. LinkedSpec => []LinkedInv
  BY LinkedInitInv, LinkedNextInv, PTL DEF LinkedSpec
<1> QED BY <1>1, RefinesInit, RefinesNext, PTL DEF LinkedSpec, QueuesSpec, Abstract!QueuesSpec

-----------------------------------------------------------------------------
(***************************************************************************)
(* The walk.                                                               *)
(***************************************************************************)

\* The nodes o are in the sequence q, at x or behind it.
Ahead(q, x, o) ==
    \E k \in 1 .. Len(q) : x = q[k] /\ \A m \in o : \E j \in k .. Len(q) : m = q[j]

\* The cursor stands on x, or on one of the nodes D that were unlinked while
\* it stood there: their pointers are never written again and lead to x.
Trail(D, x) ==
    /\ cursor \in D \cup {x}
    /\ \A d \in D : d <= allocated /\ next[d] \in D \cup {x}
    /\ pc \in {"enqueue_pri", "scan", "enqueue_reg"} => new \notin D
    /\ \A s \in States : \A i \in 1 .. Len(nodes[s]) : nodes[s][i] \notin D
    /\ \/ x = NULL /\ owed = {}
       \/ \E s \in States : Ahead(nodes[s], x, owed)

WalkFinds == \E D \in SUBSET Node, x \in Pointer : Trail(D, x)

\* Another node that comes in between keeps the order.
LEMMA AheadInsert ==
  ASSUME NEW q \in Seq(Node), NEW n \in Node, NEW k \in 1 .. Len(q) + 1,
         NEW x, NEW o, Ahead(q, x, o)
  PROVE  Ahead(InsertAt(q, k, n), x, o)
<1> DEFINE d == InsertAt(q, k, n)
           at(j) == IF j < k THEN j ELSE j + 1
<1>1. Len(q) \in Nat
  OBVIOUS
<1>2. /\ Len(d) = Len(q) + 1
      /\ \A j \in 1 .. Len(q) : j < k  => d[j] = q[j]
      /\ \A j \in 1 .. Len(q) : j >= k => d[j+1] = q[j]
  BY <1>1, InsertAtIs
<1> HIDE DEF d
<1>3. \A j \in 1 .. Len(q) : at(j) \in 1 .. Len(d) /\ d[at(j)] = q[j]
  BY <1>1, <1>2
<1>4. \A i, j \in 1 .. Len(q) : i <= j => at(i) <= at(j)
  BY <1>1
<1> HIDE DEF at
<1>5. PICK m \in 1 .. Len(q) : x = q[m] /\ \A u \in o : \E j \in m .. Len(q) : u = q[j]
  BY DEF Ahead
<1>6. at(m) \in 1 .. Len(d) /\ x = d[at(m)]
  BY <1>3, <1>5
<1>7. ASSUME NEW u \in o
      PROVE  \E j \in at(m) .. Len(d) : u = d[j]
  <2>1. PICK j \in m .. Len(q) : u = q[j]
    BY <1>5
  <2>2. j \in 1 .. Len(q) /\ m <= j
    BY <1>1
  <2>3. at(j) \in at(m) .. Len(d) /\ d[at(j)] = u
    BY <2>1, <2>2, <1>1, <1>2, <1>3, <1>4, <1>6
  <2> QED BY <2>3
<1> QED BY <1>6, <1>7 DEF Ahead, d

\* So does another node that goes.
LEMMA AheadRemove ==
  ASSUME NEW q \in Seq(Node), NEW k \in 1 .. Len(q), NEW x, NEW o,
         Ahead(q, x, o), x # q[k]
  PROVE  Ahead(RemoveAt(q, k), x, o \ {q[k]})
<1> DEFINE d == RemoveAt(q, k)
           at(j) == IF j < k THEN j ELSE j - 1
<1>1. Len(q) \in Nat
  OBVIOUS
<1>2. /\ Len(d) = Len(q) - 1
      /\ \A j \in 1 .. Len(q) - 1 : j < k  => d[j] = q[j]
      /\ \A j \in 1 .. Len(q) - 1 : j >= k => d[j] = q[j+1]
  BY <1>1, RemoveAtIs
<1> HIDE DEF d
<1>3. ASSUME NEW j \in 1 .. Len(q), j # k
      PROVE  at(j) \in 1 .. Len(d) /\ d[at(j)] = q[j]
  <2>1. CASE j < k
    BY <2>1, <1>1, <1>2
  <2>2. CASE j > k
    <3>1. j - 1 \in 1 .. Len(q) - 1 /\ j - 1 >= k /\ at(j) = j - 1 /\ (j - 1) + 1 = j
      BY <2>2, <1>1
    <3>2. d[j-1] = q[(j-1)+1]
      BY <3>1, <1>2
    <3> QED BY <3>1, <3>2, <1>2
  <2> QED BY <2>1, <2>2, <1>3
<1>4. \A i, j \in 1 .. Len(q) : i <= j => at(i) <= at(j)
  BY <1>1
<1> HIDE DEF at
<1>5. PICK m \in 1 .. Len(q) : x = q[m] /\ \A u \in o : \E j \in m .. Len(q) : u = q[j]
  BY DEF Ahead
<1>6. at(m) \in 1 .. Len(d) /\ x = d[at(m)]
  BY <1>3, <1>5
<1>7. ASSUME NEW u \in o \ {q[k]}
      PROVE  \E j \in at(m) .. Len(d) : u = d[j]
  <2>1. PICK j \in m .. Len(q) : u = q[j]
    BY <1>5
  <2>2. j \in 1 .. Len(q) /\ m <= j /\ j # k
    BY <2>1, <1>1
  <2>3. at(j) \in 1 .. Len(d) /\ d[at(j)] = u /\ at(m) <= at(j)
    BY <2>1, <2>2, <1>3, <1>4
  <2>4. at(j) \in at(m) .. Len(d)
    BY <2>3, <1>1, <1>2, <1>6
  <2> QED BY <2>3, <2>4
<1> QED BY <1>6, <1>7 DEF Ahead, d

\* A step along the sequence.
LEMMA AheadNext ==
  ASSUME NEW q \in Seq(Node), NEW k \in 1 .. Len(q), NEW o, Ahead(q, q[k], o),
         \A i, j \in 1 .. Len(q) : q[i] = q[j] => i = j
  PROVE  /\ k = Len(q) => o \ {q[k]} = {}
         /\ k # Len(q) => Ahead(q, q[k+1], o \ {q[k]})
<1>1. Len(q) \in Nat
  OBVIOUS
<1>2. PICK m \in 1 .. Len(q) : q[k] = q[m] /\ \A u \in o : \E j \in m .. Len(q) : u = q[j]
  BY DEF Ahead
<1>3. m = k
  BY <1>2
<1>4. ASSUME NEW u \in o \ {q[k]}
      PROVE  \E j \in k + 1 .. Len(q) : u = q[j]
  <2>1. PICK j \in k .. Len(q) : u = q[j]
    BY <1>2, <1>3
  <2>2. j # k
    BY <2>1
  <2> QED BY <2>1, <2>2, <1>1
<1>5. ASSUME k = Len(q)
      PROVE  o \ {q[k]} = {}
  <2>1. k + 1 .. Len(q) = {}
    BY <1>1, <1>5
  <2> QED BY <2>1, <1>4
<1>6. ASSUME k # Len(q)
      PROVE  Ahead(q, q[k+1], o \ {q[k]})
  <2>1. k + 1 \in 1 .. Len(q)
    BY <1>1, <1>6
  <2> QED BY <2>1, <1>4 DEF Ahead
<1> QED BY <1>5, <1>6

-----------------------------------------------------------------------------
\* What no step changes under the walk: the pointers of the nodes outside the
\* lists, the node just allocated apart.
LEMMA TrailKept ==
  ASSUME NEW D \in SUBSET Node, NEW x \in Pointer, Trail(D, x),
         allocated \in Nat, allocated' \in Nat, allocated <= allocated',
         UNCHANGED cursor,
         \A d \in D : next'[d] = next[d],
         pc' \in {"enqueue_pri", "scan", "enqueue_reg"} => new' \notin D,
         \A s \in States : \A i \in 1 .. Len(nodes'[s]) : nodes'[s][i] \notin D,
         \/ x = NULL /\ owed' = {}
         \/ \E s \in States : Ahead(nodes'[s], x, owed')
  PROVE  WalkFinds'
<1>1. cursor' \in D \cup {x}
  BY DEF Trail
<1>2. \A d \in D : d <= allocated' /\ next'[d] \in D \cup {x}
  BY DEF Trail, Node
<1>3. Trail(D, x)'
  BY <1>1, <1>2 DEF Trail, Ahead
<1> QED BY <1>3 DEF WalkFinds

\* Neither the lists nor the walk change.
LEMMA QuietWalk ==
  ASSUME LinkedInv, WalkFinds, UNCHANGED <<next, allocated, walk, nodes>>,
         pc' \in {"enqueue_pri", "scan", "enqueue_reg"} => pc \in {"enqueue_pri", "scan", "enqueue_reg"}
  PROVE  WalkFinds'
<1>1. PICK D \in SUBSET Node, x \in Pointer : Trail(D, x)
  BY DEF WalkFinds
<1>2. allocated \in Nat /\ allocated' = allocated /\ nodes' = nodes /\ next' = next
      /\ cursor' = cursor /\ owed' = owed
  BY DEF LinkedInv, LinkedTypeOK, walk
<1>3. pc' \in {"enqueue_pri", "scan", "enqueue_reg"} => new' \notin D
  BY <1>1, <1>2 DEF Trail, new
<1>4. /\ \A s \in States : \A i \in 1 .. Len(nodes[s]) : nodes[s][i] \notin D
      /\ \/ x = NULL /\ owed = {}
         \/ \E s \in States : Ahead(nodes[s], x, owed)
  BY <1>1 DEF Trail
<1> QED BY <1>1, <1>2, <1>3, <1>4, TrailKept

\* The node pcb_insert allocates is nobody's yet.
LEMMA InsertCallWalk ==
  ASSUME LinkedInv, WalkFinds, NEW p \in Pcb, pcb_insert_call(p)
  PROVE  WalkFinds'
<1>1. PICK D \in SUBSET Node, x \in Pointer : Trail(D, x)
  BY DEF WalkFinds
<1>2. /\ allocated \in Nat /\ allocated' = allocated + 1
      /\ next' = [next EXCEPT ![allocated'] = NULL]
      /\ nodes' = nodes /\ cursor' = cursor /\ owed' = owed
  BY DEF LinkedInv, LinkedTypeOK, pcb_insert_call, walk
<1>3. /\ \A d \in D : d <= allocated
      /\ \A s \in States : \A i \in 1 .. Len(nodes[s]) : nodes[s][i] \notin D
      /\ \/ x = NULL /\ owed = {}
         \/ \E s \in States : Ahead(nodes[s], x, owed)
  BY <1>1 DEF Trail
<1>4. allocated' \notin D
  BY <1>2, <1>3
<1>5. \A d \in D : next'[d] = next[d]
  BY <1>2, <1>4 DEF LinkedInv, LinkedTypeOK
<1>6. new' \notin D
  BY <1>4 DEF new
<1> QED BY <1>1, <1>2, <1>3, <1>5, <1>6, TrailKept

\* Linking the new node in moves nobody past the cursor.
LEMMA InsertedWalk ==
  ASSUME LinkedInv, WalkFinds, pc \in {"enqueue_pri", "scan", "enqueue_reg"},
         NEW k \in 1 .. Len(nodes[target]) + 1, Inserted(k),
         \A n \in Node : n # new /\ next'[n] # next[n] =>
            \E i \in 1 .. Len(nodes[target]) : n = nodes[target][i]
  PROVE  WalkFinds'
<1>1. PICK D \in SUBSET Node, x \in Pointer : Trail(D, x)
  BY DEF WalkFinds
<1>2. /\ target \in States /\ new \in Node /\ allocated \in Nat
      /\ nodes \in [States -> Seq(Node)]
  BY InsertingIs DEF LinkedInv, LinkedTypeOK
<1>3. /\ nodes' = [nodes EXCEPT ![target] = InsertAt(nodes[target], k, new)]
      /\ pc' = "return" /\ allocated' = allocated /\ cursor' = cursor /\ owed' = owed
  BY DEF Inserted, Returns, walk
<1>4. /\ \A s \in States : \A i \in 1 .. Len(nodes[s]) : nodes[s][i] \notin D
      /\ new \notin D
      /\ \/ x = NULL /\ owed = {}
         \/ \E s \in States : Ahead(nodes[s], x, owed)
  BY <1>1 DEF Trail
<1>5. \A d \in D : next'[d] = next[d]
  BY <1>2, <1>4
<1>6. ASSUME NEW s \in States, NEW i \in 1 .. Len(nodes'[s])
      PROVE  nodes'[s][i] \notin D
  <2>1. CASE s = target
    <3>1. nodes'[s] = InsertAt(nodes[s], k, new) /\ nodes[s] \in Seq(Node)
      BY <2>1, <1>2, <1>3
    <3>2. k \in 1 .. Len(nodes[s]) + 1
      BY <2>1
    <3>3. /\ Len(InsertAt(nodes[s], k, new)) = Len(nodes[s]) + 1
          /\ \A j \in 1 .. Len(nodes[s]) + 1 :
               \/ InsertAt(nodes[s], k, new)[j] = new
               \/ \E m \in 1 .. Len(nodes[s]) : InsertAt(nodes[s], k, new)[j] = nodes[s][m]
      BY <3>1, <3>2, <1>2, InsertNode
    <3> QED BY <3>1, <3>3, <1>4
  <2>2. CASE s # target
    BY <2>2, <1>2, <1>3, <1>4
  <2> QED BY <2>1, <2>2
<1>7. ASSUME NEW s \in States, Ahead(nodes[s], x, owed)
      PROVE  Ahead(nodes'[s], x, owed)
  <2>1. CASE s = target
    <3>1. nodes'[s] = InsertAt(nodes[s], k, new) /\ nodes[s] \in Seq(Node)
      BY <2>1, <1>2, <1>3
    <3>2. Ahead(InsertAt(nodes[s], k, new), x, owed)
      BY <2>1, <3>1, <1>2, <1>7, AheadInsert
    <3> QED BY <3>1, <3>2
  <2>2. CASE s # target
    BY <2>2, <1>2, <1>3, <1>7
  <2> QED BY <2>1, <2>2
<1>8. \/ x = NULL /\ owed' = {}
      \/ \E s \in States : Ahead(nodes'[s], x, owed')
  BY <1>3, <1>4, <1>7
<1> QED BY <1>1, <1>2, <1>3, <1>5, <1>6, <1>8, TrailKept

\* Each branch of enqueue_pri and enqueue_reg writes next only there.
LEMMA InsertWalk ==
  ASSUME LinkedInv, WalkFinds, enqueue_front \/ enqueue_behind \/ enqueue_reg_append
  PROVE  WalkFinds'
<1>1. pc \in {"enqueue_pri", "scan", "enqueue_reg"}
  BY DEF enqueue_front, enqueue_behind, enqueue_reg_append
<1>2. /\ target \in States /\ new \in Node /\ next \in [Node -> Pointer]
      /\ Len(nodes[target]) \in Nat
      /\ rear[target] = IF Len(nodes[target]) = 0 THEN NULL
                        ELSE nodes[target][Len(nodes[target])]
  BY <1>1, InsertingIs, ListIs
<1>3. CASE enqueue_front
  <2>1. Inserted(1) /\ next' = [next EXCEPT ![new] = front[target]]
    BY <1>3 DEF enqueue_front
  <2>2. \A n \in Node : n # new => next'[n] = next[n]
    BY <2>1, <1>2
  <2>3. 1 \in 1 .. Len(nodes[target]) + 1
    BY <1>2
  <2> QED BY <2>1, <2>2, <2>3, <1>1, InsertedWalk
<1>4. CASE enqueue_behind
  <2>1. pc = "scan" /\ next' = [next EXCEPT ![new] = next[node], ![node] = new]
    BY <1>4 DEF enqueue_behind
  <2>2. PICK i \in 1 .. Len(nodes[target]) : node = nodes[target][i]
    BY <2>1 DEF LinkedInv, Scanning
  <2>3. \A n \in Node : n # new /\ n # node => next'[n] = next[n]
    BY <2>1, <1>2
  <2>4. \A n \in Node : n # new /\ next'[n] # next[n] =>
           \E j \in 1 .. Len(nodes[target]) : n = nodes[target][j]
    BY <2>2, <2>3
  <2>5. PICK k \in 1 .. Len(nodes[target]) + 1 : Inserted(k)
    BY <1>4, EnqueueBehindInv
  <2> QED BY <2>4, <2>5, <1>1, InsertedWalk
<1>5. CASE enqueue_reg_append
  <2>1. /\ Inserted(Len(nodes[target]) + 1)
        /\ \/ rear[target] = NULL /\ next' = next
           \/ rear[target] # NULL /\ next' = [next EXCEPT ![rear[target]] = new]
    BY <1>5 DEF enqueue_reg_append
  <2>2. rear[target] # NULL => \E j \in 1 .. Len(nodes[target]) : rear[target] = nodes[target][j]
    BY <1>2
  <2>3. \A n \in Node : n # new /\ next'[n] # next[n] =>
           \E j \in 1 .. Len(nodes[target]) : n = nodes[target][j]
    BY <2>1, <2>2, <1>2
  <2>4. Len(nodes[target]) + 1 \in 1 .. Len(nodes[target]) + 1
    BY <1>2
  <2> QED BY <2>1, <2>3, <2>4, <1>1, InsertedWalk
<1> QED BY <1>3, <1>4, <1>5

\* The node that goes leads to its successor, on which the cursor would stand.
LEMMA UnlinkWalk ==
  ASSUME LinkedInv, WalkFinds, unlink_front \/ unlink_rear \/ unlink_middle
  PROVE  WalkFinds'
<1> DEFINE q == nodes[target]
<1>1. PICK D \in SUBSET Node, x \in Pointer : Trail(D, x)
  BY DEF WalkFinds
<1>2. pc = "dequeue" /\ node # NULL /\ Unlinked
  BY DEF unlink_front, unlink_rear, unlink_middle
<1>3. target \in States /\ \E k \in 1 .. Len(q) : node = q[k]
  BY <1>2, SearchingIs
<1>4. PICK k \in 1 .. Len(q) : node = q[k]
  BY <1>3
<1>5. /\ q \in Seq(Node) /\ Len(q) \in Nat
      /\ front[target] = IF Len(q) = 0 THEN NULL ELSE q[1]
      /\ \A i \in 1 .. Len(q) :
           /\ q[i] \in Node /\ q[i] # NULL
           /\ next[q[i]] = IF i = Len(q) THEN NULL ELSE q[i+1]
           /\ prev[q[i]] = IF i = 1 THEN NULL ELSE q[i-1]
      /\ \A i, j \in 1 .. Len(q) : q[i] = q[j] => i = j
  BY <1>3, ListIs
<1>6. /\ nodes \in [States -> Seq(Node)] /\ allocated \in Nat
      /\ next \in [Node -> Pointer] /\ node \in Node
  BY <1>4, <1>5 DEF LinkedInv, LinkedTypeOK
<1>7. nodes' = [nodes EXCEPT ![target] = RemoveAt(q, k)]
  <2>1. PlaceOf(node, q) = k
    BY <1>4, <1>5 DEF PlaceOf
  <2>2. nodes' = [nodes EXCEPT ![target] = RemoveAt(q, PlaceOf(node, q))]
    BY <1>2 DEF Unlinked
  <2> QED BY <2>1, <2>2
<1>8. /\ pc' = "return" /\ allocated' = allocated /\ cursor' = cursor
      /\ owed' = owed \ {node}
  BY <1>2 DEF Unlinked, Returns
<1>9. /\ \A d \in D : d <= allocated /\ next[d] \in D \cup {x}
      /\ \A s \in States : \A i \in 1 .. Len(nodes[s]) : nodes[s][i] \notin D
      /\ cursor \in D \cup {x}
      /\ \/ x = NULL /\ owed = {}
         \/ \E s \in States : Ahead(nodes[s], x, owed)
  BY <1>1 DEF Trail
<1>10. \/ next' = next
       \/ \E i \in 1 .. Len(q) : i # k /\ \E v : next' = [next EXCEPT ![q[i]] = v]
  <2>1. CASE node = front[target]
    BY <2>1, <1>5, <1>6 DEF unlink_front, unlink_rear, unlink_middle
  <2>2. CASE node # front[target]
    <3>1. \E v : next' = [next EXCEPT ![prev[node]] = v]
      BY <2>2 DEF unlink_front, unlink_rear, unlink_middle
    <3>2. k # 1
      BY <2>2, <1>4, <1>5
    <3>3. prev[node] = q[k-1] /\ k - 1 \in 1 .. Len(q) /\ k - 1 # k
      BY <3>2, <1>4, <1>5
    <3> QED BY <3>1, <3>3
  <2> QED BY <2>1, <2>2
<1>11. next'[node] = next[node] /\ \A d \in D : next'[d] = next[d]
  <2>1. CASE next' = next
    BY <2>1
  <2>2. CASE \E i \in 1 .. Len(q) : i # k /\ \E v : next' = [next EXCEPT ![q[i]] = v]
    <3>1. PICK i \in 1 .. Len(q) : i # k /\ \E v : next' = [next EXCEPT ![q[i]] = v]
      BY <2>2
    <3>2. q[i] # node /\ q[i] \notin D
      BY <3>1, <1>3, <1>4, <1>5, <1>9
    <3> QED BY <3>1, <3>2, <1>6
  <2> QED BY <2>1, <2>2, <1>10
<1> DEFINE r == RemoveAt(q, k)
<1>12. /\ r \in Seq(Node) /\ Len(r) = Len(q) - 1
       /\ \A j \in 1 .. Len(q) - 1 : \E i \in 1 .. Len(q) : i # k /\ r[j] = q[i]
  <2>1. /\ RemoveAt(q, k) \in Seq(Node) /\ Len(RemoveAt(q, k)) = Len(q) - 1
        /\ \A j \in 1 .. Len(q) - 1 :
              \/ j < k /\ RemoveAt(q, k)[j] = q[j]
              \/ j >= k /\ j+1 \in 1 .. Len(q) /\ RemoveAt(q, k)[j] = q[j+1]
    BY <1>5, RemoveNode
  <2> HIDE DEF q
  <2> QED BY <2>1, <1>4, <1>5
<1>13. /\ nodes'[target] = r
       /\ \A s \in States : s # target => nodes'[s] = nodes[s]
  BY <1>3, <1>6, <1>7
<1>14. ASSUME NEW s \in States, NEW i \in 1 .. Len(nodes'[s])
       PROVE  nodes'[s][i] \notin D \cup {node}
  <2> HIDE DEF r
  <2>1. CASE s = target
    <3>1. \E j \in 1 .. Len(q) : j # k /\ nodes'[s][i] = q[j]
      BY <2>1, <1>12, <1>13
    <3> QED BY <3>1, <1>3, <1>4, <1>5, <1>9
  <2>2. CASE s # target
    <3>1. nodes'[s] = nodes[s] /\ i \in 1 .. Len(nodes[s])
      BY <2>2, <1>13
    <3>2. \A j \in 1 .. Len(nodes[s]) : nodes[s][j] # node
      <4>1. \A a, b \in States : \A j \in 1 .. Len(nodes[a]), m \in 1 .. Len(nodes[b]) :
               nodes[a][j] = nodes[b][m] => a = b
        BY DEF LinkedInv, Represents, Lists
      <4> QED BY <4>1, <2>2, <1>3, <1>4
    <3> QED BY <3>1, <3>2, <1>9
  <2> QED BY <2>1, <2>2
<1>15. ASSUME NEW s \in States, Ahead(nodes[s], x, owed), x # node
       PROVE  Ahead(nodes'[s], x, owed \ {node})
  <2>1. CASE s = target
    <3>1. Ahead(q, x, owed) /\ x # q[k]
      BY <2>1, <1>4, <1>15
    <3>2. Ahead(RemoveAt(q, k), x, owed \ {q[k]})
      BY <3>1, <1>5, AheadRemove
    <3> QED BY <2>1, <3>2, <1>4, <1>13
  <2>2. CASE s # target
    <3>1. nodes'[s] = nodes[s]
      BY <2>2, <1>13
    <3>2. Ahead(nodes[s], x, owed \ {node})
      BY <1>15 DEF Ahead
    <3> QED BY <3>1, <3>2
  <2> QED BY <2>1, <2>2
<1>16. CASE x # node
  <2>1. \/ x = NULL /\ owed' = {}
        \/ \E s \in States : Ahead(nodes'[s], x, owed')
    BY <1>8, <1>9, <1>15, <1>16
  <2>2. \A s \in States : \A i \in 1 .. Len(nodes'[s]) : nodes'[s][i] \notin D
    BY <1>14
  <2>3. /\ allocated' \in Nat /\ allocated <= allocated'
        /\ pc' \in {"enqueue_pri", "scan", "enqueue_reg"} => new' \notin D
        /\ UNCHANGED cursor
        /\ \A d \in D : next'[d] = next[d]
    BY <1>6, <1>8, <1>11
  <2> HIDE DEF q, r
  <2> QED BY <2>1, <2>2, <2>3, <1>1, <1>6, TrailKept
<1>17. CASE x = node
  <2> DEFINE E == D \cup {node}
             y == next[node]
  <2>1. E \in SUBSET Node /\ y \in Pointer
    BY <1>6
  <2>2. \A d \in E : d <= allocated /\ next[d] \in E \cup {y}
    <3>1. node <= allocated
      BY <1>3, <1>4 DEF LinkedInv, NodesInUse
    <3> QED BY <3>1, <1>9, <1>17
  <2>3. Ahead(q, q[k], owed)
    <3>1. PICK s \in States : Ahead(nodes[s], x, owed)
      BY <1>2, <1>9, <1>17
    <3>2. PICK m \in 1 .. Len(nodes[s]) : x = nodes[s][m]
      BY <3>1 DEF Ahead
    <3>3. s = target
      <4>1. \A a, b \in States : \A j \in 1 .. Len(nodes[a]), i \in 1 .. Len(nodes[b]) :
               nodes[a][j] = nodes[b][i] => a = b
        BY DEF LinkedInv, Represents, Lists
      <4> QED BY <4>1, <3>2, <1>3, <1>4, <1>17
    <3> QED BY <3>1, <3>3, <1>4, <1>17
  <2>4. /\ k = Len(q) => owed \ {q[k]} = {}
        /\ k # Len(q) => Ahead(q, q[k+1], owed \ {q[k]})
    <3> HIDE DEF q
    <3> QED BY <2>3, <1>5, AheadNext
  <2>5. \/ y = NULL /\ owed' = {}
        \/ \E s \in States : Ahead(nodes'[s], y, owed')
    <3>1. CASE k = Len(q)
      BY <3>1, <2>4, <1>4, <1>5, <1>8
    <3>2. CASE k # Len(q)
      <4>1. y = q[k+1] /\ k + 1 \in 1 .. Len(q) /\ q[k+1] # q[k]
        BY <3>2, <1>4, <1>5
      <4>2. Ahead(q, y, owed') /\ y # q[k]
        BY <3>2, <4>1, <2>4, <1>4, <1>8
      <4>3. Ahead(RemoveAt(q, k), y, owed' \ {q[k]})
        <5> HIDE DEF q, y
        <5> QED BY <4>2, <1>5, AheadRemove
      <4>4. owed' \ {q[k]} = owed'
        BY <1>4, <1>8
      <4> QED BY <4>3, <4>4, <1>3, <1>13
    <3> QED BY <3>1, <3>2
  <2>6. cursor' \in E \cup {y}
    BY <1>8, <1>9, <1>17
  <2>7. \A d \in E : d <= allocated' /\ next'[d] \in E \cup {y}
    BY <2>2, <1>8, <1>11
  <2>8. \A s \in States : \A i \in 1 .. Len(nodes'[s]) : nodes'[s][i] \notin E
    BY <1>14
  <2> HIDE DEF E, y
  <2>9. PICK F \in SUBSET Node, z \in Pointer : F = E /\ z = y
    BY <2>1
  <2>10. Trail(F, z)'
    BY <2>5, <2>6, <2>7, <2>8, <2>9, <1>8 DEF Trail, Ahead
  <2> QED BY <2>10 DEF WalkFinds
<1> QED BY <1>16, <1>17

LEMMA WalkStartWalk ==
  ASSUME LinkedInv, walk_start
  PROVE  WalkFinds'
<1>1. PICK s \in CallStates : /\ cursor' = front[s]
                              /\ owed' = {nodes[s][i] : i \in 1 .. Len(nodes[s])}
  BY DEF walk_start
<1>2. pc' = "return" /\ nodes' = nodes
  BY DEF walk_start, call
<1>3. s \in States
  BY CallStatesAssumption
<1>4. /\ Len(nodes[s]) \in Nat /\ front[s] \in Pointer
      /\ front[s] = IF Len(nodes[s]) = 0 THEN NULL ELSE nodes[s][1]
  BY <1>3, ListIs DEF LinkedInv, LinkedTypeOK
<1>5. \/ front[s] = NULL /\ owed' = {}
      \/ Ahead(nodes'[s], front[s], owed')
  <2>1. CASE Len(nodes[s]) = 0
    BY <2>1, <1>1, <1>4
  <2>2. CASE Len(nodes[s]) # 0
    <3>1. 1 \in 1 .. Len(nodes[s])
      BY <2>2, <1>4
    <3> QED BY <3>1, <2>2, <1>1, <1>2, <1>4 DEF Ahead
  <2> QED BY <2>1, <2>2
<1>6. PICK D \in SUBSET Node, x \in Pointer : D = {} /\ x = front[s]
  BY <1>4
<1>7. Trail(D, x)'
  BY <1>1, <1>2, <1>3, <1>5, <1>6 DEF Trail, Ahead
<1> QED BY <1>7 DEF WalkFinds

LEMMA WalkOnWalk ==
  ASSUME LinkedInv, WalkFinds, walk_on
  PROVE  WalkFinds'
<1>1. PICK D \in SUBSET Node, x \in Pointer : Trail(D, x)
  BY DEF WalkFinds
<1>2. /\ cursor # NULL /\ cursor' = next[cursor] /\ owed' = owed \ {cursor}
      /\ pc' = "return" /\ nodes' = nodes /\ next' = next /\ allocated' = allocated
  BY DEF walk_on, lists, call
<1>3. /\ cursor \in D \cup {x}
      /\ \A d \in D : d <= allocated /\ next[d] \in D \cup {x}
      /\ \A s \in States : \A i \in 1 .. Len(nodes[s]) : nodes[s][i] \notin D
      /\ \/ x = NULL /\ owed = {}
         \/ \E s \in States : Ahead(nodes[s], x, owed)
  BY <1>1 DEF Trail
<1>4. CASE cursor \in D
  <2>1. cursor' \in D \cup {x}
    BY <1>2, <1>3, <1>4
  <2>2. \/ x = NULL /\ owed' = {}
        \/ \E s \in States : Ahead(nodes'[s], x, owed')
    <3>1. \A s \in States : Ahead(nodes[s], x, owed) => Ahead(nodes[s], x, owed \ {cursor})
      BY DEF Ahead
    <3> QED BY <3>1, <1>2, <1>3
  <2>3. Trail(D, x)'
    BY <2>1, <2>2, <1>2, <1>3 DEF Trail, Ahead
  <2> QED BY <2>3 DEF WalkFinds
<1>5. CASE cursor = x
  <2>1. PICK s \in States : Ahead(nodes[s], x, owed)
    BY <1>2, <1>3, <1>5
  <2>2. PICK k \in 1 .. Len(nodes[s]) : x = nodes[s][k]
    BY <2>1 DEF Ahead
  <2>3. /\ nodes[s] \in Seq(Node) /\ Len(nodes[s]) \in Nat
        /\ \A i \in 1 .. Len(nodes[s]) :
             /\ nodes[s][i] \in Node
             /\ next[nodes[s][i]] = IF i = Len(nodes[s]) THEN NULL ELSE nodes[s][i+1]
        /\ \A i, j \in 1 .. Len(nodes[s]) : nodes[s][i] = nodes[s][j] => i = j
    BY ListIs
  <2>4. /\ k = Len(nodes[s]) => owed \ {x} = {}
        /\ k # Len(nodes[s]) => Ahead(nodes[s], nodes[s][k+1], owed \ {x})
    <3>1. Ahead(nodes[s], nodes[s][k], owed)
      BY <2>1, <2>2
    <3>2. /\ k = Len(nodes[s]) => owed \ {nodes[s][k]} = {}
          /\ k # Len(nodes[s]) => Ahead(nodes[s], nodes[s][k+1], owed \ {nodes[s][k]})
      BY <3>1, <2>3, AheadNext
    <3> QED BY <3>2, <2>2
  <2>5. next[x] = IF k = Len(nodes[s]) THEN NULL ELSE nodes[s][k+1]
    BY <2>2, <2>3
  <2>6. PICK E \in SUBSET Node, y \in Pointer : E = {} /\ y = next[x]
    BY <2>2, <2>3 DEF LinkedInv, LinkedTypeOK
  <2>7. \/ y = NULL /\ owed' = {}
        \/ Ahead(nodes'[s], y, owed')
    BY <2>4, <2>5, <2>6, <1>2, <1>5
  <2>8. Trail(E, y)'
    BY <2>6, <2>7, <1>2, <1>5 DEF Trail, Ahead
  <2> QED BY <2>8 DEF WalkFinds
<1> QED BY <1>3, <1>4, <1>5

LEMMA WalkNext == LinkedInv /\ WalkFinds /\ [LinkedNext]_lvars => WalkFinds'
<1> SUFFICES ASSUME LinkedInv, WalkFinds, [LinkedNext]_lvars
             PROVE  WalkFinds'
  OBVIOUS
<1>1. CASE \E p \in Pcb : pcb_insert_call(p)
  BY <1>1, InsertCallWalk
<1>2. CASE enqueue_front \/ enqueue_behind \/ enqueue_reg_append
  BY <1>2, InsertWalk
<1>3. CASE unlink_front \/ unlink_rear \/ unlink_middle
  BY <1>3, UnlinkWalk
<1>4. CASE walk_start \/ walk_on
  BY <1>4, WalkStartWalk, WalkOnWalk
<1>5. CASE \/ \E p \in Pcb : assign(p) \/ pcb_remove_call(p)
           \/ enqueue_scan \/ scan \/ enqueue_reg_again \/ search \/ not_found
           \/ UNCHANGED lvars
  <2>1. UNCHANGED <<next, allocated, walk, nodes>>
    BY <1>5 DEF assign, pcb_remove_call, enqueue_scan, scan, enqueue_reg_again, search,
                not_found, ReturnOnly, lists, lvars
  <2>2. \/ pc' \notin {"enqueue_pri", "scan", "enqueue_reg"}
        \/ pc \in {"enqueue_pri", "scan", "enqueue_reg"}
    BY <1>5 DEF assign, pcb_remove_call, enqueue_scan, scan, enqueue_reg_again, search,
                not_found, ReturnOnly, Returns, call, lvars
  <2> QED BY <2>1, <2>2, QuietWalk
<1> QED BY <1>1, <1>2, <1>3, <1>4, <1>5 DEF LinkedNext, step

\* show_ready and show_blocked miss no process that stays in the queue, although
\* the walk keeps only a pointer while other processes insert and remove: the
\* invariant says where an unlinked node still leads.  It holds because dequeue
\* leaves the pointers of the node it unlinks alone and memory is never used again.
THEOREM WalkShowsEverybody == LinkedSpec => []WalkMissesNobody
<1>1. LinkedInit => WalkFinds
  <2>1. SUFFICES ASSUME LinkedInit
                 PROVE  WalkFinds
    OBVIOUS
  <2>2. PICK D \in SUBSET Node, x \in Pointer : D = {} /\ x = NULL
    BY DEF Pointer
  <2>3. \A s \in States : nodes[s] = <<>> /\ Len(nodes[s]) = 0
    BY <2>1 DEF LinkedInit
  <2>4. Trail(D, x)
    BY <2>1, <2>2, <2>3 DEF Trail, LinkedInit
  <2> QED BY <2>4 DEF WalkFinds
<1>2. LinkedInv /\ WalkFinds => WalkMissesNobody
  <2>1. SUFFICES ASSUME LinkedInv, WalkFinds, cursor = NULL
                 PROVE  owed = {}
    BY DEF WalkMissesNobody
  <2>2. PICK D \in SUBSET Node, x \in Pointer : Trail(D, x)
    BY <2>1 DEF WalkFinds
  <2>3. x = NULL
    BY <2>1, <2>2, NodeAssumption DEF Trail
  <2>4. ASSUME NEW s \in States, Ahead(nodes[s], x, owed)
        PROVE  FALSE
    <3>1. \A k \in 1 .. Len(nodes[s]) : nodes[s][k] # NULL
      BY <2>1, ListIs
    <3> QED BY <3>1, <2>3, <2>4 DEF Ahead
  <2> QED BY <2>2, <2>4 DEF Trail
<1>3. LinkedSpec => []LinkedInv
  BY LinkedInitInv, LinkedNextInv, PTL DEF LinkedSpec
<1> QED BY <1>1, <1>2, <1>3, WalkNext, PTL DEF LinkedSpec

=============================================================================
