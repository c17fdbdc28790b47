--------------------------- MODULE SchedulerProofs ----------------------------
(***************************************************************************)
(* Theorems about Scheduler, for every set of callbacks, hash of theirs,   *)
(* and length of the heap.  What a sift does is proved by induction over   *)
(* the places of the heap, as the absence of a least counterexample.  The  *)
(* last theorem is that the scheduler implements Agenda: the queue it maps *)
(* to is the only line of the nodes that wait, so each step is shown by    *)
(* the line it leaves.  The lemmas on sequences are Agenda's.              *)
(***************************************************************************)
EXTENDS Scheduler, FiniteSetTheorems, SequenceTheorems, TLAPS

-----------------------------------------------------------------------------
(* The order.                                                              *)

Keyed(nd) == \A n \in Node : nd[n].due \in Nat /\ nd[n].seq \in Nat

LEMMA NotSooner ==
  ASSUME NEW nd, Keyed(nd), NEW a \in Node, NEW b \in Node
  PROVE  /\ ~Sooner(nd, a, a)
         /\ Sooner(nd, a, b) => ~Sooner(nd, b, a)
         /\ \A c \in Node : ~Sooner(nd, a, b) /\ ~Sooner(nd, b, c) => ~Sooner(nd, a, c)
BY DEF Keyed, Sooner

LEMMA Above ==
  ASSUME NEW i \in Nat \ {0}
  PROVE  Parent(i) \in Nat /\ Parent(i) < i /\ (i = 2 * Parent(i) + 1 \/ i = 2 * Parent(i) + 2)
BY DEF Parent

LEMMA Below ==
  ASSUME NEW i \in Nat
  PROVE  Parent(2 * i + 1) = i /\ Parent(2 * i + 2) = i
BY DEF Parent

-----------------------------------------------------------------------------
(* A heap of n places, and what its nodes know of them.                    *)

Heaps(n) == [at : [0..n-1 -> Node], slot : [Node -> Nat]]
Knows(h, X) == \A j \in X : h.slot[h.at[j]] = j
Ids(a, X) == {a[j] : j \in X}
InOrder(nd, a, j) == ~Sooner(nd, a[j], a[Parent(j)])

LEMMA Placed ==
  ASSUME NEW N \in Nat, NEW h \in Heaps(N), NEW n \in Node, NEW i \in 0..N-1
  PROVE  /\ Place(h, n, i) \in Heaps(N)
         /\ Place(h, n, i).at[i] = n /\ \A j \in 0..N-1 : j # i => Place(h, n, i).at[j] = h.at[j]
         /\ Place(h, n, i).slot[n] = i /\ \A m \in Node : m # n => Place(h, n, i).slot[m] = h.slot[m]
<1> DEFINE at == [h.at EXCEPT ![i] = n]
           sl == [h.slot EXCEPT ![n] = i]
<1>1. Place(h, n, i) = [h EXCEPT !.at = at, !.slot = sl]
  BY DEF Place
<1>2. h.at \in [0..N-1 -> Node] /\ h.slot \in [Node -> Nat] /\ i \in Nat
  BY DEF Heaps
<1>3. at \in [0..N-1 -> Node] /\ at[i] = n /\ \A j \in 0..N-1 : j # i => at[j] = h.at[j]
  BY <1>2
<1>4. sl \in [Node -> Nat] /\ sl[n] = i /\ \A m \in Node : m # n => sl[m] = h.slot[m]
  BY <1>2
<1> HIDE DEF at, sl
<1>5. Place(h, n, i).at = at /\ Place(h, n, i).slot = sl /\ Place(h, n, i) \in Heaps(N)
  BY <1>1, <1>3, <1>4 DEF Heaps
<1> QED BY <1>3, <1>4, <1>5

\* The node at p moves to k, the place above or below it that was left: what is
\* out of place at i takes k's after p's.
Moved(h, n, i, k, r, N) ==
  /\ r \in Heaps(N) /\ Knows(r, (0..N-1) \ {i})
  /\ Ids(r.at, (0..N-1) \ {i}) = (Ids(h.at, (0..N-1) \ {i}) \ {h.at[k]}) \cup {n}

LEMMA MovesOn ==
  ASSUME NEW N \in Nat, NEW h \in Heaps(N), NEW i \in 0..N-1, Knows(h, 0..N-1),
         NEW k \in 0..N-1, NEW p \in 0..N-1, p # k, p # i,
         NEW r, Moved(h, h.at[i], i, p, r, N), r.at[k] = h.at[k]
  PROVE  LET s == Place(r, h.at[p], k) IN
         /\ k # i => Moved(h, h.at[i], i, k, s, N)
         /\ k = i => s \in Heaps(N) /\ Knows(s, 0..N-1) /\ Ids(s.at, 0..N-1) = Ids(h.at, 0..N-1)
<1> DEFINE s == Place(r, h.at[p], k)
           D == 0..N-1
           n == h.at[i]
<1>1. /\ r \in Heaps(N) /\ Knows(r, D \ {i})
      /\ Ids(r.at, D \ {i}) = (Ids(h.at, D \ {i}) \ {h.at[p]}) \cup {n}
  BY DEF Moved
<1>2. \A j \in D : h.at[j] \in Node /\ r.at[j] \in Node
  BY <1>1 DEF Heaps
<1>3. /\ s \in Heaps(N) /\ s.at[k] = h.at[p] /\ \A j \in D : j # k => s.at[j] = r.at[j]
      /\ s.slot[h.at[p]] = k /\ \A m \in Node : m # h.at[p] => s.slot[m] = r.slot[m]
  <2> DEFINE m == h.at[p]
  <2>1. m \in Node /\ k \in 0..N-1 /\ r \in Heaps(N) /\ N \in Nat
    BY <1>1, <1>2
  <2> HIDE DEF m
  <2>2. /\ Place(r, m, k) \in Heaps(N)
        /\ Place(r, m, k).at[k] = m /\ \A j \in 0..N-1 : j # k => Place(r, m, k).at[j] = r.at[j]
        /\ Place(r, m, k).slot[m] = k /\ \A l \in Node : l # m => Place(r, m, k).slot[l] = r.slot[l]
    BY ONLY <2>1, Placed
  <2> QED BY <2>2 DEF m
<1>4. \A j, l \in D : h.at[j] = h.at[l] => j = l
  BY DEF Knows
<1>5. \A j \in D \ {i} : r.at[j] # h.at[p]
  <2>1. h.at[p] \notin Ids(r.at, D \ {i})
    BY <1>1, <1>4
  <2> QED BY <2>1 DEF Ids
<1> HIDE DEF s, D, n
<1>6. ASSUME NEW j \in D \ {i}, j # k PROVE s.slot[s.at[j]] = j
  BY <1>1, <1>2, <1>3, <1>5, <1>6 DEF Knows
<1>7. ASSUME k # i PROVE Moved(h, n, i, k, s, N)
  <2>1. Knows(s, D \ {i})
    BY <1>3, <1>6 DEF Knows, D
  <2>2. ASSUME NEW j \in D \ {i} PROVE s.at[j] \in (Ids(h.at, D \ {i}) \ {h.at[k]}) \cup {n}
    <3>1. CASE j = k
      BY <1>3, <1>4, <3>1 DEF Ids, D
    <3>2. CASE j # k
      <4>1. s.at[j] = r.at[j] /\ r.at[j] \in Ids(r.at, D \ {i})
        BY <1>3, <3>2 DEF Ids
      <4>2. r.at[j] # r.at[k]
        BY <1>1, <1>7, <3>2 DEF Knows, D
      <4> QED BY <1>1, <4>1, <4>2
    <3> QED BY <3>1, <3>2
  <2>3. ASSUME NEW m \in (Ids(h.at, D \ {i}) \ {h.at[k]}) \cup {n} PROVE m \in Ids(s.at, D \ {i})
    <3>1. CASE m = h.at[p]
      BY <1>3, <1>7, <3>1 DEF Ids, D
    <3>2. CASE m # h.at[p]
      <4>1. PICK j \in D \ {i} : m = r.at[j]
        BY <1>1, <3>2 DEF Ids
      <4>2. j # k
        <5>1. n # h.at[k]
          BY <1>4, <1>7 DEF n, D
        <5> QED BY <2>3, <4>1, <5>1
      <4> QED BY <1>3, <4>1, <4>2 DEF Ids
    <3> QED BY <3>1, <3>2
  <2>4. Ids(s.at, D \ {i}) = (Ids(h.at, D \ {i}) \ {h.at[k]}) \cup {n}
    BY <2>2, <2>3 DEF Ids
  <2> QED BY <1>3, <2>1, <2>4 DEF Moved, D
<1>8. ASSUME k = i PROVE Knows(s, D) /\ Ids(s.at, D) = Ids(h.at, D)
  <2>1. Knows(s, D)
    BY <1>3, <1>6, <1>8 DEF Knows
  <2>2. Ids(s.at, D) = Ids(r.at, D \ {i}) \cup {h.at[p]}
    BY <1>3, <1>8 DEF Ids, D
  <2>3. Ids(h.at, D) = Ids(h.at, D \ {i}) \cup {n}
    BY DEF Ids, n, D
  <2>4. h.at[p] \in Ids(h.at, D \ {i})
    BY DEF Ids, D
  <2> QED BY <1>1, <2>1, <2>2, <2>3, <2>4
<1> QED BY <1>3, <1>7, <1>8 DEF s, D, n

\* What was out of place has found its own.
LEMMA MovesIn ==
  ASSUME NEW N \in Nat, NEW h \in Heaps(N), NEW i \in 0..N-1, Knows(h, 0..N-1), NEW k \in 0..N-1
  PROVE  LET s == Place(h, h.at[i], k) IN
         /\ k # i => Moved(h, h.at[i], i, k, s, N)
         /\ k = i => s \in Heaps(N) /\ Knows(s, 0..N-1) /\ Ids(s.at, 0..N-1) = Ids(h.at, 0..N-1)
<1> DEFINE s == Place(h, h.at[i], k)
           D == 0..N-1
           n == h.at[i]
<1>1. /\ s \in Heaps(N) /\ s.at[k] = n /\ \A j \in D : j # k => s.at[j] = h.at[j]
      /\ s.slot[n] = k /\ \A m \in Node : m # n => s.slot[m] = h.slot[m]
  <2>1. h.at[i] \in Node
    BY DEF Heaps
  <2> QED BY <2>1, Placed
<1>2. \A j, l \in D : h.at[j] = h.at[l] => j = l
  BY DEF Knows
<1>3. \A j \in D : h.at[j] \in Node
  BY DEF Heaps
<1> HIDE DEF s
<1>4. ASSUME NEW j \in D, j # i \/ k = i PROVE s.slot[s.at[j]] = j
  BY <1>1, <1>2, <1>3, <1>4 DEF Knows
<1>5. ASSUME k # i PROVE Ids(s.at, D \ {i}) = (Ids(h.at, D \ {i}) \ {h.at[k]}) \cup {n}
  BY <1>1, <1>2, <1>5 DEF Ids
<1>6. ASSUME k = i PROVE Ids(s.at, D) = Ids(h.at, D)
  BY <1>1, <1>6 DEF Ids
<1> QED BY <1>1, <1>4, <1>5, <1>6 DEF Moved, Knows, s

-----------------------------------------------------------------------------
(* What the sifts return.                                                  *)

UpStep(nd, h, n, f, k) ==
  IF k > 0 /\ Sooner(nd, n, h.at[Parent(k)])
    THEN Place(f[Parent(k)], h.at[Parent(k)], k)
    ELSE Place(h, n, k)

\* The recursive function is there, so it is what its definition says it is.
LEMMA UpIs ==
  ASSUME NEW nd, NEW N \in Nat, NEW h \in Heaps(N), NEW i \in 0..N-1
  PROVE  \E up : /\ SiftUp(nd, h, i) = up[i]
                 /\ \A k \in 0..N-1 : up[k] = UpStep(nd, h, h.at[i], up, k)
<1> DEFINE n == h.at[i]
           G(f, k) == UpStep(nd, h, n, f, k)
           Up(m, f) == f = [k \in 0..m-1 |-> G(f, k)]
           up == CHOOSE f : f = [k \in DOMAIN h.at |->
                   IF k > 0 /\ Sooner(nd, h.at[i], h.at[Parent(k)])
                     THEN Place(f[Parent(k)], h.at[Parent(k)], k)
                     ELSE Place(h, h.at[i], k)]
<1>1. SiftUp(nd, h, i) = up[i]
  BY DEF SiftUp
<1>2. DOMAIN h.at = 0..N-1
  BY DEF Heaps
<1>3. \A f, g : \A k \in Nat : (k > 0 => f[Parent(k)] = g[Parent(k)]) => G(f, k) = G(g, k)
  BY DEF UpStep
<1>4. ASSUME NEW f, f = [k \in 0..N-1 |-> G(f, k)]
      PROVE  up = [k \in 0..N-1 |-> G(up, k)]
  <2>1. up = CHOOSE g : g = [k \in 0..N-1 |-> G(g, k)]
    BY <1>2 DEF UpStep
  <2> HIDE DEF up, G
  <2> QED BY <1>4, <2>1
<1> HIDE DEF G, up, n
<1>5. \A m \in 0..N : \E f : Up(m, f)
  <2> DEFINE T == {m \in 0..N : ~\E f : Up(m, f)}
  <2> SUFFICES ASSUME T # {} PROVE FALSE
    OBVIOUS
  <2>1. PICK m \in T : \A l \in T : m <= l
    <3>1. T \subseteq Nat
      OBVIOUS
    <3> HIDE DEF T
    <3> QED BY <3>1, Promised!Least
  <2>2. CASE m = 0
    <3>1. Up(0, [k \in 0..0-1 |-> 0])
      OBVIOUS
    <3> QED BY <2>1, <2>2, <3>1
  <2>3. CASE m > 0
    <3>1. m - 1 \in 0..N /\ m - 1 \notin T
      BY <2>1, <2>3
    <3>2. PICK f : Up(m - 1, f)
      BY <3>1
    <3> DEFINE g == [k \in 0..m-1 |-> IF k < m - 1 THEN f[k] ELSE G(f, m - 1)]
    <3>3. \A k \in 0..m-1 : g[k] = G(f, k)
      <4>1. \A k \in 0..m-2 : f[k] = G(f, k)
        BY <3>2
      <4> QED BY <4>1, <2>1
    <3>4. ASSUME NEW k \in 0..m-1 PROVE G(f, k) = G(g, k)
      <4>1. ASSUME k > 0 PROVE Parent(k) \in 0..m-2
        BY <4>1, <2>1, Above
      <4>2. \A l \in 0..m-2 : g[l] = f[l]
        BY <2>1
      <4> HIDE DEF g
      <4> QED BY <1>3, <4>1, <4>2
    <3>5. Up(m, g)
      BY <3>3, <3>4
    <3> QED BY <2>1, <3>5
  <2> QED BY <2>1, <2>2, <2>3
<1>6. \E f : Up(N, f)
  BY <1>5
<1>7. up = [k \in 0..N-1 |-> G(up, k)]
  BY <1>4, <1>6
<1>8. \A k \in 0..N-1 : up[k] = G(up, k)
  BY <1>7
<1> QED BY <1>1, <1>8 DEF G, n

\* What the sift up has made of the heap when it has put in order what is at k,
\* above i, and above that.
Rose(nd, h, i, k, r, N) ==
  /\ Moved(h, h.at[i], i, k, r, N)
  /\ \A j \in 0..N-1 : j > k => r.at[j] = h.at[j]
  /\ \A j \in 1..N-1 : j # i /\ Parent(j) # i => InOrder(nd, r.at, j)
  /\ ~Sooner(nd, h.at[k], r.at[k])

Sorted(nd, a, N) == \A j \in 1..N-1 : InOrder(nd, a, j)
SortedBut(nd, a, i, N) == \A j \in 1..N-1 : j # i /\ Parent(j) # i => InOrder(nd, a, j)

LEMMA UpStops ==
  ASSUME NEW nd, Keyed(nd), NEW N \in Nat, NEW h \in Heaps(N), NEW i \in 0..N-1, Knows(h, 0..N-1),
         SortedBut(nd, h.at, i, N), NEW k \in 0..N-1, k < i, Sooner(nd, h.at[i], h.at[k]),
         ~(k > 0 /\ Sooner(nd, h.at[i], h.at[Parent(k)]))
  PROVE  Rose(nd, h, i, k, Place(h, h.at[i], k), N)
<1> DEFINE n == h.at[i]
           s == Place(h, n, k)
<1>1. n \in Node /\ \A j \in 0..N-1 : h.at[j] \in Node
  BY DEF Heaps
<1>2. s.at[k] = n /\ \A j \in 0..N-1 : j # k => s.at[j] = h.at[j]
  BY <1>1, Placed
<1>3. Moved(h, n, i, k, s, N)
  BY MovesIn
<1> HIDE DEF s, n
<1>4. ~Sooner(nd, h.at[k], n)
  BY <1>1, NotSooner DEF n
<1>5. ASSUME NEW j \in 1..N-1, j # i, Parent(j) # i PROVE InOrder(nd, s.at, j)
  <2>1. Parent(j) \in 0..N-1 /\ Parent(j) < j /\ j \in 0..N-1
    BY Above
  <2>2. ~Sooner(nd, h.at[j], h.at[Parent(j)])
    BY <1>5 DEF SortedBut, InOrder
  <2>3. CASE j = k
    BY <1>2, <2>1, <2>3 DEF InOrder, n
  <2>4. CASE Parent(j) = k
    BY <1>1, <1>2, <1>4, <2>1, <2>2, <2>4, NotSooner DEF InOrder
  <2>5. CASE j # k /\ Parent(j) # k
    BY <1>2, <2>1, <2>2, <2>5 DEF InOrder
  <2> QED BY <2>3, <2>4, <2>5
<1> QED BY <1>2, <1>3, <1>4, <1>5 DEF Rose, s, n

LEMMA UpGoesOn ==
  ASSUME NEW nd, Keyed(nd), NEW N \in Nat, NEW h \in Heaps(N), NEW i \in 0..N-1, Knows(h, 0..N-1),
         SortedBut(nd, h.at, i, N), NEW k \in 1..N-1, k < i,
         NEW r, Rose(nd, h, i, Parent(k), r, N)
  PROVE  Rose(nd, h, i, k, Place(r, h.at[Parent(k)], k), N)
<1> DEFINE p == Parent(k)
           m == h.at[p]
           s == Place(r, m, k)
<1>1. \A j \in 0..N-1 : h.at[j] \in Node /\ r.at[j] \in Node
  BY DEF Heaps, Rose, Moved
<1>2. p \in 0..N-1 /\ p < k /\ p # i /\ k \in 0..N-1 /\ k # i /\ r \in Heaps(N)
  BY Above DEF Rose, Moved
<1>3. s.at[k] = m /\ \A j \in 0..N-1 : j # k => s.at[j] = r.at[j]
  <2>1. m \in Node
    BY <1>1, <1>2
  <2> HIDE DEF m, p
  <2> QED BY <1>2, <2>1, Placed
<1>4. /\ Moved(h, h.at[i], i, p, r, N) /\ ~Sooner(nd, m, r.at[p])
      /\ \A j \in 0..N-1 : j > p => r.at[j] = h.at[j]
      /\ \A j \in 1..N-1 : j # i /\ Parent(j) # i => InOrder(nd, r.at, j)
  BY DEF Rose
<1>5. Moved(h, h.at[i], i, k, s, N)
  <2>1. p # k /\ r.at[k] = h.at[k]
    BY <1>2, <1>4
  <2> HIDE DEF p
  <2> QED BY <1>2, <1>4, <2>1, MovesOn
<1> HIDE DEF s
<1>6. ~Sooner(nd, h.at[k], m)
  BY <1>2 DEF SortedBut, InOrder
<1>7. ASSUME NEW j \in 1..N-1, j # i, Parent(j) # i PROVE InOrder(nd, s.at, j)
  <2>1. Parent(j) \in 0..N-1 /\ Parent(j) < j /\ j \in 0..N-1
    BY Above
  <2>2. ~Sooner(nd, h.at[j], h.at[Parent(j)])
    BY <1>7 DEF SortedBut, InOrder
  <2>3. CASE j = k
    BY <1>2, <1>3, <1>4, <2>1, <2>3 DEF InOrder
  <2>4. CASE Parent(j) = k
    <3>1. s.at[j] = h.at[j] /\ s.at[k] = m
      BY <1>2, <1>3, <1>4, <2>1, <2>4
    <3>2. ~Sooner(nd, h.at[j], m)
      BY <1>1, <1>2, <1>6, <2>1, <2>2, <2>4, NotSooner
    <3> QED BY <2>4, <3>1, <3>2 DEF InOrder
  <2>5. CASE j # k /\ Parent(j) # k
    BY <1>3, <1>4, <1>7, <2>1, <2>5 DEF InOrder
  <2> QED BY <2>3, <2>4, <2>5
<1>8. \A j \in 0..N-1 : j > k => s.at[j] = h.at[j]
  BY <1>2, <1>3, <1>4
<1> QED BY <1>3, <1>5, <1>6, <1>7, <1>8 DEF Rose, s

LEMMA SiftUpSorts ==
  ASSUME NEW nd, Keyed(nd), NEW N \in Nat, NEW h \in Heaps(N), NEW i \in 0..N-1, Knows(h, 0..N-1),
         \A j \in 1..N-1 : j # i => InOrder(nd, h.at, j),
         i > 0 => \A j \in 1..N-1 : Parent(j) = i => ~Sooner(nd, h.at[j], h.at[Parent(i)])
  PROVE  LET r == SiftUp(nd, h, i) IN
         r \in Heaps(N) /\ Knows(r, 0..N-1) /\ Ids(r.at, 0..N-1) = Ids(h.at, 0..N-1) /\ Sorted(nd, r.at, N)
<1> DEFINE n == h.at[i]
           p == Parent(i)
<1>0. \E up : /\ SiftUp(nd, h, i) = up[i]
             /\ \A k \in 0..N-1 : up[k] = UpStep(nd, h, h.at[i], up, k)
  BY ONLY N \in Nat, h \in Heaps(N), i \in 0..N-1, UpIs
<1>1. PICK up : /\ SiftUp(nd, h, i) = up[i]
                /\ \A k \in 0..N-1 : up[k] = UpStep(nd, h, h.at[i], up, k)
  BY ONLY <1>0
<1>2. SortedBut(nd, h.at, i, N)
  BY DEF SortedBut
<1>3. \A k \in 0..i-1 : Sooner(nd, n, h.at[k]) => Rose(nd, h, i, k, up[k], N)
  <2> DEFINE T == {k \in 0..i-1 : ~(Sooner(nd, n, h.at[k]) => Rose(nd, h, i, k, up[k], N))}
  <2> SUFFICES ASSUME T # {} PROVE FALSE
    OBVIOUS
  <2>1. PICK k \in T : \A l \in T : k <= l
    <3>1. T \subseteq Nat
      OBVIOUS
    <3> HIDE DEF T
    <3> QED BY <3>1, Promised!Least
  <2>2. k \in 0..N-1 /\ k < i /\ Sooner(nd, n, h.at[k]) /\ ~Rose(nd, h, i, k, up[k], N)
    BY <2>1
  <2>3. up[k] = UpStep(nd, h, n, up, k)
    BY <1>1, <2>2
  <2>4. CASE k > 0 /\ Sooner(nd, n, h.at[Parent(k)])
    <3>1. Parent(k) \in 0..k-1 /\ k \in 1..N-1
      BY <2>2, <2>4, Above
    <3>2. Rose(nd, h, i, Parent(k), up[Parent(k)], N)
      BY <2>1, <2>4, <3>1
    <3>3. up[k] = Place(up[Parent(k)], h.at[Parent(k)], k)
      BY <2>3, <2>4 DEF UpStep
    <3> HIDE DEF n, T
    <3> QED BY <1>2, <2>2, <3>1, <3>2, <3>3, UpGoesOn
  <2>5. CASE ~(k > 0 /\ Sooner(nd, n, h.at[Parent(k)]))
    <3>1. up[k] = Place(h, n, k)
      BY <2>3, <2>5 DEF UpStep
    <3> HIDE DEF T
    <3> QED BY <1>2, <2>2, <2>5, <3>1, UpStops
  <2> QED BY <2>4, <2>5
<1>4. up[i] = UpStep(nd, h, n, up, i)
  BY <1>1
<1>5. \A j \in 0..N-1 : h.at[j] \in Node
  BY DEF Heaps
<1>6. CASE ~(i > 0 /\ Sooner(nd, n, h.at[p]))
  <2>1. up[i] = Place(h, n, i)
    BY <1>4, <1>6 DEF UpStep
  <2> DEFINE s == Place(h, n, i)
  <2>2. s \in Heaps(N) /\ Knows(s, 0..N-1) /\ Ids(s.at, 0..N-1) = Ids(h.at, 0..N-1)
    BY MovesIn
  <2>3. \A j \in 0..N-1 : s.at[j] = h.at[j]
    <3>1. n \in Node
      BY <1>5
    <3>2. s.at[i] = n /\ \A j \in 0..N-1 : j # i => s.at[j] = h.at[j]
      BY <3>1, Placed
    <3> QED BY <3>2
  <2> HIDE DEF s
  <2>4. Sorted(nd, s.at, N)
    <3> SUFFICES ASSUME NEW j \in 1..N-1 PROVE InOrder(nd, s.at, j)
      BY DEF Sorted
    <3>1. Parent(j) \in 0..N-1 /\ j \in 0..N-1
      BY Above
    <3>2. InOrder(nd, h.at, j)
      BY <1>6 DEF InOrder
    <3> QED BY <2>3, <3>1, <3>2 DEF InOrder
  <2> QED BY <1>1, <2>1, <2>2, <2>4 DEF s
<1>7. CASE i > 0 /\ Sooner(nd, n, h.at[p])
  <2> DEFINE m == h.at[p]
             r == up[p]
             s == Place(r, m, i)
  <2>1. up[i] = s
    BY <1>4, <1>7 DEF UpStep
  <2>2. p \in 0..i-1 /\ p \in 0..N-1 /\ p # i
    BY <1>7, Above
  <2>3. Rose(nd, h, i, p, r, N)
    BY <1>3, <1>7, <2>2
  <2>4. /\ Moved(h, n, i, p, r, N) /\ ~Sooner(nd, m, r.at[p])
        /\ \A j \in 0..N-1 : j > p => r.at[j] = h.at[j]
        /\ \A j \in 1..N-1 : j # i /\ Parent(j) # i => InOrder(nd, r.at, j)
    BY <2>3 DEF Rose
  <2>5. s \in Heaps(N) /\ Knows(s, 0..N-1) /\ Ids(s.at, 0..N-1) = Ids(h.at, 0..N-1)
    <3>1. r.at[i] = h.at[i]
      BY <2>2, <2>4
    <3> HIDE DEF p, r
    <3> QED BY <2>2, <2>4, <3>1, MovesOn
  <2>6. s.at[i] = m /\ \A j \in 0..N-1 : j # i => s.at[j] = r.at[j]
    <3>1. m \in Node /\ r \in Heaps(N)
      BY <1>5, <2>2, <2>4 DEF Moved
    <3> HIDE DEF m, r
    <3> QED BY <3>1, Placed
  <2> HIDE DEF s, r
  <2>7. Sorted(nd, s.at, N)
    <3> SUFFICES ASSUME NEW j \in 1..N-1 PROVE InOrder(nd, s.at, j)
      BY DEF Sorted
    <3>1. Parent(j) \in 0..N-1 /\ Parent(j) < j /\ j \in 0..N-1
      BY Above
    <3>2. CASE j = i
      BY <2>2, <2>4, <2>6, <3>1, <3>2 DEF InOrder
    <3>3. CASE Parent(j) = i
      <4>1. s.at[j] = h.at[j]
        BY <2>2, <2>4, <2>6, <3>1, <3>3
      <4> QED BY <1>7, <2>6, <3>3, <4>1 DEF InOrder
    <3>4. CASE j # i /\ Parent(j) # i
      BY <2>4, <2>6, <3>1, <3>4 DEF InOrder
    <3> QED BY <3>2, <3>3, <3>4
  <2> QED BY <1>1, <2>1, <2>5, <2>7
<1> QED BY <1>6, <1>7

SoonestBelow(nd, h, k) ==
  IF 2 * k + 1 + 1 \in DOMAIN h.at /\ Sooner(nd, h.at[2 * k + 1 + 1], h.at[2 * k + 1])
    THEN 2 * k + 1 + 1 ELSE 2 * k + 1
DownStep(nd, h, n, f, k) ==
  IF 2 * k + 1 \in DOMAIN h.at /\ Sooner(nd, h.at[SoonestBelow(nd, h, k)], n)
    THEN Place(f[SoonestBelow(nd, h, k)], h.at[SoonestBelow(nd, h, k)], k)
    ELSE Place(h, n, k)

LEMMA SoonestIs ==
  ASSUME NEW nd, Keyed(nd), NEW N \in Nat, NEW h \in Heaps(N), NEW k \in 0..N-1, 2 * k + 1 \in DOMAIN h.at
  PROVE  LET c == SoonestBelow(nd, h, k) IN
         /\ c \in 1..N-1 /\ c > k /\ c >= 2 * k + 1 /\ Parent(c) = k
         /\ \A j \in 1..N-1 : Parent(j) = k => /\ ~Sooner(nd, h.at[j], h.at[c])
                                               /\ j = c \/ j < 2 * c + 1
<1> DEFINE c == SoonestBelow(nd, h, k)
<1>1. DOMAIN h.at = 0..N-1 /\ \A j \in 0..N-1 : h.at[j] \in Node
  BY DEF Heaps
<1>2. 2 * k + 1 \in 1..N-1 /\ (c = 2 * k + 1 \/ (c = 2 * k + 2 /\ c \in 1..N-1))
  BY <1>1 DEF SoonestBelow
<1>3. Parent(c) = k
  BY <1>2, Below
<1>4. ASSUME NEW j \in 1..N-1, Parent(j) = k PROVE j = 2 * k + 1 \/ j = 2 * k + 2
  BY <1>4, Above
<1>5. ASSUME NEW j \in 1..N-1, Parent(j) = k PROVE ~Sooner(nd, h.at[j], h.at[c])
  <2>1. 2 * k + 1 + 1 = 2 * k + 2
    OBVIOUS
  <2>2. CASE 2 * k + 2 \in 0..N-1 /\ Sooner(nd, h.at[2 * k + 2], h.at[2 * k + 1])
    <3>1. c = 2 * k + 2
      BY <1>1, <2>1, <2>2 DEF SoonestBelow
    <3> QED BY <1>1, <1>2, <1>4, <1>5, <2>2, <3>1, NotSooner
  <2>3. CASE ~(2 * k + 2 \in 0..N-1 /\ Sooner(nd, h.at[2 * k + 2], h.at[2 * k + 1]))
    <3>1. c = 2 * k + 1
      BY <1>1, <2>1, <2>3 DEF SoonestBelow
    <3> QED BY <1>1, <1>2, <1>4, <1>5, <2>3, <3>1, NotSooner
  <2> QED BY <2>2, <2>3
<1> HIDE DEF c
<1>6. \A j \in 1..N-1 : Parent(j) = k => j = c \/ j < 2 * c + 1
  BY <1>2, <1>4
<1>7. c \in 1..N-1 /\ c > k /\ c >= 2 * k + 1
  BY <1>2
<1> QED BY <1>3, <1>5, <1>6, <1>7 DEF c

LEMMA DownIs ==
  ASSUME NEW nd, NEW N \in Nat, NEW h \in Heaps(N), NEW i \in 0..N-1
  PROVE  \E down : /\ SiftDown(nd, h, i) = down[i]
                   /\ \A k \in 0..N-1 : down[k] = DownStep(nd, h, h.at[i], down, k)
<1> DEFINE n == h.at[i]
           G(f, k) == DownStep(nd, h, n, f, k)
           Down(m, f) == f = [k \in N-m..N-1 |-> G(f, k)]
           C(k) == LET c == 2 * k + 1
                   IN IF c + 1 \in DOMAIN h.at /\ Sooner(nd, h.at[c + 1], h.at[c])
                        THEN c + 1 ELSE c
           down == CHOOSE f : f = [k \in DOMAIN h.at |->
                     IF 2 * k + 1 \in DOMAIN h.at /\ Sooner(nd, h.at[C(k)], h.at[i])
                       THEN Place(f[C(k)], h.at[C(k)], k)
                       ELSE Place(h, h.at[i], k)]
<1>1. SiftDown(nd, h, i) = down[i]
  BY DEF SiftDown
<1>2. DOMAIN h.at = 0..N-1
  BY DEF Heaps
<1>3. ASSUME NEW f, NEW g, NEW k \in 0..N-1, \A l \in k+1..N-1 : f[l] = g[l] PROVE G(f, k) = G(g, k)
  <2>1. CASE 2 * k + 1 \in DOMAIN h.at
    <3>1. SoonestBelow(nd, h, k) \in k+1..N-1
      BY <1>2, <2>1 DEF SoonestBelow
    <3> QED BY <1>3, <2>1, <3>1 DEF DownStep
  <2>2. CASE 2 * k + 1 \notin DOMAIN h.at
    BY <2>2 DEF DownStep
  <2> QED BY <2>1, <2>2
<1>4. ASSUME NEW f, f = [k \in 0..N-1 |-> G(f, k)]
      PROVE  down = [k \in 0..N-1 |-> G(down, k)]
  <2>1. down = CHOOSE g : g = [k \in 0..N-1 |-> G(g, k)]
    BY <1>2 DEF DownStep, SoonestBelow
  <2> HIDE DEF down, G
  <2> QED BY <1>4, <2>1
<1> HIDE DEF G, down, n
<1>5. \A m \in 0..N : \E f : Down(m, f)
  <2> DEFINE T == {m \in 0..N : ~\E f : Down(m, f)}
  <2> SUFFICES ASSUME T # {} PROVE FALSE
    OBVIOUS
  <2>1. PICK m \in T : \A l \in T : m <= l
    <3>1. T \subseteq Nat
      OBVIOUS
    <3> HIDE DEF T
    <3> QED BY <3>1, Promised!Least
  <2>2. CASE m = 0
    <3>1. Down(0, [k \in N-0..N-1 |-> 0])
      OBVIOUS
    <3> QED BY <2>1, <2>2, <3>1
  <2>3. CASE m > 0
    <3>1. m - 1 \in 0..N /\ m - 1 \notin T /\ N - (m - 1) = N - m + 1
      BY <2>1, <2>3
    <3>2. PICK f : Down(m - 1, f)
      BY <3>1
    <3> DEFINE g == [k \in N-m..N-1 |-> IF k > N - m THEN f[k] ELSE G(f, N - m)]
    <3>3. \A k \in N-m..N-1 : g[k] = G(f, k)
      <4>1. \A k \in N-m+1..N-1 : f[k] = G(f, k)
        BY <3>1, <3>2
      <4> QED BY <4>1, <2>1
    <3>4. ASSUME NEW k \in N-m..N-1 PROVE G(f, k) = G(g, k)
      <4>1. k \in 0..N-1 /\ \A l \in k+1..N-1 : l \in N-m..N-1 /\ l > N - m
        BY <2>1
      <4>2. \A l \in k+1..N-1 : g[l] = f[l]
        BY <4>1
      <4> HIDE DEF g
      <4> QED BY <1>3, <4>1, <4>2
    <3>5. Down(m, g)
      BY <3>3, <3>4
    <3> QED BY <2>1, <3>5
  <2> QED BY <2>1, <2>2, <2>3
<1>6. \E f : Down(N, f)
  BY <1>5
<1>7. down = [k \in 0..N-1 |-> G(down, k)]
  <2>1. N - N = 0
    OBVIOUS
  <2> QED BY <1>4, <1>6, <2>1
<1>8. \A k \in 0..N-1 : down[k] = G(down, k)
  BY <1>7
<1> QED BY <1>1, <1>8 DEF G, n

\* What the sift down has made of the heap when it has put in order what is at
\* k, below i, and below that.
Sank(nd, h, i, k, r, N) ==
  /\ Moved(h, h.at[i], i, k, r, N)
  /\ \A j \in 0..N-1 : j < 2 * k + 1 /\ j # k => r.at[j] = h.at[j]
  /\ \A j \in 1..N-1 : j # i /\ Parent(j) # i => InOrder(nd, r.at, j)
  /\ ~Sooner(nd, r.at[k], h.at[k])

\* None below k is sooner than the node that stops there.
LEMMA NoneSooner ==
  ASSUME NEW nd, Keyed(nd), NEW N \in Nat, NEW h \in Heaps(N), NEW n \in Node, NEW k \in 0..N-1,
         ~(2 * k + 1 \in DOMAIN h.at /\ Sooner(nd, h.at[SoonestBelow(nd, h, k)], n)),
         NEW j \in 1..N-1, Parent(j) = k
  PROVE  ~Sooner(nd, h.at[j], n)
<1> DEFINE c == SoonestBelow(nd, h, k)
<1>1. DOMAIN h.at = 0..N-1 /\ \A l \in 0..N-1 : h.at[l] \in Node
  BY DEF Heaps
<1>2. 2 * k + 1 \in DOMAIN h.at
  <2>1. j = 2 * k + 1 \/ j = 2 * k + 2
    BY Above
  <2> QED BY <1>1, <2>1
<1>3. c \in 1..N-1 /\ ~Sooner(nd, h.at[j], h.at[c])
  BY <1>2, SoonestIs
<1>4. ~Sooner(nd, h.at[c], n)
  BY <1>2
<1> HIDE DEF c
<1>5. h.at[j] \in Node /\ h.at[c] \in Node
  BY <1>1, <1>3
<1> QED BY <1>3, <1>4, <1>5, NotSooner

LEMMA DownStops ==
  ASSUME NEW nd, Keyed(nd), NEW N \in Nat, NEW h \in Heaps(N), NEW i \in 0..N-1, Knows(h, 0..N-1),
         SortedBut(nd, h.at, i, N), NEW k \in 0..N-1, k # i, Sooner(nd, h.at[k], h.at[i]),
         ~(2 * k + 1 \in DOMAIN h.at /\ Sooner(nd, h.at[SoonestBelow(nd, h, k)], h.at[i]))
  PROVE  Sank(nd, h, i, k, Place(h, h.at[i], k), N)
<1> DEFINE n == h.at[i]
           s == Place(h, n, k)
<1>1. n \in Node /\ \A j \in 0..N-1 : h.at[j] \in Node
  BY DEF Heaps
<1>2. s.at[k] = n /\ \A j \in 0..N-1 : j # k => s.at[j] = h.at[j]
  BY <1>1, Placed
<1>3. Moved(h, n, i, k, s, N)
  BY MovesIn
<1>4. \A j \in 1..N-1 : Parent(j) = k => ~Sooner(nd, h.at[j], n)
  BY <1>1, NoneSooner
<1> HIDE DEF s, n
<1>5. ~Sooner(nd, n, h.at[k])
  BY <1>1, NotSooner DEF n
<1>6. ASSUME NEW j \in 1..N-1, j # i, Parent(j) # i PROVE InOrder(nd, s.at, j)
  <2>1. Parent(j) \in 0..N-1 /\ Parent(j) < j /\ j \in 0..N-1
    BY Above
  <2>2. ~Sooner(nd, h.at[j], h.at[Parent(j)])
    BY <1>6 DEF SortedBut, InOrder
  <2>3. CASE j = k
    BY <1>1, <1>2, <1>5, <2>1, <2>2, <2>3, NotSooner DEF InOrder
  <2>4. CASE Parent(j) = k
    BY <1>2, <1>4, <2>1, <2>4 DEF InOrder
  <2>5. CASE j # k /\ Parent(j) # k
    BY <1>2, <2>1, <2>2, <2>5 DEF InOrder
  <2> QED BY <2>3, <2>4, <2>5
<1> QED BY <1>2, <1>3, <1>5, <1>6 DEF Sank, s, n

LEMMA DownGoesOn ==
  ASSUME NEW nd, Keyed(nd), NEW N \in Nat, NEW h \in Heaps(N), NEW i \in 0..N-1, Knows(h, 0..N-1),
         SortedBut(nd, h.at, i, N), NEW k \in 0..N-1, i < k, 2 * k + 1 \in DOMAIN h.at,
         NEW r, Sank(nd, h, i, SoonestBelow(nd, h, k), r, N)
  PROVE  Sank(nd, h, i, k, Place(r, h.at[SoonestBelow(nd, h, k)], k), N)
<1> DEFINE c == SoonestBelow(nd, h, k)
           m == h.at[c]
           s == Place(r, m, k)
<1>1. \A j \in 0..N-1 : h.at[j] \in Node /\ r.at[j] \in Node
  BY DEF Heaps, Sank, Moved
<1>2. /\ c \in 1..N-1 /\ c > k /\ c >= 2 * k + 1 /\ Parent(c) = k
      /\ \A j \in 1..N-1 : Parent(j) = k => /\ ~Sooner(nd, h.at[j], m)
                                            /\ j = c \/ j < 2 * c + 1
  BY SoonestIs
<1>3. /\ Moved(h, h.at[i], i, c, r, N) /\ ~Sooner(nd, r.at[c], m)
      /\ \A j \in 0..N-1 : j < 2 * c + 1 /\ j # c => r.at[j] = h.at[j]
      /\ \A j \in 1..N-1 : j # i /\ Parent(j) # i => InOrder(nd, r.at, j)
  BY DEF Sank
<1> HIDE DEF c
<1>4. c \in 0..N-1 /\ c # k /\ c # i /\ k # i /\ k \in 1..N-1 /\ r \in Heaps(N)
  BY <1>2, <1>3 DEF Moved
<1>5. s.at[k] = m /\ \A j \in 0..N-1 : j # k => s.at[j] = r.at[j]
  <2>1. m \in Node
    BY <1>1, <1>4
  <2> HIDE DEF m
  <2> QED BY <1>4, <2>1, Placed
<1>6. Moved(h, h.at[i], i, k, s, N)
  <2>1. r.at[k] = h.at[k]
    BY <1>2, <1>3, <1>4
  <2> QED BY <1>3, <1>4, <2>1, MovesOn
<1>7. ~Sooner(nd, m, h.at[k])
  BY <1>2, <1>4 DEF SortedBut, InOrder
<1> HIDE DEF s
<1>8. ASSUME NEW j \in 1..N-1, j # i, Parent(j) # i PROVE InOrder(nd, s.at, j)
  <2>1. Parent(j) \in 0..N-1 /\ Parent(j) < j /\ j \in 0..N-1
    BY Above
  <2>2. ~Sooner(nd, h.at[j], h.at[Parent(j)])
    BY <1>8 DEF SortedBut, InOrder
  <2>3. CASE j = k
    <3>1. s.at[j] = m /\ s.at[Parent(j)] = h.at[Parent(j)]
      BY <1>2, <1>3, <1>4, <1>5, <2>1, <2>3
    <3>2. m \in Node
      BY <1>1, <1>4
    <3>3. ~Sooner(nd, m, h.at[Parent(j)])
      BY <1>1, <1>7, <2>1, <2>2, <2>3, <3>2, NotSooner
    <3> QED BY <3>1, <3>3 DEF InOrder
  <2>4. CASE Parent(j) = k
    <3>1. s.at[Parent(j)] = m /\ j # k
      BY <1>5, <2>1, <2>4
    <3>2. ~Sooner(nd, s.at[j], m)
      <4>1. CASE j = c
        BY <1>3, <1>5, <2>1, <3>1, <4>1
      <4>2. CASE j # c
        <5>1. s.at[j] = h.at[j]
          BY <1>2, <1>3, <1>5, <2>1, <2>4, <3>1, <4>2
        <5> QED BY <1>2, <2>4, <5>1
      <4> QED BY <4>1, <4>2
    <3> QED BY <3>1, <3>2 DEF InOrder
  <2>5. CASE j # k /\ Parent(j) # k
    BY <1>3, <1>5, <1>8, <2>1, <2>5 DEF InOrder
  <2> QED BY <2>3, <2>4, <2>5
<1>9. \A j \in 0..N-1 : j < 2 * k + 1 /\ j # k => s.at[j] = h.at[j]
  BY <1>2, <1>3, <1>4, <1>5
<1> QED BY <1>5, <1>6, <1>7, <1>8, <1>9 DEF Sank, s, c

LEMMA SiftDownSorts ==
  ASSUME NEW nd, Keyed(nd), NEW N \in Nat, NEW h \in Heaps(N), NEW i \in 0..N-1, Knows(h, 0..N-1),
         SortedBut(nd, h.at, i, N), i > 0 => InOrder(nd, h.at, i),
         i > 0 => \A j \in 1..N-1 : Parent(j) = i => ~Sooner(nd, h.at[j], h.at[Parent(i)])
  PROVE  LET r == SiftDown(nd, h, i) IN
         r \in Heaps(N) /\ Knows(r, 0..N-1) /\ Ids(r.at, 0..N-1) = Ids(h.at, 0..N-1) /\ Sorted(nd, r.at, N)
<1> DEFINE n == h.at[i]
           C(k) == SoonestBelow(nd, h, k)
           On(k) == 2 * k + 1 \in DOMAIN h.at /\ Sooner(nd, h.at[C(k)], n)
<1>0. \E down : /\ SiftDown(nd, h, i) = down[i]
                /\ \A k \in 0..N-1 : down[k] = DownStep(nd, h, h.at[i], down, k)
  BY ONLY N \in Nat, h \in Heaps(N), i \in 0..N-1, DownIs
<1>1. PICK down : /\ SiftDown(nd, h, i) = down[i]
                  /\ \A k \in 0..N-1 : down[k] = DownStep(nd, h, h.at[i], down, k)
  BY ONLY <1>0
<1>2. DOMAIN h.at = 0..N-1 /\ \A j \in 0..N-1 : h.at[j] \in Node
  BY DEF Heaps
<1>3. \A k \in 0..N-1 : /\ On(k) => down[k] = Place(down[C(k)], h.at[C(k)], k)
                        /\ ~On(k) => down[k] = Place(h, n, k)
  BY <1>1 DEF DownStep
<1>4. \A k \in i+1..N-1 : Sooner(nd, h.at[k], n) => Sank(nd, h, i, k, down[k], N)
  <2> DEFINE B(l) == /\ l \in 0..N-1 /\ N - 1 - l > i
                     /\ ~(Sooner(nd, h.at[N-1-l], n) => Sank(nd, h, i, N-1-l, down[N-1-l], N))
             T == {l \in 0..N-1 : B(l)}
  <2>1. CASE T = {}
    <3> SUFFICES ASSUME NEW k \in i+1..N-1 PROVE Sooner(nd, h.at[k], n) => Sank(nd, h, i, k, down[k], N)
      OBVIOUS
    <3>1. N - 1 - k \in 0..N-1 /\ N - 1 - (N - 1 - k) = k
      OBVIOUS
    <3>2. ~B(N - 1 - k)
      BY <2>1, <3>1
    <3> QED BY <3>1, <3>2
  <2>2. CASE T # {}
    <3>1. PICK l \in T : \A m \in T : l <= m
      <4>1. T \subseteq Nat
        OBVIOUS
      <4> HIDE DEF T
      <4> QED BY <2>2, <4>1, Promised!Least
    <3> DEFINE k == N - 1 - l
    <3>2. k \in 0..N-1 /\ i < k /\ Sooner(nd, h.at[k], n) /\ ~Sank(nd, h, i, k, down[k], N) /\ l = N - 1 - k
      BY <3>1
    <3>3. CASE On(k)
      <4>1. 2 * k + 1 \in DOMAIN h.at
        BY <3>3
      <4>2. C(k) \in 1..N-1 /\ C(k) > k
        BY <3>2, <4>1, SoonestIs
      <4>3. Sank(nd, h, i, C(k), down[C(k)], N)
        <5> DEFINE c == C(k)
        <5>1. Sooner(nd, h.at[c], n)
          BY <3>3
        <5>2. N - 1 - c \in 0..N-1 /\ N - 1 - (N - 1 - c) = c /\ c > i /\ N - 1 - c < l
          <6> HIDE DEF c, T
          <6> QED BY <3>2, <4>2 DEF c
        <5>3. N - 1 - c \notin T
          <6> HIDE DEF T, c
          <6>1. l \in Nat
            BY <3>2
          <6> QED BY <3>1, <5>2, <6>1
        <5> HIDE DEF c
        <5>4. ~B(N - 1 - c)
          BY <5>2, <5>3
        <5> QED BY <5>1, <5>2, <5>4 DEF c
      <4>4. down[k] = Place(down[C(k)], h.at[C(k)], k)
        BY <1>3, <3>2, <3>3
      <4> DEFINE r == down[C(k)]
      <4>5. Sank(nd, h, i, k, Place(r, h.at[SoonestBelow(nd, h, k)], k), N)
        <5>1. Sank(nd, h, i, SoonestBelow(nd, h, k), r, N)
          BY <4>3
        <5> HIDE DEF T, B, k, C, r, On, n
        <5> QED BY <3>2, <4>1, <5>1, DownGoesOn
      <4> QED BY <3>2, <4>4, <4>5
    <3>4. CASE ~On(k)
      <4>1. down[k] = Place(h, n, k)
        BY <1>3, <3>2, <3>4
      <4>2. ~(2 * k + 1 \in DOMAIN h.at /\ Sooner(nd, h.at[SoonestBelow(nd, h, k)], h.at[i])) /\ k # i
        BY <3>2, <3>4
      <4> HIDE DEF T, B, k, C, On
      <4> QED BY <3>2, <4>1, <4>2, DownStops
    <3> QED BY <3>3, <3>4
  <2> QED BY <2>1, <2>2
<1>5. ASSUME NEW j \in 1..N-1 PROVE Parent(j) \in 0..N-1 /\ Parent(j) < j /\ j \in 0..N-1
  BY Above
<1>6. CASE ~On(i)
  <2> DEFINE s == Place(h, n, i)
  <2>1. down[i] = s
    BY <1>3, <1>6
  <2>2. s \in Heaps(N) /\ Knows(s, 0..N-1) /\ Ids(s.at, 0..N-1) = Ids(h.at, 0..N-1)
    BY MovesIn
  <2>3. \A j \in 0..N-1 : s.at[j] = h.at[j]
    <3>1. n \in Node
      BY <1>2
    <3>2. s.at[i] = n /\ \A j \in 0..N-1 : j # i => s.at[j] = h.at[j]
      BY <3>1, Placed
    <3> QED BY <3>2
  <2>4. \A j \in 1..N-1 : Parent(j) = i => ~Sooner(nd, h.at[j], n)
    BY <1>2, <1>6, NoneSooner
  <2> HIDE DEF s
  <2>5. Sorted(nd, s.at, N)
    <3> SUFFICES ASSUME NEW j \in 1..N-1 PROVE InOrder(nd, s.at, j)
      BY DEF Sorted
    <3>1. InOrder(nd, h.at, j)
      BY <2>4 DEF InOrder, SortedBut
    <3> QED BY <1>5, <2>3, <3>1 DEF InOrder
  <2> QED BY <1>1, <2>1, <2>2, <2>5 DEF s
<1>7. CASE On(i)
  <2> DEFINE c == C(i)
             m == h.at[c]
             r == down[c]
             s == Place(r, m, i)
  <2>1. down[i] = s
    BY <1>3, <1>7
  <2>2. /\ c \in 1..N-1 /\ c > i /\ c >= 2 * i + 1 /\ Parent(c) = i
        /\ \A j \in 1..N-1 : Parent(j) = i => /\ ~Sooner(nd, h.at[j], m)
                                              /\ j = c \/ j < 2 * c + 1
    BY <1>7, SoonestIs
  <2>3. Sank(nd, h, i, c, r, N)
    <3>1. Sooner(nd, m, n)
      BY <1>7
    <3> HIDE DEF C
    <3>2. c \in i+1..N-1
      BY <2>2
    <3> QED BY <1>4, <3>1, <3>2
  <2> HIDE DEF c
  <2>4. /\ Moved(h, n, i, c, r, N) /\ ~Sooner(nd, r.at[c], m)
        /\ \A j \in 0..N-1 : j < 2 * c + 1 /\ j # c => r.at[j] = h.at[j]
        /\ \A j \in 1..N-1 : j # i /\ Parent(j) # i => InOrder(nd, r.at, j)
    BY <2>3 DEF Sank
  <2>5. s \in Heaps(N) /\ Knows(s, 0..N-1) /\ Ids(s.at, 0..N-1) = Ids(h.at, 0..N-1)
    <3>1. r.at[i] = h.at[i] /\ c # i /\ c \in 0..N-1
      BY <2>2, <2>4
    <3> HIDE DEF r
    <3> QED BY <2>4, <3>1, MovesOn
  <2>6. s.at[i] = m /\ \A j \in 0..N-1 : j # i => s.at[j] = r.at[j]
    <3>1. m \in Node /\ r \in Heaps(N)
      BY <1>2, <2>2, <2>4 DEF Moved
    <3> HIDE DEF m, r
    <3> QED BY <3>1, Placed
  <2> HIDE DEF s, r
  <2>7. Sorted(nd, s.at, N)
    <3> SUFFICES ASSUME NEW j \in 1..N-1 PROVE InOrder(nd, s.at, j)
      BY DEF Sorted
    <3>1. CASE j = i
      <4>1. s.at[j] = m /\ s.at[Parent(j)] = h.at[Parent(j)]
        BY <1>5, <2>2, <2>4, <2>6, <3>1
      <4>2. ~Sooner(nd, m, h.at[Parent(i)])
        BY <2>2, <3>1
      <4> QED BY <3>1, <4>1, <4>2 DEF InOrder
    <3>2. CASE Parent(j) = i
      <4>1. s.at[Parent(j)] = m /\ j # i /\ s.at[j] = r.at[j]
        BY <1>5, <2>6, <3>2
      <4>2. ~Sooner(nd, r.at[j], m)
        <5>1. CASE j = c
          BY <2>4, <5>1
        <5>2. CASE j # c
          <6>1. r.at[j] = h.at[j]
            BY <1>5, <2>2, <2>4, <3>2, <5>2
          <6> QED BY <2>2, <3>2, <6>1
        <5> QED BY <5>1, <5>2
      <4> QED BY <4>1, <4>2 DEF InOrder
    <3>3. CASE j # i /\ Parent(j) # i
      BY <1>5, <2>4, <2>6, <3>3 DEF InOrder
    <3> QED BY <3>1, <3>2, <3>3
  <2> QED BY <1>1, <2>1, <2>5, <2>7
<1> QED BY <1>6, <1>7

\* One node out of place, those below it not sooner than the one above it: the
\* sift puts it in its place, and loses and doubles none.
LEMMA SiftSorts ==
  ASSUME NEW nd, Keyed(nd), NEW N \in Nat, NEW h \in Heaps(N), NEW i \in 0..N-1, Knows(h, 0..N-1),
         SortedBut(nd, h.at, i, N),
         i > 0 => \A j \in 1..N-1 : Parent(j) = i => ~Sooner(nd, h.at[j], h.at[Parent(i)])
  PROVE  LET r == Sift(nd, h, i) IN
         r \in Heaps(N) /\ Knows(r, 0..N-1) /\ Ids(r.at, 0..N-1) = Ids(h.at, 0..N-1) /\ Sorted(nd, r.at, N)
<1>1. \A j \in 0..N-1 : h.at[j] \in Node
  BY DEF Heaps
<1>2. CASE i > 0 /\ Sooner(nd, h.at[i], h.at[Parent(i)])
  <2>1. Sift(nd, h, i) = SiftUp(nd, h, i)
    BY <1>2 DEF Sift
  <2>2. ASSUME NEW j \in 1..N-1, j # i PROVE InOrder(nd, h.at, j)
    <3>1. CASE Parent(j) = i
      <4>1. Parent(i) \in 0..N-1 /\ j \in 0..N-1
        BY <1>2, Above
      <4>2. h.at[j] \in Node /\ h.at[i] \in Node /\ h.at[Parent(i)] \in Node
        BY <1>1, <4>1
      <4>3. ~Sooner(nd, h.at[j], h.at[Parent(i)]) /\ ~Sooner(nd, h.at[Parent(i)], h.at[i])
        BY <1>2, <3>1, <4>2, NotSooner
      <4>4. ~Sooner(nd, h.at[j], h.at[i])
        BY <4>2, <4>3, NotSooner
      <4> QED BY <3>1, <4>4 DEF InOrder
    <3>2. CASE Parent(j) # i
      BY <2>2, <3>2 DEF SortedBut
    <3> QED BY <3>1, <3>2
  <2> QED BY <2>1, <2>2, SiftUpSorts
<1>3. CASE ~(i > 0 /\ Sooner(nd, h.at[i], h.at[Parent(i)]))
  <2>1. Sift(nd, h, i) = SiftDown(nd, h, i)
    BY <1>3 DEF Sift
  <2>2. i > 0 => InOrder(nd, h.at, i)
    BY <1>3 DEF InOrder
  <2> QED BY <2>1, <2>2, SiftDownSorts
<1> QED BY <1>2, <1>3

-----------------------------------------------------------------------------
(* The inductive invariant.                                                *)

\* The heap is an array, and the table one of chains.
Arrays == /\ heapN \in Nat /\ hashSize \in Nat
          /\ heap \in [0..heapN-1 -> Node]

\* What is in the heap has a callback; of the rest only the one that runs.
InUse ==
  /\ \A n \in Node : node[n] # Free <=> n \in Scheduled \/ n = running
  /\ running \notin Scheduled
  /\ doing = "callback" <=> running # NoNode

\* Each chain has those of the heap whose callback hashes to it.
Chained == \A i \in DOMAIN bucket : bucket[i] = {n \in Scheduled : Chain(node[n].what, hashSize) = i}

\* No callback is there twice, and none without a table to find it in.
Once == /\ \A a, b \in Scheduled : node[a].what = node[b].what => a = b
        /\ hashSize = 0 => Scheduled = {}

SInv == /\ TypeOK /\ Arrays /\ HeapOrder /\ SlotsAgree
        /\ InUse /\ Chained /\ Once

\* A heap of the nodes of X, in order.
Heaped(nd, h, N, X) ==
  /\ h \in Heaps(N) /\ Knows(h, 0..N-1) /\ Ids(h.at, 0..N-1) = X /\ Sorted(nd, h.at, N)

LEMMA HeapedIs ==
  ASSUME NEW nd, NEW at, NEW sl, NEW N \in Nat, NEW X, Heaped(nd, [at |-> at, slot |-> sl], N, X)
  PROVE  /\ at \in [0..N-1 -> Node] /\ sl \in [Node -> Nat]
         /\ DOMAIN at = 0..N-1 /\ Cardinality(DOMAIN at) = N
         /\ {at[i] : i \in DOMAIN at} = X /\ X \subseteq Node
         /\ \A i \in DOMAIN at : sl[at[i]] = i
         /\ \A i \in DOMAIN at \ {0} : ~Sooner(nd, at[i], at[Parent(i)])
<1>1. at \in [0..N-1 -> Node] /\ sl \in [Node -> Nat]
  BY DEF Heaped, Heaps
<1>2. DOMAIN at = 0..N-1 /\ Cardinality(0..N-1) = N
  <2>1. Cardinality(0..N-1) = IF 0 > N - 1 THEN 0 ELSE N - 1 - 0 + 1
    BY FS_Interval
  <2> QED BY <1>1, <2>1
<1>3. \A i \in 0..N-1 : sl[at[i]] = i
  BY DEF Heaped, Knows
<1>4. \A i \in 1..N-1 : ~Sooner(nd, at[i], at[Parent(i)])
  BY DEF Heaped, Sorted, InOrder
<1>5. {at[i] : i \in 0..N-1} = X
  BY DEF Heaped, Ids
<1> QED BY <1>1, <1>2, <1>3, <1>4, <1>5

TheHeap == [at |-> heap, slot |-> slot]

LEMMA HeapIs ==
  ASSUME SInv PROVE Heaped(node, TheHeap, heapN, Scheduled) /\ heapN \in Nat /\ Keyed(node)
<1>1. heapN \in Nat /\ heap \in [0..heapN-1 -> Node] /\ DOMAIN heap = 0..heapN-1 /\ slot \in [Node -> Nat]
  BY DEF SInv, Arrays, TypeOK
<1>2. TheHeap \in Heaps(heapN)
  BY <1>1 DEF TheHeap, Heaps
<1>3. Knows(TheHeap, 0..heapN-1)
  BY <1>1 DEF SInv, SlotsAgree, TheHeap, Knows
<1>4. Ids(TheHeap.at, 0..heapN-1) = Scheduled
  BY <1>1 DEF Scheduled, TheHeap, Ids
<1>5. Sorted(node, TheHeap.at, heapN)
  BY <1>1 DEF SInv, HeapOrder, Sorted, InOrder, TheHeap
<1>6. Keyed(node)
  BY DEF Keyed, SInv, TypeOK, Free
<1> QED BY <1>1, <1>2, <1>3, <1>4, <1>5, <1>6 DEF Heaped

\* The places and the nodes in them are one to one.
LEMMA PlaceOf ==
  ASSUME SInv, NEW n \in Scheduled
  PROVE  n \in Node /\ slot[n] \in 0..heapN-1 /\ heap[slot[n]] = n
BY DEF SInv, Arrays, TypeOK, SlotsAgree, Scheduled

LEMMA MoveSorts ==
  ASSUME SInv, NEW n \in Scheduled, NEW nd, Keyed(nd), \A m \in Node : m # n => nd[m] = node[m]
  PROVE  Heaped(nd, Sift(nd, TheHeap, slot[n]), heapN, Scheduled)
<1> DEFINE i == slot[n]
           N == heapN
           h == TheHeap
<1>1. n \in Node /\ i \in 0..N-1 /\ h.at[i] = n
  BY PlaceOf DEF TheHeap
<1>2. h \in Heaps(N) /\ Knows(h, 0..N-1) /\ Ids(h.at, 0..N-1) = Scheduled /\ Sorted(node, h.at, N)
      /\ N \in Nat /\ Keyed(node)
  BY HeapIs DEF Heaped
<1> HIDE DEF i, N, h
<1>3. \A j \in 0..N-1 : h.at[j] \in Node /\ (j # i => h.at[j] # n)
  BY <1>1, <1>2 DEF Heaps, Knows
<1>4. ASSUME NEW j \in 1..N-1 PROVE Parent(j) \in 0..N-1 /\ Parent(j) < j /\ j \in 0..N-1
  BY <1>2, Above
<1>5. \A j, l \in 0..N-1 : j # i /\ l # i => (Sooner(nd, h.at[j], h.at[l]) <=> Sooner(node, h.at[j], h.at[l]))
  BY <1>3 DEF Sooner
<1>6. SortedBut(nd, h.at, i, N)
  BY <1>2, <1>4, <1>5 DEF SortedBut, Sorted, InOrder
<1>7. ASSUME i > 0, NEW j \in 1..N-1, Parent(j) = i PROVE ~Sooner(nd, h.at[j], h.at[Parent(i)])
  <2>1. i \in 1..N-1
    BY <1>1, <1>7
  <2>2. Parent(i) \in 0..N-1 /\ Parent(i) # i /\ j \in 0..N-1 /\ j # i
    BY <1>4, <1>7, <2>1
  <2>3. ~Sooner(node, h.at[j], h.at[i]) /\ ~Sooner(node, h.at[i], h.at[Parent(i)])
    BY <1>2, <1>7, <2>1 DEF Sorted, InOrder
  <2>4. ~Sooner(node, h.at[j], h.at[Parent(i)])
    BY <1>1, <1>2, <1>3, <2>2, <2>3, NotSooner
  <2> QED BY <1>5, <2>2, <2>4
<1>8. Heaped(nd, Sift(nd, h, i), N, Scheduled)
  <2>1. i > 0 => \A j \in 1..N-1 : Parent(j) = i => ~Sooner(nd, h.at[j], h.at[Parent(i)])
    BY <1>7
  <2>2. LET r == Sift(nd, h, i) IN
        r \in Heaps(N) /\ Knows(r, 0..N-1) /\ Ids(r.at, 0..N-1) = Ids(h.at, 0..N-1) /\ Sorted(nd, r.at, N)
    BY ONLY <1>1, <1>2, <1>6, <2>1, Keyed(nd), SiftSorts
  <2> QED BY <1>2, <2>2 DEF Heaped
<1> QED BY <1>8 DEF i, N, h

LEMMA TookSorts ==
  ASSUME SInv, NEW n \in Scheduled
  PROVE  heapN \in Nat \ {0} /\ Heaped(node, Took(n), heapN - 1, Scheduled \ {n})
<1> DEFINE i == slot[n]
           N == heapN - 1
           at == [j \in 0..heapN-2 |-> heap[j]]
           h == [at |-> at, slot |-> slot]
           last == heap[heapN - 1]
           s == Place(h, last, i)
           D == 0..N-1
<1>1. n \in Node /\ i \in 0..N /\ heap[i] = n
  BY PlaceOf, HeapIs
<1>2. /\ \A j \in 0..N : heap[j] \in Node /\ slot[heap[j]] = j
      /\ slot \in [Node -> Nat] /\ heapN \in Nat /\ N \in Nat /\ Keyed(node) /\ heapN = N + 1
      /\ Scheduled = {heap[j] : j \in 0..N}
      /\ \A j \in 1..N : ~Sooner(node, heap[j], heap[Parent(j)])
  <2>1. /\ TheHeap \in Heaps(heapN) /\ Knows(TheHeap, 0..heapN-1) /\ Ids(TheHeap.at, 0..heapN-1) = Scheduled
        /\ Sorted(node, TheHeap.at, heapN) /\ heapN \in Nat /\ Keyed(node)
    BY HeapIs DEF Heaped
  <2>2. heapN > 0 /\ heapN = N + 1 /\ N \in Nat
    BY <1>1, <2>1
  <2>3. TheHeap.at = heap /\ TheHeap.slot = slot
    BY DEF TheHeap
  <2>4. heap \in [0..N -> Node] /\ slot \in [Node -> Nat]
    BY <2>1, <2>3 DEF Heaps
  <2>5. \A j \in 0..N : slot[heap[j]] = j
    BY <2>1, <2>3 DEF Knows
  <2>6. Scheduled = {heap[j] : j \in 0..N}
    BY <2>1, <2>3 DEF Ids
  <2>7. \A j \in 1..N : ~Sooner(node, heap[j], heap[Parent(j)])
    BY <2>1, <2>3 DEF Sorted, InOrder
  <2> QED BY <2>1, <2>2, <2>4, <2>5, <2>6, <2>7
<1>3. at \in [D -> Node] /\ \A j \in D : at[j] = heap[j]
  BY <1>2
<1>4. h \in Heaps(N) /\ h.at = at /\ h.slot = slot
  BY <1>2, <1>3 DEF Heaps
<1>5. Took(n) = IF i = N THEN h ELSE Sift(node, s, i)
  BY DEF Took
<1>6. ASSUME NEW j \in 1..N PROVE Parent(j) \in 0..N-1 /\ Parent(j) < j /\ j \in 0..N
  BY <1>2, Above
<1> HIDE DEF i, N, h, at, last, s
<1>7. CASE i = N
  <2>1. Knows(h, D)
    BY <1>2, <1>3, <1>4 DEF Knows
  <2>2. Ids(h.at, D) = Scheduled \ {n}
    BY <1>1, <1>2, <1>3, <1>4, <1>7 DEF Ids
  <2>3. Sorted(node, h.at, N)
    <3> SUFFICES ASSUME NEW j \in 1..N-1 PROVE InOrder(node, h.at, j)
      BY DEF Sorted
    <3>1. j \in 1..N /\ j \in D /\ Parent(j) \in D
      BY <1>2, <1>6
    <3> QED BY <1>2, <1>3, <1>4, <3>1 DEF InOrder
  <2> QED BY <1>2, <1>4, <1>5, <1>7, <2>1, <2>2, <2>3 DEF Heaped, N
<1>8. CASE i # N
  <2>1. i \in D /\ last \in Node /\ last = heap[N] /\ slot[last] = N
    BY <1>1, <1>2, <1>8 DEF last, N
  <2>2. /\ s \in Heaps(N) /\ s.at[i] = last /\ \A j \in D : j # i => s.at[j] = heap[j]
        /\ s.slot[last] = i /\ \A m \in Node : m # last => s.slot[m] = slot[m]
    <3>1. /\ s \in Heaps(N) /\ s.at[i] = last /\ \A j \in D : j # i => s.at[j] = h.at[j]
          /\ s.slot[last] = i /\ \A m \in Node : m # last => s.slot[m] = h.slot[m]
      BY <1>2, <1>4, <2>1, Placed DEF s
    <3> QED BY <1>3, <1>4, <3>1
  <2>3. Knows(s, D)
    <3> SUFFICES ASSUME NEW j \in D PROVE s.slot[s.at[j]] = j
      BY DEF Knows
    <3>1. CASE j = i
      BY <2>2, <3>1
    <3>2. CASE j # i
      <4>1. s.at[j] = heap[j] /\ heap[j] \in Node /\ slot[heap[j]] = j /\ j # N
        BY <1>2, <2>2, <3>2
      <4>2. heap[j] # last
        BY <2>1, <4>1
      <4> QED BY <2>2, <4>1, <4>2
    <3> QED BY <3>1, <3>2
  <2>4. Ids(s.at, D) = Scheduled \ {n}
    <3>1. ASSUME NEW j \in D PROVE s.at[j] \in Scheduled \ {n}
      <4>1. CASE j = i
        BY <1>1, <1>2, <1>8, <2>1, <2>2, <4>1
      <4>2. CASE j # i
        BY <1>1, <1>2, <2>2, <4>2
      <4> QED BY <4>1, <4>2
    <3>2. ASSUME NEW m \in Scheduled \ {n} PROVE \E j \in D : m = s.at[j]
      <4>1. PICK j \in 0..N : m = heap[j]
        BY <1>2
      <4>2. j # i
        BY <1>1, <3>2, <4>1
      <4>3. CASE j = N
        BY <2>1, <2>2, <4>1, <4>3
      <4>4. CASE j # N
        BY <1>2, <2>2, <4>1, <4>2, <4>4
      <4> QED BY <4>3, <4>4
    <3> QED BY <3>1, <3>2 DEF Ids
  <2>5. SortedBut(node, s.at, i, N)
    <3> SUFFICES ASSUME NEW j \in 1..N-1, j # i, Parent(j) # i PROVE InOrder(node, s.at, j)
      BY DEF SortedBut
    <3>1. j \in 1..N /\ j \in D /\ Parent(j) \in D
      BY <1>2, <1>6
    <3> QED BY <1>2, <2>2, <3>1 DEF InOrder
  <2>6. ASSUME i > 0, NEW j \in 1..N-1, Parent(j) = i PROVE ~Sooner(node, s.at[j], s.at[Parent(i)])
    <3>1. i \in 1..N /\ j \in 1..N
      BY <1>1, <1>2, <2>6
    <3>2. Parent(i) \in D /\ Parent(i) # i /\ j \in D /\ j # i
      BY <1>2, <1>6, <2>6, <3>1
    <3>3. s.at[j] = heap[j] /\ s.at[Parent(i)] = heap[Parent(i)]
      BY <2>2, <3>2
    <3>4. ~Sooner(node, heap[j], heap[i]) /\ ~Sooner(node, heap[i], heap[Parent(i)])
      BY <1>2, <2>6, <3>1
    <3>5. heap[i] \in Node /\ heap[j] \in Node /\ heap[Parent(i)] \in Node
      BY <1>1, <1>2, <3>2
    <3> QED BY <1>2, <3>3, <3>4, <3>5, NotSooner
  <2>7. Heaped(node, Sift(node, s, i), N, Scheduled \ {n})
    <3>1. i > 0 => \A j \in 1..N-1 : Parent(j) = i => ~Sooner(node, s.at[j], s.at[Parent(i)])
      BY <2>6
    <3>2. LET r == Sift(node, s, i) IN
          r \in Heaps(N) /\ Knows(r, 0..N-1) /\ Ids(r.at, 0..N-1) = Ids(s.at, 0..N-1) /\ Sorted(node, r.at, N)
      BY ONLY <1>2, <2>1, <2>2, <2>3, <2>5, <3>1, SiftSorts
    <3> QED BY <2>4, <3>2 DEF Heaped
  <2> QED BY <1>2, <1>5, <1>8, <2>7 DEF N
<1> QED BY <1>7, <1>8

WithNode(n) == [at |-> [i \in 0..heapN |-> IF i = heapN THEN n ELSE heap[i]],
                slot |-> [slot EXCEPT ![n] = heapN]]

LEMMA AddSorts ==
  ASSUME SInv, NEW n \in Node, n \notin Scheduled,
         NEW nd, Keyed(nd), \A m \in Node : m # n => nd[m] = node[m]
  PROVE  Heaped(nd, SiftUp(nd, WithNode(n), heapN), heapN + 1, Scheduled \cup {n})
<1> DEFINE i == heapN
           N == heapN + 1
           h == WithNode(n)
           at == [j \in 0..heapN |-> IF j = heapN THEN n ELSE heap[j]]
           sl == [slot EXCEPT ![n] = heapN]
           D == 0..N-1
<1>1. /\ \A j \in 0..heapN-1 : heap[j] \in Node /\ slot[heap[j]] = j
      /\ slot \in [Node -> Nat] /\ heapN \in Nat /\ Keyed(node)
      /\ Scheduled = {heap[j] : j \in 0..heapN-1}
      /\ \A j \in 1..heapN-1 : ~Sooner(node, heap[j], heap[Parent(j)])
  <2>1. /\ TheHeap \in Heaps(heapN) /\ Knows(TheHeap, 0..heapN-1) /\ Ids(TheHeap.at, 0..heapN-1) = Scheduled
        /\ Sorted(node, TheHeap.at, heapN) /\ heapN \in Nat /\ Keyed(node)
    BY HeapIs DEF Heaped
  <2>2. TheHeap.at = heap /\ TheHeap.slot = slot
    BY DEF TheHeap
  <2>3. heap \in [0..heapN-1 -> Node] /\ slot \in [Node -> Nat]
    BY <2>1, <2>2 DEF Heaps
  <2>4. \A j \in 0..heapN-1 : slot[heap[j]] = j
    BY <2>1, <2>2 DEF Knows
  <2>5. Scheduled = {heap[j] : j \in 0..heapN-1}
    BY <2>1, <2>2 DEF Ids
  <2>6. \A j \in 1..heapN-1 : ~Sooner(node, heap[j], heap[Parent(j)])
    BY <2>1, <2>2 DEF Sorted, InOrder
  <2> QED BY <2>1, <2>3, <2>4, <2>5, <2>6
<1>2. N \in Nat /\ i \in D /\ i \in Nat /\ N = i + 1 /\ D = 0..i
  BY <1>1
<1>3. at \in [D -> Node] /\ at[i] = n /\ \A j \in 0..i-1 : at[j] = heap[j]
  BY <1>1
<1>4. sl \in [Node -> Nat] /\ sl[n] = i /\ \A m \in Node : m # n => sl[m] = slot[m]
  BY <1>1
<1>5. h = [at |-> at, slot |-> sl]
  BY DEF WithNode
<1> HIDE DEF at, sl, h, i, N
<1>6. h \in Heaps(N) /\ h.at = at /\ h.slot = sl
  BY <1>3, <1>4, <1>5 DEF Heaps
<1>7. \A j \in 0..i-1 : heap[j] \in Node /\ heap[j] # n /\ slot[heap[j]] = j
  BY <1>1 DEF i
<1>8. Knows(h, D)
  BY <1>2, <1>3, <1>4, <1>6, <1>7 DEF Knows
<1>9. Ids(h.at, D) = Scheduled \cup {n}
  <2>1. Scheduled = {heap[j] : j \in 0..i-1}
    BY <1>1 DEF i
  <2> QED BY <1>2, <1>3, <1>6, <2>1 DEF Ids
<1>10. ASSUME NEW j \in 1..N-1, j # i PROVE InOrder(nd, h.at, j)
  <2>1. j \in 1..i-1 /\ Parent(j) \in 0..i-1 /\ j \in 0..i-1
    BY <1>2, <1>10, Above
  <2>2. ~Sooner(node, heap[j], heap[Parent(j)])
    BY <1>1, <2>1 DEF i
  <2>3. ~Sooner(nd, heap[j], heap[Parent(j)])
    BY <1>7, <2>1, <2>2 DEF Sooner
  <2> QED BY <1>3, <1>6, <2>1, <2>3 DEF InOrder
<1>11. ASSUME NEW j \in 1..N-1 PROVE Parent(j) # i
  BY <1>2, Above
<1>12. LET r == SiftUp(nd, h, i) IN
       r \in Heaps(N) /\ Knows(r, 0..N-1) /\ Ids(r.at, 0..N-1) = Ids(h.at, 0..N-1) /\ Sorted(nd, r.at, N)
  <2>1. \A j \in 1..N-1 : j # i => InOrder(nd, h.at, j)
    BY <1>10
  <2>2. i > 0 => \A j \in 1..N-1 : Parent(j) = i => ~Sooner(nd, h.at[j], h.at[Parent(i)])
    BY <1>11
  <2> QED BY ONLY <1>2, <1>6, <1>8, <2>1, <2>2, Keyed(nd), SiftUpSorts
<1>13. Heaped(nd, SiftUp(nd, h, i), N, Scheduled \cup {n})
  BY <1>9, <1>12 DEF Heaped
<1> QED BY <1>13 DEF i, N, h

-----------------------------------------------------------------------------
(* What the table finds.                                                   *)

LEMMA NodesHave ==
  ASSUME SInv
  PROVE  /\ \A n \in Scheduled : /\ n \in Node /\ node[n] \in [what : Pair, due : Nat, seq : Nat]
                                 /\ Chain(node[n].what, hashSize) \in DOMAIN bucket
                                 /\ hashSize \in Nat \ {0}
         /\ \A p \in Pair : hashSize # 0 => Chain(p, hashSize) \in DOMAIN bucket
         /\ DOMAIN bucket = 0..hashSize-1 /\ hashSize \in Nat
         /\ UNION {bucket[j] : j \in DOMAIN bucket} = Scheduled
<1>1. \A n \in Scheduled : n \in Node /\ node[n] \in [what : Pair, due : Nat, seq : Nat]
  BY PlaceOf DEF SInv, TypeOK, InUse
<1>2. DOMAIN bucket = 0..hashSize-1 /\ hashSize \in Nat
  BY DEF SInv, TypeOK, Arrays
<1>3. \A p \in Pair : hashSize # 0 => Chain(p, hashSize) \in DOMAIN bucket
  BY <1>2, SchedulerAssumption DEF Chain
<1>4. \A n \in Scheduled : hashSize # 0 /\ Chain(node[n].what, hashSize) \in DOMAIN bucket
  BY <1>1, <1>3 DEF SInv, Once
<1>5. UNION {bucket[j] : j \in DOMAIN bucket} = Scheduled
  BY <1>4 DEF SInv, Chained
<1> QED BY <1>1, <1>2, <1>3, <1>4, <1>5

LEMMA FindIs ==
  ASSUME SInv
  PROVE  /\ \A n \in Scheduled : Find(node[n].what) = n
         /\ \A p \in Pair : Find(p) = NoNode \/ (Find(p) \in Scheduled /\ node[Find(p)].what = p)
         /\ \A p \in Pair : Find(p) = NoNode => \A n \in Scheduled : node[n].what # p
<1>1. ASSUME NEW p \in Pair, NEW n \in Scheduled, node[n].what = p PROVE Find(p) = n
  <2>1. hashSize # 0 /\ Chain(p, hashSize) \in DOMAIN bucket
    BY <1>1, NodesHave
  <2>2. {m \in bucket[Chain(p, hashSize)] : node[m].what = p} = {n}
    BY <1>1, <2>1 DEF SInv, Chained, Once
  <2> QED BY <2>1, <2>2 DEF Find
<1>2. ASSUME NEW p \in Pair, \A n \in Scheduled : node[n].what # p PROVE Find(p) = NoNode
  <2>1. hashSize # 0 => Chain(p, hashSize) \in DOMAIN bucket
    BY NodesHave
  <2>2. hashSize # 0 => {m \in bucket[Chain(p, hashSize)] : node[m].what = p} = {}
    BY <1>2, <2>1 DEF SInv, Chained
  <2> QED BY <2>2 DEF Find
<1>3. \A n \in Scheduled : n # NoNode /\ node[n].what \in Pair
  BY NodesHave, SchedulerAssumption DEF Node
<1> QED BY <1>1, <1>2, <1>3

LEMMA FreshIs == ASSUME SInv PROVE Fresh \in Node /\ node[Fresh] = Free
<1> DEFINE S == {n \in Node : node[n] = Free}
           P == Cardinality(Pair)
<1>1. IsFiniteSet(Pair) /\ P \in Nat
  BY SchedulerAssumption, FS_CardinalityType
<1>2. IsFiniteSet(Scheduled) /\ Cardinality(Scheduled) <= P
  <2> DEFINE f == [n \in Scheduled |-> node[n].what]
  <2>1. f \in [Scheduled -> Pair]
    BY NodesHave
  <2>2. \A a, b \in Scheduled : f[a] = f[b] => a = b
    BY DEF SInv, Once
  <2>3. f \in Injection(Scheduled, Pair)
    BY <2>1, <2>2 DEF Injection, IsInjective
  <2> HIDE DEF f
  <2> QED BY <1>1, <2>3, FS_Injection
<1>3. S # {}
  <2> SUFFICES ASSUME S = {} PROVE FALSE
    OBVIOUS
  <2>1. Node \subseteq Scheduled \cup {running}
    BY DEF SInv, InUse
  <2>2. IsFiniteSet(Scheduled \cup {running}) /\ Cardinality(Scheduled \cup {running}) <= P + 1
    <3>1. Cardinality(Scheduled) \in Nat
      BY <1>2, FS_CardinalityType
    <3>2. /\ IsFiniteSet(Scheduled \cup {running})
          /\ Cardinality(Scheduled \cup {running})
               = IF running \in Scheduled THEN Cardinality(Scheduled) ELSE Cardinality(Scheduled) + 1
      BY <1>2, FS_AddElement
    <3> QED BY <1>1, <1>2, <3>1, <3>2
  <2>3. Cardinality(Node) <= Cardinality(Scheduled \cup {running})
    BY <2>1, <2>2, FS_Subset
  <2>4. Cardinality(Node) = P + 2
    BY <1>1, FS_Interval DEF Node
  <2>5. Cardinality(Scheduled \cup {running}) \in Nat
    BY <2>2, FS_CardinalityType
  <2> QED BY <1>1, <2>2, <2>3, <2>4, <2>5
<1>4. \E n \in S : \A m \in S : n <= m
  <2>1. S \subseteq Nat
    BY <1>1 DEF Node
  <2> HIDE DEF S
  <2> QED BY <1>3, <2>1, Promised!Least
<1>5. Fresh \in S
  BY <1>4 DEF Fresh, Min
<1> QED BY <1>5

-----------------------------------------------------------------------------
(* The steps.                                                              *)

LEMMA HeapedAs ==
  ASSUME NEW nd, NEW h, NEW N \in Nat, NEW X, Heaped(nd, h, N, X),
         NEW to, NEW at, at = h.at, NEW sl \in [Node -> Nat],
         \A m \in X : to[m] = nd[m] /\ sl[m] = h.slot[m]
  PROVE  Heaped(to, [at |-> at, slot |-> sl], N, X)
<1> DEFINE r == [at |-> at, slot |-> sl]
<1>1. h.at \in [0..N-1 -> Node] /\ r.at = at /\ r.slot = sl
  BY DEF Heaped, Heaps
<1>2. \A j \in 0..N-1 : at[j] \in X /\ h.slot[at[j]] = j
  BY DEF Heaped, Ids, Knows
<1>3. r \in Heaps(N) /\ Knows(r, 0..N-1) /\ Ids(r.at, 0..N-1) = X
  BY SMTT(60), <1>1, <1>2 DEF Heaps, Knows, Ids, Heaped
<1>4. ASSUME NEW j \in 1..N-1 PROVE InOrder(to, r.at, j)
  <2>1. Parent(j) \in 0..N-1 /\ j \in 0..N-1
    BY Above
  <2>2. ~Sooner(nd, at[j], at[Parent(j)])
    BY DEF Heaped, Sorted, InOrder
  <2> QED BY <1>1, <1>2, <2>1, <2>2 DEF InOrder, Sooner
<1> QED BY <1>3, <1>4 DEF Heaped, Sorted

LEMMA KeepsIf ==
  ASSUME NEW N \in Nat, NEW X, Heaped(node', [at |-> heap', slot |-> slot'], N, X),
         node' \in [Node -> {Free} \cup [what : Pair, due : Nat, seq : Nat]],
         NEW size \in Nat, DOMAIN bucket' = 0..size-1,
         \A i \in 0..size-1 : bucket'[i] = {n \in X : Chain(node'[n].what, size) = i},
         N <= room', {room', nextSeq', clock', begun'} \subseteq Nat,
         doing' \in {"loop", "round", "callback"}, running' \in Node \cup {NoNode},
         \A n \in Node : node'[n] # Free <=> n \in X \/ n = running',
         running' \notin X, doing' = "callback" <=> running' # NoNode,
         \A a, b \in X : node'[a].what = node'[b].what => a = b,
         size = 0 => X = {}
  PROVE  SInv'
<1>1. /\ heap' \in [0..N-1 -> Node] /\ slot' \in [Node -> Nat]
      /\ DOMAIN heap' = 0..N-1 /\ Cardinality(DOMAIN heap') = N
      /\ {heap'[i] : i \in DOMAIN heap'} = X /\ X \subseteq Node
      /\ \A i \in DOMAIN heap' : slot'[heap'[i]] = i
      /\ \A i \in DOMAIN heap' \ {0} : ~Sooner(node', heap'[i], heap'[Parent(i)])
  BY HeapedIs
<1>2. heapN' = N /\ Scheduled' = X
  BY <1>1 DEF heapN, Scheduled
<1>3. hashSize' = size
  <2>1. Cardinality(0..size-1) = IF 0 > size - 1 THEN 0 ELSE size - 1 - 0 + 1
    BY FS_Interval
  <2> QED BY <2>1 DEF hashSize
<1>4. Arrays' /\ HeapOrder' /\ SlotsAgree'
  BY <1>1, <1>2, <1>3 DEF Arrays, HeapOrder, SlotsAgree
<1>5. TypeOK'
  BY <1>1, <1>2, <1>3 DEF TypeOK
<1>6. InUse' /\ Chained' /\ Once'
  BY <1>2, <1>3 DEF InUse, Chained, Once
<1> QED BY <1>4, <1>5, <1>6 DEF SInv

LEMMA InitHolds == Init => SInv
<1> SUFFICES ASSUME Init PROVE SInv
  OBVIOUS
<1>1. Cardinality({}) = 0
  BY FS_EmptySet
<1>2. DOMAIN heap = {} /\ DOMAIN bucket = {}
  BY DEF Init
<1>3. heapN = 0 /\ hashSize = 0 /\ Scheduled = {}
  BY <1>1, <1>2 DEF heapN, hashSize, Scheduled
<1>4. heap \in [0..heapN-1 -> Node]
  <2>1. heap = [i \in 0..-1 |-> 0]
    BY DEF Init
  <2> QED BY <1>3, <2>1
<1>5. TypeOK
  BY <1>2, <1>3 DEF Init, TypeOK
<1>6. Arrays /\ HeapOrder /\ SlotsAgree
  BY <1>2, <1>3, <1>4 DEF Arrays, HeapOrder, SlotsAgree
<1>7. InUse
  BY <1>3, SchedulerAssumption DEF Init, InUse, Node
<1>8. Chained /\ Once
  BY <1>2, <1>3 DEF Chained, Once
<1> QED BY <1>5, <1>6, <1>7, <1>8 DEF SInv

\* One node less in the heap and in the table.
LEMMA TakenOut ==
  ASSUME SInv, NEW n \in Scheduled, heap' = Took(n).at, bucket' = Unlink(n),
         slot' \in [Node -> Nat],
         \A m \in Scheduled \ {n} : slot'[m] = Took(n).slot[m] /\ node'[m] = node[m],
         node' \in [Node -> {Free} \cup [what : Pair, due : Nat, seq : Nat]],
         room' = room, {nextSeq', clock', begun'} \subseteq Nat,
         doing' \in {"loop", "round", "callback"}, running' \in Node \cup {NoNode},
         \A m \in Node : node'[m] # Free <=> m \in Scheduled \ {n} \/ m = running',
         running' \notin Scheduled \ {n}, doing' = "callback" <=> running' # NoNode
  PROVE  SInv'
<1> DEFINE X == Scheduled \ {n}
           N == heapN - 1
<1>1. heapN \in Nat \ {0} /\ N \in Nat /\ Heaped(node, Took(n), N, X)
  BY TookSorts
<1>2. Heaped(node', [at |-> heap', slot |-> slot'], N, X)
  <2> HIDE DEF X, N
  <2>1. \A m \in X : node'[m] = node[m] /\ slot'[m] = Took(n).slot[m]
    BY DEF X
  <2> QED BY <1>1, <2>1, HeapedAs
<1>3. /\ n \in Node /\ Chain(node[n].what, hashSize) \in DOMAIN bucket
      /\ DOMAIN bucket = 0..hashSize-1 /\ hashSize \in Nat /\ hashSize # 0
  BY NodesHave
<1>4. DOMAIN bucket' = 0..hashSize-1
  BY <1>3 DEF Unlink
<1>5. ASSUME NEW i \in 0..hashSize-1 PROVE bucket'[i] = {m \in X : Chain(node'[m].what, hashSize) = i}
  <2>1. bucket[i] = {m \in Scheduled : Chain(node[m].what, hashSize) = i}
    BY <1>3, <1>5 DEF SInv, Chained
  <2>2. bucket'[i] = IF i = Chain(node[n].what, hashSize) THEN bucket[i] \ {n} ELSE bucket[i]
    BY <1>3, <1>5 DEF Unlink
  <2>3. bucket'[i] = {m \in X : Chain(node[m].what, hashSize) = i}
    BY <2>1, <2>2
  <2> QED BY <2>3
<1>6. N <= room' /\ room' \in Nat
  BY <1>1 DEF SInv, TypeOK
<1>7. \A a, b \in X : node'[a].what = node'[b].what => a = b
  BY DEF SInv, Once
<1>8. {room', nextSeq', clock', begun'} \subseteq Nat
  BY <1>6
<1> HIDE DEF X, N
<1>9. \A m \in Node : node'[m] # Free <=> m \in X \/ m = running'
  BY DEF X
<1>10. running' \notin X
  BY DEF X
<1>11. /\ node' \in [Node -> {Free} \cup [what : Pair, due : Nat, seq : Nat]]
       /\ doing' \in {"loop", "round", "callback"} /\ running' \in Node \cup {NoNode}
       /\ (doing' = "callback" <=> running' # NoNode)
  OBVIOUS
<1>12. N \in Nat /\ hashSize \in Nat /\ (hashSize = 0 => X = {})
  BY <1>1, <1>3
<1> QED BY ONLY <1>2, <1>4, <1>5, <1>6, <1>7, <1>8, <1>9, <1>10, <1>11, <1>12, KeepsIf

LEMMA UnscheduleKeeps == ASSUME SInv, NEW p \in Pair, Unschedule(p) PROVE SInv'
<1> DEFINE n == Find(p)
<1>1. n \in Scheduled /\ n \in Node
  BY FindIs, PlaceOf DEF Unschedule
<1>2. /\ heap' = Took(n).at /\ slot' = [Took(n).slot EXCEPT ![n] = 0] /\ bucket' = Unlink(n)
      /\ node' = [node EXCEPT ![n] = Free] /\ room' = room /\ nextSeq' = nextSeq
      /\ doing' = doing /\ running' = running /\ begun' = begun /\ clock' = clock
  BY DEF Unschedule, Asking, run
<1> HIDE DEF n
<1>3. Took(n).slot \in [Node -> Nat]
  BY <1>1, TookSorts DEF Heaped, Heaps
<1>4. slot' \in [Node -> Nat] /\ \A m \in Scheduled \ {n} : slot'[m] = Took(n).slot[m] /\ node'[m] = node[m]
  BY <1>1, <1>2, <1>3, PlaceOf DEF SInv, TypeOK
<1>5. node' \in [Node -> {Free} \cup [what : Pair, due : Nat, seq : Nat]]
  BY <1>1, <1>2 DEF SInv, TypeOK
<1>6. {nextSeq', clock', begun'} \subseteq Nat /\ doing' \in {"loop", "round", "callback"}
      /\ running' \in Node \cup {NoNode}
  BY <1>2 DEF SInv, TypeOK
<1>7. /\ \A m \in Node : node'[m] # Free <=> m \in Scheduled \ {n} \/ m = running'
      /\ running' \notin Scheduled \ {n} /\ (doing' = "callback" <=> running' # NoNode)
  BY <1>1, <1>2 DEF SInv, TypeOK, InUse
<1> QED BY <1>1, <1>2, <1>4, <1>5, <1>6, <1>7, TakenOut

LEMMA RunOneKeeps == ASSUME SInv, RunOne PROVE SInv'
<1> DEFINE n == heap[0]
<1>1. n \in Scheduled /\ n \in Node
  <2>1. 0 \in DOMAIN heap
    BY DEF RunOne, DueNow, SInv, TypeOK, Arrays
  <2> QED BY <2>1, PlaceOf DEF Scheduled
<1>2. /\ heap' = Took(n).at /\ slot' = Took(n).slot /\ bucket' = Unlink(n)
      /\ node' = node /\ room' = room /\ nextSeq' = nextSeq
      /\ doing' = "callback" /\ running' = n /\ begun' = begun /\ clock' = clock /\ doing = "round"
  BY DEF RunOne, SetHeap
<1> HIDE DEF n
<1>3. slot' \in [Node -> Nat]
  BY <1>1, <1>2, TookSorts DEF Heaped, Heaps
<1>4. /\ node' \in [Node -> {Free} \cup [what : Pair, due : Nat, seq : Nat]]
      /\ {nextSeq', clock', begun'} \subseteq Nat
  BY <1>2 DEF SInv, TypeOK
<1>5. running = NoNode /\ n # NoNode
  BY <1>1, <1>2, SchedulerAssumption DEF SInv, InUse, Node
<1>6. \A m \in Node : node'[m] # Free <=> m \in Scheduled \ {n} \/ m = running'
  BY <1>1, <1>2, <1>5, SchedulerAssumption DEF SInv, InUse, Node
<1> QED BY <1>1, <1>2, <1>3, <1>4, <1>5, <1>6, TakenOut

LEMMA CallbackReturnsKeeps == ASSUME SInv, CallbackReturns PROVE SInv'
<1>1. /\ heap' = heap /\ room' = room /\ bucket' = bucket /\ nextSeq' = nextSeq /\ clock' = clock
      /\ node' = [node EXCEPT ![running] = Free] /\ slot' = [slot EXCEPT ![running] = 0]
      /\ running' = NoNode /\ doing' \in {"loop", "round"} /\ begun' \in {0, begun} /\ doing = "callback"
  BY DEF CallbackReturns
<1>2. running \in Node /\ running \notin Scheduled
  BY <1>1 DEF SInv, InUse, TypeOK
<1>3. /\ node' \in [Node -> {Free} \cup [what : Pair, due : Nat, seq : Nat]]
      /\ \A n \in Node : node'[n] = IF n = running THEN Free ELSE node[n]
      /\ slot' \in [Node -> Nat] /\ \A n \in Node : n # running => slot'[n] = slot[n]
  BY <1>1, <1>2 DEF SInv, TypeOK
<1>4. Heaped(node, TheHeap, heapN, Scheduled) /\ heapN \in Nat
  BY HeapIs
<1>5. Heaped(node', [at |-> heap', slot |-> slot'], heapN, Scheduled)
  <2>1. TheHeap.at = heap' /\ TheHeap.slot = slot
    BY <1>1 DEF TheHeap
  <2>2. \A n \in Scheduled : node'[n] = node[n] /\ slot'[n] = TheHeap.slot[n]
    BY <1>2, <1>3, <2>1, PlaceOf
  <2> QED BY <1>3, <1>4, <2>1, <2>2, HeapedAs
<1>6. DOMAIN bucket' = 0..hashSize-1 /\ hashSize \in Nat /\ (hashSize = 0 => Scheduled = {})
  BY <1>1 DEF SInv, TypeOK, Arrays, Once
<1>7. \A i \in 0..hashSize-1 : bucket'[i] = {n \in Scheduled : Chain(node'[n].what, hashSize) = i}
  <2>1. \A n \in Scheduled : node'[n] = node[n]
    BY <1>2, <1>3, PlaceOf
  <2> QED BY <1>1, <1>6, <2>1 DEF SInv, Chained
<1>8. /\ heapN <= room' /\ {room', nextSeq', clock', begun'} \subseteq Nat
      /\ doing' \in {"loop", "round", "callback"} /\ running' \in Node \cup {NoNode}
  BY <1>1 DEF SInv, TypeOK
<1>9. /\ \A n \in Node : node'[n] # Free <=> n \in Scheduled \/ n = running'
      /\ running' \notin Scheduled /\ (doing' = "callback" <=> running' # NoNode)
  BY <1>1, <1>2, <1>3, PlaceOf, SchedulerAssumption DEF SInv, InUse, Node
<1>10. \A a, b \in Scheduled : node'[a].what = node'[b].what => a = b
  BY <1>2, <1>3, PlaceOf DEF SInv, Once
<1> QED BY <1>3, <1>4, <1>5, <1>6, <1>7, <1>8, <1>9, <1>10, KeepsIf

LEMMA DueIsTime == ASSUME SInv, NEW d \in Delay PROVE Due(d) \in Nat
<1>1. clock \in Nat /\ d \in Nat /\ PerMs \in Nat
  BY SchedulerAssumption DEF SInv, TypeOK
<1>2. \A a, b \in Nat : a * b \in Nat
  OBVIOUS
<1>3. d * PerMs \in Nat
  BY <1>1, <1>2
<1> QED BY <1>1, <1>3 DEF Due

LEMMA MoveKeeps == ASSUME SInv, NEW p \in Pair, NEW d \in Delay, Move(p, d) PROVE SInv'
<1> DEFINE n == Find(p)
           h == Sift(node', TheHeap, slot[n])
<1>1. n \in Scheduled /\ n \in Node
  BY FindIs, PlaceOf DEF Move
<1>2. /\ node' = Reset(n, Due(d)) /\ heap' = h.at /\ slot' = h.slot /\ bucket' = bucket /\ room' = room
      /\ nextSeq' = nextSeq + 1
      /\ doing' = doing /\ running' = running /\ begun' = begun /\ clock' = clock
  BY DEF Move, Asking, run, SetHeap, TheHeap
<1> HIDE DEF n
<1>3. /\ node' \in [Node -> {Free} \cup [what : Pair, due : Nat, seq : Nat]]
      /\ \A m \in Node : m # n => node'[m] = node[m]
      /\ node'[n].what = node[n].what /\ node'[n] \in [what : Pair, due : Nat, seq : Nat]
  <2>1. node[n] \in [what : Pair, due : Nat, seq : Nat] /\ Due(d) \in Nat /\ nextSeq \in Nat
    BY <1>1, NodesHave, DueIsTime DEF SInv, TypeOK
  <2> DEFINE e == [node[n] EXCEPT !.due = Due(d), !.seq = nextSeq]
  <2>2. e \in [what : Pair, due : Nat, seq : Nat] /\ e.what = node[n].what
    BY <2>1
  <2>3. node' = [node EXCEPT ![n] = e]
    BY <1>1, <1>2 DEF Reset, SInv, TypeOK
  <2> HIDE DEF e
  <2> QED BY <1>1, <2>2, <2>3 DEF SInv, TypeOK
<1>4. Keyed(node')
  BY <1>3 DEF Keyed, Free
<1>5. Heaped(node', h, heapN, Scheduled) /\ heapN \in Nat
  BY <1>1, <1>3, <1>4, MoveSorts, HeapIs
<1> HIDE DEF h
<1>6. Heaped(node', [at |-> heap', slot |-> slot'], heapN, Scheduled)
  <2>1. h.slot \in [Node -> Nat]
    BY <1>5 DEF Heaped, Heaps
  <2> QED BY <1>2, <1>5, <2>1, HeapedAs
<1>7. \A m \in Scheduled : m \in Node /\ node'[m].what = node[m].what
  BY <1>3, PlaceOf
<1>8. DOMAIN bucket' = 0..hashSize-1 /\ hashSize \in Nat /\ (hashSize = 0 => Scheduled = {})
  BY <1>2 DEF SInv, TypeOK, Arrays, Once
<1>9. \A i \in 0..hashSize-1 : bucket'[i] = {m \in Scheduled : Chain(node'[m].what, hashSize) = i}
  BY <1>2, <1>7, <1>8 DEF SInv, Chained
<1>10. /\ heapN <= room' /\ {room', nextSeq', clock', begun'} \subseteq Nat
       /\ doing' \in {"loop", "round", "callback"} /\ running' \in Node \cup {NoNode}
  BY <1>2 DEF SInv, TypeOK
<1>11. node'[n] # Free /\ node[n] # Free
  <2>1. node'[n].what # NoNode /\ node[n].what # NoNode
    BY <1>1, <1>3, NodesHave, SchedulerAssumption
  <2> QED BY <2>1 DEF Free
<1>12. /\ \A m \in Node : node'[m] # Free <=> m \in Scheduled \/ m = running'
       /\ running' \notin Scheduled /\ (doing' = "callback" <=> running' # NoNode)
  BY <1>1, <1>2, <1>3, <1>11 DEF SInv, InUse
<1>13. \A a, b \in Scheduled : node'[a].what = node'[b].what => a = b
  BY <1>7 DEF SInv, Once
<1> QED BY ONLY <1>3, <1>5, <1>6, <1>8, <1>9, <1>10, <1>12, <1>13, KeepsIf

\* The tables the nodes of X are in.
InTable(b, nd, X, size) ==
  /\ size \in Nat /\ DOMAIN b = 0..size-1
  /\ \A i \in 0..size-1 : b[i] = {n \in X : Chain(nd[n].what, size) = i}

LEMMA TableIs == ASSUME SInv PROVE InTable(bucket, node, Scheduled, hashSize)
BY DEF SInv, TypeOK, Arrays, Chained, InTable

LEMMA RehashedIs ==
  ASSUME SInv
  PROVE  Doubled(hashSize) \in Nat \ {0} /\ InTable(Rehashed(Doubled(hashSize)), node, Scheduled, Doubled(hashSize))
<1> DEFINE size == Doubled(hashSize)
<1>1. hashSize \in Nat /\ FirstSize \in Nat \ {0}
  BY SchedulerAssumption DEF SInv, Arrays
<1>2. size \in Nat \ {0}
  BY <1>1 DEF Doubled
<1>3. UNION {bucket[j] : j \in DOMAIN bucket} = Scheduled
  BY NodesHave
<1> HIDE DEF size
<1>4. InTable(Rehashed(size), node, Scheduled, size)
  BY <1>2, <1>3 DEF InTable, Rehashed
<1> QED BY <1>2, <1>4 DEF size

LEMMA LinkedIs ==
  ASSUME NEW size \in Nat \ {0}, NEW b, NEW nd, NEW X, InTable(b, nd, X, size),
         NEW to, NEW n, NEW p \in Pair, to[n].what = p, n \notin X, \A m \in X : to[m] = nd[m]
  PROVE  InTable(Linked(b, n, p), to, X \cup {n}, size)
<1>1. Cardinality(DOMAIN b) = size
  <2>1. Cardinality(0..size-1) = IF 0 > size - 1 THEN 0 ELSE size - 1 - 0 + 1
    BY FS_Interval
  <2> QED BY <2>1 DEF InTable
<1>2. Chain(p, size) \in DOMAIN b
  BY SchedulerAssumption DEF Chain, InTable
<1>3. DOMAIN Linked(b, n, p) = 0..size-1
  BY DEF Linked, InTable
<1>4. ASSUME NEW i \in 0..size-1
      PROVE  Linked(b, n, p)[i] = {m \in X \cup {n} : Chain(to[m].what, size) = i}
  <2>1. Linked(b, n, p)[i] = IF i = Chain(p, size) THEN b[i] \cup {n} ELSE b[i]
    BY <1>1, <1>2 DEF Linked, InTable
  <2>2. b[i] = {m \in X : Chain(nd[m].what, size) = i}
    BY DEF InTable
  <2>3. b[i] = {m \in X : Chain(to[m].what, size) = i}
    BY <2>2
  <2> QED BY <2>1, <2>3
<1> QED BY <1>3, <1>4 DEF InTable

LEMMA GrownIs == ASSUME SInv PROVE Grown \in Nat /\ heapN <= Grown /\ heapN + 1 <= Grown
BY SMTT(60), SchedulerAssumption DEF SInv, TypeOK, Arrays, Grown, Doubled

LEMMA NoMemKeeps == ASSUME SInv, NEW p \in Pair, NoMem(p) PROVE SInv'
<1>1. /\ node' = node /\ slot' = slot /\ heap' = heap /\ nextSeq' = nextSeq
      /\ doing' = doing /\ running' = running /\ begun' = begun /\ clock' = clock
      /\ bucket' = bucket \/ bucket' = Rehashed(Doubled(hashSize))
      /\ room' = room \/ room' = Grown
  BY DEF NoMem, Asking, run, HeapFails, HashFails, NodeFails, HashGrows, HashStays, table
<1>2. Heaped(node', [at |-> heap', slot |-> slot'], heapN, Scheduled) /\ heapN \in Nat
  BY <1>1, HeapIs DEF TheHeap
<1>3. PICK size \in Nat : InTable(bucket', node', Scheduled, size) /\ (size = 0 => Scheduled = {})
  <2>1. CASE bucket' = bucket
    <3>1. hashSize \in Nat /\ (hashSize = 0 => Scheduled = {})
      BY DEF SInv, Arrays, Once
    <3>2. InTable(bucket', node', Scheduled, hashSize)
      BY <1>1, <2>1, TableIs
    <3> QED BY <3>1, <3>2
  <2>2. CASE bucket' = Rehashed(Doubled(hashSize))
    <3>1. InTable(bucket', node', Scheduled, Doubled(hashSize)) /\ Doubled(hashSize) \in Nat \ {0}
      BY <1>1, <2>2, RehashedIs
    <3> QED BY <3>1
  <2> QED BY <1>1, <2>1, <2>2
<1>4. heapN <= room' /\ room' \in Nat
  BY <1>1, GrownIs DEF SInv, TypeOK
<1>5. /\ node' \in [Node -> {Free} \cup [what : Pair, due : Nat, seq : Nat]]
      /\ {room', nextSeq', clock', begun'} \subseteq Nat
      /\ doing' \in {"loop", "round", "callback"} /\ running' \in Node \cup {NoNode}
  BY <1>1, <1>4 DEF SInv, TypeOK
<1>6. /\ \A n \in Node : node'[n] # Free <=> n \in Scheduled \/ n = running'
      /\ running' \notin Scheduled /\ (doing' = "callback" <=> running' # NoNode)
      /\ \A a, b \in Scheduled : node'[a].what = node'[b].what => a = b
  BY <1>1 DEF SInv, InUse, Once
<1>7. /\ DOMAIN bucket' = 0..size-1
      /\ \A i \in 0..size-1 : bucket'[i] = {n \in Scheduled : Chain(node'[n].what, size) = i}
  BY <1>3 DEF InTable
<1> QED BY ONLY <1>2, <1>3, <1>4, <1>5, <1>6, <1>7, KeepsIf

LEMMA AddKeeps == ASSUME SInv, NEW p \in Pair, NEW d \in Delay, Add(p, d) PROVE SInv'
<1> DEFINE n == Fresh
           X == Scheduled \cup {n}
           e == [what |-> p, due |-> Due(d), seq |-> nextSeq]
           h == SiftUp(node', WithNode(n), heapN)
           grown == Rehashed(Doubled(hashSize))
<1>1. n \in Node /\ node[n] = Free /\ n \notin Scheduled /\ n # running
  <2>1. n \in Node /\ node[n] = Free
    BY FreshIs
  <2> QED BY <2>1 DEF SInv, InUse
<1>2. /\ node' = [node EXCEPT ![n] = e] /\ heap' = h.at /\ slot' = h.slot /\ room' = Grown
      /\ nextSeq' = nextSeq + 1 /\ Find(p) = NoNode
      /\ doing' = doing /\ running' = running /\ begun' = begun /\ clock' = clock
  BY DEF Add, Asking, run, SetHeap, WithNode
<1>3. \/ bucket' = Linked(IF HashFull THEN grown ELSE bucket, n, p)
      \/ hashSize # 0 /\ bucket' = Linked(bucket, n, p)
  BY DEF Add
<1> HIDE DEF n, grown
<1>4. e \in [what : Pair, due : Nat, seq : Nat] /\ e # Free /\ e.what = p
  <2>1. Due(d) \in Nat /\ nextSeq \in Nat /\ p # NoNode
    BY DueIsTime, SchedulerAssumption DEF SInv, TypeOK
  <2>2. e.what # Free.what
    BY <2>1 DEF Free
  <2> QED BY <2>1, <2>2
<1> HIDE DEF e
<1>5. /\ node' \in [Node -> {Free} \cup [what : Pair, due : Nat, seq : Nat]]
      /\ node'[n] = e /\ \A m \in Node : m # n => node'[m] = node[m]
  BY <1>1, <1>2, <1>4 DEF SInv, TypeOK
<1>6. Keyed(node')
  BY <1>5 DEF Keyed, Free
<1>7. Heaped(node', h, heapN + 1, X) /\ heapN + 1 \in Nat
  BY <1>1, <1>5, <1>6, AddSorts, HeapIs
<1> HIDE DEF h
<1>8. \A m \in Scheduled : m \in Node /\ m # n /\ node'[m] = node[m]
  BY <1>1, <1>5, PlaceOf
<1> HIDE DEF X
<1>9. Heaped(node', [at |-> heap', slot |-> slot'], heapN + 1, X)
  <2>1. h.slot \in [Node -> Nat]
    BY <1>7 DEF Heaped, Heaps
  <2> QED BY <1>2, <1>7, <2>1, HeapedAs
<1>10. PICK size \in Nat \ {0} : InTable(bucket', node', X, size)
  <2>1. InTable(bucket, node, Scheduled, hashSize) /\ hashSize \in Nat
    BY TableIs DEF SInv, Arrays
  <2>2. InTable(grown, node, Scheduled, Doubled(hashSize)) /\ Doubled(hashSize) \in Nat \ {0}
    BY RehashedIs DEF grown
  <2>3. node'[n].what = p
    BY <1>4, <1>5
  <2>4. CASE bucket' = Linked(grown, n, p)
    <3>1. InTable(bucket', node', X, Doubled(hashSize))
      BY <1>1, <1>8, <2>2, <2>3, <2>4, LinkedIs DEF X
    <3> QED BY <2>2, <3>1
  <2>5. CASE bucket' = Linked(bucket, n, p) /\ hashSize # 0
    <3>1. InTable(bucket', node', X, hashSize)
      BY <1>1, <1>8, <2>1, <2>3, <2>5, LinkedIs DEF X
    <3> QED BY <2>1, <2>5, <3>1
  <2>6. ~HashFull => hashSize # 0
    BY <2>1, HeapIs DEF HashFull
  <2> QED BY <1>3, <2>4, <2>5, <2>6
<1>11. heapN + 1 <= room' /\ room' \in Nat
  BY <1>2, GrownIs
<1>12. /\ {room', nextSeq', clock', begun'} \subseteq Nat
       /\ doing' \in {"loop", "round", "callback"} /\ running' \in Node \cup {NoNode}
  BY <1>2, <1>11 DEF SInv, TypeOK
<1>13. /\ \A m \in Node : node'[m] # Free <=> m \in X \/ m = running'
       /\ running' \notin X /\ (doing' = "callback" <=> running' # NoNode)
  BY <1>1, <1>2, <1>4, <1>5 DEF SInv, InUse, X
<1>14. \A a, b \in X : node'[a].what = node'[b].what => a = b
  <2>1. \A m \in Scheduled : node[m].what # p
    BY <1>2, FindIs
  <2> QED BY <1>4, <1>5, <1>8, <2>1 DEF SInv, Once, X
<1>15. /\ DOMAIN bucket' = 0..size-1
       /\ \A i \in 0..size-1 : bucket'[i] = {m \in X : Chain(node'[m].what, size) = i}
  BY <1>10 DEF InTable
<1>16. heapN + 1 \in Nat /\ size \in Nat /\ size # 0
  BY <1>7, <1>10
<1> QED BY ONLY <1>5, <1>9, <1>11, <1>12, <1>13, <1>14, <1>15, <1>16, KeepsIf

LEMMA TableKept ==
  ASSUME SInv, UNCHANGED table, {clock', begun'} \subseteq Nat,
         doing' \in {"loop", "round", "callback"}, running' = running, doing' = "callback" <=> doing = "callback"
  PROVE  SInv'
<1>1. /\ node' = node /\ slot' = slot /\ heap' = heap /\ room' = room /\ bucket' = bucket
      /\ nextSeq' = nextSeq
  BY DEF table
<1>2. heapN' = heapN /\ hashSize' = hashSize /\ Scheduled' = Scheduled
  BY <1>1 DEF heapN, hashSize, Scheduled
<1>3. TypeOK'
  BY <1>1, <1>2 DEF SInv, TypeOK
<1>4. Arrays' /\ HeapOrder' /\ SlotsAgree'
  BY <1>1, <1>2 DEF SInv, Arrays, HeapOrder, SlotsAgree
<1>5. InUse' /\ Chained' /\ Once'
  BY <1>1, <1>2 DEF SInv, InUse, Chained, Once
<1> QED BY <1>3, <1>4, <1>5 DEF SInv

LEMMA NextKeeps == SInv /\ [Next]_vars => SInv'
<1> SUFFICES ASSUME SInv, [Next]_vars PROVE SInv'
  OBVIOUS
<1>1. clock \in Nat /\ begun \in Nat /\ doing \in {"loop", "round", "callback"}
  BY DEF SInv, TypeOK
<1>2. ASSUME NEW p \in Pair, Unschedule(p) PROVE SInv'
  BY <1>2, UnscheduleKeeps
<1>3. ASSUME NEW p \in Pair, NoMem(p) PROVE SInv'
  BY <1>3, NoMemKeeps
<1>4. ASSUME NEW p \in Pair, NEW d \in Delay, Move(p, d) PROVE SInv'
  BY <1>4, MoveKeeps
<1>5. ASSUME NEW p \in Pair, NEW d \in Delay, Add(p, d) PROVE SInv'
  BY <1>5, AddKeeps
<1>6. CASE BeginRound
  BY <1>1, <1>6, TableKept DEF BeginRound
<1>7. CASE RunOne
  BY <1>7, RunOneKeeps
<1>8. CASE CallbackReturns
  BY <1>8, CallbackReturnsKeeps
<1>9. CASE RoundEnds
  BY <1>1, <1>9, TableKept DEF RoundEnds
<1>10. CASE Tick
  BY <1>1, <1>10, TableKept DEF Tick, run
<1>11. CASE UNCHANGED vars
  BY <1>1, <1>11, TableKept DEF vars, run
<1> QED BY <1>2, <1>3, <1>4, <1>5, <1>6, <1>7, <1>8, <1>9, <1>10, <1>11 DEF Next

-----------------------------------------------------------------------------

THEOREM SInvHolds == Spec => []SInv
BY InitHolds, NextKeeps, PTL DEF Spec

\* The soonest is always at the top of the heap, and every node in it knows its
\* place (heap_sift_up, heap_sift_down and heap_take of schedule.c), for every
\* number of callbacks.
THEOREM HeapStaysSound == Spec => []HeapSound
<1>1. SInv => HeapSound
  BY DEF SInv, HeapSound
<1> QED BY <1>1, SInvHolds, PTL

\* What is scheduled is what asking for it again finds, and each pair is there
\* once (hash_grow, framebuffer_schedule), for every hash of the pairs.
THEOREM TableStaysSound == Spec => []TableSound
<1>1. SInv => FoundOnce
  <2> SUFFICES ASSUME SInv PROVE FoundOnce
    OBVIOUS
  <2>1. \A i \in DOMAIN heap : heap[i] \in Scheduled
    BY DEF Scheduled
  <2>2. \A i \in DOMAIN bucket : bucket[i] \subseteq Scheduled
    BY DEF SInv, Chained
  <2> QED BY <2>1, <2>2, FindIs DEF FoundOnce, Scheduled
<1>2. SInv => TableSound
  BY <1>1 DEF SInv, TableSound
<1> QED BY <1>2, SInvHolds, PTL

-----------------------------------------------------------------------------
(* The order the callbacks wait in.                                        *)

\* Nodes in the order of their callbacks.
Line(nd, X, N, q) ==
  /\ q \in [1..N -> X]
  /\ \A n \in X : \E i \in 1..N : q[i] = n
  /\ \A i, j \in 1..N : i < j => Sooner(nd, q[i], q[j])

\* No two of X were asked for at once.
Apart(nd, X) ==
  /\ X \subseteq Node
  /\ \A n \in Node : nd[n].due \in Nat /\ nd[n].seq \in Nat
  /\ \A a, b \in X : nd[a].seq = nd[b].seq => a = b

LEMMA OneIsSooner ==
  ASSUME NEW nd, NEW X, Apart(nd, X), NEW a \in X, NEW b \in X
  PROVE  /\ a # b => Sooner(nd, a, b) \/ Sooner(nd, b, a)
         /\ Sooner(nd, a, b) => ~Sooner(nd, b, a) /\ a # b
         /\ \A c \in X : Sooner(nd, a, b) /\ Sooner(nd, b, c) => Sooner(nd, a, c)
BY DEF Apart, Sooner

Ahead(nd, X, n) == {m \in X : Sooner(nd, m, n)}

LEMMA RankedApart ==
  ASSUME NEW nd, NEW X, IsFiniteSet(X), Apart(nd, X), NEW a \in X, NEW b \in X
  PROVE  /\ Cardinality(Ahead(nd, X, a)) \in 0..Cardinality(X)-1
         /\ Cardinality(Ahead(nd, X, a)) = Cardinality(Ahead(nd, X, b)) => a = b
<1>1. ASSUME NEW c \in X, NEW d \in X, Sooner(nd, c, d)
      PROVE  Cardinality(Ahead(nd, X, c)) < Cardinality(Ahead(nd, X, d))
  <2> DEFINE S == Ahead(nd, X, c)
             T == Ahead(nd, X, d)
  <2>1. S \cup {c} \subseteq T /\ c \notin S
    BY <1>1, OneIsSooner DEF Ahead
  <2>2. S \subseteq X /\ T \subseteq X
    BY DEF Ahead
  <2> HIDE DEF S, T
  <2>3. IsFiniteSet(S) /\ IsFiniteSet(T) /\ Cardinality(S) \in Nat /\ Cardinality(T) \in Nat
    BY <2>2, FS_Subset, FS_CardinalityType
  <2>4. Cardinality(S \cup {c}) = Cardinality(S) + 1 /\ IsFiniteSet(S \cup {c})
    BY <2>1, <2>3, FS_AddElement
  <2>5. Cardinality(S \cup {c}) <= Cardinality(T)
    BY <2>1, <2>3, FS_Subset
  <2> QED BY <2>3, <2>4, <2>5 DEF S, T
<1>2. Cardinality(Ahead(nd, X, a)) = Cardinality(Ahead(nd, X, b)) => a = b
  <2>1. \A c \in X : Cardinality(Ahead(nd, X, c)) \in Nat
    <3> TAKE c \in X
    <3>1. Ahead(nd, X, c) \subseteq X
      BY DEF Ahead
    <3> QED BY <3>1, FS_Subset, FS_CardinalityType
  <2> QED BY <1>1, <2>1, OneIsSooner
<1>3. Cardinality(Ahead(nd, X, a)) \in 0..Cardinality(X)-1
  <2> DEFINE S == Ahead(nd, X, a)
  <2>1. S \subseteq X /\ a \notin S
    BY OneIsSooner DEF Ahead
  <2> HIDE DEF S
  <2>2. IsFiniteSet(S) /\ Cardinality(S) \in Nat /\ Cardinality(X) \in Nat
    BY <2>1, FS_Subset, FS_CardinalityType
  <2>3. Cardinality(S \cup {a}) = Cardinality(S) + 1
    BY <2>1, <2>2, FS_AddElement
  <2>4. Cardinality(S \cup {a}) <= Cardinality(X)
    BY <2>1, FS_Subset
  <2> QED BY <2>2, <2>3, <2>4 DEF S
<1> QED BY <1>2, <1>3

Lined(nd, X, N) == [k \in 1..N |-> CHOOSE n \in X : Cardinality(Ahead(nd, X, n)) = k - 1]

\* There is a line of X, which Lined is,
LEMMA LinedUp ==
  ASSUME NEW nd, NEW X, IsFiniteSet(X), Apart(nd, X), NEW N, N = Cardinality(X)
  PROVE  Line(nd, X, N, Lined(nd, X, N))
<1> DEFINE f == [n \in X |-> Cardinality(Ahead(nd, X, n))]
           q == Lined(nd, X, N)
<1>1. N \in Nat
  BY FS_CardinalityType
<1>2. f \in [X -> 0..N-1] /\ \A a, b \in X : f[a] = f[b] => a = b
  BY RankedApart
<1>3. \A k \in 0..N-1 : \E n \in X : f[n] = k
  <2> HIDE DEF f
  <2>1. f \in Injection(X, 0..N-1)
    BY <1>2 DEF Injection, IsInjective
  <2>2. IsFiniteSet(0..N-1) /\ Cardinality(0..N-1) = N
    <3>1. /\ IsFiniteSet(0..N-1)
          /\ Cardinality(0..N-1) = IF 0 > N - 1 THEN 0 ELSE N - 1 - 0 + 1
      <4>1. 0 \in Int /\ N - 1 \in Int
        BY <1>1
      <4> HIDE DEF q
      <4> QED BY ONLY <4>1, FS_Interval
    <3> QED BY <1>1, <3>1
  <2>3. f \in Surjection(X, 0..N-1)
    BY <2>1, <2>2, FS_Injection
  <2> QED BY <2>3 DEF Surjection
<1>4. \A k \in 1..N : q[k] \in X /\ f[q[k]] = k - 1
  <2> TAKE k \in 1..N
  <2>1. k - 1 \in 0..N-1
    BY <1>1
  <2>2. \E n \in X : f[n] = k - 1
    BY <1>3, <2>1
  <2>3. q[k] = CHOOSE n \in X : f[n] = k - 1
    BY DEF Lined
  <2> HIDE DEF f, q
  <2> QED BY <2>2, <2>3
<1>5. q \in [1..N -> X]
  BY <1>4 DEF Lined
<1>6. \A n \in X : f[n] + 1 \in 1..N /\ q[f[n] + 1] = n
  <2> TAKE n \in X
  <2> HIDE DEF f, q
  <2>1. f[n] \in 0..N-1 /\ f[n] + 1 \in 1..N /\ f[n] + 1 - 1 = f[n]
    BY <1>1, <1>2
  <2> QED BY <1>2, <1>4, <2>1
<1>7. ASSUME NEW i \in 1..N, NEW j \in 1..N, i < j PROVE Sooner(nd, q[i], q[j])
  <2>1. q[i] \in X /\ q[j] \in X /\ f[q[i]] = i - 1 /\ f[q[j]] = j - 1
    BY <1>4
  <2>2. ~Sooner(nd, q[j], q[i])
    <3> SUFFICES ASSUME Sooner(nd, q[j], q[i]) PROVE FALSE
      OBVIOUS
    <3>1. Ahead(nd, X, q[j]) \subseteq Ahead(nd, X, q[i]) /\ Ahead(nd, X, q[i]) \subseteq X
      BY <2>1, OneIsSooner DEF Ahead
    <3>2. Cardinality(Ahead(nd, X, q[j])) <= Cardinality(Ahead(nd, X, q[i]))
      BY <3>1, FS_Subset
    <3> QED BY <1>1, <1>7, <2>1, <3>2
  <2>3. q[i] # q[j]
    BY <1>1, <1>7, <2>1
  <2> QED BY <2>1, <2>2, <2>3, OneIsSooner
<1> HIDE DEF q
<1> QED BY <1>5, <1>6, <1>7 DEF Line, q

\* and no other is.
LEMMA LineIs ==
  ASSUME NEW nd, NEW X, Apart(nd, X), NEW N \in Nat, NEW q, Line(nd, X, N, q)
  PROVE  q = Lined(nd, X, N) /\ IsFiniteSet(X) /\ Cardinality(X) = N
<1>1. /\ q \in [1..N -> X] /\ \A n \in X : \E i \in 1..N : q[i] = n
      /\ \A i, j \in 1..N : i < j => Sooner(nd, q[i], q[j])
  BY DEF Line
<1>2. \A i, j \in 1..N : q[i] = q[j] => i = j
  BY <1>1, OneIsSooner
<1>3. IsFiniteSet(X) /\ Cardinality(X) = N
  <2>1. q \in Bijection(1..N, X)
    BY <1>1, <1>2 DEF Bijection, Injection, Surjection, IsInjective
  <2>2. IsFiniteSet(1..N) /\ Cardinality(1..N) = N
    <3>1. /\ IsFiniteSet(1..N)
          /\ Cardinality(1..N) = IF 1 > N THEN 0 ELSE N - 1 + 1
      BY FS_Interval
    <3> QED BY <3>1
  <2> QED BY <2>1, <2>2, FS_Bijection DEF ExistsBijection
<1>4. ASSUME NEW k \in 1..N PROVE Cardinality(Ahead(nd, X, q[k])) = k - 1
  <2> DEFINE g == [i \in 1..k-1 |-> q[i]]
             T == Ahead(nd, X, q[k])
  <2>1. \A i \in 1..N : Sooner(nd, q[i], q[k]) <=> i < k
    BY <1>1, OneIsSooner
  <2>2. T = {q[i] : i \in 1..k-1}
    BY <1>1, <2>1 DEF Ahead
  <2>3. g \in Bijection(1..k-1, T)
    BY <1>2, <2>2 DEF Bijection, Injection, Surjection, IsInjective
  <2>4. IsFiniteSet(1..k-1) /\ Cardinality(1..k-1) = k - 1
    <3>1. /\ IsFiniteSet(1..k-1)
          /\ Cardinality(1..k-1) = IF 1 > k - 1 THEN 0 ELSE k - 1 - 1 + 1
      BY FS_Interval
    <3> QED BY <3>1
  <2> HIDE DEF g, T
  <2>5. Cardinality(T) = k - 1
    BY <2>3, <2>4, FS_Bijection DEF ExistsBijection
  <2> QED BY <2>5 DEF T
<1>5. ASSUME NEW k \in 1..N PROVE q[k] = CHOOSE n \in X : Cardinality(Ahead(nd, X, n)) = k - 1
  <2>1. q[k] \in X
    BY <1>1
  <2>2. \A n \in X : Cardinality(Ahead(nd, X, n)) = k - 1 => n = q[k]
    BY <1>3, <1>4, <2>1, RankedApart
  <2> QED BY <1>4, <2>1, <2>2
<1> QED BY <1>1, <1>3, <1>5 DEF Lined

LEMMA LineLoses ==
  ASSUME NEW nd, NEW X, Apart(nd, X), NEW N \in Nat, NEW q, Line(nd, X, N, q), NEW i \in 1..N,
         NEW to, \A m \in X \ {q[i]} : to[m] = nd[m]
  PROVE  Line(to, X \ {q[i]}, N - 1, [k \in 1..N-1 |-> IF k < i THEN q[k] ELSE q[k+1]])
<1> DEFINE Y == X \ {q[i]}
           r == [k \in 1..N-1 |-> IF k < i THEN q[k] ELSE q[k+1]]
           At(k) == IF k < i THEN k ELSE k + 1
<1>1. /\ q \in [1..N -> X] /\ \A n \in X : \E j \in 1..N : q[j] = n
      /\ \A j, k \in 1..N : j < k => Sooner(nd, q[j], q[k])
  BY DEF Line
<1>2. \A j, k \in 1..N : q[j] = q[k] => j = k
  BY <1>1, OneIsSooner
<1>3. ASSUME NEW k \in 1..N-1 PROVE At(k) \in 1..N /\ At(k) # i /\ r[k] = q[At(k)]
  OBVIOUS
<1>4. \A j, k \in 1..N-1 : j < k => At(j) < At(k)
  OBVIOUS
<1>5. \A j \in 1..N : j # i => \E k \in 1..N-1 : At(k) = j
  <2> TAKE j \in 1..N
  <2>1. CASE j < i
    BY <2>1
  <2>2. CASE j > i
    <3>1. j - 1 \in 1..N-1 /\ At(j - 1) = j
      BY <2>2
    <3> QED BY <3>1
  <2> QED BY <2>1, <2>2
<1>6. \A k \in 1..N-1 : r[k] \in Y
  BY <1>1, <1>2, <1>3
<1>7. r \in [1..N-1 -> Y]
  BY <1>6
<1> HIDE DEF At, r
<1>8. \A n \in Y : \E k \in 1..N-1 : r[k] = n
  <2> TAKE n \in Y
  <2>1. PICK j \in 1..N : q[j] = n
    BY <1>1
  <2>2. PICK k \in 1..N-1 : At(k) = j
    BY <1>5, <2>1
  <2> QED BY <1>3, <2>1, <2>2
<1>9. ASSUME NEW j \in 1..N-1, NEW k \in 1..N-1, j < k PROVE Sooner(to, r[j], r[k])
  <2>1. Sooner(nd, r[j], r[k])
    BY <1>1, <1>3, <1>4, <1>9
  <2>2. to[r[j]] = nd[r[j]] /\ to[r[k]] = nd[r[k]]
    BY <1>6
  <2> QED BY <2>1, <2>2 DEF Sooner
<1> QED BY <1>7, <1>8, <1>9 DEF Line, r

LEMMA SameCount == \A S : Promised!Cardinality(S) = Cardinality(S)
  BY DEF Promised!Cardinality, Cardinality

\* The places of q whose nodes are due by d.
DueBy(nd, N, q, d) == {k \in 1..N : nd[q[k]].due <= d}

\* Asked for last, a node comes after those due no later.
LEMMA LineGains ==
  ASSUME NEW nd, NEW X, Apart(nd, X), NEW N \in Nat, NEW q, Line(nd, X, N, q),
         NEW to, NEW n, n \notin X, \A m \in X : to[m] = nd[m] /\ nd[m].seq < to[n].seq,
         to[n].due \in Nat, to[n].seq \in Nat
  PROVE  LET b == Cardinality(DueBy(nd, N, q, to[n].due))
         IN b \in 0..N /\ Line(to, X \cup {n}, N + 1, Promised!Put(N, q, b, n))
<1> DEFINE P == {k \in 1..N : nd[q[k]].due <= to[n].due}
           b == Cardinality(P)
           r == [k \in 1..N+1 |-> IF k < b + 1 THEN q[k] ELSE IF k = b + 1 THEN n ELSE q[k-1]]
           Y == X \cup {n}
<1>1. /\ q \in [1..N -> X] /\ \A m \in X : \E j \in 1..N : q[j] = m
      /\ \A j, k \in 1..N : j < k => Sooner(nd, q[j], q[k])
  BY DEF Line
<1>2. \A k \in 1..N : nd[q[k]].due \in Nat /\ nd[q[k]].seq \in Nat
  BY <1>1 DEF Apart
<1>3. b \in 0..N /\ P = 1..b
  <2>1. ASSUME NEW k \in P, NEW j \in 1..N, j < k PROVE j \in P
    <3>1. k \in 1..N /\ nd[q[k]].due <= to[n].due
      OBVIOUS
    <3>2. Sooner(nd, q[j], q[k])
      BY <1>1, <2>1, <3>1
    <3>3. nd[q[j]].due <= nd[q[k]].due
      BY <1>2, <3>1, <3>2 DEF Sooner
    <3>4. nd[q[j]].due <= to[n].due
      BY <1>2, <3>1, <3>3
    <3> QED BY <3>4
  <2>2. P \subseteq 1..N
    OBVIOUS
  <2> QED BY <2>1, <2>2, Promised!FirstFew, SameCount
<1>4. \A k \in 1..N : k <= b => Sooner(to, q[k], n)
  <2> TAKE k \in 1..N
  <2>1. k <= b => nd[q[k]].due <= to[n].due
    BY <1>3
  <2>2. to[q[k]] = nd[q[k]] /\ nd[q[k]].seq < to[n].seq
    BY <1>1
  <2> QED BY <1>2, <2>1, <2>2 DEF Sooner
<1>5. \A k \in 1..N : k > b => Sooner(to, n, q[k])
  <2> TAKE k \in 1..N
  <2>1. k > b => ~(nd[q[k]].due <= to[n].due)
    <3>1. nd[q[k]].due <= to[n].due => k \in P
      OBVIOUS
    <3> QED BY SMTT(60), <1>3, <3>1
  <2>2. to[q[k]] = nd[q[k]]
    BY <1>1
  <2> QED BY <1>2, <2>1, <2>2 DEF Sooner
<1>6. \A j, k \in 1..N : j < k => Sooner(to, q[j], q[k])
  BY <1>1 DEF Sooner
<1>7. \A k \in 1..N+1 : /\ k < b + 1 => r[k] = q[k] /\ k \in 1..N
                        /\ k = b + 1 => r[k] = n
                        /\ k > b + 1 => r[k] = q[k-1] /\ k - 1 \in 1..N
  BY <1>3
<1>8. r \in [1..N+1 -> Y]
  <2>1. \A k \in 1..N+1 : r[k] \in Y
    BY <1>1, <1>3, <1>7
  <2> QED BY <2>1
<1> HIDE DEF r
<1>9. \A m \in Y : \E k \in 1..N+1 : r[k] = m
  <2> TAKE m \in Y
  <2>1. CASE m = n
    <3>1. b + 1 \in 1..N+1
      BY <1>3
    <3> QED BY <1>7, <2>1, <3>1
  <2>2. CASE m \in X
    <3>1. PICK j \in 1..N : q[j] = m
      BY <1>1, <2>2
    <3>2. CASE j <= b
      BY <1>3, <1>7, <3>1, <3>2
    <3>3. CASE j > b
      <4>1. j + 1 \in 1..N+1 /\ j + 1 > b + 1 /\ j + 1 - 1 = j
        BY <1>3, <3>3
      <4> QED BY <1>7, <3>1, <4>1
    <3> QED BY <1>3, <3>2, <3>3
  <2> QED BY <2>1, <2>2
<1>10. ASSUME NEW j \in 1..N+1, NEW k \in 1..N+1, j < k PROVE Sooner(to, r[j], r[k])
  <2>1. CASE k < b + 1
    BY <1>3, <1>6, <1>7, <1>10, <2>1
  <2>2. CASE k = b + 1
    BY <1>3, <1>4, <1>7, <1>10, <2>2
  <2>3. CASE k > b + 1
    <3>1. CASE j < b + 1
      BY <1>3, <1>6, <1>7, <1>10, <2>3, <3>1
    <3>2. CASE j = b + 1
      BY <1>3, <1>5, <1>7, <1>10, <2>3, <3>2
    <3>3. CASE j > b + 1
      BY <1>3, <1>6, <1>7, <1>10, <2>3, <3>3
    <3> QED BY <1>3, <3>1, <3>2, <3>3
  <2> QED BY <1>3, <2>1, <2>2, <2>3
<1>11. Line(to, Y, N + 1, r)
  BY <1>8, <1>9, <1>10 DEF Line
<1> QED BY <1>3, <1>11 DEF Promised!Put, DueBy, r

-----------------------------------------------------------------------------
(* What the steps do to the nodes that wait.                               *)

LEMMA NodesOf ==
  ASSUME NEW nd, NEW h, NEW N \in Nat, NEW X, Heaped(nd, h, N, X)
  PROVE  Cardinality(DOMAIN h.at) = N /\ {h.at[i] : i \in DOMAIN h.at} = X
<1>1. DOMAIN h.at = 0..N-1
  BY DEF Heaped, Heaps
<1>2. Cardinality(0..N-1) = N
  <2>1. Cardinality(0..N-1) = IF 0 > N - 1 THEN 0 ELSE N - 1 - 0 + 1
    BY FS_Interval
  <2> QED BY <2>1
<1> QED BY <1>1, <1>2 DEF Heaped, Ids

LEMMA UnscheduleDoes ==
  ASSUME SInv, NEW p \in Pair, Unschedule(p)
  PROVE  LET n == Find(p) IN
         /\ n \in Scheduled /\ node[n].what = p
         /\ Scheduled' = Scheduled \ {n} /\ heapN' = heapN - 1
         /\ \A m \in Scheduled \ {n} : node'[m] = node[m]
         /\ nextSeq' = nextSeq /\ clock' = clock /\ doing' = doing /\ begun' = begun
<1> DEFINE n == Find(p)
<1>1. n \in Scheduled /\ n \in Node /\ node[n].what = p
  BY FindIs, PlaceOf DEF Unschedule
<1>2. /\ heap' = Took(n).at /\ node' = [node EXCEPT ![n] = Free] /\ nextSeq' = nextSeq
      /\ doing' = doing /\ begun' = begun /\ clock' = clock
  BY DEF Unschedule, Asking, run
<1> HIDE DEF n
<1>3. Cardinality(DOMAIN Took(n).at) = heapN - 1
      /\ {Took(n).at[i] : i \in DOMAIN Took(n).at} = Scheduled \ {n}
  <2> DEFINE h == Took(n)
             N == heapN - 1
             X == Scheduled \ {n}
  <2>1. N \in Nat /\ Heaped(node, h, N, X)
    BY <1>1, TookSorts
  <2> HIDE DEF h, N, X
  <2>2. Cardinality(DOMAIN h.at) = N /\ {h.at[i] : i \in DOMAIN h.at} = X
    BY ONLY <2>1, NodesOf
  <2> QED BY <2>2 DEF h, N, X
<1>4. heapN' = heapN - 1 /\ Scheduled' = Scheduled \ {n}
  BY <1>2, <1>3 DEF heapN, Scheduled
<1>5. \A m \in Scheduled \ {n} : node'[m] = node[m]
  BY <1>2, PlaceOf DEF SInv, TypeOK
<1> QED BY <1>1, <1>2, <1>4, <1>5 DEF n

LEMMA RunOneDoes ==
  ASSUME SInv, RunOne
  PROVE  LET n == heap[0] IN
         /\ n \in Scheduled /\ node[n].due < begun
         /\ Scheduled' = Scheduled \ {n} /\ heapN' = heapN - 1
         /\ node' = node /\ nextSeq' = nextSeq /\ clock' = clock
         /\ doing = "round" /\ doing' = "callback" /\ begun' = begun
<1> DEFINE n == heap[0]
<1>1. n \in Scheduled
  <2>1. 0 \in DOMAIN heap
    BY DEF RunOne, DueNow, SInv, TypeOK, Arrays
  <2> QED BY <2>1 DEF Scheduled
<1>2. /\ heap' = Took(n).at /\ node' = node /\ nextSeq' = nextSeq /\ node[n].due < begun
      /\ doing = "round" /\ doing' = "callback" /\ begun' = begun /\ clock' = clock
  BY DEF RunOne, SetHeap, DueNow
<1> HIDE DEF n
<1>3. Cardinality(DOMAIN Took(n).at) = heapN - 1
      /\ {Took(n).at[i] : i \in DOMAIN Took(n).at} = Scheduled \ {n}
  <2> DEFINE h == Took(n)
             N == heapN - 1
             X == Scheduled \ {n}
  <2>1. N \in Nat /\ Heaped(node, h, N, X)
    BY <1>1, TookSorts
  <2> HIDE DEF h, N, X
  <2>2. Cardinality(DOMAIN h.at) = N /\ {h.at[i] : i \in DOMAIN h.at} = X
    BY ONLY <2>1, NodesOf
  <2> QED BY <2>2 DEF h, N, X
<1>4. heapN' = heapN - 1 /\ Scheduled' = Scheduled \ {n}
  BY <1>2, <1>3 DEF heapN, Scheduled
<1> QED BY <1>1, <1>2, <1>4 DEF n

LEMMA Redone ==
  ASSUME NEW P, NEW r \in [what : P, due : Nat, seq : Nat], NEW x \in Nat, NEW y \in Nat
  PROVE  [r EXCEPT !.due = x, !.seq = y] = [what |-> r.what, due |-> x, seq |-> y]
<1> DEFINE s == [r EXCEPT !.due = x, !.seq = y]
<1>1. s \in [what : P, due : Nat, seq : Nat] /\ s.what = r.what /\ s.due = x /\ s.seq = y
  OBVIOUS
<1> HIDE DEF s
<1>2. s = [what |-> r.what, due |-> x, seq |-> y]
  BY <1>1
<1> QED BY <1>2 DEF s

LEMMA MoveDoes ==
  ASSUME SInv, NEW p \in Pair, NEW d \in Delay, Move(p, d)
  PROVE  LET n == Find(p) IN
         /\ n \in Scheduled /\ node[n].what = p
         /\ Scheduled' = Scheduled /\ heapN' = heapN
         /\ \A m \in Scheduled \ {n} : node'[m] = node[m]
         /\ node'[n] = [what |-> p, due |-> Due(d), seq |-> nextSeq]
         /\ nextSeq' = nextSeq + 1 /\ clock' = clock /\ doing' = doing /\ begun' = begun
         /\ doing \in {"loop", "callback"}
<1> DEFINE n == Find(p)
           h == Sift(node', TheHeap, slot[n])
           e == [node[n] EXCEPT !.due = Due(d), !.seq = nextSeq]
<1>1. n \in Scheduled /\ n \in Node /\ node[n].what = p
  BY FindIs, PlaceOf DEF Move
<1>2. /\ node' = Reset(n, Due(d)) /\ heap' = h.at /\ nextSeq' = nextSeq + 1
      /\ doing' = doing /\ begun' = begun /\ clock' = clock /\ doing \in {"loop", "callback"}
  BY DEF Move, Asking, run, SetHeap, TheHeap
<1> HIDE DEF n
<1>3. node[n] \in [what : Pair, due : Nat, seq : Nat] /\ Due(d) \in Nat /\ nextSeq \in Nat
  BY <1>1, NodesHave, DueIsTime DEF SInv, TypeOK
<1>4. e = [what |-> p, due |-> Due(d), seq |-> nextSeq]
  <2> DEFINE r == node[n]
  <2>1. r \in [what : Pair, due : Nat, seq : Nat] /\ r.what = p
    BY <1>1, <1>3
  <2> HIDE DEF r
  <2>2. [r EXCEPT !.due = Due(d), !.seq = nextSeq] = [what |-> p, due |-> Due(d), seq |-> nextSeq]
    BY <1>3, <2>1, Redone
  <2> QED BY <2>2 DEF r
<1>5. node' = [node EXCEPT ![n] = e]
  BY <1>1, <1>2 DEF Reset, SInv, TypeOK
<1> HIDE DEF e
<1>6. node'[n] = e /\ \A m \in Node : m # n => node'[m] = node[m]
  BY <1>1, <1>5 DEF SInv, TypeOK
<1>7. Keyed(node')
  <2>1. e.due \in Nat /\ e.seq \in Nat
    BY <1>3, <1>4
  <2> QED BY <1>6, <2>1, HeapIs DEF Keyed
<1>8. Heaped(node', h, heapN, Scheduled) /\ heapN \in Nat
  BY <1>1, <1>6, <1>7, MoveSorts, HeapIs
<1> HIDE DEF h
<1>9. heapN' = heapN /\ Scheduled' = Scheduled
  <2>1. Cardinality(DOMAIN h.at) = heapN /\ {h.at[i] : i \in DOMAIN h.at} = Scheduled
    BY ONLY <1>8, NodesOf
  <2> QED BY <1>2, <2>1 DEF heapN, Scheduled
<1>10. \A m \in Scheduled \ {n} : node'[m] = node[m]
  BY <1>6, PlaceOf
<1> QED BY <1>1, <1>2, <1>4, <1>6, <1>9, <1>10 DEF n

LEMMA AddDoes ==
  ASSUME SInv, NEW p \in Pair, NEW d \in Delay, Add(p, d)
  PROVE  LET n == Fresh IN
         /\ n \in Node /\ n \notin Scheduled /\ \A m \in Scheduled : node[m].what # p
         /\ Scheduled' = Scheduled \cup {n} /\ heapN' = heapN + 1
         /\ \A m \in Scheduled : node'[m] = node[m]
         /\ node'[n] = [what |-> p, due |-> Due(d), seq |-> nextSeq]
         /\ nextSeq' = nextSeq + 1 /\ clock' = clock /\ doing' = doing /\ begun' = begun
         /\ doing \in {"loop", "callback"}
<1> DEFINE n == Fresh
           e == [what |-> p, due |-> Due(d), seq |-> nextSeq]
           h == SiftUp(node', WithNode(n), heapN)
<1>1. n \in Node /\ n \notin Scheduled
  <2>1. n \in Node /\ node[n] = Free
    BY FreshIs
  <2> QED BY <2>1 DEF SInv, InUse
<1>2. /\ node' = [node EXCEPT ![n] = e] /\ heap' = h.at /\ nextSeq' = nextSeq + 1 /\ Find(p) = NoNode
      /\ doing' = doing /\ begun' = begun /\ clock' = clock /\ doing \in {"loop", "callback"}
  BY DEF Add, Asking, run, SetHeap, WithNode
<1> HIDE DEF n
<1>3. e.due \in Nat /\ e.seq \in Nat
  BY DueIsTime DEF SInv, TypeOK
<1> HIDE DEF e
<1>4. node'[n] = e /\ \A m \in Node : m # n => node'[m] = node[m]
  BY <1>1, <1>2 DEF SInv, TypeOK
<1>5. Keyed(node')
  BY <1>3, <1>4, HeapIs DEF Keyed
<1>6. Heaped(node', h, heapN + 1, Scheduled \cup {n}) /\ heapN + 1 \in Nat
  BY <1>1, <1>4, <1>5, AddSorts, HeapIs
<1> HIDE DEF h
<1>7. heapN' = heapN + 1 /\ Scheduled' = Scheduled \cup {n}
  <2> DEFINE N == heapN + 1
             X == Scheduled \cup {n}
  <2>1. N \in Nat /\ Heaped(node', h, N, X)
    BY <1>6
  <2> HIDE DEF N, X
  <2>2. Cardinality(DOMAIN h.at) = N /\ {h.at[i] : i \in DOMAIN h.at} = X
    BY ONLY <2>1, NodesOf
  <2> QED BY <1>2, <2>2 DEF N, X, heapN, Scheduled
<1>8. \A m \in Scheduled : node'[m] = node[m]
  BY <1>1, <1>4, PlaceOf
<1>9. \A m \in Scheduled : node[m].what # p
  BY <1>2, FindIs
<1> QED BY <1>1, <1>2, <1>4, <1>7, <1>8, <1>9 DEF n, e

\* The steps that leave the nodes that wait as they are.
Stays == Scheduled' = Scheduled /\ heapN' = heapN /\ nextSeq' = nextSeq
         /\ \A m \in Scheduled : node'[m] = node[m]

LEMMA HeapKept == ASSUME heap' = heap, node' = node, nextSeq' = nextSeq PROVE Stays
BY DEF Stays, Scheduled, heapN

LEMMA ReturnStays == ASSUME SInv, CallbackReturns PROVE Stays
<1>1. heap' = heap /\ nextSeq' = nextSeq /\ node' = [node EXCEPT ![running] = Free] /\ running \notin Scheduled
  BY DEF CallbackReturns, SInv, InUse
<1>2. \A m \in Scheduled : node'[m] = node[m]
  BY <1>1, PlaceOf DEF SInv, TypeOK
<1> QED BY <1>1, <1>2 DEF Stays, Scheduled, heapN

-----------------------------------------------------------------------------
(* Asked for one after the other, and a round begun in the past.           *)

InTurn == /\ \A n \in Scheduled : node[n].seq < nextSeq
          /\ \A a, b \in Scheduled : node[a].seq = node[b].seq => a = b
          /\ doing # "loop" => begun <= clock

RInv == SInv /\ InTurn

LEMMA RInvInit == Init => RInv
<1>1. Init => Scheduled = {}
  BY DEF Init, Scheduled
<1> QED BY <1>1, InitHolds DEF RInv, InTurn, Init

LEMMA RInvNext == RInv /\ [Next]_vars => RInv'
<1> SUFFICES ASSUME RInv, [Next]_vars PROVE InTurn'
  BY NextKeeps DEF RInv
<1> USE DEF RInv
<1>1. /\ \A n \in Scheduled : node[n].seq \in Nat /\ node[n].seq < nextSeq
      /\ \A a, b \in Scheduled : node[a].seq = node[b].seq => a = b
      /\ doing # "loop" => begun <= clock
      /\ clock \in Nat /\ begun \in Nat /\ nextSeq \in Nat
  BY NodesHave DEF InTurn, SInv, TypeOK
<1>2. ASSUME Stays, doing' # "loop" => begun' <= clock' PROVE InTurn'
  BY <1>1, <1>2 DEF Stays, InTurn
<1>3. ASSUME NEW p \in Pair, Unschedule(p) PROVE InTurn'
  <2> DEFINE n == Find(p)
  <2>1. /\ Scheduled' = Scheduled \ {n} /\ \A m \in Scheduled \ {n} : node'[m] = node[m]
        /\ nextSeq' = nextSeq /\ clock' = clock /\ doing' = doing /\ begun' = begun
    BY <1>3, UnscheduleDoes
  <2> QED BY <1>1, <2>1 DEF InTurn
<1>4. ASSUME NEW p \in Pair, NoMem(p) PROVE InTurn'
  BY <1>1, <1>2, <1>4, HeapKept
    DEF NoMem, Asking, run, HeapFails, HashFails, NodeFails, HashGrows, HashStays, table
<1>5. ASSUME NEW p \in Pair, NEW d \in Delay, Move(p, d) PROVE InTurn'
  <2> DEFINE n == Find(p)
  <2>1. /\ n \in Scheduled /\ Scheduled' = Scheduled /\ \A m \in Scheduled \ {n} : node'[m] = node[m]
        /\ node'[n] = [what |-> p, due |-> Due(d), seq |-> nextSeq]
        /\ nextSeq' = nextSeq + 1 /\ clock' = clock /\ doing' = doing /\ begun' = begun
    BY <1>5, MoveDoes
  <2>2. node'[n].seq = nextSeq
    BY <2>1
  <2> HIDE DEF n
  <2> QED BY <1>1, <2>1, <2>2 DEF InTurn
<1>6. ASSUME NEW p \in Pair, NEW d \in Delay, Add(p, d) PROVE InTurn'
  <2> DEFINE n == Fresh
  <2>1. /\ Scheduled' = Scheduled \cup {n} /\ n \notin Scheduled /\ \A m \in Scheduled : node'[m] = node[m]
        /\ node'[n] = [what |-> p, due |-> Due(d), seq |-> nextSeq]
        /\ nextSeq' = nextSeq + 1 /\ clock' = clock /\ doing' = doing /\ begun' = begun
    BY <1>6, AddDoes
  <2>2. node'[n].seq = nextSeq
    BY <2>1
  <2> HIDE DEF n
  <2> QED BY <1>1, <2>1, <2>2 DEF InTurn
<1>7. CASE BeginRound
  BY <1>1, <1>2, <1>7, HeapKept DEF BeginRound, table
<1>8. CASE RunOne
  <2>1. /\ Scheduled' \subseteq Scheduled /\ node' = node /\ nextSeq' = nextSeq /\ clock' = clock
        /\ begun' = begun /\ doing = "round"
    BY <1>8, RunOneDoes
  <2> QED BY <1>1, <2>1 DEF InTurn
<1>9. CASE CallbackReturns
  <2>1. doing = "callback" /\ clock' = clock /\ (doing' # "loop" => begun' = begun)
    BY <1>9 DEF CallbackReturns
  <2> QED BY <1>1, <1>2, <1>9, <2>1, ReturnStays
<1>10. CASE RoundEnds
  BY <1>2, <1>10, HeapKept DEF RoundEnds, table
<1>11. CASE Tick
  BY <1>1, <1>2, <1>11, HeapKept DEF Tick, table, run
<1>12. CASE UNCHANGED vars
  BY <1>1, <1>2, <1>12, HeapKept DEF vars, table, run
<1> QED BY <1>3, <1>4, <1>5, <1>6, <1>7, <1>8, <1>9, <1>10, <1>11, <1>12 DEF Next

-----------------------------------------------------------------------------
(* The refinement of Agenda.                                               *)

EntryOf(nd, c, dg, bg, n) ==
  [what |-> nd[n].what, wait |-> IF nd[n].due < c THEN -1 ELSE nd[n].due - c,
   turn |-> dg # "loop" /\ nd[n].due < bg]
Entries == [i \in DOMAIN Queue |-> Entry(Queue[i])]
EntrySet == [what : Pair, wait : Int, turn : BOOLEAN]
EntriesOf(q, N) == [i \in 1..N |-> EntryOf(node, clock, doing, begun, q[i])]

LEMMA QueueIs ==
  /\ Queue = Lined(node, Scheduled, heapN)
  /\ Queue' = Lined(node', Scheduled', heapN')
  /\ Entries = [i \in 1..heapN |-> EntryOf(node, clock, doing, begun, Queue[i])]
  /\ Entries' = [i \in 1..heapN' |-> EntryOf(node', clock', doing', begun', Queue'[i])]
<1>1. Queue = Lined(node, Scheduled, heapN)
  BY DEF Queue, Lined, Before, Ahead
<1>2. Queue' = Lined(node', Scheduled', heapN')
  BY DEF Queue, Lined, Before, Ahead
<1>3. DOMAIN Queue = 1..heapN /\ DOMAIN Queue' = 1..heapN'
  BY DEF Queue
<1>4. Entries = [i \in 1..heapN |-> EntryOf(node, clock, doing, begun, Queue[i])]
  BY <1>3 DEF Entries, Entry, EntryOf
<1>5. Entries' = [i \in 1..heapN' |-> EntryOf(node', clock', doing', begun', Queue'[i])]
  BY <1>3 DEF Entries, Entry, EntryOf
<1> QED BY <1>1, <1>2, <1>4, <1>5

LEMMA ScheduledNumber ==
  ASSUME SInv PROVE IsFiniteSet(Scheduled) /\ Cardinality(Scheduled) = heapN /\ heapN \in Nat
<1>1. heapN \in Nat /\ heap \in [0..heapN-1 -> Node] /\ Scheduled = {heap[i] : i \in 0..heapN-1}
      /\ \A i \in 0..heapN-1 : slot[heap[i]] = i
  BY DEF SInv, Arrays, SlotsAgree, Scheduled
<1>2. heap \in Bijection(0..heapN-1, Scheduled)
  BY <1>1 DEF Bijection, Injection, Surjection, IsInjective
<1>3. IsFiniteSet(0..heapN-1) /\ Cardinality(0..heapN-1) = heapN
  <2>1. 0 \in Int /\ heapN - 1 \in Int
    BY <1>1
  <2>2. /\ IsFiniteSet(0..heapN-1)
        /\ Cardinality(0..heapN-1) = IF 0 > heapN - 1 THEN 0 ELSE heapN - 1 - 0 + 1
    BY ONLY <2>1, FS_Interval
  <2> QED BY <1>1, <2>2
<1>4. ExistsBijection(0..heapN-1, Scheduled)
  BY <1>2 DEF ExistsBijection
<1> QED BY <1>1, <1>3, <1>4, FS_Bijection

LEMMA QueueLines ==
  ASSUME RInv
  PROVE  /\ Apart(node, Scheduled) /\ Line(node, Scheduled, heapN, Queue) /\ heapN \in Nat
         /\ Entries \in Seq(EntrySet) /\ Len(Entries) = heapN
         /\ Entries = EntriesOf(Queue, heapN)
<1>1. Apart(node, Scheduled)
  BY HeapIs, PlaceOf DEF Apart, RInv, InTurn, Keyed
<1>2. Line(node, Scheduled, heapN, Queue) /\ heapN \in Nat
  BY <1>1, LinedUp, ScheduledNumber, QueueIs DEF RInv
<1>3. Entries = EntriesOf(Queue, heapN)
  BY QueueIs DEF EntriesOf
<1>4. ASSUME NEW i \in 1..heapN PROVE Entries[i] \in EntrySet
  <2> DEFINE n == Queue[i]
  <2>1. n \in Scheduled
    BY <1>2 DEF Line
  <2>2. node[n].what \in Pair /\ node[n].due \in Nat /\ clock \in Nat
    BY <2>1, NodesHave DEF RInv, SInv, TypeOK
  <2> HIDE DEF n
  <2>3. EntryOf(node, clock, doing, begun, n) \in EntrySet
    BY <2>2 DEF EntryOf, EntrySet
  <2> QED BY <1>3, <2>3 DEF EntriesOf, n
<1>5. Entries \in [1..heapN -> EntrySet]
  BY <1>3, <1>4 DEF EntriesOf
<1> QED BY <1>1, <1>2, <1>3, <1>5

\* The queue after a step is whatever line of the nodes it leaves there is.
LEMMA QueueAfter ==
  ASSUME RInv', NEW q, NEW X, NEW M \in Nat, Line(node', X, M, q), Scheduled' = X, heapN' = M
  PROVE  Queue' = q
<1>1. Apart(node', Scheduled')
  <2>1. \A n \in Scheduled' : n \in Node
    BY DEF RInv, SInv, TypeOK, Arrays, Scheduled
  <2>2. \A n \in Node : node'[n].due \in Nat /\ node'[n].seq \in Nat
    BY DEF RInv, SInv, TypeOK, Free
  <2> QED BY <2>1, <2>2 DEF Apart, RInv, InTurn
<1>2. q = Lined(node', X, M)
  BY <1>1, LineIs
<1> QED BY <1>2, QueueIs

\* One that waits, taken out of the agenda.
LEMMA Forgotten ==
  ASSUME RInv, NEW i \in 1..heapN
  PROVE  LET n == Queue[i]
             q == [k \in 1..heapN-1 |-> IF k < i THEN Queue[k] ELSE Queue[k+1]]
         IN /\ Line(node, Scheduled \ {n}, heapN - 1, q) /\ heapN - 1 \in Nat
            /\ Promised!Without(Entries, node[n].what) = EntriesOf(q, heapN - 1)
<1> DEFINE n == Queue[i]
           N == heapN
           p == node[n].what
           q == [k \in 1..heapN-1 |-> IF k < i THEN Queue[k] ELSE Queue[k+1]]
<1>1. /\ Apart(node, Scheduled) /\ Line(node, Scheduled, N, Queue) /\ N \in Nat
      /\ Entries \in Seq(EntrySet) /\ Len(Entries) = N /\ Entries = EntriesOf(Queue, N)
  BY QueueLines
<1>2. Line(node, Scheduled \ {n}, N - 1, q) /\ N - 1 \in Nat
  <2>1. Line(node, Scheduled \ {Queue[i]}, N - 1, [k \in 1..N-1 |-> IF k < i THEN Queue[k] ELSE Queue[k+1]])
    BY <1>1, LineLoses
  <2> QED BY <1>1, <2>1
<1>3. /\ \A k \in 1..N : Queue[k] \in Scheduled
      /\ \A j, k \in 1..N : Queue[j] = Queue[k] => j = k
  <2>1. /\ Queue \in [1..N -> Scheduled]
        /\ \A j, k \in 1..N : j < k => Sooner(node, Queue[j], Queue[k])
    BY <1>1 DEF Line
  <2>2. \A j, k \in 1..N : j < k => Queue[j] # Queue[k]
    BY <1>1, <2>1, OneIsSooner
  <2> QED BY <2>1, <2>2
<1>4. \A k \in 1..N : Entries[k].what = node[Queue[k]].what
  BY <1>1 DEF EntriesOf, EntryOf
<1>5. \A k \in 1..N : Entries[k].what = p <=> k = i
  BY <1>3, <1>4 DEF RInv, SInv, Once
<1>6. DOMAIN Entries = 1..N
  BY <1>1
<1> HIDE DEF p, N
<1>7. Promised!Places(Entries, p) = {i} /\ p \in Promised!Of(Entries)
  <2> DEFINE a == Entries
  <2>1. DOMAIN a = 1..N /\ i \in 1..N /\ \A k \in 1..N : a[k].what = p <=> k = i
    BY <1>5, <1>6 DEF N
  <2> HIDE DEF a
  <2>2. Promised!Places(a, p) = {i}
    BY <2>1 DEF Promised!Places
  <2>3. p \in Promised!Of(a)
    BY <2>1 DEF Promised!Of
  <2> QED BY <2>2, <2>3 DEF a
<1>8. Promised!Without(Entries, p) = Promised!RemoveAt(Entries, i)
  BY <1>7 DEF Promised!Without
<1>9. Promised!RemoveAt(Entries, i) = [k \in 1..N-1 |-> IF k < i THEN Entries[k] ELSE Entries[k+1]]
  <2>1. i \in 1..Len(Entries)
    BY <1>1 DEF N
  <2> QED BY <1>1, <2>1, Promised!TookFrom
<1>10. \A k \in 1..N-1 : EntriesOf(q, N - 1)[k] = IF k < i THEN Entries[k] ELSE Entries[k+1]
  <2> TAKE k \in 1..N-1
  <2>1. EntriesOf(q, N - 1)[k] = EntryOf(node, clock, doing, begun, IF k < i THEN Queue[k] ELSE Queue[k+1])
    BY DEF EntriesOf, N
  <2>2. k \in 1..N /\ k + 1 \in 1..N
    BY <1>1
  <2>3. Entries[k] = EntryOf(node, clock, doing, begun, Queue[k])
        /\ Entries[k+1] = EntryOf(node, clock, doing, begun, Queue[k+1])
    BY <1>1, <2>2 DEF EntriesOf
  <2> QED BY <2>1, <2>3
<1>11. EntriesOf(q, N - 1) = [k \in 1..N-1 |-> IF k < i THEN Entries[k] ELSE Entries[k+1]]
  BY <1>10 DEF EntriesOf
<1> QED BY <1>2, <1>8, <1>9, <1>11 DEF N, p

\* One asked for now with the delay D is where the agenda has it.
LEMMA Inserted ==
  ASSUME RInv, RInv', NEW X, X \subseteq Scheduled, NEW M \in Nat, NEW q, Line(node, X, M, q),
         NEW n, n \notin X, NEW p \in Pair, NEW D \in Nat,
         node'[n] = [what |-> p, due |-> clock + D, seq |-> nextSeq],
         \A m \in X : node'[m] = node[m],
         Scheduled' = X \cup {n}, heapN' = M + 1,
         clock' = clock, doing' = doing, begun' = begun
  PROVE  Entries' = Promised!Insert(EntriesOf(q, M), p, D)
<1> DEFINE P == DueBy(node, M, q, clock + D)
           b == Cardinality(P)
           r == Promised!Put(M, q, b, n)
           a == EntriesOf(q, M)
           e == [what |-> p, wait |-> D, turn |-> FALSE]
<1>1. /\ Apart(node, X) /\ clock \in Nat /\ nextSeq \in Nat
      /\ \A m \in X : /\ node[m].what \in Pair /\ node[m].due \in Nat /\ node[m].seq < nextSeq
  <2>1. Apart(node, Scheduled)
    BY QueueLines
  <2>2. Apart(node, X)
    BY <2>1 DEF Apart
  <2>3. \A m \in Scheduled : node[m].what \in Pair /\ node[m].due \in Nat
    BY NodesHave DEF RInv
  <2> QED BY <2>2, <2>3 DEF RInv, InTurn, SInv, TypeOK
<1>2. node'[n].what = p /\ node'[n].due = clock + D /\ node'[n].seq = nextSeq
  OBVIOUS
<1>3. b \in 0..M /\ Line(node', X \cup {n}, M + 1, r)
  <2> DEFINE nd == node
             to == node'
  <2>1. /\ \A m \in X : to[m] = nd[m] /\ nd[m].seq < to[n].seq
        /\ to[n].due \in Nat /\ to[n].seq \in Nat /\ to[n].due = clock + D
    BY <1>1, <1>2
  <2>2. Apart(nd, X) /\ Line(nd, X, M, q)
    BY <1>1
  <2> HIDE DEF nd, to
  <2>3. /\ Cardinality(DueBy(nd, M, q, to[n].due)) \in 0..M
        /\ Line(to, X \cup {n}, M + 1, Promised!Put(M, q, Cardinality(DueBy(nd, M, q, to[n].due)), n))
    BY ONLY M \in Nat, n \notin X, <2>1, <2>2, LineGains
  <2> QED BY <2>1, <2>3 DEF to, nd
<1>4. Queue' = r
  <2> HIDE DEF r
  <2>1. M + 1 \in Nat
    OBVIOUS
  <2> QED BY <1>3, <2>1, QueueAfter
<1>5. q \in [1..M -> X]
  BY DEF Line
<1>6. \A k \in 1..M : a[k] \in EntrySet /\ (a[k].wait <= D <=> node[q[k]].due <= clock + D)
  <2> TAKE k \in 1..M
  <2> DEFINE m == q[k]
  <2>1. node[m].what \in Pair /\ node[m].due \in Nat /\ clock \in Nat
    BY <1>1, <1>5
  <2>2. a[k] = EntryOf(node, clock, doing, begun, m)
    BY DEF EntriesOf
  <2> HIDE DEF m, a
  <2> QED BY <2>1, <2>2 DEF EntryOf, EntrySet, m
<1>7. a \in Seq(EntrySet) /\ Len(a) = M /\ DOMAIN a = 1..M
  <2>1. a \in [1..M -> EntrySet]
    BY <1>6 DEF EntriesOf
  <2> HIDE DEF a
  <2> QED BY <2>1
<1>8. {k \in DOMAIN a : Promised!NoLater(D, a[k])} = P
  BY <1>6, <1>7 DEF Promised!NoLater, DueBy
<1>9. e \in EntrySet
  BY DEF EntrySet
<1> HIDE DEF a, P
<1>10. Promised!Insert(a, p, D) = Promised!InsertAt(a, b + 1, e)
  BY <1>8, SameCount DEF Promised!Insert, Promised!Turn
<1> HIDE DEF b, e
<1>11. Promised!InsertAt(a, b + 1, e) = Promised!Put(M, a, b, e)
  <2> DEFINE i == b + 1
  <2>1. i \in 1..Len(a)+1 /\ i - 1 = b
    BY <1>3, <1>7
  <2> HIDE DEF i
  <2>2. Promised!InsertAt(a, i, e) = Promised!Put(Len(a), a, i - 1, e)
    BY ONLY <1>7, <1>9, <2>1, Promised!PutIn
  <2> QED BY <1>7, <2>1, <2>2 DEF i
<1>12. ASSUME NEW k \in 1..M+1
       PROVE  EntryOf(node', clock', doing', begun', r[k])
                = IF k < b + 1 THEN a[k] ELSE IF k = b + 1 THEN e ELSE a[k-1]
  <2>1. ASSUME NEW m \in X PROVE EntryOf(node', clock', doing', begun', m) = EntryOf(node, clock, doing, begun, m)
    BY <2>1 DEF EntryOf
  <2>2. \A j \in 1..M : a[j] = EntryOf(node, clock, doing, begun, q[j])
    BY DEF a, EntriesOf
  <2>3. CASE k < b + 1
    <3>1. k \in 1..M /\ r[k] = q[k] /\ q[k] \in X
      BY <1>3, <1>5, <2>3 DEF Promised!Put
    <3> QED BY <2>1, <2>2, <2>3, <3>1
  <2>4. CASE k = b + 1
    <3>1. r[k] = n
      BY <1>3, <2>4 DEF Promised!Put
    <3>2. EntryOf(node', clock', doing', begun', n) = e
      <4>1. ~(clock + D < clock) /\ (clock + D) - clock = D
        BY <1>1
      <4>2. doing # "loop" => ~(clock + D < begun)
        <5>1. (doing # "loop" => begun <= clock) /\ begun \in Nat /\ clock \in Nat
          BY ONLY RInv DEF RInv, InTurn, SInv, TypeOK
        <5> QED BY ONLY <5>1, D \in Nat
      <4>3. node'[n].what = p
        BY <1>2
      <4>4. (IF node'[n].due < clock' THEN -1 ELSE node'[n].due - clock') = D
        <5>1. node'[n].due = clock + D /\ clock' = clock
          BY <1>2
        <5>2. node'[n].due < clock' <=> clock + D < clock
          BY ONLY <5>1
        <5>3. ~(node'[n].due < clock')
          BY ONLY <4>1, <5>2
        <5>4. node'[n].due - clock' = D
          BY ONLY <4>1, <5>1
        <5> QED BY <5>3, <5>4
      <4>5. (doing' # "loop" /\ node'[n].due < begun') = FALSE
        BY <1>2, <4>2
      <4> QED BY <4>3, <4>4, <4>5 DEF EntryOf, e
    <3> QED BY <2>4, <3>1, <3>2
  <2>5. CASE k > b + 1
    <3>1. k - 1 \in 1..M /\ r[k] = q[k-1] /\ q[k-1] \in X
      BY <1>3, <1>5, <2>5 DEF Promised!Put
    <3> QED BY <1>3, <2>1, <2>2, <2>5, <3>1
  <2> QED BY <1>3, <2>3, <2>4, <2>5
<1>13. Entries' = [k \in 1..M+1 |-> EntryOf(node', clock', doing', begun', r[k])]
  BY <1>4, QueueIs
<1> HIDE DEF r
<1>14. Entries' = Promised!Put(M, a, b, e)
  BY <1>12, <1>13 DEF Promised!Put
<1> QED BY <1>10, <1>11, <1>14 DEF a

-----------------------------------------------------------------------------
(* The steps.                                                              *)

LEMMA EntryIs ==
  ASSUME NEW nd, NEW c, NEW dg, NEW bg, NEW n
  PROVE  LET e == EntryOf(nd, c, dg, bg, n)
         IN /\ e.what = nd[n].what
            /\ e.wait = IF nd[n].due < c THEN -1 ELSE nd[n].due - c
            /\ e.turn \in BOOLEAN /\ (e.turn <=> dg # "loop" /\ nd[n].due < bg)
<1> DEFINE w == nd[n].what
           t == IF nd[n].due < c THEN -1 ELSE nd[n].due - c
           b == dg # "loop" /\ nd[n].due < bg
<1>1. EntryOf(nd, c, dg, bg, n) = [what |-> w, wait |-> t, turn |-> b]
  BY DEF EntryOf
<1> DEFINE e == EntryOf(nd, c, dg, bg, n)
<1>2. b \in BOOLEAN /\ (b <=> dg # "loop" /\ nd[n].due < bg)
  OBVIOUS
<1> HIDE DEF b, t, w
<1>3. e.what = w /\ e.wait = t /\ e.turn = b
  BY <1>1
<1> HIDE DEF e
<1>4. e.turn \in BOOLEAN /\ (e.turn <=> dg # "loop" /\ nd[n].due < bg)
  BY <1>2, <1>3
<1>5. e.what = nd[n].what /\ e.wait = IF nd[n].due < c THEN -1 ELSE nd[n].due - c
  BY <1>3 DEF t, w
<1> QED BY <1>4, <1>5 DEF e

\* The steps that leave a line of the nodes leave the queue so.
LEMMA LineStays ==
  ASSUME RInv', NEW q, NEW X, NEW M \in Nat, Line(node, X, M, q), Scheduled' = X, heapN' = M,
         \A m \in X : node'[m] = node[m]
  PROVE  /\ Queue' = q
         /\ Entries' = [k \in 1..M |-> EntryOf(node, clock', doing', begun', q[k])]
<1>1. q \in [1..M -> X]
  BY DEF Line
<1>2. Line(node', X, M, q)
  <2>1. \A i, j \in 1..M : i < j => Sooner(node', q[i], q[j])
    BY <1>1 DEF Line, Sooner
  <2> QED BY <2>1 DEF Line
<1>3. Queue' = q
  BY <1>2, QueueAfter
<1>4. Entries' = [k \in 1..M |-> EntryOf(node', clock', doing', begun', q[k])]
  BY <1>3, QueueIs
<1>5. \A k \in 1..M : EntryOf(node', clock', doing', begun', q[k]) = EntryOf(node, clock', doing', begun', q[k])
  BY <1>1 DEF EntryOf
<1> QED BY <1>3, <1>4, <1>5

\* The soonest is at the top: the agenda begins with what the heap begins with.
LEMMA TopIsFirst == ASSUME RInv, heapN # 0 PROVE 1 \in 1..heapN /\ Queue[1] = heap[0]
<1>1. /\ Apart(node, Scheduled) /\ Line(node, Scheduled, heapN, Queue) /\ heapN \in Nat
  BY QueueLines
<1>2. /\ heap \in [0..heapN-1 -> Node] /\ Scheduled = {heap[i] : i \in 0..heapN-1} /\ Keyed(node)
      /\ \A i \in 1..heapN-1 : ~Sooner(node, heap[i], heap[Parent(i)])
  BY HeapIs DEF RInv, SInv, Arrays, HeapOrder, Scheduled
<1>3. 0 \in 0..heapN-1 /\ 1 \in 1..heapN
  BY <1>1
<1>4. \A i \in 0..heapN-1 : ~Sooner(node, heap[i], heap[0])
  <2> DEFINE T == {i \in 0..heapN-1 : Sooner(node, heap[i], heap[0])}
  <2> SUFFICES ASSUME T # {} PROVE FALSE
    OBVIOUS
  <2>1. T \subseteq Nat
    OBVIOUS
  <2>2. PICK i \in T : \A m \in T : i <= m
    BY <2>1, Promised!Least
  <2>3. i \in 0..heapN-1 /\ heap[i] \in Node /\ heap[0] \in Node
    BY <1>2, <1>3
  <2>4. i # 0
    BY <1>2, <2>2, <2>3, NotSooner
  <2> DEFINE j == Parent(i)
  <2>5. j \in Nat /\ j < i
    BY <2>3, <2>4, Above
  <2> HIDE DEF j
  <2>6. j \in 0..heapN-1 /\ heap[j] \in Node
    BY <1>1, <1>2, <2>3, <2>5
  <2>7. ~Sooner(node, heap[j], heap[0])
    BY <2>2, <2>3, <2>5, <2>6
  <2>8. ~Sooner(node, heap[i], heap[j])
    BY <1>1, <1>2, <2>3, <2>4 DEF j
  <2>9. ~Sooner(node, heap[i], heap[0])
    BY <1>2, <2>3, <2>6, <2>7, <2>8, NotSooner
  <2> QED BY <2>2, <2>9
<1>5. heap[0] \in Scheduled
  BY <1>2, <1>3
<1>6. PICK i \in 1..heapN : Queue[i] = heap[0]
  BY <1>1, <1>5 DEF Line
<1>7. CASE i = 1
  BY <1>3, <1>6, <1>7
<1>8. CASE i # 1
  <2>1. Sooner(node, Queue[1], heap[0]) /\ Queue[1] \in Scheduled
    BY <1>1, <1>3, <1>6, <1>8 DEF Line
  <2> QED BY <1>2, <1>4, <2>1
<1> QED BY <1>7, <1>8

\* What is due before the round began has its turn in it.
LEMMA TurnIsDue ==
  ASSUME RInv, doing # "loop" PROVE Entries # <<>> /\ Head(Entries).turn <=> DueNow
<1>1. Entries = EntriesOf(Queue, heapN) /\ Len(Entries) = heapN /\ heapN \in Nat /\ Entries \in Seq(EntrySet)
  BY QueueLines
<1>2. CASE heapN = 0
  <2>1. Entries = <<>>
    BY <1>1, <1>2
  <2> QED BY <1>2, <2>1 DEF DueNow
<1>3. CASE heapN # 0
  <2>1. 1 \in 1..heapN /\ Queue[1] = heap[0]
    BY <1>3, TopIsFirst
  <2>2. Entries[1] = EntryOf(node, clock, doing, begun, heap[0])
    BY <1>1, <2>1 DEF EntriesOf
  <2>3. Entries[1].turn <=> node[heap[0]].due < begun
    BY <2>2, EntryIs
  <2>4. Entries # <<>> /\ Head(Entries) = Entries[1]
    BY <1>1, <1>3
  <2>5. heapN > 0
    BY <1>1, <1>3
  <2> QED BY <2>3, <2>4, <2>5 DEF DueNow
<1> QED BY <1>2, <1>3

LEMMA UnscheduleForgets ==
  ASSUME RInv, RInv', NEW p \in Pair, Unschedule(p)
  PROVE  /\ doing \in {"loop", "callback"} /\ doing' = doing
         /\ Entries' = Promised!Without(Entries, p)
<1> DEFINE n == Find(p)
           X == Scheduled \ {n}
           M == heapN - 1
<1>1. /\ n \in Scheduled /\ node[n].what = p
      /\ Scheduled' = X /\ heapN' = M
      /\ \A m \in X : node'[m] = node[m]
      /\ clock' = clock /\ doing' = doing /\ begun' = begun
  BY UnscheduleDoes DEF RInv
<1> HIDE DEF n
<1>2. PICK i \in 1..heapN : Queue[i] = n
  BY <1>1, QueueLines DEF Line
<1> DEFINE q == [k \in 1..heapN-1 |-> IF k < i THEN Queue[k] ELSE Queue[k+1]]
<1>3. Line(node, X, M, q) /\ M \in Nat /\ Promised!Without(Entries, p) = EntriesOf(q, M)
  BY <1>1, <1>2, Forgotten
<1> HIDE DEF q, X, M
<1>4. Entries' = [k \in 1..M |-> EntryOf(node, clock', doing', begun', q[k])]
  BY <1>1, <1>3, LineStays
<1>5. doing \in {"loop", "callback"}
  BY DEF Unschedule, Asking
<1> QED BY <1>1, <1>3, <1>4, <1>5 DEF EntriesOf

LEMMA MoveAsks ==
  ASSUME RInv, RInv', NEW p \in Pair, NEW d \in Delay, Move(p, d)
  PROVE  /\ doing \in {"loop", "callback"} /\ doing' = doing
         /\ Entries' = Promised!Insert(Promised!Without(Entries, p), p, d * PerMs)
<1> DEFINE n == Find(p)
           X == Scheduled \ {n}
           M == heapN - 1
           D == d * PerMs
<1>1. /\ n \in Scheduled /\ node[n].what = p
      /\ Scheduled' = Scheduled /\ heapN' = heapN
      /\ \A m \in X : node'[m] = node[m]
      /\ node'[n] = [what |-> p, due |-> clock + D, seq |-> nextSeq]
      /\ clock' = clock /\ doing' = doing /\ begun' = begun /\ doing \in {"loop", "callback"}
  BY MoveDoes DEF RInv, Due
<1>2. D \in Nat
  BY SchedulerAssumption
<1> HIDE DEF n, D
<1>3. PICK i \in 1..heapN : Queue[i] = n
  BY <1>1, QueueLines DEF Line
<1> DEFINE q == [k \in 1..heapN-1 |-> IF k < i THEN Queue[k] ELSE Queue[k+1]]
<1>4. Line(node, X, M, q) /\ M \in Nat /\ Promised!Without(Entries, p) = EntriesOf(q, M)
  BY <1>1, <1>3, Forgotten
<1> HIDE DEF q
<1>5. X \subseteq Scheduled /\ n \notin X /\ Scheduled' = X \cup {n} /\ heapN' = M + 1
  BY <1>1, QueueLines
<1> HIDE DEF X, M
<1>6. Entries' = Promised!Insert(EntriesOf(q, M), p, D)
  BY <1>1, <1>2, <1>4, <1>5, Inserted
<1> QED BY <1>1, <1>4, <1>6 DEF D

LEMMA AddAsks ==
  ASSUME RInv, RInv', NEW p \in Pair, NEW d \in Delay, Add(p, d)
  PROVE  /\ doing \in {"loop", "callback"} /\ doing' = doing
         /\ Entries' = Promised!Insert(Promised!Without(Entries, p), p, d * PerMs)
<1> DEFINE n == Fresh
           D == d * PerMs
<1>1. /\ n \notin Scheduled /\ \A m \in Scheduled : node[m].what # p
      /\ Scheduled' = Scheduled \cup {n} /\ heapN' = heapN + 1
      /\ \A m \in Scheduled : node'[m] = node[m]
      /\ node'[n] = [what |-> p, due |-> clock + D, seq |-> nextSeq]
      /\ clock' = clock /\ doing' = doing /\ begun' = begun /\ doing \in {"loop", "callback"}
  BY AddDoes DEF RInv, Due
<1>2. D \in Nat
  BY SchedulerAssumption
<1> HIDE DEF n, D
<1>3. /\ Line(node, Scheduled, heapN, Queue) /\ heapN \in Nat
      /\ Entries = EntriesOf(Queue, heapN) /\ DOMAIN Entries = 1..heapN
  BY QueueLines DEF EntriesOf
<1>4. \A k \in DOMAIN Entries : Entries[k].what # p
  <2> TAKE k \in DOMAIN Entries
  <2>1. Entries[k] = EntryOf(node, clock, doing, begun, Queue[k]) /\ Queue[k] \in Scheduled
    BY <1>3 DEF EntriesOf, Line
  <2> QED BY <1>1, <2>1 DEF EntryOf
<1>5. Promised!Without(Entries, p) = Entries
  BY <1>4 DEF Promised!Without, Promised!Of
<1>6. Entries' = Promised!Insert(EntriesOf(Queue, heapN), p, D)
  BY <1>1, <1>2, <1>3, Inserted
<1> QED BY <1>1, <1>3, <1>5, <1>6 DEF D

\* The next that runs is the first of the agenda, and has its turn.
LEMMA RunOneTakesFirst ==
  ASSUME RInv, RInv', RunOne
  PROVE  /\ doing = "round" /\ doing' = "callback"
         /\ Entries # <<>> /\ Head(Entries).turn
         /\ Entries' = Tail(Entries)
<1> DEFINE n == heap[0]
           X == Scheduled \ {n}
           M == heapN - 1
<1>1. /\ n \in Scheduled /\ Scheduled' = X /\ heapN' = M /\ node' = node
      /\ clock' = clock /\ doing = "round" /\ doing' = "callback" /\ begun' = begun
  BY RunOneDoes DEF RInv
<1>2. DueNow /\ heapN # 0
  BY QueueLines DEF RunOne, DueNow
<1>3. Entries # <<>> /\ Head(Entries).turn
  BY <1>1, <1>2, TurnIsDue
<1>4. 1 \in 1..heapN /\ Queue[1] = n
  BY <1>2, TopIsFirst
<1> HIDE DEF n
<1> DEFINE q == [k \in 1..heapN-1 |-> IF k < 1 THEN Queue[k] ELSE Queue[k+1]]
<1>5. Line(node, X, M, q) /\ M \in Nat
  BY <1>4, Forgotten
<1>6. /\ Entries = EntriesOf(Queue, heapN) /\ Entries \in Seq(EntrySet) /\ Len(Entries) = heapN /\ heapN \in Nat
  BY QueueLines
<1> HIDE DEF q, X
<1>7. Entries' = [k \in 1..M |-> EntryOf(node, clock', doing', begun', q[k])]
  <2> HIDE DEF M
  <2> QED BY <1>1, <1>5, LineStays
<1>8. \A k \in 1..M : Entries'[k] = Entries[k+1]
  <2> TAKE k \in 1..M
  <2>1. k + 1 \in 1..heapN /\ q[k] = Queue[k+1]
    BY <1>6 DEF q
  <2>2. Entries[k+1] = EntryOf(node, clock, doing, begun, Queue[k+1])
    BY <1>6, <2>1 DEF EntriesOf
  <2>3. Entries'[k] = EntryOf(node, clock', doing', begun', Queue[k+1])
    BY <1>7, <2>1
  <2>4. EntryOf(node, clock', doing', begun', Queue[k+1]) = EntryOf(node, clock, doing, begun, Queue[k+1])
    BY <1>1 DEF EntryOf
  <2> QED BY <2>2, <2>3, <2>4
<1>9. Tail(Entries) = [k \in 1..M |-> Entries[k+1]]
  <2> DEFINE a == Entries
             t == Tail(a)
  <2>1. a \in Seq(EntrySet) /\ a # <<>>
    BY <1>3, <1>6
  <2> HIDE DEF a
  <2>2. t \in Seq(EntrySet) /\ Len(t) = Len(a) - 1 /\ \A k \in 1..Len(t) : t[k] = a[k+1]
    BY <2>1, HeadTailProperties
  <2> HIDE DEF t
  <2>3. t = [k \in 1..Len(t) |-> t[k]]
    BY <2>2
  <2> QED BY <1>6, <2>2, <2>3 DEF a, t
<1>10. Entries' = [k \in 1..M |-> Entries[k+1]]
  BY <1>7, <1>8
<1> QED BY <1>1, <1>3, <1>9, <1>10

\* The steps that leave the nodes that wait leave the agenda in its order.
LEMMA StaysInLine ==
  ASSUME RInv, RInv', Stays
  PROVE  /\ Entries = [k \in 1..heapN |-> EntryOf(node, clock, doing, begun, Queue[k])]
         /\ Entries' = [k \in 1..heapN |-> EntryOf(node, clock', doing', begun', Queue[k])]
         /\ DOMAIN Entries = 1..heapN
         /\ \A k \in 1..heapN : node[Queue[k]].due \in Nat
         /\ clock \in Nat /\ begun \in Nat
<1>1. /\ Entries = EntriesOf(Queue, heapN) /\ heapN \in Nat /\ Line(node, Scheduled, heapN, Queue)
      /\ Apart(node, Scheduled)
  BY QueueLines
<1>2. Entries' = [k \in 1..heapN |-> EntryOf(node, clock', doing', begun', Queue[k])]
  BY <1>1, LineStays DEF Stays
<1>3. clock \in Nat /\ begun \in Nat
  BY DEF RInv, SInv, TypeOK
<1> QED BY <1>1, <1>2, <1>3 DEF EntriesOf, Line, Apart

LEMMA TurnSet ==
  ASSUME NEW nd, NEW c, NEW dg, NEW bg, NEW n, NEW dg2, NEW bg2,
         NEW v \in BOOLEAN, v <=> dg2 # "loop" /\ nd[n].due < bg2
  PROVE  [EntryOf(nd, c, dg, bg, n) EXCEPT !.turn = v] = EntryOf(nd, c, dg2, bg2, n)
<1> DEFINE w == nd[n].what
           t == IF nd[n].due < c THEN -1 ELSE nd[n].due - c
           b == dg # "loop" /\ nd[n].due < bg
           b2 == dg2 # "loop" /\ nd[n].due < bg2
<1>1. v = b2
  OBVIOUS
<1>2. /\ EntryOf(nd, c, dg, bg, n) = [what |-> w, wait |-> t, turn |-> b]
      /\ EntryOf(nd, c, dg2, bg2, n) = [what |-> w, wait |-> t, turn |-> b2]
  BY DEF EntryOf
<1> HIDE DEF w, t, b, b2
<1> QED BY <1>1, <1>2

LEMMA BeginRoundBegins ==
  ASSUME RInv, RInv', BeginRound
  PROVE  /\ doing = "loop" /\ doing' = "round" /\ Entries # <<>>
         /\ Entries' = [i \in DOMAIN Entries |-> [Entries[i] EXCEPT !.turn = Entries[i].wait = -1]]
<1>1. doing = "loop" /\ doing' = "round" /\ heapN > 0 /\ clock' = clock /\ begun' = clock
  BY DEF BeginRound
<1>2. Stays
  BY HeapKept DEF BeginRound, table
<1>3. /\ Entries = [k \in 1..heapN |-> EntryOf(node, clock, doing, begun, Queue[k])]
      /\ Entries' = [k \in 1..heapN |-> EntryOf(node, clock', doing', begun', Queue[k])]
      /\ DOMAIN Entries = 1..heapN
      /\ \A k \in 1..heapN : node[Queue[k]].due \in Nat
      /\ clock \in Nat
  BY <1>2, StaysInLine
<1>4. Entries # <<>>
  <2>1. 1 \in DOMAIN Entries
    BY <1>1, <1>3, QueueLines
  <2> QED BY <2>1
<1>5. ASSUME NEW k \in 1..heapN
      PROVE  EntryOf(node, clock', doing', begun', Queue[k]) = [Entries[k] EXCEPT !.turn = Entries[k].wait = -1]
  <2> DEFINE n == Queue[k]
             v == (Entries[k].wait = -1)
  <2>1. node[n].due \in Nat /\ Entries[k] = EntryOf(node, clock, doing, begun, n)
    BY <1>3
  <2> HIDE DEF n
  <2>2. Entries[k].wait = IF node[n].due < clock THEN -1 ELSE node[n].due - clock
    BY <2>1, EntryIs
  <2>3. Entries[k].wait = -1 <=> node[n].due < clock
    BY <1>3, <2>1, <2>2
  <2>4. doing' # "loop" /\ begun' = clock
    BY <1>1
  <2>5. v \in BOOLEAN /\ (v <=> doing' # "loop" /\ node[n].due < begun')
    BY <2>3, <2>4
  <2> HIDE DEF v
  <2>6. [EntryOf(node, clock, doing, begun, n) EXCEPT !.turn = v] = EntryOf(node, clock, doing', begun', n)
    BY <2>5, TurnSet
  <2> QED BY <1>1, <2>1, <2>6 DEF n, v
<1> QED BY <1>1, <1>3, <1>4, <1>5

\* The end of a round, with all of its callbacks run or with some left.
LEMMA LoopIsOver ==
  ASSUME RInv, RInv', Stays, clock' = clock, doing' = "loop"
  PROVE  Entries' = [i \in DOMAIN Entries |-> [Entries[i] EXCEPT !.turn = FALSE]]
<1>3. /\ Entries = [k \in 1..heapN |-> EntryOf(node, clock, doing, begun, Queue[k])]
      /\ Entries' = [k \in 1..heapN |-> EntryOf(node, clock', doing', begun', Queue[k])]
      /\ DOMAIN Entries = 1..heapN
  BY StaysInLine
<1>5. ASSUME NEW k \in 1..heapN
      PROVE  EntryOf(node, clock', doing', begun', Queue[k]) = [Entries[k] EXCEPT !.turn = FALSE]
  <2> DEFINE n == Queue[k]
  <2>1. Entries[k] = EntryOf(node, clock, doing, begun, n)
    BY <1>3
  <2> HIDE DEF n
  <2> DEFINE v == FALSE
  <2>2. v \in BOOLEAN /\ (v <=> doing' # "loop" /\ node[n].due < begun')
    OBVIOUS
  <2> HIDE DEF v
  <2>3. [EntryOf(node, clock, doing, begun, n) EXCEPT !.turn = v] = EntryOf(node, clock, doing', begun', n)
    BY <2>2, TurnSet
  <2> QED BY <2>1, <2>3 DEF n, v
<1> QED BY <1>3, <1>5

LEMMA ReturnGoesOn ==
  ASSUME RInv, RInv', CallbackReturns
  PROVE  /\ doing = "callback"
         /\ \/ doing' = "round" /\ Entries' = Entries
            \/ /\ Entries # <<>> /\ Head(Entries).turn /\ doing' = "loop"
               /\ Entries' = [i \in DOMAIN Entries |-> [Entries[i] EXCEPT !.turn = FALSE]]
<1>1. Stays /\ doing = "callback" /\ clock' = clock
  BY ReturnStays DEF RInv, CallbackReturns
<1>2. CASE OutOfTime /\ doing' = "loop" /\ begun' = 0
  <2>1. Entries # <<>> /\ Head(Entries).turn
    BY <1>1, <1>2, TurnIsDue DEF OutOfTime
  <2> QED BY <1>1, <1>2, <2>1, LoopIsOver
<1>3. CASE doing' = "round" /\ begun' = begun
  <2>1. /\ Entries = [k \in 1..heapN |-> EntryOf(node, clock, doing, begun, Queue[k])]
        /\ Entries' = [k \in 1..heapN |-> EntryOf(node, clock', doing', begun', Queue[k])]
    BY <1>1, StaysInLine
  <2>2. \A k \in 1..heapN : EntryOf(node, clock', doing', begun', Queue[k])
                              = EntryOf(node, clock, doing, begun, Queue[k])
    BY <1>1, <1>3 DEF EntryOf
  <2> QED BY <1>1, <1>3, <2>1, <2>2
<1> QED BY <1>2, <1>3 DEF CallbackReturns

LEMMA RoundEndsOver ==
  ASSUME RInv, RInv', RoundEnds
  PROVE  /\ doing = "round" /\ ~(Entries # <<>> /\ Head(Entries).turn) /\ doing' = "loop"
         /\ Entries' = [i \in DOMAIN Entries |-> [Entries[i] EXCEPT !.turn = FALSE]]
<1>1. doing = "round" /\ doing' = "loop" /\ clock' = clock /\ ~DueNow
  BY DEF RoundEnds
<1>2. Stays
  BY HeapKept DEF RoundEnds, table
<1> QED BY <1>1, <1>2, LoopIsOver, TurnIsDue

LEMMA OneSooner ==
  ASSUME NEW nd, NEW c \in Nat, NEW dg, NEW bg, NEW n, nd[n].due \in Nat
  PROVE  LET e == EntryOf(nd, c, dg, bg, n)
         IN /\ [e EXCEPT !.wait = IF @ = -1 THEN -1 ELSE @ - 1] = EntryOf(nd, c + 1, dg, bg, n)
            /\ e.wait = -1 => EntryOf(nd, c + 1, dg, bg, n) = e
<1> DEFINE w == IF nd[n].due < c THEN -1 ELSE nd[n].due - c
           u == IF nd[n].due < c + 1 THEN -1 ELSE nd[n].due - (c + 1)
           b == dg # "loop" /\ nd[n].due < bg
           x == nd[n].what
<1>1. u = IF w = -1 THEN -1 ELSE w - 1
  OBVIOUS
<1>2. /\ EntryOf(nd, c, dg, bg, n) = [what |-> x, wait |-> w, turn |-> b]
      /\ EntryOf(nd, c + 1, dg, bg, n) = [what |-> x, wait |-> u, turn |-> b]
  BY DEF EntryOf
<1> HIDE DEF w, u, b, x
<1> QED BY <1>1, <1>2

LEMMA TickBrings ==
  ASSUME RInv, RInv', Tick
  PROVE  /\ doing' = doing
         /\ \/ Entries' = Entries
            \/ /\ \E i \in DOMAIN Entries : Entries[i].wait # -1
               /\ Entries' = [i \in DOMAIN Entries |-> [Entries[i] EXCEPT !.wait = IF @ = -1 THEN -1 ELSE @ - 1]]
<1>1. doing' = doing /\ clock' = clock + 1 /\ begun' = begun
  BY DEF Tick, run
<1>2. Stays
  BY HeapKept DEF Tick, table
<1>3. /\ Entries = [k \in 1..heapN |-> EntryOf(node, clock, doing, begun, Queue[k])]
      /\ Entries' = [k \in 1..heapN |-> EntryOf(node, clock', doing', begun', Queue[k])]
      /\ DOMAIN Entries = 1..heapN
      /\ \A k \in 1..heapN : node[Queue[k]].due \in Nat
      /\ clock \in Nat
  BY <1>2, StaysInLine
<1>4. ASSUME NEW k \in 1..heapN
      PROVE  /\ Entries'[k] = [Entries[k] EXCEPT !.wait = IF @ = -1 THEN -1 ELSE @ - 1]
             /\ Entries[k].wait = -1 => Entries'[k] = Entries[k]
  <2> DEFINE n == Queue[k]
  <2>1. /\ Entries[k] = EntryOf(node, clock, doing, begun, n) /\ node[n].due \in Nat
        /\ Entries'[k] = EntryOf(node, clock', doing', begun', n)
    BY <1>3
  <2> HIDE DEF n
  <2>2. Entries'[k] = EntryOf(node, clock + 1, doing, begun, n)
    BY <1>1, <2>1
  <2> QED BY <1>3, <2>1, <2>2, OneSooner
<1>5. Entries' = [i \in DOMAIN Entries |-> [Entries[i] EXCEPT !.wait = IF @ = -1 THEN -1 ELSE @ - 1]]
  BY <1>3, <1>4
<1>6. CASE \A i \in DOMAIN Entries : Entries[i].wait = -1
  <2>1. \A k \in 1..heapN : Entries'[k] = Entries[k]
    BY <1>3, <1>4, <1>6
  <2> QED BY <1>1, <1>3, <2>1
<1> QED BY <1>1, <1>5, <1>6

-----------------------------------------------------------------------------

LEMMA StutterIs ==
  ASSUME RInv, RInv', Stays, clock' = clock, doing' = doing, begun' = begun
  PROVE  Entries' = Entries
<1>1. /\ Entries = [k \in 1..heapN |-> EntryOf(node, clock, doing, begun, Queue[k])]
      /\ Entries' = [k \in 1..heapN |-> EntryOf(node, clock', doing', begun', Queue[k])]
  BY StaysInLine
<1>2. \A k \in 1..heapN : EntryOf(node, clock', doing', begun', Queue[k])
                            = EntryOf(node, clock, doing, begun, Queue[k])
  BY DEF EntryOf
<1> QED BY <1>1, <1>2

LEMMA NextIsAgendas == RInv /\ RInv' /\ [Next]_vars => [Promised!Next]_(Promised!vars)
<1> SUFFICES ASSUME RInv, RInv', [Next]_vars PROVE [Promised!Next]_(Promised!vars)
  OBVIOUS
<1>1. ASSUME Entries' = Entries, doing' = doing PROVE [Promised!Next]_(Promised!vars)
  BY <1>1 DEF Promised!vars, Entries
<1>2. ASSUME NEW p \in Pair, Unschedule(p) PROVE Promised!Next
  <2>1. Promised!Forget(p)
    BY <1>2, UnscheduleForgets DEF Promised!Forget, Entries
  <2> QED BY <2>1 DEF Promised!Next
<1>3. ASSUME NEW p \in Pair, NoMem(p) PROVE [Promised!Next]_(Promised!vars)
  <2>1. /\ heap' = heap /\ node' = node /\ nextSeq' = nextSeq
        /\ clock' = clock /\ doing' = doing /\ begun' = begun
    BY <1>3 DEF NoMem, Asking, run, HeapFails, HashFails, NodeFails, HashGrows, HashStays, table
  <2> QED BY <1>1, <2>1, HeapKept, StutterIs
<1>4. ASSUME NEW p \in Pair, NEW d \in Delay, Move(p, d) \/ Add(p, d) PROVE Promised!Next
  <2> DEFINE D == d * PerMs
  <2>1. Promised!Ask(p, D)
    BY <1>4, MoveAsks, AddAsks DEF Promised!Ask, Entries
  <2>2. D \in {x * PerMs : x \in Delay}
    OBVIOUS
  <2> HIDE DEF D
  <2> QED BY <2>1, <2>2 DEF Promised!Next
<1>5. CASE BeginRound
  <2>1. Promised!BeginRound
    BY <1>5, BeginRoundBegins DEF Promised!BeginRound, Promised!Past, Entries
  <2> QED BY <2>1 DEF Promised!Next
<1>6. CASE RunOne
  <2>1. Promised!RunOne
    BY <1>6, RunOneTakesFirst DEF Promised!RunOne, Promised!HasTurn, Entries
  <2> QED BY <2>1 DEF Promised!Next
<1>7. CASE CallbackReturns
  <2>1. Promised!CallbackReturns
    BY <1>7, ReturnGoesOn DEF Promised!CallbackReturns, Promised!HasTurn, Promised!Over, Entries
  <2> QED BY <2>1 DEF Promised!Next
<1>8. CASE RoundEnds
  <2>1. Promised!RoundEnds
    BY <1>8, RoundEndsOver DEF Promised!RoundEnds, Promised!HasTurn, Promised!Over, Entries
  <2> QED BY <2>1 DEF Promised!Next
<1>9. CASE Tick
  <2>1. CASE Entries' = Entries
    BY <1>1, <1>9, <2>1, TickBrings
  <2>2. CASE /\ \E i \in DOMAIN Entries : Entries[i].wait # -1
             /\ Entries' = [i \in DOMAIN Entries |-> [Entries[i] EXCEPT !.wait = IF @ = -1 THEN -1 ELSE @ - 1]]
    <3>1. Promised!Tick
      BY <1>9, <2>2, TickBrings DEF Promised!Tick, Promised!Less, Promised!Past, Entries
    <3> QED BY <3>1 DEF Promised!Next
  <2> QED BY <1>9, <2>1, <2>2, TickBrings
<1>10. CASE UNCHANGED vars
  <2>1. /\ heap' = heap /\ node' = node /\ nextSeq' = nextSeq
        /\ clock' = clock /\ doing' = doing /\ begun' = begun
    BY <1>10 DEF vars, table, run
  <2> QED BY <1>1, <2>1, HeapKept, StutterIs
<1> QED BY <1>2, <1>3, <1>4, <1>5, <1>6, <1>7, <1>8, <1>9, <1>10 DEF Next

LEMMA InitIsAgendas == Init => Promised!Init
<1> SUFFICES ASSUME Init PROVE Entries = <<>> /\ doing = "loop"
  BY DEF Promised!Init, Entries
<1>1. RInv
  BY RInvInit
<1>2. heapN = 0
  BY FS_EmptySet DEF Init, heapN
<1> QED BY <1>1, <1>2, QueueLines DEF Init

\* The scheduler is the agenda (schedule.c and the calls of it): whatever the
\* number of callbacks, their hashes and the delays they are asked for with,
\* they run in the order due and asked for, each once, those of a round before
\* what they ask for, through moves, cancellations and failed allocations.
THEOREM SchedulerImplementsAgenda == Spec => ImplementsAgenda
<1>1. Spec => []RInv
  BY RInvInit, RInvNext, PTL DEF Spec
<1> QED BY <1>1, InitIsAgendas, NextIsAgendas, PTL DEF Spec, ImplementsAgenda, Promised!Spec

\* So no callback waits twice, the soonest is the first to run, and those of the
\* round under way come before all that was asked for since.
THEOREM QueueStaysInOrder == Spec => []Promised!InOrder
<1>1. {d * PerMs : d \in Delay} \subseteq Nat
  BY SchedulerAssumption
<1>2. Promised!Spec => [](Promised!TypeOK /\ Promised!InOrder)
  BY <1>1, Promised!StaysInOrder
<1> QED BY <1>2, SchedulerImplementsAgenda, PTL DEF ImplementsAgenda
=============================================================================
