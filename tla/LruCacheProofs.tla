--------------------------- MODULE LruCacheProofs ---------------------------
(***************************************************************************)
(* Proofs about lru_cache: the nodes in use form one doubly linked list,   *)
(* the counters of the cache are those of the list, and the cache          *)
(* implements LruList.                                                     *)
(***************************************************************************)
EXTENDS LruCache, WellFoundedInduction, FiniteSetTheorems, SequenceTheorems, TLAPS

-----------------------------------------------------------------------------
(* The inductive invariant.                                                *)

NodeOrNull == Nodes \cup {0}

\* No node twice in s.
Distinct(s) == \A i, j \in 1 .. Len(s) : s[i] = s[j] => i = j

\* The pointers are those of a list of the nodes of s.
Chain(s, h, t, pv, nx) ==
    /\ h = (IF Len(s) = 0 THEN 0 ELSE s[1])
    /\ t = (IF Len(s) = 0 THEN 0 ELSE s[Len(s)])
    /\ \A i \in 1 .. Len(s) : pv[s[i]] = (IF i = 1 THEN 0 ELSE s[i - 1])
    /\ \A i \in 1 .. Len(s) : nx[s[i]] = (IF i = Len(s) THEN 0 ELSE s[i + 1])

\* f are the sums of the lengths of the first nodes of s.
Sums(s, sz, f) ==
    /\ f \in [0 .. Len(s) -> Nat] /\ f[0] = 0
    /\ \A i \in 1 .. Len(s) : f[i] = f[i - 1] + sz[s[i]]
    /\ \A i, j \in 0 .. Len(s) : i <= j => f[i] <= f[j]

Typed ==
    /\ FieldsOK
    /\ DOMAIN key = Nodes /\ DOMAIN data = Nodes /\ size \in [Nodes -> Nat]

KeysUnique == \A a, b \in live : key[a] = key[b] => a = b

Counted ==
    /\ IsFiniteSet(live) /\ Cardinality(live) = entry_count
    /\ entry_count <= max_entries + 1
    /\ pc = "idle" => used_bytes <= max_bytes /\ entry_count <= max_entries

\* s are the nodes in use, from the head.
Listing(s) ==
    /\ s \in Seq(Nodes) /\ Distinct(s) /\ live = {s[i] : i \in 1 .. Len(s)}
    /\ Len(s) = entry_count
    /\ Chain(s, head, tail, prev, next)
    /\ \E f : Sums(s, size, f) /\ f[Len(s)] = used_bytes

IInv == Typed /\ KeysUnique /\ Counted /\ \E s : Listing(s)

-----------------------------------------------------------------------------
(* Sequences of nodes.                                                     *)

\* Each set of numbers has a least one.
LEMMA LeastNat ==
    ASSUME NEW T \in SUBSET Nat, NEW n \in T
    PROVE  \E m \in T : \A k \in T : m <= k
<1>. DEFINE R == OpToRel(<, Nat)
<1>1. IsWellFoundedOn(R, Nat)
  BY NatLessThanWellFounded
<1>2. \A x, y \in Nat : x < y => <<x, y>> \in R
  BY DEF OpToRel
<1>. HIDE DEF R
<1>3. PICK m \in T : \A k \in T : <<k, m>> \notin R
  BY <1>1, WFMin
<1>4. \A k \in T : k \in Nat /\ m \in Nat /\ ~(k < m)
  BY <1>2, <1>3
<1>5. \A k \in T : m <= k
  BY <1>4
<1>. QED BY <1>5

\* NULL is no node.
LEMMA NodesAre == max_entries \in Nat /\ Nodes \subseteq Nat \ {0} /\ 0 \notin Nodes
  BY LruAssumption DEF Nodes

\* What is known of each place of a sequence of nodes.
LEMMA PlacesAre ==
    ASSUME NEW s \in Seq(Nodes)
    PROVE  /\ Len(s) \in Nat /\ DOMAIN s = 1 .. Len(s)
           /\ \A i \in 1 .. Len(s) : s[i] \in Nodes /\ s[i] # 0
  BY NodesAre, LenProperties, ElementOfSeq

\* A function on 1 .. n is a sequence.
LEMMA SequenceOf ==
    ASSUME NEW n \in Nat, NEW s \in [1 .. n -> Nodes]
    PROVE  s \in Seq(Nodes) /\ Len(s) = n
<1>1. s \in Seq(Nodes)
  BY SeqDef
<1>2. Len(s) \in Nat /\ DOMAIN s = 1 .. Len(s) /\ DOMAIN s = 1 .. n
  BY <1>1, LenProperties
<1>3. Len(s) = n
  BY <1>2
<1>. QED BY <1>1, <1>3

MoveFront(s, k) ==
    [i \in 1 .. Len(s) |-> IF i = 1 THEN s[k] ELSE IF i <= k THEN s[i - 1] ELSE s[i]]

\* The node at place k moves to the front, those before it one place back.
LEMMA MoveFrontOf ==
    ASSUME NEW s \in Seq(Nodes), NEW k \in 1 .. Len(s), Distinct(s)
    PROVE  LET t == MoveFront(s, k) IN
           /\ t \in Seq(Nodes) /\ Len(t) = Len(s) /\ Distinct(t)
           /\ {t[i] : i \in 1 .. Len(t)} = {s[i] : i \in 1 .. Len(s)}
           /\ \A i \in 1 .. Len(s) :
                t[i] = IF i = 1 THEN s[k] ELSE IF i <= k THEN s[i - 1] ELSE s[i]
<1>. DEFINE n == Len(s)  t == MoveFront(s, k)
<1>1. n \in Nat /\ \A i \in 1 .. n : s[i] \in Nodes
  BY PlacesAre
<1>2. \A i \in 1 .. n : t[i] = IF i = 1 THEN s[k] ELSE IF i <= k THEN s[i - 1] ELSE s[i]
  BY DEF MoveFront
<1>3. t \in [1 .. n -> Nodes]
  <2>1. ASSUME NEW i \in 1 .. n
        PROVE  (IF i = 1 THEN s[k] ELSE IF i <= k THEN s[i - 1] ELSE s[i]) \in Nodes
    <3>1. CASE i = 1
      BY <1>1, <3>1
    <3>2. CASE i # 1
      <4>1. i - 1 \in 1 .. n
        BY <1>1, <3>2
      <4>. QED BY <1>1, <3>2, <4>1
    <3>. QED BY <3>1, <3>2
  <2>. QED BY <2>1 DEF MoveFront
<1>4. t \in Seq(Nodes) /\ Len(t) = n
  BY <1>1, <1>3, SequenceOf
<1>. HIDE DEF t
\* Where the node at place i comes from.
<1>. DEFINE from(i) == IF i = 1 THEN k ELSE IF i <= k THEN i - 1 ELSE i
<1>5. \A i \in 1 .. n : from(i) \in 1 .. n /\ t[i] = s[from(i)]
  BY <1>1, <1>2
<1>6. \A i, j \in 1 .. n : from(i) = from(j) => i = j
  BY <1>1
<1>7. Distinct(t)
  <2>. SUFFICES ASSUME NEW i \in 1 .. n, NEW j \in 1 .. n, t[i] = t[j] PROVE i = j
    BY <1>4 DEF Distinct
  <2>1. from(i) = from(j)
    BY <1>5 DEF Distinct
  <2>. QED BY <1>6, <2>1
<1>8. \A j \in 1 .. n : \E i \in 1 .. n : from(i) = j
  <2>. SUFFICES ASSUME NEW j \in 1 .. n PROVE \E i \in 1 .. n : from(i) = j
    OBVIOUS
  <2>1. CASE j = k
    <3>1. 1 \in 1 .. n /\ from(1) = j
      BY <1>1, <2>1
    <3>. QED BY <3>1
  <2>2. CASE j < k
    <3>1. j + 1 \in 1 .. n /\ from(j + 1) = j
      BY <1>1, <2>2
    <3>. QED BY <3>1
  <2>3. CASE j > k
    <3>1. from(j) = j
      BY <1>1, <2>3
    <3>. QED BY <3>1
  <2>. QED BY <1>1, <2>1, <2>2, <2>3
<1>9. {t[i] : i \in 1 .. n} = {s[i] : i \in 1 .. n}
  <2>. HIDE DEF from
  <2>1. ASSUME NEW i \in 1 .. n PROVE t[i] \in {s[j] : j \in 1 .. n}
    BY <1>5
  <2>2. ASSUME NEW j \in 1 .. n PROVE s[j] \in {t[i] : i \in 1 .. n}
    <3>1. PICK i \in 1 .. n : from(i) = j
      BY <1>8
    <3>2. t[i] = s[j]
      BY <1>5, <3>1
    <3>. QED BY <3>2
  <2>. QED BY <2>1, <2>2
<1>. QED BY <1>2, <1>4, <1>7, <1>9 DEF t

\* The first sums of a sequence whose node at place k moves to the front, with
\* another length.
LEMMA MoveFrontSums ==
    ASSUME NEW s \in Seq(Nodes), NEW k \in 1 .. Len(s), Distinct(s),
           NEW sz \in [Nodes -> Nat], NEW m \in Nat, NEW f, Sums(s, sz, f)
    PROVE  /\ f[Len(s)] \in Nat /\ f[Len(s)] >= sz[s[k]]
           /\ \E g : /\ Sums(MoveFront(s, k), [sz EXCEPT ![s[k]] = m], g)
                     /\ g[Len(s)] = f[Len(s)] - sz[s[k]] + m
<1>. DEFINE n == Len(s)  t == MoveFront(s, k)  a == sz[s[k]]  z == [sz EXCEPT ![s[k]] = m]
            g == [i \in 0 .. n |-> IF i = 0 THEN 0 ELSE IF i <= k THEN f[i - 1] + m
                                   ELSE f[i] - a + m]
<1>1. n \in Nat /\ \A i \in 1 .. n : s[i] \in Nodes /\ sz[s[i]] \in Nat
  BY PlacesAre
<1>2. /\ Len(t) = n
      /\ \A i \in 1 .. n : t[i] = IF i = 1 THEN s[k] ELSE IF i <= k THEN s[i - 1] ELSE s[i]
  BY MoveFrontOf
<1>3. /\ \A i \in 0 .. n : f[i] \in Nat
      /\ f[0] = 0 /\ \A i \in 1 .. n : f[i] = f[i - 1] + sz[s[i]]
      /\ \A i, j \in 0 .. n : i <= j => f[i] <= f[j]
  BY DEF Sums
<1>4. a \in Nat /\ k - 1 \in 0 .. n /\ f[k] = f[k - 1] + a /\ f[k - 1] \in Nat
  BY <1>1, <1>3
<1>5. \A i \in 0 .. n : i >= k => f[i] >= f[k - 1] + a
  BY <1>1, <1>3, <1>4
<1>6. \A i \in 1 .. n : z[s[i]] = IF i = k THEN m ELSE sz[s[i]]
  BY <1>1 DEF Distinct
<1>. HIDE DEF t, z, a
<1>7. \A i \in 0 .. n : g[i] = IF i = 0 THEN 0 ELSE IF i <= k THEN f[i - 1] + m
                               ELSE f[i] - a + m
  OBVIOUS
<1>. HIDE DEF g
<1>8. \A i \in 0 .. n : g[i] \in Nat
  <2>. SUFFICES ASSUME NEW i \in 0 .. n PROVE g[i] \in Nat
    OBVIOUS
  <2>1. CASE i = 0
    BY <1>7, <2>1
  <2>2. CASE i # 0 /\ i <= k
    <3>1. i - 1 \in 0 .. n
      BY <1>1, <2>2
    <3>2. f[i - 1] \in Nat
      BY <1>3, <3>1
    <3>. QED BY <1>7, <2>2, <3>2
  <2>3. CASE i > k
    <3>1. f[i] \in Nat /\ f[i] >= f[k - 1] + a
      BY <1>1, <1>3, <1>5, <2>3
    <3>2. g[i] = f[i] - a + m
      BY <1>1, <1>7, <2>3
    <3>. DEFINE x == f[k - 1]  y == f[i]
    <3>3. x \in Nat /\ y \in Nat /\ y >= x + a
      BY <1>4, <3>1
    <3>4. y - a + m \in Nat
      <4>. HIDE DEF x, y
      <4>. QED BY <1>4, <3>3
    <3>. QED BY <3>2, <3>4
  <2>. QED BY <1>1, <2>1, <2>2, <2>3
<1>9. g \in [0 .. n -> Nat] /\ g[0] = 0
  BY <1>1, <1>7, <1>8 DEF g
<1>10. ASSUME NEW i \in 1 .. n PROVE g[i] = g[i - 1] + z[t[i]]
  <2>. i \in 0 .. n /\ i - 1 \in 0 .. n
    BY <1>1
  <2>1. CASE i = 1
    <3>1. g[1] = f[0] + m /\ g[0] = 0 /\ z[t[1]] = m
      BY <1>1, <1>2, <1>6, <1>7, <2>1
    <3>. QED BY <1>3, <2>1, <3>1
  <2>2. CASE i > 1 /\ i <= k
    <3>1. i - 1 \in 1 .. n /\ i - 1 # k /\ i - 1 <= k /\ i - 1 # 0 /\ i # 1 /\ i # 0
      BY <1>1, <2>2
    <3>2. g[i] = f[i - 1] + m /\ g[i - 1] = f[i - 1 - 1] + m /\ t[i] = s[i - 1]
      BY <1>2, <1>7, <2>2, <3>1
    <3>3. z[t[i]] = sz[s[i - 1]] /\ f[i - 1] = f[i - 1 - 1] + sz[s[i - 1]]
      BY <1>3, <1>6, <3>1, <3>2
    <3>4. i - 1 - 1 \in 0 .. n /\ f[i - 1 - 1] \in Nat /\ sz[s[i - 1]] \in Nat
      BY <1>1, <1>3, <3>1
    <3>. QED BY <3>2, <3>3, <3>4
  <2>3. CASE i = k + 1 /\ i > 1
    <3>1. /\ g[i] = f[i] - a + m /\ g[i - 1] = f[k - 1] + m /\ i # k /\ t[i] = s[i]
      BY <1>1, <1>2, <1>7, <2>3
    <3>2. z[t[i]] = sz[s[i]] /\ f[i] = f[k] + sz[s[i]] /\ sz[s[i]] \in Nat
      <4>1. z[t[i]] = sz[s[i]]
        BY <1>6, <3>1
      <4>2. i - 1 = k
        BY <1>1, <2>3
      <4>3. f[i] = f[i - 1] + sz[s[i]]
        BY <1>3
      <4>4. sz[s[i]] \in Nat
        BY <1>1
      <4>. QED BY <4>1, <4>2, <4>3, <4>4
    <3>. DEFINE x == f[k - 1]  y == f[i]  d == sz[s[i]]
    <3>3. x \in Nat /\ y \in Nat /\ d \in Nat /\ y = (x + a) + d
      BY <1>3, <1>4, <3>2
    <3>4. y - a + m = (x + m) + d
      <4>. HIDE DEF x, y, d
      <4>. QED BY <1>4, <3>3
    <3>5. f[i] - a + m = (f[k - 1] + m) + sz[s[i]]
      BY <3>4
    <3>. QED BY <3>1, <3>2, <3>5
  <2>4. CASE i > k + 1
    <3>0. i # 0 /\ i - 1 # 0 /\ i # 1 /\ ~(i <= k) /\ ~(i - 1 <= k) /\ i # k
      BY <1>1, <2>4
    <3>1. /\ g[i] = f[i] - a + m /\ g[i - 1] = f[i - 1] - a + m /\ i # k /\ t[i] = s[i]
      BY <1>2, <1>7, <3>0
    <3>2. z[t[i]] = sz[s[i]] /\ f[i] = f[i - 1] + sz[s[i]] /\ sz[s[i]] \in Nat
          /\ f[i - 1] \in Nat
      BY <1>1, <1>3, <1>6, <3>1
    <3>3. \A x, y, d \in Nat : y = x + d => y - a + m = (x - a + m) + d
      BY <1>4
    <3>4. f[i] - a + m = (f[i - 1] - a + m) + sz[s[i]]
      BY <1>3, <3>2, <3>3
    <3>. QED BY <3>1, <3>2, <3>4
  <2>. QED BY <1>1, <2>1, <2>2, <2>3, <2>4
<1>11. ASSUME NEW i \in 0 .. n, NEW j \in 0 .. n, i <= j PROVE g[i] <= g[j]
  <2>1. CASE i = 0
    BY <1>8, <1>9, <2>1
  <2>2. CASE i # 0 /\ j <= k
    <3>1. /\ g[i] = f[i - 1] + m /\ g[j] = f[j - 1] + m
          /\ i - 1 \in 0 .. n /\ j - 1 \in 0 .. n /\ i - 1 <= j - 1
      BY <1>1, <1>7, <1>11, <2>2
    <3>2. f[i - 1] <= f[j - 1] /\ f[i - 1] \in Nat /\ f[j - 1] \in Nat
      BY <1>3, <3>1
    <3>. QED BY <3>1, <3>2
  <2>3. CASE i # 0 /\ i <= k /\ j > k
    <3>1. /\ g[i] = f[i - 1] + m /\ g[j] = f[j] - a + m
          /\ i - 1 \in 0 .. n /\ i - 1 <= k - 1
      BY <1>1, <1>7, <1>11, <2>3
    <3>2. f[i - 1] <= f[k - 1] /\ f[i - 1] \in Nat
      BY <1>3, <1>4, <3>1
    <3>3. f[j] >= f[k - 1] + a /\ f[j] \in Nat
      BY <1>1, <1>3, <1>5, <2>3
    <3>4. \A x, y, w \in Nat : x <= w /\ y >= w + a => x + m <= y - a + m
      BY <1>4
    <3>5. f[i - 1] + m <= f[j] - a + m
      BY <1>4, <3>2, <3>3, <3>4
    <3>. QED BY <3>1, <3>5
  <2>4. CASE i > k
    <3>1. g[i] = f[i] - a + m /\ g[j] = f[j] - a + m /\ f[i] <= f[j]
          /\ f[i] \in Nat /\ f[j] \in Nat
      BY <1>1, <1>3, <1>7, <1>11, <2>4
    <3>. DEFINE x == f[i]  y == f[j]
    <3>2. x - a + m <= y - a + m
      <4>1. x \in Nat /\ y \in Nat /\ x <= y
        BY <3>1
      <4>. HIDE DEF x, y
      <4>. QED BY <1>4, <4>1
    <3>. QED BY <3>1, <3>2
  <2>. QED BY <1>1, <2>1, <2>2, <2>3, <2>4
<1>12. g[n] = f[n] - a + m
  <2>1. CASE n = k
    <3>1. g[n] = f[k - 1] + m
      BY <1>1, <1>7, <2>1
    <3>. QED BY <1>4, <2>1, <3>1
  <2>2. CASE n > k
    BY <1>1, <1>7, <2>2
  <2>. QED BY <1>1, <2>1, <2>2
<1>13. f[n] \in Nat /\ f[n] >= a
  <2>. DEFINE x == f[k - 1]  y == f[n]
  <2>1. n \in 0 .. n /\ n >= k
    BY <1>1
  <2>2. x \in Nat /\ y \in Nat /\ y >= x + a
    BY <1>3, <1>4, <1>5, <2>1
  <2>. HIDE DEF x, y
  <2>3. y >= a
    BY <1>4, <2>2
  <2>. QED BY <2>2, <2>3 DEF y
<1>14. Sums(t, z, g)
  BY <1>2, <1>9, <1>10, <1>11 DEF Sums
<1>. QED BY <1>12, <1>13, <1>14 DEF t, z, a

\* lru_cache_touch_front: the pointers are those of the list with the node moved.
LEMMA TouchChain ==
    ASSUME NEW s \in Seq(Nodes), Distinct(s), Chain(s, head, tail, prev, next),
           prev \in [Nodes -> NodeOrNull], next \in [Nodes -> NodeOrNull],
           NEW k \in 1 .. Len(s), lru_cache_touch_front(s[k])
    PROVE  /\ Chain(MoveFront(s, k), head', tail', prev', next')
           /\ prev' \in [Nodes -> NodeOrNull] /\ next' \in [Nodes -> NodeOrNull]
<1>. DEFINE n == Len(s)  t == MoveFront(s, k)  e == s[k]  p == prev[e]  q == next[e]
<1>1. n \in Nat /\ \A i \in 1 .. n : s[i] \in Nodes /\ s[i] # 0
  BY PlacesAre
<1>2. /\ Len(t) = n /\ Distinct(t)
      /\ \A i \in 1 .. n : t[i] = IF i = 1 THEN s[k] ELSE IF i <= k THEN s[i - 1] ELSE s[i]
  BY MoveFrontOf
<1>3. /\ n # 0 /\ head = s[1] /\ tail = s[n]
      /\ \A i \in 1 .. n : prev[s[i]] = (IF i = 1 THEN 0 ELSE s[i - 1])
      /\ \A i \in 1 .. n : next[s[i]] = (IF i = n THEN 0 ELSE s[i + 1])
  BY <1>1 DEF Chain
<1>4. \A i, j \in 1 .. n : s[i] = s[j] => i = j
  BY DEF Distinct
<1>. HIDE DEF t
<1>5. CASE k = 1
  <2>1. head = e
    BY <1>3, <1>5
  <2>2. UNCHANGED <<head, tail, prev, next>>
    BY <2>1 DEF lru_cache_touch_front
  <2>3. \A i \in 1 .. n : t[i] = s[i]
    BY <1>1, <1>2, <1>5
  <2>4. t = s
    <3>1. t \in Seq(Nodes)
      BY MoveFrontOf DEF t
    <3>. QED BY <1>2, <2>3, <3>1, SeqEqual
  <2>. QED BY <2>2, <2>4 DEF t
<1>6. CASE k # 1
  <2>1. 1 \in 1 .. n /\ head # e /\ k - 1 \in 1 .. n /\ p = s[k - 1]
    BY <1>1, <1>3, <1>4, <1>6
  <2>2. q = IF k = n THEN 0 ELSE s[k + 1]
    BY <1>3
  <2>. DEFINE h == head
  <2>3. /\ head' = e /\ tail' = (IF q = 0 THEN p ELSE tail)
        /\ next' = [i \in Nodes |-> IF i = e THEN h ELSE IF i = p THEN q ELSE next[i]]
        /\ prev' = [i \in Nodes |-> IF i = e THEN 0 ELSE IF i = h THEN e
                                    ELSE IF i = q THEN p ELSE prev[i]]
    BY <2>1 DEF lru_cache_touch_front
  <2>4. e \in Nodes /\ p \in NodeOrNull /\ q \in NodeOrNull /\ h = s[1] /\ h \in NodeOrNull
    BY <1>1, <1>3, <2>1 DEF NodeOrNull
  <2>. HIDE DEF e, p, q, h
  <2>5. next' \in [Nodes -> NodeOrNull] /\ prev' \in [Nodes -> NodeOrNull]
    BY <2>3, <2>4 DEF NodeOrNull
  <2>6. \A x \in Nodes : /\ next'[x] = IF x = e THEN h ELSE IF x = p THEN q ELSE next[x]
                         /\ prev'[x] = IF x = e THEN 0 ELSE IF x = h THEN e
                                       ELSE IF x = q THEN p ELSE prev[x]
    BY <2>3
  <2>7. e = s[k] /\ p = s[k - 1] /\ h = s[1] /\ (k # n => q = s[k + 1]) /\ (k = n => q = 0)
    BY <2>1, <2>2, <2>4 DEF e
  \* The nodes of s that the step looks for.
  <2>8. \A j \in 1 .. n : /\ s[j] = e <=> j = k
                          /\ s[j] = p <=> j = k - 1
                          /\ s[j] = h <=> j = 1
                          /\ s[j] = q <=> j = k + 1
    <3>1. ASSUME NEW j \in 1 .. n PROVE s[j] = q <=> j = k + 1
      <4>1. CASE k = n
        BY <1>1, <2>7, <4>1
      <4>2. CASE k # n
        <5>1. k + 1 \in 1 .. n /\ q = s[k + 1]
          BY <1>1, <2>7, <4>2
        <5>. QED BY <1>4, <5>1
      <4>. QED BY <4>1, <4>2
    <3>. QED BY <1>4, <2>1, <2>7, <3>1
  <2>9. ASSUME NEW i \in 1 .. n PROVE next'[t[i]] = (IF i = n THEN 0 ELSE t[i + 1])
    <3>1. CASE i = 1
      <4>1. t[1] = e /\ next'[e] = h /\ 1 # n /\ 2 \in 1 .. n /\ 2 <= k
        BY <1>1, <1>2, <1>6, <2>4, <2>6, <2>7
      <4>2. t[2] = s[1]
        BY <1>2, <4>1
      <4>. QED BY <2>7, <3>1, <4>1, <4>2
    <3>2. CASE i # 1 /\ i < k
      <4>1. i - 1 \in 1 .. n /\ i - 1 # k /\ i - 1 # k - 1 /\ i - 1 # n /\ i # n /\ i - 1 + 1 = i
        BY <1>1, <3>2
      <4>2. t[i] = s[i - 1] /\ t[i + 1] = s[i]
        BY <1>1, <1>2, <3>2
      <4>3. next'[s[i - 1]] = next[s[i - 1]]
        BY <1>1, <2>6, <2>8, <4>1
      <4>. QED BY <1>3, <4>1, <4>2, <4>3
    <3>3. CASE i # 1 /\ i = k
      <4>1. t[i] = p /\ next'[p] = q
        BY <1>1, <1>2, <2>1, <2>6, <2>7, <2>8, <3>3
      <4>2. k # n => t[k + 1] = s[k + 1]
        BY <1>1, <1>2
      <4>. QED BY <2>7, <3>3, <4>1, <4>2
    <3>4. CASE i > k
      <4>1. i # 1 /\ i # k /\ i # k - 1 /\ t[i] = s[i] /\ (i # n => t[i + 1] = s[i + 1])
        BY <1>1, <1>2, <3>4
      <4>2. next'[s[i]] = next[s[i]]
        BY <1>1, <2>6, <2>8, <4>1
      <4>. QED BY <1>3, <4>1, <4>2
    <3>. QED BY <1>1, <3>1, <3>2, <3>3, <3>4
  <2>10. ASSUME NEW i \in 1 .. n PROVE prev'[t[i]] = (IF i = 1 THEN 0 ELSE t[i - 1])
    <3>1. CASE i = 1
      BY <1>2, <2>4, <2>6, <2>7, <3>1
    <3>2. CASE i = 2
      <4>1. t[2] = s[1] /\ t[1] = e
        BY <1>1, <1>2, <1>6, <2>7, <3>2
      <4>2. prev'[s[1]] = e
        BY <1>1, <1>6, <2>1, <2>6, <2>8
      <4>. QED BY <3>2, <4>1, <4>2
    <3>3. CASE i > 2 /\ i <= k
      <4>1. /\ i - 1 \in 1 .. n /\ i - 1 # k /\ i - 1 # 1 /\ i - 1 # k + 1 /\ i - 1 <= k
            /\ i # 1
        BY <1>1, <3>3
      <4>2. t[i] = s[i - 1] /\ t[i - 1] = s[i - 1 - 1]
        BY <1>2, <3>3, <4>1
      <4>3. prev'[s[i - 1]] = prev[s[i - 1]]
        BY <1>1, <2>6, <2>8, <4>1
      <4>. QED BY <1>3, <4>1, <4>2, <4>3
    <3>4. CASE i > 2 /\ i = k + 1
      <4>1. t[i] = s[i] /\ t[i - 1] = s[k - 1] /\ i # k /\ i # 1
        BY <1>1, <1>2, <1>6, <3>4
      <4>2. prev'[s[i]] = p
        BY <1>1, <2>6, <2>8, <3>4, <4>1
      <4>. QED BY <2>7, <4>1, <4>2
    <3>5. CASE i > 2 /\ i > k + 1
      <4>1. t[i] = s[i] /\ t[i - 1] = s[i - 1] /\ i # k /\ i # 1 /\ i # k + 1
        BY <1>1, <1>2, <3>5
      <4>2. prev'[s[i]] = prev[s[i]]
        BY <1>1, <2>6, <2>8, <4>1
      <4>. QED BY <1>3, <4>1, <4>2
    <3>. QED BY <1>1, <3>1, <3>2, <3>3, <3>4, <3>5
  <2>11. head' = t[1] /\ tail' = t[n]
    <3>1. head' = t[1]
      BY <1>2, <2>1, <2>3, <2>7
    <3>2. n \in 1 .. n /\ n # 1
      BY <1>1, <1>6
    <3>3. CASE k = n
      BY <1>2, <2>3, <2>7, <3>2, <3>3
    <3>4. CASE k # n
      <4>1. t[n] = s[n] /\ k + 1 \in 1 .. n
        BY <1>1, <1>2, <3>2, <3>4
      <4>2. q # 0
        BY <1>1, <2>7, <3>4, <4>1
      <4>. QED BY <1>3, <2>3, <3>1, <4>1, <4>2
    <3>. QED BY <3>1, <3>3, <3>4
  <2>12. Chain(t, head', tail', prev', next')
    BY <1>2, <1>3, <2>9, <2>10, <2>11 DEF Chain
  <2>. QED BY <2>5, <2>12 DEF t
<1>. QED BY <1>5, <1>6

\* e is not in s.
Absent(e, s) == \A i \in 1 .. Len(s) : s[i] # e

\* A node in front of the others.
InFront(e, s) == [i \in 1 .. Len(s) + 1 |-> IF i = 1 THEN e ELSE s[i - 1]]

\* It is the first, and each of the others one place further back.
LEMMA ConsOf ==
    ASSUME NEW s \in Seq(Nodes), NEW e \in Nodes, Distinct(s), Absent(e, s)
    PROVE  LET t == InFront(e, s) IN
           /\ t \in Seq(Nodes) /\ Len(t) = Len(s) + 1 /\ Distinct(t)
           /\ {t[i] : i \in 1 .. Len(t)} = {s[i] : i \in 1 .. Len(s)} \cup {e}
           /\ t[1] = e /\ \A i \in 1 .. Len(s) : t[i + 1] = s[i]
<1>. DEFINE n == Len(s)  t == InFront(e, s)
<1>1. n \in Nat /\ \A i \in 1 .. n : s[i] \in Nodes /\ s[i] # e
  BY PlacesAre DEF Absent
<1>2. t \in [1 .. n + 1 -> Nodes]
  <2>1. ASSUME NEW i \in 1 .. n + 1 PROVE (IF i = 1 THEN e ELSE s[i - 1]) \in Nodes
    <3>1. CASE i = 1
      BY <3>1
    <3>2. CASE i # 1
      <4>1. i - 1 \in 1 .. n
        BY <1>1, <3>2
      <4>. QED BY <1>1, <3>2, <4>1
    <3>. QED BY <3>1, <3>2
  <2>. QED BY <2>1 DEF InFront
<1>3. t \in Seq(Nodes) /\ Len(t) = n + 1
  <2>1. n + 1 \in Nat
    BY <1>1
  <2>. QED BY <1>2, <2>1, SequenceOf
<1>4. t[1] = e /\ \A i \in 1 .. n : t[i + 1] = s[i]
  BY <1>1 DEF InFront
<1>5. \A i \in 1 .. n + 1 : i = 1 \/ \E j \in 1 .. n : i = j + 1
  <2>. SUFFICES ASSUME NEW i \in 1 .. n + 1, i # 1 PROVE \E j \in 1 .. n : i = j + 1
    OBVIOUS
  <2>1. i - 1 \in 1 .. n /\ i = (i - 1) + 1
    BY <1>1
  <2>. QED BY <2>1
<1>. HIDE DEF t
<1>6. Distinct(t)
  <2>. SUFFICES ASSUME NEW i \in 1 .. n + 1, NEW j \in 1 .. n + 1, t[i] = t[j] PROVE i = j
    BY <1>3 DEF Distinct
  <2>1. CASE i = 1 /\ j = 1
    BY <2>1
  <2>2. CASE i # 1 /\ j # 1
    <3>1. PICK x \in 1 .. n, y \in 1 .. n : i = x + 1 /\ j = y + 1
      BY <1>5, <2>2
    <3>2. s[x] = s[y]
      BY <1>4, <3>1
    <3>. QED BY <3>1, <3>2 DEF Distinct
  <2>3. CASE i = 1 /\ j # 1
    <3>1. PICK y \in 1 .. n : j = y + 1
      BY <1>5, <2>3
    <3>. QED BY <1>1, <1>4, <2>3, <3>1
  <2>4. CASE i # 1 /\ j = 1
    <3>1. PICK x \in 1 .. n : i = x + 1
      BY <1>5, <2>4
    <3>. QED BY <1>1, <1>4, <2>4, <3>1
  <2>. QED BY <2>1, <2>2, <2>3, <2>4
<1>7. {t[i] : i \in 1 .. n + 1} = {s[i] : i \in 1 .. n} \cup {e}
  <2>1. ASSUME NEW i \in 1 .. n + 1 PROVE t[i] \in {s[j] : j \in 1 .. n} \cup {e}
    BY <1>4, <1>5
  <2>2. ASSUME NEW j \in 1 .. n PROVE s[j] \in {t[i] : i \in 1 .. n + 1}
    <3>1. j + 1 \in 1 .. n + 1 /\ t[j + 1] = s[j]
      BY <1>1, <1>4
    <3>. QED BY <3>1
  <2>3. e \in {t[i] : i \in 1 .. n + 1}
    <3>1. 1 \in 1 .. n + 1 /\ t[1] = e
      BY <1>1, <1>4
    <3>. QED BY <3>1
  <2>. QED BY <2>1, <2>2, <2>3
<1>. QED BY <1>3, <1>4, <1>6, <1>7 DEF t

\* z is sz but for the length m of e.
OnlyAt(z, sz, e, m) == z = [sz EXCEPT ![e] = m]

\* Its length comes to all sums but the first.
LEMMA ConsSums ==
    ASSUME NEW s \in Seq(Nodes), NEW e \in Nodes, Distinct(s), Absent(e, s),
           NEW sz \in [Nodes -> Nat], NEW m \in Nat, NEW f, Sums(s, sz, f),
           NEW z, OnlyAt(z, sz, e, m)
    PROVE  \E g : /\ Sums(InFront(e, s), z, g)
                  /\ g[Len(s) + 1] = f[Len(s)] + m
<1>. DEFINE n == Len(s)  t == InFront(e, s)
            g == [i \in 0 .. n + 1 |-> IF i = 0 THEN 0 ELSE f[i - 1] + m]
<1>1. n \in Nat /\ \A i \in 1 .. n : s[i] \in Nodes /\ sz[s[i]] \in Nat
  BY PlacesAre
<1>2. Len(t) = n + 1 /\ t[1] = e /\ \A i \in 1 .. n : t[i + 1] = s[i]
  BY ConsOf
<1>3. /\ \A i \in 0 .. n : f[i] \in Nat
      /\ f[0] = 0 /\ \A i \in 1 .. n : f[i] = f[i - 1] + sz[s[i]]
      /\ \A i, j \in 0 .. n : i <= j => f[i] <= f[j]
  BY DEF Sums
<1>4. z[e] = m /\ \A i \in 1 .. n : z[s[i]] = sz[s[i]]
  BY <1>1 DEF Absent, OnlyAt
<1>. HIDE DEF t
<1>5. g[0] = 0 /\ \A i \in 0 .. n : g[i + 1] = f[i] + m
  <2>1. \A i \in 0 .. n : i + 1 \in 0 .. n + 1 /\ i + 1 # 0 /\ (i + 1) - 1 = i
    BY <1>1
  <2>. QED BY <1>1, <2>1
<1>6. \A i \in 0 .. n + 1 : i = 0 \/ \E j \in 0 .. n : i = j + 1
  <2>. SUFFICES ASSUME NEW i \in 0 .. n + 1, i # 0 PROVE \E j \in 0 .. n : i = j + 1
    OBVIOUS
  <2>1. i - 1 \in 0 .. n /\ i = (i - 1) + 1
    BY <1>1
  <2>. QED BY <2>1
<1>7. g \in [0 .. n + 1 -> Nat]
  <2>1. ASSUME NEW i \in 0 .. n + 1 PROVE (IF i = 0 THEN 0 ELSE f[i - 1] + m) \in Nat
    <3>1. CASE i = 0
      BY <3>1
    <3>2. CASE i # 0
      <4>1. i - 1 \in 0 .. n
        BY <1>1, <3>2
      <4>2. f[i - 1] \in Nat
        BY <1>3, <4>1
      <4>. QED BY <3>2, <4>2
    <3>. QED BY <3>1, <3>2
  <2>. QED BY <2>1
<1>. HIDE DEF g
<1>8. ASSUME NEW i \in 1 .. n + 1 PROVE g[i] = g[i - 1] + z[t[i]]
  <2>1. PICK j \in 0 .. n : i = j + 1 /\ i - 1 = j
    <3>1. i \in 0 .. n + 1 /\ i # 0
      BY <1>1
    <3>2. PICK j \in 0 .. n : i = j + 1
      BY <1>6, <3>1
    <3>. QED BY <1>1, <3>2
  <2>2. CASE j = 0
    <3>1. g[i] = f[0] + m /\ t[i] = e
      BY <1>1, <1>2, <1>5, <2>1, <2>2
    <3>. QED BY <1>3, <1>4, <1>5, <2>1, <2>2, <3>1
  <2>3. CASE j # 0
    <3>1. j \in 1 .. n /\ j - 1 \in 0 .. n /\ (j - 1) + 1 = j
      BY <1>1, <2>3
    <3>2. g[i] = f[j] + m /\ g[j] = f[j - 1] + m /\ t[i] = s[j]
      <4>1. g[j + 1] = f[j] + m /\ t[j + 1] = s[j]
        BY <1>2, <1>5, <3>1
      <4>2. g[(j - 1) + 1] = f[j - 1] + m
        BY <1>5, <3>1
      <4>. QED BY <2>1, <3>1, <4>1, <4>2
    <3>3. f[j] = f[j - 1] + sz[s[j]] /\ f[j - 1] \in Nat /\ sz[s[j]] \in Nat
      BY <1>1, <1>3, <3>1
    <3>4. z[t[i]] = sz[s[j]]
      BY <1>4, <3>1, <3>2
    <3>5. (f[j - 1] + sz[s[j]]) + m = (f[j - 1] + m) + sz[s[j]]
      BY <3>3
    <3>. QED BY <2>1, <3>2, <3>3, <3>4, <3>5
  <2>. QED BY <2>2, <2>3
<1>9. ASSUME NEW i \in 0 .. n + 1, NEW j \in 0 .. n + 1, i <= j PROVE g[i] <= g[j]
  <2>1. CASE i = 0
    BY <1>5, <1>7, <2>1
  <2>2. CASE i # 0
    <3>1. PICK x \in 0 .. n, y \in 0 .. n : i = x + 1 /\ j = y + 1
      BY <1>1, <1>6, <1>9, <2>2
    <3>2. f[x] <= f[y] /\ f[x] \in Nat /\ f[y] \in Nat
      BY <1>1, <1>3, <1>9, <3>1
    <3>3. f[x] + m <= f[y] + m
      BY <3>2
    <3>. QED BY <1>5, <3>1, <3>3
  <2>. QED BY <2>1, <2>2
<1>10. g[n + 1] = f[n] + m
  BY <1>1, <1>5
<1>11. Sums(t, z, g)
  BY <1>2, <1>5, <1>7, <1>8, <1>9 DEF Sums
<1>. QED BY <1>10, <1>11 DEF t

\* PutNew: the pointers are those of the list with the new node in front.
LEMMA ConsChain ==
    ASSUME NEW s \in Seq(Nodes), NEW e \in Nodes, Distinct(s), Absent(e, s),
           Chain(s, head, tail, prev, next),
           prev \in [Nodes -> NodeOrNull], next \in [Nodes -> NodeOrNull],
           next' = [next EXCEPT ![e] = head],
           prev' = [i \in Nodes |-> IF i = e THEN 0 ELSE IF i = head THEN e ELSE prev[i]],
           head' = e, tail' = IF tail = 0 THEN e ELSE tail
    PROVE  /\ Chain(InFront(e, s), head', tail', prev', next')
           /\ prev' \in [Nodes -> NodeOrNull] /\ next' \in [Nodes -> NodeOrNull]
<1>. DEFINE n == Len(s)  t == InFront(e, s)
<1>1. n \in Nat /\ \A i \in 1 .. n : s[i] \in Nodes /\ s[i] # 0
  BY PlacesAre
<1>2. Len(t) = n + 1 /\ t[1] = e /\ \A i \in 1 .. n : t[i + 1] = s[i]
  BY ConsOf
<1>3. /\ head = (IF n = 0 THEN 0 ELSE s[1]) /\ tail = (IF n = 0 THEN 0 ELSE s[n])
      /\ \A i \in 1 .. n : prev[s[i]] = (IF i = 1 THEN 0 ELSE s[i - 1])
      /\ \A i \in 1 .. n : next[s[i]] = (IF i = n THEN 0 ELSE s[i + 1])
  BY DEF Chain
<1>. USE DEF Absent
<1>. HIDE DEF t
<1>4. head \in NodeOrNull /\ (n # 0 => 1 \in 1 .. n /\ n \in 1 .. n)
  <2>1. n # 0 => 1 \in 1 .. n /\ n \in 1 .. n
    BY <1>1
  <2>. QED BY <1>1, <1>3, <2>1 DEF NodeOrNull
<1>5. prev' \in [Nodes -> NodeOrNull] /\ next' \in [Nodes -> NodeOrNull]
  BY <1>4 DEF NodeOrNull
<1>6. /\ next'[e] = head /\ prev'[e] = 0
      /\ \A i \in 1 .. n : next'[s[i]] = next[s[i]]
      /\ \A i \in 1 .. n : prev'[s[i]] = IF i = 1 THEN e ELSE prev[s[i]]
  <2>1. \A i \in 1 .. n : s[i] = head <=> i = 1
    BY <1>1, <1>3, <1>4 DEF Distinct
  <2>. QED BY <1>1, <2>1
<1>7. \A i \in 1 .. n + 1 : i = 1 \/ \E j \in 1 .. n : i = j + 1 /\ i - 1 = j
  <2>. SUFFICES ASSUME NEW i \in 1 .. n + 1, i # 1 PROVE \E j \in 1 .. n : i = j + 1 /\ i - 1 = j
    OBVIOUS
  <2>1. i - 1 \in 1 .. n /\ i = (i - 1) + 1
    BY <1>1
  <2>. QED BY <2>1
<1>8. ASSUME NEW i \in 1 .. n + 1
      PROVE  /\ prev'[t[i]] = (IF i = 1 THEN 0 ELSE t[i - 1])
             /\ next'[t[i]] = (IF i = n + 1 THEN 0 ELSE t[i + 1])
  <2>1. CASE i = 1
    <3>1. 1 = n + 1 <=> n = 0
      BY <1>1
    <3>2. n # 0 => t[1 + 1] = s[1]
      BY <1>2, <1>4
    <3>. QED BY <1>2, <1>3, <1>6, <2>1, <3>1, <3>2
  <2>2. CASE i # 1
    <3>1. PICK j \in 1 .. n : i = j + 1 /\ i - 1 = j
      BY <1>7, <2>2
    <3>2. t[i] = s[j] /\ (i = n + 1 <=> j = n)
      BY <1>1, <1>2, <3>1
    <3>3. j # n => j + 1 \in 1 .. n /\ t[(j + 1) + 1] = s[j + 1]
      BY <1>1, <1>2
    <3>4. j # 1 => j - 1 \in 1 .. n /\ t[(j - 1) + 1] = s[j - 1] /\ (j - 1) + 1 = j
      BY <1>1, <1>2
    <3>5. next'[t[i]] = (IF i = n + 1 THEN 0 ELSE t[i + 1])
      BY <1>3, <1>6, <3>1, <3>2, <3>3
    <3>6. prev'[t[i]] = t[i - 1]
      <4>1. CASE j = 1
        BY <1>2, <1>6, <3>1, <3>2, <4>1
      <4>2. CASE j # 1
        BY <1>3, <1>6, <3>1, <3>2, <3>4, <4>2
      <4>. QED BY <4>1, <4>2
    <3>. QED BY <2>2, <3>5, <3>6
  <2>. QED BY <2>1, <2>2
<1>9. head' = t[1] /\ tail' = t[n + 1] /\ n + 1 # 0
  <2>1. CASE n = 0
    BY <1>2, <1>3, <2>1
  <2>2. CASE n # 0
    BY <1>1, <1>2, <1>3, <1>4, <2>2
  <2>. QED BY <2>1, <2>2
<1>10. Chain(t, head', tail', prev', next')
  <2>1. /\ \A i \in 1 .. Len(t) : prev'[t[i]] = (IF i = 1 THEN 0 ELSE t[i - 1])
        /\ \A i \in 1 .. Len(t) : next'[t[i]] = (IF i = Len(t) THEN 0 ELSE t[i + 1])
    BY <1>2, <1>8
  <2>2. head' = t[1] /\ tail' = t[Len(t)] /\ Len(t) # 0
    BY <1>2, <1>9
  <2>. QED BY <2>1, <2>2 DEF Chain
<1>. QED BY <1>5, <1>10 DEF t

\* All but the last node.
But(s) == [i \in 1 .. Len(s) - 1 |-> s[i]]

\* The others stay where they are.
LEMMA ButOf ==
    ASSUME NEW s \in Seq(Nodes), Distinct(s), Len(s) # 0
    PROVE  LET t == But(s) IN
           /\ t \in Seq(Nodes) /\ Len(t) = Len(s) - 1 /\ Distinct(t)
           /\ {t[i] : i \in 1 .. Len(t)} = {s[i] : i \in 1 .. Len(s)} \ {s[Len(s)]}
           /\ \A i \in 1 .. Len(s) - 1 : t[i] = s[i] /\ i \in 1 .. Len(s) /\ i # Len(s)
<1>. DEFINE n == Len(s)  t == But(s)
<1>1. n \in Nat /\ \A i \in 1 .. n : s[i] \in Nodes
  BY PlacesAre
<1>2. n - 1 \in Nat /\ \A i \in 1 .. n - 1 : i \in 1 .. n /\ i # n
  BY <1>1
<1>3. t \in [1 .. n - 1 -> Nodes] /\ \A i \in 1 .. n - 1 : t[i] = s[i]
  BY <1>1, <1>2 DEF But
<1>4. t \in Seq(Nodes) /\ Len(t) = n - 1
  BY <1>2, <1>3, SequenceOf
<1>. HIDE DEF t
<1>5. Distinct(t)
  BY <1>2, <1>3, <1>4 DEF Distinct
<1>6. {t[i] : i \in 1 .. n - 1} = {s[i] : i \in 1 .. n} \ {s[n]}
  <2>1. n \in 1 .. n /\ \A i \in 1 .. n : i # n => i \in 1 .. n - 1
    BY <1>1
  <2>2. \A i \in 1 .. n : s[i] = s[n] => i = n
    BY <2>1 DEF Distinct
  <2>. QED BY <1>2, <1>3, <2>1, <2>2
<1>. QED BY <1>2, <1>3, <1>4, <1>5, <1>6 DEF t

\* e is the last node of s.
Ends(s, e) == Len(s) # 0 /\ s[Len(s)] = e

\* Their sums stay too, when the length of the last node is forgotten.
LEMMA ButSums ==
    ASSUME NEW s \in Seq(Nodes), Distinct(s),
           NEW sz \in [Nodes -> Nat], NEW m \in Nat, NEW f, Sums(s, sz, f),
           NEW z, NEW e, Ends(s, e), OnlyAt(z, sz, e, m)
    PROVE  /\ f[Len(s)] = f[Len(s) - 1] + sz[e] /\ f[Len(s) - 1] \in Nat
           /\ \E g : Sums(But(s), z, g) /\ g[Len(s) - 1] = f[Len(s) - 1]
<1>. DEFINE n == Len(s)  t == But(s)
            g == [i \in 0 .. n - 1 |-> f[i]]
<1>0. n # 0 /\ e = s[n]
  BY DEF Ends
<1>1. n \in Nat \ {0} /\ \A i \in 1 .. n : s[i] \in Nodes
  BY <1>0, PlacesAre
<1>2. Len(t) = n - 1 /\ \A i \in 1 .. n - 1 : t[i] = s[i] /\ i \in 1 .. n /\ i # n
  BY <1>0, ButOf
<1>3. /\ \A i \in 0 .. n : f[i] \in Nat
      /\ f[0] = 0 /\ \A i \in 1 .. n : f[i] = f[i - 1] + sz[s[i]]
      /\ \A i, j \in 0 .. n : i <= j => f[i] <= f[j]
  BY DEF Sums
<1>4. \A i \in 1 .. n - 1 : z[s[i]] = sz[s[i]]
  BY <1>0, <1>1, <1>2 DEF Distinct, OnlyAt
<1>. HIDE DEF t
<1>5. \A i \in 0 .. n - 1 : g[i] = f[i] /\ i \in 0 .. n
  BY <1>1
<1>6. g \in [0 .. n - 1 -> Nat] /\ g[0] = 0
  BY <1>1, <1>3, <1>5
<1>. HIDE DEF g
<1>7. \A i \in 1 .. n - 1 : g[i] = g[i - 1] + z[t[i]]
  <2>. SUFFICES ASSUME NEW i \in 1 .. n - 1 PROVE g[i] = g[i - 1] + z[t[i]]
    OBVIOUS
  <2>1. i \in 0 .. n - 1 /\ i - 1 \in 0 .. n - 1
    BY <1>1
  <2>2. g[i] = f[i] /\ g[i - 1] = f[i - 1] /\ z[t[i]] = sz[s[i]]
    BY <1>2, <1>4, <1>5, <2>1
  <2>. QED BY <1>2, <1>3, <2>2
<1>8. \A i, j \in 0 .. n - 1 : i <= j => g[i] <= g[j]
  BY <1>3, <1>5
<1>9. Sums(t, z, g)
  BY <1>2, <1>6, <1>7, <1>8 DEF Sums
<1>10. n \in 1 .. n /\ n - 1 \in 0 .. n /\ n - 1 \in 0 .. n - 1
  BY <1>1
<1>. QED BY <1>0, <1>3, <1>5, <1>9, <1>10 DEF t

\* lru_cache_remove_entry(tail): the pointers are those of the others.
LEMMA ButChain ==
    ASSUME NEW s \in Seq(Nodes), Distinct(s), Len(s) # 0,
           Chain(s, head, tail, prev, next),
           prev \in [Nodes -> NodeOrNull], next \in [Nodes -> NodeOrNull],
           lru_cache_remove_entry(tail)
    PROVE  /\ tail = s[Len(s)] /\ Chain(But(s), head', tail', prev', next')
           /\ prev' \in [Nodes -> NodeOrNull] /\ next' \in [Nodes -> NodeOrNull]
<1>. DEFINE n == Len(s)  t == But(s)  e == tail  p == prev[e]  q == next[e]
<1>1. n \in Nat \ {0} /\ \A i \in 1 .. n : s[i] \in Nodes /\ s[i] # 0
  BY PlacesAre
<1>2. Len(t) = n - 1 /\ \A i \in 1 .. n - 1 : t[i] = s[i] /\ i \in 1 .. n /\ i # n
  BY ButOf
<1>3. /\ head = s[1] /\ tail = s[n]
      /\ \A i \in 1 .. n : prev[s[i]] = (IF i = 1 THEN 0 ELSE s[i - 1])
      /\ \A i \in 1 .. n : next[s[i]] = (IF i = n THEN 0 ELSE s[i + 1])
  BY <1>1 DEF Chain
<1>. HIDE DEF t
<1>0. \A m \in Nat \ {0} : m \in 1 .. m /\ (m # 1 => m - 1 # 0 /\ 1 \in 1 .. m - 1 /\ m - 1 \in 1 .. m - 1)
  OBVIOUS
<1>4. n \in 1 .. n /\ q = 0 /\ p = (IF n = 1 THEN 0 ELSE s[n - 1]) /\ (n # 1 => n - 1 \in 1 .. n - 1)
  <2>1. n \in 1 .. n /\ (n # 1 => n - 1 \in 1 .. n - 1)
    BY <1>0, <1>1
  <2>2. q = 0 /\ p = (IF n = 1 THEN 0 ELSE s[n - 1])
    BY <1>3, <2>1
  <2>. QED BY <2>1, <2>2
<1>5. /\ head' = (IF p = 0 THEN q ELSE head) /\ tail' = (IF q = 0 THEN p ELSE tail)
      /\ next' = [i \in Nodes |-> IF i = p THEN q ELSE IF i = e THEN 0 ELSE next[i]]
      /\ prev' = [i \in Nodes |-> IF i = q THEN p ELSE IF i = e THEN 0 ELSE prev[i]]
  BY DEF lru_cache_remove_entry
<1>6. p \in NodeOrNull /\ (n # 1 => p # 0)
  BY <1>1, <1>2, <1>4 DEF NodeOrNull
<1>. HIDE DEF p, q, e
<1>7. prev' \in [Nodes -> NodeOrNull] /\ next' \in [Nodes -> NodeOrNull]
  BY <1>4, <1>5, <1>6 DEF NodeOrNull
<1>8. ASSUME NEW i \in 1 .. n - 1
      PROVE  /\ prev'[t[i]] = (IF i = 1 THEN 0 ELSE t[i - 1])
             /\ next'[t[i]] = (IF i = n - 1 THEN 0 ELSE t[i + 1])
  <2>1. t[i] = s[i] /\ i \in 1 .. n /\ s[i] \in Nodes /\ s[i] # 0 /\ s[i] # e /\ n # 1
    <3>1. t[i] = s[i] /\ i \in 1 .. n /\ i # n /\ n # 1
      BY <1>1, <1>2
    <3>2. s[i] \in Nodes /\ s[i] # 0
      BY <1>1, <3>1
    <3>3. s[i] # s[n]
      BY <1>4, <3>1 DEF Distinct
    <3>. QED BY <1>3, <3>1, <3>2, <3>3 DEF e
  <2>2. prev'[s[i]] = prev[s[i]]
    BY <1>4, <1>5, <2>1
  <2>3. i # 1 => i - 1 \in 1 .. n - 1
    BY <1>1
  <2>4. i = n - 1 => next'[s[i]] = 0
    BY <1>4, <1>5, <2>1
  <2>5. i # n - 1 => /\ i + 1 \in 1 .. n - 1 /\ i # n
                     /\ next'[s[i]] = next[s[i]]
    <3>1. i # n - 1 => i + 1 \in 1 .. n - 1 /\ i # n
      BY <1>1
    <3>2. i # n - 1 => s[i] # p
      BY <1>2, <1>4, <2>1 DEF Distinct
    <3>. QED BY <1>5, <2>1, <3>1, <3>2
  <2>. QED BY <1>2, <1>3, <2>1, <2>2, <2>3, <2>4, <2>5
<1>9. /\ head' = (IF n - 1 = 0 THEN 0 ELSE t[1])
      /\ tail' = (IF n - 1 = 0 THEN 0 ELSE t[n - 1])
  <2>1. CASE n = 1
    BY <1>4, <1>5, <2>1
  <2>2. CASE n # 1
    <3>1. 1 \in 1 .. n - 1 /\ n - 1 # 0
      BY <1>0, <1>1, <2>2
    <3>. QED BY <1>2, <1>3, <1>4, <1>5, <1>6, <2>2, <3>1
  <2>. QED BY <2>1, <2>2
<1>10. Chain(t, head', tail', prev', next')
  <2>1. /\ \A i \in 1 .. Len(t) : prev'[t[i]] = (IF i = 1 THEN 0 ELSE t[i - 1])
        /\ \A i \in 1 .. Len(t) : next'[t[i]] = (IF i = Len(t) THEN 0 ELSE t[i + 1])
    BY <1>2, <1>8
  <2>2. /\ head' = (IF Len(t) = 0 THEN 0 ELSE t[1])
        /\ tail' = (IF Len(t) = 0 THEN 0 ELSE t[Len(t)])
    BY <1>2, <1>9
  <2>. QED BY <2>1, <2>2 DEF Chain
<1>. QED BY <1>3, <1>7, <1>10 DEF t
-----------------------------------------------------------------------------
(* The list as the model reads it.                                         *)

Steps == 0 .. max_entries + 1

\* The walk of Nth: one node further than f is.
Walk(f) ==
    [n \in Steps |-> IF n = 0 THEN head
                     ELSE LET before == f[n - 1] IN IF before = 0 THEN 0 ELSE next[before]]

\* Where a walk exists, Nth is one.
LEMMA NthWalks ==
    ASSUME NEW g, g = Walk(g)
    PROVE  Nth = Walk(Nth)
<1>. DEFINE h == CHOOSE f : f = Walk(f)
<1>1. h = Walk(h)
  OBVIOUS
<1>2. Nth = [n \in Steps |-> h[n]]
  BY DEF Nth, Steps, Walk
<1>. HIDE DEF h
<1>3. Nth = h
  BY <1>1, <1>2 DEF Walk
<1>. QED BY <1>1, <1>3

\* A walk from the head visits the nodes of the list, then NULL.
LEMMA NthIs ==
    ASSUME NEW s, Listing(s), Counted
    PROVE  Nth = [i \in Steps |-> IF i < Len(s) THEN s[i + 1] ELSE 0]
<1>. DEFINE n == Len(s)  g == [i \in Steps |-> IF i < n THEN s[i + 1] ELSE 0]
<1>1. /\ s \in Seq(Nodes) /\ n \in Nat /\ n <= max_entries + 1 /\ max_entries \in Nat
      /\ \A i \in 1 .. n : s[i] \in Nodes /\ s[i] # 0
  <2>1. s \in Seq(Nodes) /\ n <= max_entries + 1
    BY DEF Listing, Counted
  <2>. QED BY <2>1, PlacesAre, NodesAre
<1>2. /\ head = (IF n = 0 THEN 0 ELSE s[1])
      /\ \A i \in 1 .. n : next[s[i]] = (IF i = n THEN 0 ELSE s[i + 1])
  BY DEF Listing, Chain
<1>3. /\ \A i \in Steps : g[i] = IF i < n THEN s[i + 1] ELSE 0
      /\ DOMAIN g = Steps /\ g = [i \in Steps |-> g[i]]
  OBVIOUS
<1>. HIDE DEF g
<1>4. ASSUME NEW i \in Steps
      PROVE  g[i] = IF i = 0 THEN head ELSE IF g[i - 1] = 0 THEN 0 ELSE next[g[i - 1]]
  <2>1. CASE i = 0
    <3>1. 0 < n <=> n # 0
      BY <1>1
    <3>. QED BY <1>2, <1>3, <2>1, <3>1
  <2>2. CASE i # 0
    <3>1. i - 1 \in Steps /\ (i - 1 < n <=> i <= n) /\ (i < n <=> i <= n /\ i # n) /\ (i - 1) + 1 = i
      BY <1>1, <2>2 DEF Steps
    <3>2. CASE i <= n
      <4>1. i \in 1 .. n
        BY <1>1, <2>2, <3>2 DEF Steps
      <4>2. g[i - 1] = s[i] /\ s[i] # 0
        BY <1>1, <1>3, <3>1, <3>2, <4>1
      <4>3. next[s[i]] = (IF i = n THEN 0 ELSE s[i + 1])
        BY <1>2, <4>1
      <4>. QED BY <1>3, <2>2, <3>1, <3>2, <4>2, <4>3
    <3>3. CASE ~(i <= n)
      BY <1>3, <2>2, <3>1, <3>3
    <3>. QED BY <3>2, <3>3
  <2>. QED BY <2>1, <2>2
<1>5. g = Walk(g)
  BY <1>3, <1>4 DEF Walk
<1>6. Nth = Walk(Nth)
  BY <1>5, NthWalks
<1>7. /\ DOMAIN Nth = Steps /\ Nth = [i \in Steps |-> Nth[i]]
      /\ \A i \in Steps : Nth[i] = IF i = 0 THEN head
                                   ELSE IF Nth[i - 1] = 0 THEN 0 ELSE next[Nth[i - 1]]
  <2>1. \A h : LET w == Walk(h) IN
                 /\ DOMAIN w = Steps /\ w = [i \in Steps |-> w[i]]
                 /\ \A i \in Steps : w[i] = IF i = 0 THEN head
                                            ELSE IF h[i - 1] = 0 THEN 0 ELSE next[h[i - 1]]
    BY DEF Walk
  <2>. QED BY <1>6, <2>1
<1>. DEFINE bad == {i \in Steps : Nth[i] # g[i]}
<1>8. bad = {}
  <2>. SUFFICES ASSUME NEW x \in bad PROVE FALSE
    OBVIOUS
  <2>1. bad \in SUBSET Nat
    BY DEF Steps
  <2>2. PICK m \in bad : \A k \in bad : m <= k
    <3>. HIDE DEF bad
    <3>. QED BY <2>1, LeastNat
  <2>3. m # 0
    BY <1>4, <1>7
  <2>4. m - 1 \in Steps /\ ~(m <= m - 1)
    BY <1>1, <2>3 DEF Steps
  <2>5. Nth[m - 1] = g[m - 1]
    BY <2>2, <2>4
  <2>. QED BY <1>4, <1>7, <2>3, <2>5
<1>9. Nth = g
  <2>1. \A i \in Steps : Nth[i] = g[i]
    BY <1>8
  <2>. HIDE DEF bad
  <2>2. [i \in Steps |-> Nth[i]] = [i \in Steps |-> g[i]]
    BY <2>1
  <2>3. Nth = [i \in Steps |-> Nth[i]] /\ g = [i \in Steps |-> g[i]]
    BY <1>3, <1>7
  <2>. QED BY <2>2, <2>3
<1>. QED BY <1>9 DEF g

\* Order is the list.
LEMMA OrderIs ==
    ASSUME NEW s, Listing(s), Counted
    PROVE  Order = s
<1>. DEFINE n == Len(s)
<1>1. /\ s \in Seq(Nodes) /\ n \in Nat /\ n <= max_entries + 1 /\ max_entries \in Nat
      /\ \A i \in 1 .. n : s[i] \in Nodes /\ s[i] # 0
  <2>1. s \in Seq(Nodes) /\ n <= max_entries + 1
    BY DEF Listing, Counted
  <2>. QED BY <2>1, PlacesAre, NodesAre
<1>2. \A i \in Steps : Nth[i] = IF i < n THEN s[i + 1] ELSE 0
  BY NthIs
<1>3. {i \in 0 .. max_entries : Nth[i] # 0} = 0 .. n - 1
  <2>1. ASSUME NEW i \in 0 .. max_entries PROVE Nth[i] # 0 <=> i \in 0 .. n - 1
    <3>1. i \in Steps /\ (i \in 0 .. n - 1 <=> i < n) /\ (i < n => i + 1 \in 1 .. n)
      BY <1>1 DEF Steps
    <3>. QED BY <1>1, <1>2, <3>1
  <2>2. 0 .. n - 1 \subseteq 0 .. max_entries
    BY <1>1
  <2>. QED BY <2>1, <2>2
<1>4. Cardinality(0 .. n - 1) = n
  <2>1. 0 \in Int /\ n - 1 \in Int
    BY <1>1
  <2>2. Cardinality(0 .. n - 1) = IF 0 > n - 1 THEN 0 ELSE (n - 1) - 0 + 1
    BY <2>1, FS_Interval
  <2>. QED BY <1>1, <2>2
<1>5. Order = [i \in 1 .. n |-> Nth[i - 1]]
  BY <1>3, <1>4 DEF Order
<1>6. \A i \in 1 .. n : Nth[i - 1] = s[i]
  <2>1. \A i \in 1 .. n : i - 1 \in Steps /\ i - 1 < n /\ (i - 1) + 1 = i
    BY <1>1 DEF Steps
  <2>. QED BY <1>2, <2>1
<1>7. Order \in [1 .. n -> Nodes] /\ \A i \in 1 .. n : Order[i] = s[i]
  BY <1>1, <1>5, <1>6
<1>8. Order \in Seq(Nodes) /\ Len(Order) = n
  BY <1>1, <1>7, SequenceOf
<1>. QED BY <1>1, <1>7, <1>8, SeqEqual

\* The sums of f, one place further.
Added(s, f) == [i \in 0 .. Len(s) |-> IF i = 0 THEN 0 ELSE f[i - 1] + size[s[i]]]

\* Total is the last of the sums along the list.
LEMMA TotalIs ==
    ASSUME NEW s, Listing(s), Counted, NEW f, Sums(s, size, f)
    PROVE  Total = f[Len(s)]
<1>. DEFINE n == Len(s)  h == CHOOSE g : g = Added(s, g)
<1>1. s \in Seq(Nodes) /\ n \in Nat
  BY PlacesAre DEF Listing
<1>2. f = Added(s, f)
  <2>1. f = [i \in 0 .. n |-> f[i]] /\ \A i \in 0 .. n : i = 0 \/ i \in 1 .. n
    BY <1>1 DEF Sums
  <2>2. \A i \in 0 .. n : f[i] = IF i = 0 THEN 0 ELSE f[i - 1] + size[s[i]]
    BY <2>1 DEF Sums
  <2>. QED BY <2>1, <2>2 DEF Added
<1>3. h = Added(s, h)
  BY <1>2
<1>4. Total = h[n]
  BY OrderIs DEF Total, Added
<1>. HIDE DEF h
<1>5. \A g : g = Added(s, g) => \A i \in 0 .. n : g[i] = IF i = 0 THEN 0 ELSE g[i - 1] + size[s[i]]
  BY DEF Added
<1>. DEFINE bad == {i \in 0 .. n : h[i] # f[i]}
<1>6. bad = {}
  <2>. SUFFICES ASSUME NEW x \in bad PROVE FALSE
    OBVIOUS
  <2>1. bad \in SUBSET Nat
    BY <1>1
  <2>2. PICK m \in bad : \A k \in bad : m <= k
    <3>. HIDE DEF bad
    <3>. QED BY <2>1, LeastNat
  <2>3. m # 0
    BY <1>2, <1>3, <1>5
  <2>4. m - 1 \in 0 .. n /\ ~(m <= m - 1)
    BY <1>1, <2>3
  <2>5. h[m - 1] = f[m - 1]
    BY <2>2, <2>4
  <2>6. h[m] = h[m - 1] + size[s[m]] /\ f[m] = f[m - 1] + size[s[m]]
    BY <1>2, <1>3, <1>5, <2>3
  <2>. QED BY <2>5, <2>6
<1>7. n \in 0 .. n
  BY <1>1
<1>. QED BY <1>4, <1>6, <1>7

\* lru_cache_find: NULL for a key no node has, else a node of the list with it.
LEMMA FindIs ==
    ASSUME NEW s, Listing(s), Counted, NEW k
    PROVE  \/ lru_cache_find(k) = 0 /\ \A n \in live : key[n] # k
           \/ \E j \in 1 .. Len(s) : lru_cache_find(k) = s[j] /\ key[s[j]] = k
<1>. DEFINE n == Len(s)  found == {i \in 0 .. max_entries : Nth[i] # 0 /\ key[Nth[i]] = k}
<1>1. /\ s \in Seq(Nodes) /\ n \in Nat /\ n <= max_entries + 1 /\ max_entries \in Nat
      /\ \A i \in 1 .. n : s[i] \in Nodes /\ s[i] # 0
      /\ live = {s[i] : i \in 1 .. n}
  <2>1. s \in Seq(Nodes) /\ n <= max_entries + 1 /\ live = {s[i] : i \in 1 .. n}
    BY DEF Listing, Counted
  <2>. QED BY <2>1, PlacesAre, NodesAre
<1>2. \A i \in Steps : Nth[i] = IF i < n THEN s[i + 1] ELSE 0
  BY NthIs
<1>3. \A i \in found : Nth[i] = s[i + 1] /\ i + 1 \in 1 .. n /\ key[Nth[i]] = k
  <2>. SUFFICES ASSUME NEW i \in found PROVE Nth[i] = s[i + 1] /\ i + 1 \in 1 .. n
    OBVIOUS
  <2>1. i \in Steps /\ Nth[i] # 0 /\ (i < n => i + 1 \in 1 .. n)
    BY <1>1 DEF Steps
  <2>. QED BY <1>2, <2>1
<1>4. \A j \in 1 .. n : key[s[j]] = k => j - 1 \in found
  <2>. SUFFICES ASSUME NEW j \in 1 .. n, key[s[j]] = k PROVE j - 1 \in found
    OBVIOUS
  <2>1. j - 1 \in Steps /\ j - 1 \in 0 .. max_entries /\ j - 1 < n /\ (j - 1) + 1 = j
    BY <1>1 DEF Steps
  <2>2. Nth[j - 1] = s[j]
    BY <1>2, <2>1
  <2>. QED BY <1>1, <2>1, <2>2
<1>5. lru_cache_find(k) = IF found = {} THEN 0 ELSE Nth[Min(found)]
  BY DEF lru_cache_find
<1>6. found \in SUBSET Nat
  BY <1>1
<1>. HIDE DEF found
<1>7. CASE found = {}
  BY <1>1, <1>4, <1>5, <1>7
<1>8. CASE found # {}
  <2>1. \E m \in found : \A i \in found : m <= i
    BY <1>6, <1>8, LeastNat
  <2>2. Min(found) \in found
    BY <2>1 DEF Min
  <2>. QED BY <1>3, <1>5, <1>8, <2>2
<1>. QED BY <1>7, <1>8
-----------------------------------------------------------------------------
(* Every step keeps the invariant.                                         *)

\* The ends of a list are nodes or NULL, and NULL only of an empty list.
LEMMA EndsAre ==
    ASSUME NEW s \in Seq(Nodes), NEW h, NEW t, NEW pv, NEW nx, Chain(s, h, t, pv, nx)
    PROVE  h \in NodeOrNull /\ t \in NodeOrNull /\ (t = 0 <=> Len(s) = 0)
<1>1. Len(s) \in Nat /\ \A i \in 1 .. Len(s) : s[i] \in Nodes /\ s[i] # 0
  BY PlacesAre
<1>2. \A m \in Nat : m # 0 => 1 \in 1 .. m /\ m \in 1 .. m
  OBVIOUS
<1>3. Len(s) # 0 => s[1] \in Nodes /\ s[Len(s)] \in Nodes /\ s[Len(s)] # 0
  BY <1>1, <1>2
<1>. QED BY <1>3 DEF Chain, NodeOrNull

\* lru_cache_touch_front(e), with a new length m of the node, wherever it stands.
LEMMA TouchListing ==
    ASSUME Typed, NEW s, Listing(s), NEW j \in 1 .. Len(s), NEW m \in Nat,
           lru_cache_touch_front(s[j]), UNCHANGED <<live, entry_count>>,
           size' = [size EXCEPT ![s[j]] = m],
           used_bytes' = (used_bytes - size[s[j]]) + m
    PROVE  /\ Listing(MoveFront(s, j))'
           /\ head' \in NodeOrNull /\ tail' \in NodeOrNull
           /\ prev' \in [Nodes -> NodeOrNull] /\ next' \in [Nodes -> NodeOrNull]
<1>. DEFINE t == MoveFront(s, j)
<1>1. /\ s \in Seq(Nodes) /\ Distinct(s) /\ live = {s[i] : i \in 1 .. Len(s)}
      /\ Len(s) = entry_count /\ Chain(s, head, tail, prev, next)
  BY DEF Listing
<1>2. PICK f : Sums(s, size, f) /\ f[Len(s)] = used_bytes
  BY DEF Listing
<1>3. /\ prev \in [Nodes -> NodeOrNull] /\ next \in [Nodes -> NodeOrNull]
      /\ size \in [Nodes -> Nat]
  BY DEF Typed, FieldsOK, NodeOrNull
<1>4. /\ t \in Seq(Nodes) /\ Len(t) = Len(s) /\ Distinct(t)
      /\ {t[i] : i \in 1 .. Len(t)} = {s[i] : i \in 1 .. Len(s)}
  BY <1>1, MoveFrontOf
<1>5. /\ Chain(t, head', tail', prev', next')
      /\ prev' \in [Nodes -> NodeOrNull] /\ next' \in [Nodes -> NodeOrNull]
  BY <1>1, <1>3, TouchChain
<1>6. PICK g : Sums(t, size', g) /\ g[Len(s)] = f[Len(s)] - size[s[j]] + m
  <2>1. PICK g : /\ Sums(MoveFront(s, j), [size EXCEPT ![s[j]] = m], g)
                 /\ g[Len(s)] = f[Len(s)] - size[s[j]] + m
    BY <1>1, <1>2, <1>3, MoveFrontSums
  <2>2. Sums(t, size', g)
    BY <2>1
  <2>. QED BY <2>1, <2>2
<1>. HIDE DEF t
<1>7. Sums(t, size', g) /\ g[Len(t)] = used_bytes'
  BY <1>2, <1>4, <1>6
<1>8. live' = {t[i] : i \in 1 .. Len(t)} /\ Len(t) = entry_count'
  BY <1>1, <1>4
<1>9. Listing(t)'
  BY <1>4, <1>5, <1>7, <1>8 DEF Listing
<1>. QED BY <1>4, <1>5, <1>9, EndsAre DEF t

\* lru_cache_get_copy.
LEMMA GetStep ==
    ASSUME IInv, NEW s, Listing(s), NEW k \in Keys, lru_cache_get_copy(k)
    PROVE  /\ IInv'
           /\ \E j \in 1 .. Len(s) : Listing(MoveFront(s, j))' /\ lru_cache_find(k) = s[j]
<1>2. PICK j \in 1 .. Len(s) : lru_cache_find(k) = s[j]
  BY FindIs DEF IInv, lru_cache_get_copy
<1>3. /\ lru_cache_touch_front(s[j])
      /\ UNCHANGED <<used_bytes, entry_count, live, key, data, size, pc>>
  BY <1>2 DEF lru_cache_get_copy
<1>4. s[j] \in Nodes /\ size \in [Nodes -> Nat] /\ used_bytes \in Nat
  <2>1. s \in Seq(Nodes)
    BY DEF Listing
  <2>2. s[j] \in Nodes
    BY <2>1, PlacesAre
  <2>. QED BY <2>2 DEF IInv, Typed, FieldsOK
<1>5. size' = [size EXCEPT ![s[j]] = size[s[j]]] /\ size[s[j]] \in Nat
  BY <1>3, <1>4
<1>6. used_bytes' = (used_bytes - size[s[j]]) + size[s[j]]
  BY <1>3, <1>4
<1>7. /\ Listing(MoveFront(s, j))'
      /\ head' \in NodeOrNull /\ tail' \in NodeOrNull
      /\ prev' \in [Nodes -> NodeOrNull] /\ next' \in [Nodes -> NodeOrNull]
  BY <1>3, <1>5, <1>6, TouchListing DEF IInv
<1>8. Typed'
  BY <1>3, <1>7 DEF IInv, Typed, FieldsOK, NodeOrNull
<1>9. KeysUnique' /\ Counted'
  BY <1>3 DEF IInv, KeysUnique, Counted
<1>. QED BY <1>2, <1>7, <1>8, <1>9 DEF IInv

\* lru_cache_put_copy of a key that is there.
LEMMA ReplaceStep ==
    ASSUME IInv, NEW s, Listing(s), NEW j \in 1 .. Len(s),
           NEW n \in Sizes \ {0}, NEW d \in Data, PutReplace(s[j], n, d), pc' = "evict"
    PROVE  IInv' /\ Listing(MoveFront(s, j))'
<1>1. /\ data' = [data EXCEPT ![s[j]] = d] /\ size' = [size EXCEPT ![s[j]] = n]
      /\ used_bytes' = Minus(used_bytes, size[s[j]]) + n
      /\ lru_cache_touch_front(s[j]) /\ UNCHANGED <<entry_count, live, key>>
  BY DEF PutReplace
<1>2. s \in Seq(Nodes) /\ Distinct(s) /\ s[j] \in Nodes /\ s[j] \in live
  BY PlacesAre DEF Listing
<1>3. size \in [Nodes -> Nat] /\ n \in Nat /\ used_bytes \in Nat
  BY LruAssumption DEF IInv, Typed, FieldsOK
<1>4. used_bytes >= size[s[j]]
  <2>1. PICK f : Sums(s, size, f) /\ f[Len(s)] = used_bytes
    BY DEF Listing
  <2>. QED BY <1>2, <1>3, <2>1, MoveFrontSums
<1>5. used_bytes' = (used_bytes - size[s[j]]) + n
  BY <1>1, <1>4 DEF Minus
<1>6. used_bytes' \in Nat
  BY <1>2, <1>3, <1>4, <1>5
<1>7. /\ Listing(MoveFront(s, j))'
      /\ head' \in NodeOrNull /\ tail' \in NodeOrNull
      /\ prev' \in [Nodes -> NodeOrNull] /\ next' \in [Nodes -> NodeOrNull]
  BY <1>1, <1>3, <1>5, TouchListing DEF IInv
<1>8. Typed'
  <2>1. /\ \A i \in Nodes : data'[i] = (IF i = s[j] THEN d ELSE data[i])
        /\ \A i \in Nodes : size'[i] = (IF i = s[j] THEN n ELSE size[i])
        /\ DOMAIN data' = Nodes /\ size' \in [Nodes -> Nat]
    BY <1>1, <1>2, <1>3 DEF IInv, Typed
  <2>2. \A i \in live : i \in Nodes /\ key[i] \in Keys /\ data[i] \in Data /\ size[i] \in Sizes \ {0}
    BY DEF IInv, Typed, FieldsOK
  <2>3. \A i \in live' : key'[i] \in Keys /\ data'[i] \in Data /\ size'[i] \in Sizes \ {0}
    BY <1>1, <2>1, <2>2
  <2>. QED BY <1>1, <1>6, <1>7, <2>1, <2>3 DEF IInv, Typed, FieldsOK, NodeOrNull
<1>9. KeysUnique' /\ Counted'
  BY <1>1 DEF IInv, KeysUnique, Counted
<1>. QED BY <1>7, <1>8, <1>9 DEF IInv

\* There is a node for one more entry between calls.
LEMMA FreeNode ==
    ASSUME Typed, Counted, pc = "idle"
    PROVE  Min(Nodes \ live) \in Nodes \ live
<1>1. Cardinality(live) <= max_entries /\ max_entries \in Nat
  BY NodesAre DEF Counted
<1>2. IsFiniteSet(Nodes) /\ Cardinality(Nodes) = max_entries + 1
  <2>1. 1 \in Int /\ max_entries + 1 \in Int
    BY <1>1
  <2>2. /\ IsFiniteSet(Nodes)
        /\ Cardinality(Nodes) = IF 1 > max_entries + 1 THEN 0 ELSE (max_entries + 1) - 1 + 1
    BY <2>1, FS_Interval DEF Nodes
  <2>. QED BY <1>1, <2>2
<1>3. live # Nodes
  BY <1>1, <1>2
<1>4. Nodes \ live # {} /\ Nodes \ live \in SUBSET Nat
  BY <1>3, NodesAre DEF Typed, FieldsOK
<1>5. \E m \in Nodes \ live : \A i \in Nodes \ live : m <= i
  BY <1>4, LeastNat
<1>. QED BY <1>5 DEF Min

\* lru_cache_put_copy of a new key.
LEMMA NewStep ==
    ASSUME IInv, pc = "idle", NEW k \in Keys, NEW n \in Sizes \ {0}, NEW d \in Data,
           \A i \in live : key[i] # k, PutNew(k, n, d), pc' = "evict", NEW s, Listing(s)
    PROVE  /\ IInv'
           /\ \E e \in Nodes \ live :
                /\ Listing(InFront(e, s))' /\ key' = [key EXCEPT ![e] = k]
                /\ data' = [data EXCEPT ![e] = d] /\ size' = [size EXCEPT ![e] = n]
<1>1. PICK e \in Nodes \ live :
        /\ live' = live \cup {e} /\ key' = [key EXCEPT ![e] = k]
        /\ data' = [data EXCEPT ![e] = d] /\ size' = [size EXCEPT ![e] = n]
        /\ next' = [next EXCEPT ![e] = head]
        /\ prev' = [i \in Nodes |-> IF i = e THEN 0 ELSE IF i = head THEN e ELSE prev[i]]
        /\ head' = e /\ tail' = (IF tail = 0 THEN e ELSE tail)
        /\ entry_count' = entry_count + 1 /\ used_bytes' = used_bytes + n
  BY FreeNode DEF IInv, PutNew
<1>. DEFINE t == InFront(e, s)
<1>2. /\ s \in Seq(Nodes) /\ Distinct(s) /\ live = {s[i] : i \in 1 .. Len(s)}
      /\ Len(s) = entry_count /\ Chain(s, head, tail, prev, next)
      /\ e \in Nodes /\ Absent(e, s)
  BY DEF Listing, Absent
<1>3. PICK f : Sums(s, size, f) /\ f[Len(s)] = used_bytes
  BY DEF Listing
<1>4. /\ prev \in [Nodes -> NodeOrNull] /\ next \in [Nodes -> NodeOrNull]
      /\ size \in [Nodes -> Nat] /\ n \in Nat /\ used_bytes \in Nat /\ entry_count \in Nat
      /\ DOMAIN key = Nodes /\ DOMAIN data = Nodes
  BY LruAssumption DEF IInv, Typed, FieldsOK, NodeOrNull
<1>5. /\ t \in Seq(Nodes) /\ Len(t) = Len(s) + 1 /\ Distinct(t)
      /\ {t[i] : i \in 1 .. Len(t)} = {s[i] : i \in 1 .. Len(s)} \cup {e}
  BY <1>2, ConsOf
<1>6. /\ Chain(t, head', tail', prev', next')
      /\ prev' \in [Nodes -> NodeOrNull] /\ next' \in [Nodes -> NodeOrNull]
  BY <1>1, <1>2, <1>4, ConsChain
<1>7. PICK g : Sums(t, size', g) /\ g[Len(s) + 1] = f[Len(s)] + n
  <2>1. OnlyAt(size', size, e, n)
    BY <1>1 DEF OnlyAt
  <2>2. /\ s \in Seq(Nodes) /\ Distinct(s) /\ e \in Nodes /\ Absent(e, s)
        /\ size \in [Nodes -> Nat] /\ n \in Nat /\ Sums(s, size, f)
    BY <1>2, <1>3, <1>4
  <2>3. \E g : Sums(InFront(e, s), size', g) /\ g[Len(s) + 1] = f[Len(s)] + n
    BY ONLY <2>1, <2>2, ConsSums, SMT
  <2>. QED BY <2>3
<1>. HIDE DEF t
<1>8. Listing(t)'
  <2>1. live' = {t[i] : i \in 1 .. Len(t)} /\ Len(t) = entry_count'
    BY <1>1, <1>2, <1>5
  <2>2. Sums(t, size', g) /\ g[Len(t)] = used_bytes'
    BY <1>1, <1>3, <1>5, <1>7
  <2>. QED BY <1>5, <1>6, <2>1, <2>2 DEF Listing
<1>9. head' \in NodeOrNull /\ tail' \in NodeOrNull
  BY <1>5, <1>6, EndsAre
<1>10. /\ \A i \in Nodes : key'[i] = (IF i = e THEN k ELSE key[i])
       /\ \A i \in Nodes : data'[i] = (IF i = e THEN d ELSE data[i])
       /\ \A i \in Nodes : size'[i] = (IF i = e THEN n ELSE size[i])
       /\ DOMAIN key' = Nodes /\ DOMAIN data' = Nodes /\ size' \in [Nodes -> Nat]
  BY <1>1, <1>4
<1>11. \A i \in live : i \in Nodes /\ key[i] \in Keys /\ data[i] \in Data /\ size[i] \in Sizes \ {0}
  BY DEF IInv, Typed, FieldsOK
<1>12. Typed'
  <2>1. \A i \in live' : /\ i \in Nodes /\ key'[i] \in Keys /\ data'[i] \in Data
                         /\ size'[i] \in Sizes \ {0}
    BY <1>1, <1>10, <1>11
  <2>2. used_bytes' \in Nat /\ entry_count' \in Nat
    BY <1>1, <1>4
  <2>. QED BY <1>6, <1>9, <1>10, <2>1, <2>2 DEF Typed, FieldsOK, NodeOrNull
<1>13. KeysUnique'
  BY <1>1, <1>10, <1>11 DEF IInv, KeysUnique
<1>14. Counted'
  <2>1. IsFiniteSet(live') /\ Cardinality(live') = entry_count'
    BY <1>1, FS_AddElement DEF IInv, Counted
  <2>2. entry_count' <= max_entries + 1
    BY <1>1, <1>4, NodesAre DEF IInv, Counted
  <2>. QED BY <2>1, <2>2 DEF Counted
<1>15. IInv'
  BY <1>8, <1>12, <1>13, <1>14 DEF IInv
<1>. QED BY <1>1, <1>8, <1>15 DEF t

\* lru_cache_put_copy.
LEMMA PutStep ==
    ASSUME IInv, NEW k \in Keys, NEW n \in Sizes, NEW d \in Data, lru_cache_put_copy(k, n, d)
    PROVE  IInv'
<1>1. PICK s : Listing(s)
  BY DEF IInv
<1>2. n \in Sizes \ {0} /\ pc = "idle" /\ pc' = "evict"
  BY DEF lru_cache_put_copy
<1>3. CASE lru_cache_find(k) = 0 /\ \A i \in live : key[i] # k
  <2>1. PutNew(k, n, d)
    BY <1>3 DEF lru_cache_put_copy
  <2>. QED BY <1>1, <1>2, <1>3, <2>1, NewStep
<1>4. CASE \E j \in 1 .. Len(s) : lru_cache_find(k) = s[j]
  <2>1. PICK j \in 1 .. Len(s) : lru_cache_find(k) = s[j]
    BY <1>4
  <2>2. s[j] # 0
    BY <1>1, PlacesAre DEF Listing
  <2>3. PutReplace(s[j], n, d)
    BY <2>1, <2>2 DEF lru_cache_put_copy
  <2>. QED BY <1>1, <1>2, <2>3, ReplaceStep
<1>. QED BY <1>1, <1>3, <1>4, FindIs DEF IInv
\* lru_cache_evict_if_needed, one turn of its loop.
LEMMA EvictStep ==
    ASSUME IInv, NEW s, Listing(s),
           Over, lru_cache_remove_entry(tail), UNCHANGED pc, pc = "evict"
    PROVE  IInv' /\ Listing(But(s))' /\ \A i \in live' : /\ key'[i] = key[i] /\ data'[i] = data[i]
                                                       /\ size'[i] = size[i]
<1>. DEFINE t == But(s)  e == s[Len(s)]  n == Len(s)
<1>1. /\ s \in Seq(Nodes) /\ Distinct(s) /\ live = {s[i] : i \in 1 .. n}
      /\ n = entry_count /\ Chain(s, head, tail, prev, next)
  BY DEF Listing
<1>2. PICK f : Sums(s, size, f) /\ f[n] = used_bytes
  BY DEF Listing
<1>3. n \in Nat \ {0} /\ n \in 1 .. n
  <2>1. n \in Nat /\ n # 0
    BY <1>1, EndsAre, PlacesAre DEF Over
  <2>. QED BY <2>1
<1>4. /\ prev \in [Nodes -> NodeOrNull] /\ next \in [Nodes -> NodeOrNull]
      /\ size \in [Nodes -> Nat] /\ used_bytes \in Nat /\ entry_count \in Nat
      /\ DOMAIN key = Nodes /\ DOMAIN data = Nodes
  BY DEF IInv, Typed, FieldsOK, NodeOrNull
<1>5. /\ tail = e /\ Chain(t, head', tail', prev', next')
      /\ prev' \in [Nodes -> NodeOrNull] /\ next' \in [Nodes -> NodeOrNull]
  BY <1>1, <1>3, <1>4, ButChain
<1>6. /\ t \in Seq(Nodes) /\ Len(t) = n - 1 /\ Distinct(t)
      /\ {t[i] : i \in 1 .. Len(t)} = {s[i] : i \in 1 .. n} \ {e}
  BY <1>1, <1>3, ButOf
<1>7. e \in Nodes /\ e \in live
  BY <1>1, <1>3, PlacesAre
<1>8. /\ used_bytes' = Minus(used_bytes, size[e]) /\ entry_count' = Minus(entry_count, 1)
      /\ live' = live \ {e} /\ key' = [key EXCEPT ![e] = "free"]
      /\ data' = [data EXCEPT ![e] = "free"] /\ size' = [size EXCEPT ![e] = 0]
  BY <1>5 DEF lru_cache_remove_entry, Forget
<1>9. /\ f[n] = f[n - 1] + size[e] /\ f[n - 1] \in Nat
      /\ \E g : Sums(t, size', g) /\ g[n - 1] = f[n - 1]
  <2>. HIDE DEF e
  <2>1. OnlyAt(size', size, e, 0)
    BY <1>8 DEF OnlyAt
  <2>2. /\ s \in Seq(Nodes) /\ Distinct(s) /\ Ends(s, e)
        /\ size \in [Nodes -> Nat] /\ 0 \in Nat /\ Sums(s, size, f)
    BY <1>1, <1>2, <1>3, <1>4 DEF e, Ends
  <2>3. /\ f[Len(s)] = f[Len(s) - 1] + size[e] /\ f[Len(s) - 1] \in Nat
        /\ \E g : Sums(But(s), size', g) /\ g[Len(s) - 1] = f[Len(s) - 1]
    BY ONLY <2>1, <2>2, ButSums, SMT
  <2>. QED BY <2>3
<1>10. PICK g : Sums(t, size', g) /\ g[n - 1] = f[n - 1]
  BY <1>9
<1>. HIDE DEF t, e
<1>11. used_bytes' = f[n - 1] /\ used_bytes' \in Nat
  <2>1. size[e] \in Nat
    BY <1>4, <1>7
  <2>2. \A a, b, c \in Nat : a = b + c => Minus(a, c) = b
    BY DEF Minus
  <2>3. Minus(used_bytes, size[e]) = f[n - 1]
    BY <1>2, <1>4, <1>9, <2>1, <2>2
  <2>. QED BY <1>8, <1>9, <2>3
<1>12. entry_count' = n - 1 /\ entry_count' \in Nat
  <2>1. \A m \in Nat \ {0} : Minus(m, 1) = m - 1 /\ m - 1 \in Nat
    BY DEF Minus
  <2>. QED BY <1>1, <1>3, <1>8, <2>1
<1>13. Listing(t)'
  <2>1. live' = {t[i] : i \in 1 .. Len(t)} /\ Len(t) = entry_count'
    BY <1>1, <1>6, <1>8, <1>12
  <2>2. Sums(t, size', g) /\ g[Len(t)] = used_bytes'
    BY <1>6, <1>10, <1>11
  <2>. QED BY <1>5, <1>6, <2>1, <2>2 DEF Listing
<1>14. head' \in NodeOrNull /\ tail' \in NodeOrNull
  BY <1>5, <1>6, EndsAre
<1>15. \A i \in live' : /\ i \in live /\ i \in Nodes /\ key'[i] = key[i]
                        /\ data'[i] = data[i] /\ size'[i] = size[i]
  BY <1>4, <1>8 DEF IInv, Typed, FieldsOK
<1>16. Typed'
  <2>1. DOMAIN key' = Nodes /\ DOMAIN data' = Nodes /\ size' \in [Nodes -> Nat]
    BY <1>4, <1>8
  <2>2. \A i \in live : key[i] \in Keys /\ data[i] \in Data /\ size[i] \in Sizes \ {0}
    BY DEF IInv, Typed, FieldsOK
  <2>3. \A i \in live' : key'[i] \in Keys /\ data'[i] \in Data /\ size'[i] \in Sizes \ {0}
    BY <1>15, <2>2
  <2>4. live' \subseteq Nodes /\ pc' \in {"idle", "evict"}
    BY <1>15
  <2>. QED BY <1>5, <1>11, <1>12, <1>14, <2>1, <2>3, <2>4 DEF Typed, FieldsOK, NodeOrNull
<1>17. KeysUnique'
  BY <1>15 DEF IInv, KeysUnique
<1>18. Counted'
  <2>0. IsFiniteSet(live) /\ Cardinality(live) = n
    BY <1>1 DEF IInv, Counted
  <2>1. IsFiniteSet(live') /\ Cardinality(live') = n - 1
    BY <1>7, <1>8, <2>0, FS_RemoveElement
  <2>2. n - 1 <= max_entries + 1
    BY <1>1, <1>3, NodesAre DEF IInv, Counted
  <2>. QED BY <1>12, <2>1, <2>2 DEF Counted
<1>19. IInv'
  BY <1>13, <1>16, <1>17, <1>18 DEF IInv
<1>. QED BY <1>13, <1>15, <1>19 DEF t

\* The end of the loop: the put returns, and the limits hold.
LEMMA EvictEnd ==
    ASSUME IInv, ~Over, pc' = "idle", UNCHANGED <<cache, heap>>
    PROVE  IInv'
<1>0. PICK s : Listing(s)
  BY DEF IInv
<1>1. /\ used_bytes' = used_bytes /\ entry_count' = entry_count
      /\ head' = head /\ tail' = tail /\ live' = live /\ key' = key /\ data' = data
      /\ size' = size /\ prev' = prev /\ next' = next
  BY DEF cache, heap
<1>2. used_bytes <= max_bytes /\ entry_count <= max_entries
  <2>1. used_bytes \in Nat /\ entry_count \in Nat /\ max_bytes \in Nat /\ max_entries \in Nat
    BY LruAssumption DEF IInv, Typed, FieldsOK
  <2>2. CASE tail # 0
    BY <2>1, <2>2 DEF Over
  <2>3. CASE tail = 0
    <3>1. Len(s) = 0
      BY <1>0, <2>3, EndsAre DEF Listing
    <3>2. entry_count = 0 /\ used_bytes = 0
      BY <1>0, <3>1 DEF Listing, Sums
    <3>. QED BY <2>1, <3>2
  <2>. QED BY <2>2, <2>3
<1>3. Typed' /\ KeysUnique'
  BY <1>1 DEF IInv, Typed, FieldsOK, KeysUnique
<1>4. Counted'
  BY <1>1, <1>2 DEF IInv, Counted
<1>5. Listing(s)'
  BY <1>0, <1>1 DEF Listing
<1>. QED BY <1>3, <1>4, <1>5 DEF IInv

\* The cache with no entry.
Empty ==
    /\ head = 0 /\ tail = 0 /\ used_bytes = 0 /\ entry_count = 0 /\ live = {} /\ pc = "idle"
    /\ DOMAIN key = Nodes /\ DOMAIN data = Nodes /\ size \in [Nodes -> Nat]
    /\ prev \in [Nodes -> NodeOrNull] /\ next \in [Nodes -> NodeOrNull]

\* It satisfies the invariant, with the empty list.
LEMMA EmptyCache == Empty => IInv
<1>. SUFFICES ASSUME Empty PROVE IInv
  OBVIOUS
<1>. USE DEF Empty
<1>1. Typed
  BY DEF Typed, FieldsOK, NodeOrNull
<1>2. KeysUnique
  BY DEF KeysUnique
<1>3. Counted
  BY FS_EmptySet, LruAssumption DEF Counted
<1>4. Listing(<<>>)
  <2>. DEFINE s == <<>>  f == [i \in 0 .. 0 |-> 0]
  <2>1. s \in Seq(Nodes) /\ Len(s) = 0
    OBVIOUS
  <2>. HIDE DEF s
  <2>2. 1 .. Len(s) = {} /\ 0 .. Len(s) = {0}
    BY <2>1
  <2>3. Distinct(s) /\ Chain(s, head, tail, prev, next) /\ live = {s[i] : i \in 1 .. Len(s)}
    BY <2>1, <2>2 DEF Distinct, Chain
  <2>4. f \in [0 .. Len(s) -> Nat] /\ f[0] = 0
    BY <2>1
  <2>. HIDE DEF f
  <2>5. Sums(s, size, f) /\ f[Len(s)] = used_bytes
    BY <2>1, <2>2, <2>4 DEF Sums
  <2>6. Listing(s)
    BY <2>1, <2>3, <2>5 DEF Listing
  <2>. QED BY <2>6 DEF s
<1>. QED BY <1>1, <1>2, <1>3, <1>4 DEF IInv

\* lru_cache_clear: the walk from the head meets every node, and frees it.
LEMMA ClearStep ==
    ASSUME IInv, lru_cache_clear
    PROVE  IInv' /\ Empty'
<1>0. PICK s : Listing(s)
  BY DEF IInv
<1>1. /\ pc' = "idle" /\ head' = 0 /\ tail' = 0 /\ used_bytes' = 0 /\ entry_count' = 0
      /\ live' = live \ {Nth[i] : i \in 0 .. max_entries}
  BY DEF lru_cache_clear
<1>2. live' = {}
  <2>1. /\ s \in Seq(Nodes) /\ Len(s) \in Nat /\ Len(s) <= max_entries /\ max_entries \in Nat
        /\ live = {s[i] : i \in 1 .. Len(s)}
    BY <1>0, PlacesAre, NodesAre DEF IInv, Counted, Listing, lru_cache_clear
  <2>2. \A i \in Steps : Nth[i] = IF i < Len(s) THEN s[i + 1] ELSE 0
    BY <1>0, NthIs DEF IInv
  <2>3. ASSUME NEW j \in 1 .. Len(s) PROVE s[j] \in {Nth[i] : i \in 0 .. max_entries}
    <3>1. j - 1 \in 0 .. max_entries /\ j - 1 \in Steps /\ j - 1 < Len(s) /\ (j - 1) + 1 = j
      BY <2>1 DEF Steps
    <3>2. Nth[j - 1] = s[j]
      BY <2>2, <3>1
    <3>. QED BY <3>1, <3>2
  <2>. QED BY <1>1, <2>1, <2>3
<1>3. /\ DOMAIN key' = Nodes /\ DOMAIN data' = Nodes
      /\ size' = [n \in Nodes |-> 0] /\ prev' = [n \in Nodes |-> 0]
      /\ next' = [n \in Nodes |-> 0]
  BY <1>2 DEF lru_cache_clear
<1>4. /\ size' \in [Nodes -> Nat]
      /\ prev' \in [Nodes -> NodeOrNull] /\ next' \in [Nodes -> NodeOrNull]
  BY <1>3 DEF NodeOrNull
<1>5. Empty'
  BY <1>1, <1>2, <1>3, <1>4 DEF Empty
<1>6. Empty' => IInv'
  BY EmptyCache, PTL
<1>. QED BY <1>5, <1>6

\* The first state.
LEMMA InitEmpty == Init => Empty
<1>. SUFFICES ASSUME Init PROVE Empty
  OBVIOUS
<1>1. /\ size \in [Nodes -> Nat]
      /\ prev \in [Nodes -> NodeOrNull] /\ next \in [Nodes -> NodeOrNull]
  BY DEF Init, NodeOrNull
<1>2. DOMAIN key = Nodes /\ DOMAIN data = Nodes
  BY DEF Init
<1>. QED BY <1>1, <1>2 DEF Init, Empty

\* Every step of the cache.
LEMMA IInvStep == IInv /\ [Next]_vars => IInv'
<1>. SUFFICES ASSUME IInv, [Next]_vars PROVE IInv'
  OBVIOUS
<1>1. ASSUME NEW k \in Keys, lru_cache_get_copy(k) PROVE IInv'
  <2>1. PICK s : Listing(s)
    BY DEF IInv
  <2>. QED BY <1>1, <2>1, GetStep
<1>2. ASSUME NEW k \in Keys, NEW n \in Sizes, NEW d \in Data, lru_cache_put_copy(k, n, d)
      PROVE  IInv'
  BY <1>2, PutStep
<1>3. CASE lru_cache_evict_if_needed
  <2>1. CASE Over
    <3>1. PICK s : Listing(s)
      BY DEF IInv
    <3>. QED BY <1>3, <2>1, <3>1, EvictStep DEF lru_cache_evict_if_needed
  <2>2. CASE ~Over
    BY <1>3, <2>2, EvictEnd DEF lru_cache_evict_if_needed
  <2>. QED BY <2>1, <2>2
<1>4. CASE lru_cache_clear
  BY <1>4, ClearStep
<1>5. CASE CallFails \/ UNCHANGED vars
  <2>1. /\ used_bytes' = used_bytes /\ entry_count' = entry_count
        /\ head' = head /\ tail' = tail /\ live' = live /\ key' = key /\ data' = data
        /\ size' = size /\ prev' = prev /\ next' = next /\ pc' = pc
    BY <1>5 DEF vars, cache, heap, CallFails
  <2>2. PICK s : Listing(s)
    BY DEF IInv
  <2>3. Typed' /\ KeysUnique' /\ Counted'
    BY <2>1 DEF IInv, Typed, FieldsOK, KeysUnique, Counted
  <2>4. Listing(s)'
    BY <2>1, <2>2 DEF Listing
  <2>. QED BY <2>3, <2>4 DEF IInv
<1>. QED BY <1>1, <1>2, <1>3, <1>4, <1>5 DEF Next

\* What a get hands out is the content of a node in use.
HandedOut == out \in Seq([key : Keys, size : Sizes \ {0}, data : Data])

LEMMA OutStep == IInv /\ HandedOut /\ [Next]_vars => HandedOut'
<1>. SUFFICES ASSUME IInv, HandedOut, [Next]_vars PROVE HandedOut'
  OBVIOUS
<1>1. CASE out' = out
  BY <1>1 DEF HandedOut
<1>2. CASE out' = <<>>
  BY <1>2 DEF HandedOut
<1>3. ASSUME NEW k \in Keys, lru_cache_get_copy(k) PROVE HandedOut'
  <2>1. PICK s : Listing(s)
    BY DEF IInv
  <2>2. PICK j \in 1 .. Len(s) : lru_cache_find(k) = s[j]
    BY <1>3, <2>1, FindIs DEF IInv, lru_cache_get_copy
  <2>3. s[j] \in live
    BY <2>1 DEF Listing
  <2>. DEFINE e == [key |-> k, size |-> size[s[j]], data |-> data[s[j]]]
  <2>4. e \in [key : Keys, size : Sizes \ {0}, data : Data]
    BY <2>3 DEF IInv, Typed, FieldsOK
  <2>5. out' = <<e>>
    BY <1>3, <2>2 DEF lru_cache_get_copy
  <2>. HIDE DEF e
  <2>. QED BY <2>4, <2>5 DEF HandedOut
<1>. QED BY <1>1, <1>2, <1>3
         DEF Next, vars, lru_cache_put_copy, lru_cache_evict_if_needed, lru_cache_clear, CallFails

-----------------------------------------------------------------------------
(* The theorems.                                                           *)

\* The nodes in use are always those of one list, each key is in it once, and
\* the sums of the lengths along it end in used_bytes.
THEOREM Invariant == Spec => []IInv
  BY InitEmpty, EmptyCache, IInvStep, PTL DEF Spec

\* The fields of the cache and of the nodes in use have their types, no entry of
\* length 0 is kept, and a get hands out a copy of one that was put (203, 181).
THEOREM TypeCorrect == Spec => []TypeOK
<1>1. Init => HandedOut
  BY DEF Init, HandedOut
<1>2. IInv /\ HandedOut => TypeOK
  BY DEF IInv, Typed, TypeOK, HandedOut
<1>. QED BY <1>1, <1>2, Invariant, OutStep, PTL DEF Spec

\* After every call, and between the evictions of a put, the list read from the
\* head visits each allocated node once, prev is the inverse of next, and the
\* tail is its last node (44-101, 255-267).
THEOREM ListIsWhole == Spec => []Linked
<1>1. IInv => Linked
  <2>. SUFFICES ASSUME IInv PROVE Linked
    OBVIOUS
  <2>1. PICK s : Listing(s)
    BY DEF IInv
  <2>2. Order = s
    BY <2>1, OrderIs DEF IInv
  <2>3. {s[i] : i \in 1 .. Len(s)} = live /\ Len(s) = Cardinality(live)
    BY <2>1 DEF IInv, Listing, Counted
  <2>4. /\ tail = (IF Len(s) = 0 THEN 0 ELSE s[Len(s)])
        /\ \A i \in 1 .. Len(s) : prev[s[i]] = (IF i = 1 THEN 0 ELSE s[i - 1])
        /\ \A i \in 1 .. Len(s) : next[s[i]] = (IF i = Len(s) THEN 0 ELSE s[i + 1])
    BY <2>1 DEF Listing, Chain
  <2>. QED BY <2>2, <2>3, <2>4 DEF Linked
<1>. QED BY <1>1, Invariant, PTL

\* used_bytes and entry_count are those of the list at every moment, so that the
\* clamps of 62-70 and 223-227 never act; between calls both limits hold
\* (103-114).
THEOREM CountersAreExact == Spec => []Accounted
<1>1. IInv => Accounted
  <2>. SUFFICES ASSUME IInv PROVE Accounted
    OBVIOUS
  <2>1. PICK s : Listing(s)
    BY DEF IInv
  <2>2. PICK f : Sums(s, size, f) /\ f[Len(s)] = used_bytes
    BY <2>1 DEF Listing
  <2>3. Total = used_bytes
    BY <2>1, <2>2, TotalIs DEF IInv
  <2>. QED BY <2>3 DEF Accounted, IInv, Counted
<1>. QED BY <1>1, Invariant, PTL

-----------------------------------------------------------------------------
(* Lists of entries, and what of them fits.                                *)

First(c, m) == [i \in 1 .. m |-> c[i]]

BytesOf(c) ==
    LET sum[i \in 0 .. Len(c)] == IF i = 0 THEN 0 ELSE sum[i - 1] + c[i].size
    IN  sum[Len(c)]

FitsOf(c) == Len(c) <= max_entries /\ BytesOf(c) <= max_bytes

KeptOf(c) ==
    CHOOSE p \in {First(c, n) : n \in 0 .. Len(c)} :
        FitsOf(p) /\ (Len(p) < Len(c) => ~FitsOf(First(c, Len(p) + 1)))

RaisedOf(c, e, i) ==
    [j \in 1 .. (IF i <= Len(c) THEN Len(c) ELSE i) |->
        IF j = 1 THEN e ELSE IF j <= i THEN c[j - 1] ELSE c[j]]

\* These are the operators of LruList.
LEMMA SameAsList ==
    /\ \A c : Seen!Kept(c) = KeptOf(c) /\ List!Kept(c) = KeptOf(c)
    /\ \A e, i : List!Raised(e, i) = RaisedOf(Shown, e, i)
<1>1. \A c : Seen!Bytes(c) = BytesOf(c) /\ List!Bytes(c) = BytesOf(c)
  BY DEF Seen!Bytes, List!Bytes, BytesOf
<1>2. \A c : Seen!Fits(c) = FitsOf(c) /\ List!Fits(c) = FitsOf(c)
  BY <1>1 DEF Seen!Fits, List!Fits, FitsOf
<1>3. \A c, n : Seen!Prefix(c, n) = First(c, n) /\ List!Prefix(c, n) = First(c, n)
  BY DEF Seen!Prefix, List!Prefix, First
<1>4. \A c : Seen!Kept(c) = KeptOf(c)
  BY <1>2, <1>3 DEF Seen!Kept, KeptOf
<1>5. \A c : List!Kept(c) = KeptOf(c)
  BY <1>2, <1>3 DEF List!Kept, KeptOf
<1>6. \A e, i : List!Raised(e, i) = RaisedOf(Shown, e, i)
  BY DEF List!Raised, RaisedOf
<1>. QED BY <1>4, <1>5, <1>6

\* A function on 1 .. n has length n.
LEMMA LengthOf ==
    ASSUME NEW n \in Nat, NEW c, c = [i \in 1 .. n |-> c[i]]
    PROVE  Len(c) = n
<1>. DEFINE S == {c[i] : i \in 1 .. n}
<1>1. c \in [1 .. n -> S]
  OBVIOUS
<1>2. c \in Seq(S)
  <2>. HIDE DEF S
  <2>. QED BY <1>1, SeqDef
<1>3. Len(c) \in Nat /\ DOMAIN c = 1 .. Len(c) /\ DOMAIN c = 1 .. n
  <2>. HIDE DEF S
  <2>. QED BY <1>1, <1>2, LenProperties
<1>. QED BY <1>3

\* f are the sums of the sizes of the first entries of c.
Adds(c, f) ==
    /\ Len(c) \in Nat /\ c = [i \in 1 .. Len(c) |-> c[i]]
    /\ f \in [0 .. Len(c) -> Nat] /\ f[0] = 0
    /\ \A i \in 1 .. Len(c) : f[i] = f[i - 1] + c[i].size
    /\ \A i, j \in 0 .. Len(c) : i <= j => f[i] <= f[j]

\* The sums of g, one place further.
Grown(c, g) == [i \in 0 .. Len(c) |-> IF i = 0 THEN 0 ELSE g[i - 1] + c[i].size]

\* The bytes of the first entries are their sum.
LEMMA FirstOf ==
    ASSUME NEW c, NEW f, Adds(c, f), NEW m \in 0 .. Len(c)
    PROVE  Len(First(c, m)) = m /\ BytesOf(First(c, m)) = f[m]
<1>. DEFINE p == First(c, m)  g == [i \in 0 .. m |-> f[i]]
            h == CHOOSE x : x = Grown(p, x)
<1>0. Len(c) \in Nat /\ m \in Nat /\ \A i \in 1 .. m : i \in 1 .. Len(c)
  BY DEF Adds
<1>1. p = [i \in 1 .. m |-> p[i]] /\ \A i \in 1 .. m : p[i] = c[i]
  BY DEF First
<1>2. Len(p) = m
  <2>. HIDE DEF p
  <2>. QED BY <1>0, <1>1, LengthOf
<1>3. BytesOf(p) = h[m]
  BY <1>2 DEF BytesOf, Grown
<1>. HIDE DEF p
<1>4. g = Grown(p, g)
  <2>1. \A i \in 0 .. m : i = 0 \/ (i \in 1 .. m /\ i - 1 \in 0 .. m)
    BY <1>0
  <2>2. f[0] = 0 /\ \A i \in 1 .. Len(c) : f[i] = f[i - 1] + c[i].size
    BY DEF Adds
  <2>3. \A i \in 0 .. m : f[i] = IF i = 0 THEN 0 ELSE g[i - 1] + p[i].size
    BY <1>0, <1>1, <2>1, <2>2
  <2>. QED BY <1>2, <2>3 DEF Grown
<1>. HIDE DEF g
<1>5. h = Grown(p, h)
  BY <1>4
<1>. HIDE DEF h
<1>6. \A x : x = Grown(p, x) => \A i \in 0 .. m : x[i] = IF i = 0 THEN 0 ELSE x[i - 1] + p[i].size
  BY <1>2 DEF Grown
<1>. DEFINE bad == {i \in 0 .. m : h[i] # g[i]}
<1>7. bad = {}
  <2>. SUFFICES ASSUME NEW x \in bad PROVE FALSE
    OBVIOUS
  <2>1. bad \in SUBSET Nat
    BY <1>0
  <2>2. PICK k \in bad : \A i \in bad : k <= i
    <3>. HIDE DEF bad
    <3>. QED BY <2>1, LeastNat
  <2>3. k # 0
    BY <1>4, <1>5, <1>6
  <2>4. k - 1 \in 0 .. m /\ ~(k <= k - 1)
    BY <1>0, <2>3
  <2>5. h[k - 1] = g[k - 1]
    BY <2>2, <2>4
  <2>6. h[k] = h[k - 1] + p[k].size /\ g[k] = g[k - 1] + p[k].size
    BY <1>4, <1>5, <1>6, <2>3
  <2>. QED BY <2>5, <2>6
<1>8. m \in 0 .. m
  BY <1>0
<1>9. g[m] = f[m]
  BY <1>8 DEF g
<1>. QED BY <1>2, <1>3, <1>7, <1>8, <1>9 DEF p

\* m entries are the longest prefix within the limits.
Longest(c, f, m) ==
    /\ m \in 0 .. Len(c) /\ m <= max_entries /\ f[m] <= max_bytes
    /\ m < Len(c) => ~(m + 1 <= max_entries /\ f[m + 1] <= max_bytes)

\* There is a longest prefix.
LEMMA LongestIs ==
    ASSUME NEW c, NEW f, Adds(c, f)
    PROVE  \E m : Longest(c, f, m)
<1>. DEFINE n == Len(c)  over == {i \in 0 .. n : ~(i <= max_entries /\ f[i] <= max_bytes)}
<1>1. n \in Nat /\ f[0] = 0 /\ max_entries \in Nat /\ max_bytes \in Nat
  BY LruAssumption DEF Adds
<1>2. over \in SUBSET Nat
  BY <1>1
<1>3. CASE over = {}
  <2>1. n \in 0 .. n /\ ~(n < n)
    BY <1>1
  <2>. QED BY <1>3, <2>1 DEF Longest
<1>4. CASE over # {}
  <2>1. PICK k \in over : \A i \in over : k <= i
    <3>. HIDE DEF over
    <3>. QED BY <1>2, <1>4, LeastNat
  <2>2. k # 0
    BY <1>1
  <2>3. k - 1 \in 0 .. n /\ ~(k <= k - 1) /\ (k - 1) + 1 = k
    BY <1>1, <2>2
  <2>4. k - 1 \notin over
    BY <2>1, <2>3
  <2>. QED BY <2>3, <2>4 DEF Longest
<1>. QED BY <1>3, <1>4

\* It is what is kept.
LEMMA KeptIs ==
    ASSUME NEW c, NEW f, Adds(c, f), NEW m, Longest(c, f, m)
    PROVE  KeptOf(c) = First(c, m)
<1>. DEFINE n == Len(c)  fit(i) == i <= max_entries /\ f[i] <= max_bytes
            All == {First(c, i) : i \in 0 .. n}
            Good(p) == FitsOf(p) /\ (Len(p) < n => ~FitsOf(First(c, Len(p) + 1)))
<1>1. /\ n \in Nat /\ max_entries \in Nat /\ max_bytes \in Nat
      /\ \A i \in 0 .. n : f[i] \in Nat
      /\ \A i, j \in 0 .. n : i <= j => f[i] <= f[j]
  BY LruAssumption DEF Adds
<1>2. \A i \in 0 .. n : Len(First(c, i)) = i /\ (FitsOf(First(c, i)) <=> fit(i))
  BY FirstOf DEF FitsOf
<1>3. \A i \in 0 .. n : i < n => i + 1 \in 0 .. n
  BY <1>1
<1>4. \A i \in 0 .. n : Good(First(c, i)) <=> fit(i) /\ (i < n => ~fit(i + 1))
  BY <1>2, <1>3
<1>5. m \in 0 .. n /\ fit(m) /\ (m < n => ~fit(m + 1))
  BY DEF Longest
<1>6. \A i, j \in 0 .. n : i <= j /\ fit(j) => fit(i)
  <2>. SUFFICES ASSUME NEW i \in 0 .. n, NEW j \in 0 .. n, i <= j, fit(j) PROVE fit(i)
    OBVIOUS
  <2>1. f[i] <= f[j] /\ f[i] \in Nat /\ f[j] \in Nat
    BY <1>1
  <2>. QED BY <1>1, <2>1
<1>. HIDE DEF fit
<1>7. ASSUME NEW i \in 0 .. n, fit(i), i < n => ~fit(i + 1) PROVE i = m
  <2>1. CASE i < m
    <3>1. i < n /\ i + 1 <= m
      BY <1>1, <1>5, <2>1
    <3>. QED BY <1>3, <1>5, <1>6, <1>7, <3>1
  <2>2. CASE m < i
    <3>1. m < n /\ m + 1 <= i
      BY <1>1, <1>5, <2>2
    <3>. QED BY <1>3, <1>5, <1>6, <1>7, <3>1
  <2>. QED BY <1>1, <1>5, <2>1, <2>2
<1>8. First(c, m) \in All /\ Good(First(c, m))
  BY <1>4, <1>5
<1>9. ASSUME NEW p \in All, Good(p) PROVE p = First(c, m)
  <2>1. PICK i \in 0 .. n : p = First(c, i)
    OBVIOUS
  <2>2. i = m
    BY <1>4, <1>7, <1>9, <2>1
  <2>. QED BY <2>1, <2>2
<1>10. KeptOf(c) = CHOOSE p \in All : Good(p)
  BY DEF KeptOf
<1>. HIDE DEF All, Good
<1>. QED BY <1>8, <1>9, <1>10
\* All is kept when all fits.
LEMMA KeptAll ==
    ASSUME NEW c, NEW f, Adds(c, f), Len(c) <= max_entries, f[Len(c)] <= max_bytes
    PROVE  KeptOf(c) = c
<1>1. Len(c) \in Nat /\ c = First(c, Len(c))
  BY DEF Adds, First
<1>2. Len(c) \in 0 .. Len(c) /\ ~(Len(c) < Len(c))
  BY <1>1
<1>3. Longest(c, f, Len(c))
  BY <1>2 DEF Longest
<1>. QED BY <1>1, <1>3, KeptIs

\* The last entry is not kept when not all fits, so that nothing else is lost
\* when it is dropped.
LEMMA KeptShorter ==
    ASSUME NEW c, NEW f, Adds(c, f), Len(c) # 0,
           ~(Len(c) <= max_entries /\ f[Len(c)] <= max_bytes)
    PROVE  KeptOf(First(c, Len(c) - 1)) = KeptOf(c)
<1>. DEFINE n == Len(c)  b == First(c, n - 1)  g == [i \in 0 .. n - 1 |-> f[i]]
<1>1. n \in Nat \ {0} /\ n - 1 \in Nat /\ n - 1 \in 0 .. n
      /\ (\A i \in 0 .. n - 1 : i \in 0 .. n) /\ (\A i \in 1 .. n - 1 : i \in 1 .. n)
  BY DEF Adds
<1>2. Len(b) = n - 1
  BY <1>1, FirstOf
<1>3. \A i \in 1 .. n - 1 : b[i] = c[i]
  BY DEF First
<1>4. b = [i \in 1 .. Len(b) |-> b[i]]
  BY <1>2 DEF First
<1>5. \A i \in 0 .. n - 1 : g[i] = f[i]
  OBVIOUS
<1>6. g \in [0 .. Len(b) -> Nat]
  BY <1>1, <1>2 DEF Adds
<1>. HIDE DEF b, g
<1>7. Adds(b, g)
  <2>1. 0 \in 0 .. n - 1 /\ \A i \in 1 .. n - 1 : i \in 0 .. n - 1 /\ i - 1 \in 0 .. n - 1
    BY <1>1
  <2>2. g[0] = 0
    BY <1>5, <2>1 DEF Adds
  <2>3. \A i \in 1 .. n - 1 : g[i] = g[i - 1] + b[i].size
    BY <1>1, <1>3, <1>5, <2>1 DEF Adds
  <2>4. \A i, j \in 0 .. n - 1 : i <= j => g[i] <= g[j]
    BY <1>1, <1>5 DEF Adds
  <2>. QED BY <1>1, <1>2, <1>4, <1>6, <2>2, <2>3, <2>4 DEF Adds
<1>8. PICK m : Longest(c, f, m)
  BY LongestIs
<1>9. m \in 0 .. n - 1 /\ m < n /\ (m < n - 1 => m + 1 \in 0 .. n - 1)
  <2>1. m \in 0 .. n /\ m # n
    BY <1>8 DEF Longest
  <2>. QED BY <1>1, <2>1
<1>10. Longest(b, g, m)
  BY <1>2, <1>5, <1>8, <1>9 DEF Longest
<1>11. KeptOf(b) = First(b, m) /\ KeptOf(c) = First(c, m)
  BY <1>7, <1>8, <1>10, KeptIs
<1>12. First(b, m) = First(c, m)
  <2>1. \A i \in 1 .. m : i \in 1 .. n - 1
    BY <1>1, <1>9
  <2>. QED BY <1>3, <2>1 DEF First
<1>. QED BY <1>11, <1>12 DEF b

\* The first entry is kept when it fits by itself.
LEMMA KeptFirst ==
    ASSUME NEW c, NEW f, Adds(c, f), Len(c) # 0, c[1].size <= max_bytes, c[1].size \in Nat
    PROVE  KeptOf(c) # <<>> /\ KeptOf(c)[1] = c[1]
<1>1. PICK m : Longest(c, f, m)
  BY LongestIs
<1>2. Len(c) \in Nat \ {0} /\ f[0] = 0 /\ 1 \in 1 .. Len(c)
  BY DEF Adds
<1>3. f[1] = c[1].size
  BY <1>2 DEF Adds
<1>4. m # 0
  <2>. SUFFICES ASSUME m = 0 PROVE FALSE
    OBVIOUS
  <2>1. 0 < Len(c) /\ 0 + 1 = 1 /\ 1 <= max_entries
    BY <1>2, LruAssumption
  <2>. QED BY <1>1, <1>3, <2>1 DEF Longest
<1>5. m \in 0 .. Len(c) /\ 1 \in 1 .. m
  <2>1. m \in 0 .. Len(c)
    BY <1>1 DEF Longest
  <2>. QED BY <1>2, <1>4, <2>1
<1>6. KeptOf(c) = First(c, m) /\ Len(First(c, m)) = m
  BY <1>1, <1>5, KeptIs, FirstOf
<1>7. First(c, m)[1] = c[1]
  BY <1>5 DEF First
<1>. QED BY <1>4, <1>6, <1>7

-----------------------------------------------------------------------------
(* What the nodes of a list hold.                                          *)

Entry(k, d, z, e) == [key |-> k[e], size |-> z[e], data |-> d[e]]

Held(k, d, z, s) == [i \in 1 .. Len(s) |-> Entry(k, d, z, s[i])]

\* It is as long as the list.
LEMMA HeldOf ==
    ASSUME NEW s \in Seq(Nodes), NEW k, NEW d, NEW z
    PROVE  /\ Len(s) \in Nat /\ Len(Held(k, d, z, s)) = Len(s)
           /\ Held(k, d, z, s) = [i \in 1 .. Len(s) |-> Held(k, d, z, s)[i]]
           /\ \A i \in 1 .. Len(s) : Held(k, d, z, s)[i] = Entry(k, d, z, s[i])
<1>. DEFINE c == Held(k, d, z, s)
<1>1. Len(s) \in Nat
  BY PlacesAre
<1>2. c = [i \in 1 .. Len(s) |-> c[i]] /\ \A i \in 1 .. Len(s) : c[i] = Entry(k, d, z, s[i])
  BY DEF Held
<1>3. Len(c) = Len(s)
  <2>. HIDE DEF c
  <2>. QED BY <1>1, <1>2, LengthOf
<1>. QED BY <1>1, <1>2, <1>3

\* The sums of its sizes are those along the list.
LEMMA HeldAdds ==
    ASSUME NEW s \in Seq(Nodes), NEW k, NEW d, NEW z, NEW f, Sums(s, z, f)
    PROVE  Adds(Held(k, d, z, s), f)
<1>. DEFINE c == Held(k, d, z, s)
<1>1. /\ Len(s) \in Nat /\ Len(c) = Len(s) /\ c = [i \in 1 .. Len(s) |-> c[i]]
      /\ \A i \in 1 .. Len(s) : c[i] = Entry(k, d, z, s[i])
  BY HeldOf
<1>. HIDE DEF c
<1>2. \A i \in 1 .. Len(s) : c[i].size = z[s[i]]
  BY <1>1 DEF Entry
<1>3. Adds(c, f)
  BY <1>1, <1>2 DEF Adds, Sums
<1>. QED BY <1>3 DEF c

\* What is known of the contents of the cache.
Facts(s) ==
    /\ Contents = Held(key, data, size, s)
    /\ \E f : Adds(Contents, f) /\ f[Len(s)] = used_bytes /\ Len(Contents) = Len(s)

\* The list of the nodes gives the contents.
LEMMA ContentsAre ==
    ASSUME NEW s, Listing(s), Counted
    PROVE  Facts(s)
<1>1. Order = s /\ s \in Seq(Nodes)
  BY OrderIs DEF Listing
<1>2. Contents = Held(key, data, size, s)
  BY <1>1 DEF Contents, Held, Entry
<1>3. PICK f : Sums(s, size, f) /\ f[Len(s)] = used_bytes
  BY DEF Listing
<1>4. Adds(Held(key, data, size, s), f) /\ Len(Held(key, data, size, s)) = Len(s)
  BY <1>1, <1>3, HeldAdds, HeldOf
<1>. QED BY <1>2, <1>3, <1>4 DEF Facts

\* The same after a step.
LEMMA ContentsNext ==
    ASSUME NEW t
    PROVE  Listing(t)' /\ Counted' => Facts(t)'
<1>1. Listing(t) /\ Counted => Facts(t)
  BY ContentsAre
<1>. QED BY <1>1, PTL

\* What the application sees.
ShownRight == Shown = IF pc = "evict" THEN KeptOf(Contents) ELSE Contents

\* It is the whole list, or what a put will have left of it.
LEMMA ShownIs == ShownRight
  BY SameAsList DEF Shown, ShownRight

\* The same after a step.
LEMMA ShownNext == ShownRight'
  BY ShownIs, PTL
\* The entries of s, but perhaps that at place j, are as they were.
SameBut(s, j, k, d, z, k2, d2, z2) ==
    \A i \in 1 .. Len(s) : i # j => Entry(k2, d2, z2, s[i]) = Entry(k, d, z, s[i])

\* A node moved to the front, perhaps with a new content.
LEMMA RaisedHeld ==
    ASSUME NEW s \in Seq(Nodes), Distinct(s), NEW j \in 1 .. Len(s),
           NEW k, NEW d, NEW z, NEW k2, NEW d2, NEW z2, SameBut(s, j, k, d, z, k2, d2, z2)
    PROVE  Held(k2, d2, z2, MoveFront(s, j))
             = RaisedOf(Held(k, d, z, s), Entry(k2, d2, z2, s[j]), j)
<1>. DEFINE n == Len(s)  t == MoveFront(s, j)  c == Held(k, d, z, s)
            e == Entry(k2, d2, z2, s[j])
<1>1. /\ t \in Seq(Nodes) /\ Len(t) = n
      /\ \A i \in 1 .. n : t[i] = IF i = 1 THEN s[j] ELSE IF i <= j THEN s[i - 1] ELSE s[i]
  BY MoveFrontOf
<1>2. n \in Nat /\ Len(c) = n /\ \A i \in 1 .. n : c[i] = Entry(k, d, z, s[i])
  BY HeldOf
<1>. HIDE DEF t, c
<1>3. ASSUME NEW i \in 1 .. n
      PROVE  Entry(k2, d2, z2, t[i]) = IF i = 1 THEN e ELSE IF i <= j THEN c[i - 1] ELSE c[i]
  <2>1. CASE i = 1
    BY <1>1, <2>1
  <2>2. CASE i # 1 /\ i <= j
    <3>1. i - 1 \in 1 .. n /\ i - 1 # j
      BY <1>2, <2>2
    <3>2. t[i] = s[i - 1] /\ c[i - 1] = Entry(k, d, z, s[i - 1])
      BY <1>1, <1>2, <2>2, <3>1
    <3>3. Entry(k2, d2, z2, s[i - 1]) = Entry(k, d, z, s[i - 1])
      BY <3>1 DEF SameBut
    <3>. QED BY <2>2, <3>2, <3>3
  <2>3. CASE i # 1 /\ ~(i <= j)
    <3>1. i # j
      BY <1>2, <2>3
    <3>2. t[i] = s[i] /\ c[i] = Entry(k, d, z, s[i])
      BY <1>1, <1>2, <2>3
    <3>3. Entry(k2, d2, z2, s[i]) = Entry(k, d, z, s[i])
      BY <3>1 DEF SameBut
    <3>. QED BY <2>3, <3>2, <3>3
  <2>. QED BY <2>1, <2>2, <2>3
<1>. HIDE DEF e
<1>4. j <= Len(c)
  BY <1>2
<1>5. Held(k2, d2, z2, t) = RaisedOf(c, e, j)
  BY <1>1, <1>2, <1>3, <1>4 DEF Held, RaisedOf
<1>. QED BY <1>5 DEF t, c, e

\* A new node in front.
LEMMA RaisedNew ==
    ASSUME NEW s \in Seq(Nodes), NEW e \in Nodes,
           NEW k, NEW d, NEW z, NEW k2, NEW d2, NEW z2, SameBut(s, 0, k, d, z, k2, d2, z2)
    PROVE  Held(k2, d2, z2, InFront(e, s))
             = RaisedOf(Held(k, d, z, s), Entry(k2, d2, z2, e), Len(s) + 1)
<1>. DEFINE n == Len(s)  t == InFront(e, s)  c == Held(k, d, z, s)
            x == Entry(k2, d2, z2, e)
<1>1. n \in Nat /\ Len(c) = n /\ \A i \in 1 .. n : c[i] = Entry(k, d, z, s[i])
  BY HeldOf
<1>2. t = [i \in 1 .. n + 1 |-> t[i]]
      /\ \A i \in 1 .. n + 1 : t[i] = IF i = 1 THEN e ELSE s[i - 1]
  BY DEF InFront
<1>. HIDE DEF t, c
<1>3. Len(t) = n + 1
  BY <1>1, <1>2, LengthOf
<1>4. ASSUME NEW i \in 1 .. n + 1
      PROVE  Entry(k2, d2, z2, t[i]) = IF i = 1 THEN x ELSE IF i <= n + 1 THEN c[i - 1] ELSE c[i]
  <2>1. CASE i = 1
    BY <1>2, <2>1
  <2>2. CASE i # 1
    <3>1. i - 1 \in 1 .. n /\ i - 1 # 0 /\ i <= n + 1
      BY <1>1, <2>2
    <3>2. t[i] = s[i - 1] /\ c[i - 1] = Entry(k, d, z, s[i - 1])
      BY <1>1, <1>2, <2>2, <3>1
    <3>3. Entry(k2, d2, z2, s[i - 1]) = Entry(k, d, z, s[i - 1])
      BY <3>1 DEF SameBut
    <3>. QED BY <2>2, <3>1, <3>2, <3>3
  <2>. QED BY <2>1, <2>2
<1>. HIDE DEF x
<1>5. ~(n + 1 <= Len(c))
  BY <1>1
<1>6. Held(k2, d2, z2, t) = RaisedOf(c, x, n + 1)
  BY <1>1, <1>3, <1>4, <1>5 DEF Held, RaisedOf
<1>. QED BY <1>6 DEF t, c, x

\* What a get does to the list that the application sees.
LEMMA GetShown ==
    ASSUME NEW c, NEW i \in 1 .. Len(c), Shown = c, Shown' = RaisedOf(c, c[i], i),
           out' = <<c[i]>>
    PROVE  List!Get
<1>1. List!Raised(Shown[i], i) = RaisedOf(Shown, Shown[i], i)
  BY SameAsList
<1>. QED BY <1>1 DEF List!Get

\* What a put does to it.
LEMMA PutShown ==
    ASSUME NEW c, NEW i \in 1 .. Len(c) + 1, NEW e \in [key : Keys, size : 1 .. max_bytes, data : Data],
           NEW b, b = RaisedOf(c, e, i), NEW f, Adds(b, f), Len(c) \in Nat,
           IF i <= Len(c) THEN c[i].key = e.key ELSE \A j \in 1 .. Len(c) : c[j].key # e.key,
           Shown = c, Shown' = KeptOf(b), out' = <<>>
    PROVE  List!Put
<1>1. Len(b) # 0 /\ b[1] = e
  <2>. DEFINE n == IF i <= Len(c) THEN Len(c) ELSE i
  <2>1. n \in Nat \ {0} /\ 1 \in 1 .. n
    OBVIOUS
  <2>2. b = [j \in 1 .. n |-> b[j]] /\ b[1] = e
    BY <2>1 DEF RaisedOf
  <2>. HIDE DEF n
  <2>3. Len(b) = n
    BY <2>1, <2>2, LengthOf
  <2>. QED BY <2>1, <2>2, <2>3
<1>2. e.size \in Nat /\ e.size <= max_bytes
  BY LruAssumption
<1>3. KeptOf(b) # <<>> /\ KeptOf(b)[1] = e
  BY <1>1, <1>2, KeptFirst
<1>4. List!IsPlaceOf(i, e.key)
  BY DEF List!IsPlaceOf
<1>5. KeptOf(b) = List!Kept(List!Raised(e, i))
  BY SameAsList
<1>. DEFINE new == Shown'
<1>6. /\ new # <<>> /\ new[1] = e
      /\ List!IsPlaceOf(i, new[1].key) /\ new = List!Kept(List!Raised(new[1], i))
  BY <1>3, <1>4, <1>5
<1>7. i \in 1 .. Len(Shown) + 1
  OBVIOUS
<1>. QED BY <1>6, <1>7 DEF List!Put
-----------------------------------------------------------------------------
(* The refinement of LruList, step by step.                                *)

\* Getting moves one entry to the front.
LEMMA GetRefines ==
    ASSUME IInv, NEW k \in Keys, lru_cache_get_copy(k)
    PROVE  List!Get
<1>1. PICK s : Listing(s)
  BY DEF IInv
<1>2. s \in Seq(Nodes) /\ Distinct(s) /\ Counted
  BY <1>1 DEF Listing, IInv
<1>3. PICK j \in 1 .. Len(s) :
        Listing(MoveFront(s, j))' /\ Counted' /\ lru_cache_find(k) = s[j] /\ key[s[j]] = k
  <2>1. PICK j \in 1 .. Len(s) : Listing(MoveFront(s, j))' /\ lru_cache_find(k) = s[j]
    BY <1>1, GetStep
  <2>2. s[j] # 0 /\ Counted'
    BY <1>1, <1>2, PlacesAre, GetStep DEF IInv
  <2>3. key[s[j]] = k
    BY <1>1, <1>2, <2>1, <2>2, FindIs DEF IInv
  <2>. QED BY <2>1, <2>2, <2>3
<1>4. UNCHANGED <<key, data, size, pc>> /\ pc = "idle"
  BY DEF lru_cache_get_copy
<1>5. Contents = Held(key, data, size, s)
  BY <1>1, <1>2, ContentsAre DEF Facts
<1>6. Contents' = Held(key', data', size', MoveFront(s, j))
  BY <1>3, ContentsNext DEF Facts
<1>7. Shown = Contents /\ Shown' = Contents'
  BY <1>4, ShownIs, ShownNext DEF ShownRight
<1>8. SameBut(s, j, key, data, size, key', data', size')
  BY <1>4 DEF SameBut
<1>9. Contents' = RaisedOf(Held(key, data, size, s), Entry(key', data', size', s[j]), j)
  BY <1>2, <1>6, <1>8, RaisedHeld
<1>10. Held(key, data, size, s)[j] = Entry(key', data', size', s[j])
       /\ Len(Held(key, data, size, s)) = Len(s)
  BY <1>2, <1>4, HeldOf
<1>11. out' = <<Entry(key', data', size', s[j])>>
  BY <1>3, <1>4 DEF lru_cache_get_copy, Entry
<1>. QED BY <1>5, <1>7, <1>9, <1>10, <1>11, GetShown

\* Putting moves the entry to the front, and hides what does not fit any more.
LEMMA PutRefines ==
    ASSUME IInv, NEW k \in Keys, NEW n \in Sizes, NEW d \in Data, lru_cache_put_copy(k, n, d)
    PROVE  List!Put
<1>1. PICK s : Listing(s)
  BY DEF IInv
<1>2. /\ s \in Seq(Nodes) /\ Distinct(s) /\ Counted /\ live = {s[i] : i \in 1 .. Len(s)}
      /\ DOMAIN key = Nodes /\ DOMAIN data = Nodes /\ DOMAIN size = Nodes
      /\ Len(s) \in Nat /\ \A i \in 1 .. Len(s) : s[i] \in Nodes
  <2>1. s \in Seq(Nodes)
    BY <1>1 DEF Listing
  <2>. QED BY <1>1, <2>1, PlacesAre DEF Listing, IInv, Typed
<1>3. n \in Sizes \ {0} /\ pc = "idle" /\ pc' = "evict" /\ n \in 1 .. max_bytes
  BY LruAssumption DEF lru_cache_put_copy
<1>0. out' = <<>>
  BY DEF lru_cache_put_copy
<1>. DEFINE c == Held(key, data, size, s)  e == [key |-> k, size |-> n, data |-> d]
<1>4. Shown = c /\ Shown' = KeptOf(Contents')
  <2>1. Contents = c
    BY <1>1, <1>2, ContentsAre DEF Facts
  <2>. QED BY <1>3, <2>1, ShownIs, ShownNext DEF ShownRight
<1>5. Len(c) = Len(s) /\ \A i \in 1 .. Len(s) : c[i].key = key[s[i]]
  <2>1. Len(c) = Len(s) /\ \A i \in 1 .. Len(s) : c[i] = Entry(key, data, size, s[i])
    BY <1>2, HeldOf
  <2>2. \A x : Entry(key, data, size, x).key = key[x]
    BY DEF Entry
  <2>. HIDE DEF c
  <2>. QED BY <2>1, <2>2
<1>6. e \in [key : Keys, size : 1 .. max_bytes, data : Data] /\ e.key = k
  BY <1>3
<1>. HIDE DEF c
<1>7. CASE lru_cache_find(k) = 0 /\ \A i \in live : key[i] # k
  <2>1. PutNew(k, n, d)
    BY <1>7 DEF lru_cache_put_copy
  <2>2. PICK x \in Nodes \ live :
          /\ Listing(InFront(x, s))' /\ key' = [key EXCEPT ![x] = k]
          /\ data' = [data EXCEPT ![x] = d] /\ size' = [size EXCEPT ![x] = n]
    BY <1>1, <1>3, <1>7, <2>1, NewStep
  <2>3. Counted'
    BY PutStep DEF IInv
  <2>4. PICK f : Contents' = Held(key', data', size', InFront(x, s)) /\ Adds(Contents', f)
    BY <2>2, <2>3, ContentsNext DEF Facts
  <2>5. SameBut(s, 0, key, data, size, key', data', size')
    <3>1. \A i \in 1 .. Len(s) : s[i] # x
      BY <1>2
    <3>. QED BY <1>2, <2>2, <3>1 DEF SameBut, Entry
  <2>6. Entry(key', data', size', x) = e
    BY <1>2, <2>2 DEF Entry
  <2>7. Contents' = RaisedOf(c, e, Len(s) + 1)
    BY <1>2, <2>4, <2>5, <2>6, RaisedNew DEF c
  <2>8. \A j \in 1 .. Len(c) : c[j].key # e.key
    BY <1>2, <1>5, <1>6, <1>7
  <2>9. Len(s) + 1 \in 1 .. Len(c) + 1 /\ ~(Len(s) + 1 <= Len(c)) /\ Len(c) \in Nat
    BY <1>2, <1>5
  <2>. HIDE DEF e
  <2>. QED BY ONLY <1>0, <1>4, <1>6, <2>4, <2>7, <2>8, <2>9, PutShown, SMT
<1>8. CASE \E j \in 1 .. Len(s) : lru_cache_find(k) = s[j] /\ key[s[j]] = k
  <2>1. PICK j \in 1 .. Len(s) : lru_cache_find(k) = s[j] /\ key[s[j]] = k
    BY <1>8
  <2>2. s[j] # 0
    BY <1>2, PlacesAre
  <2>3. PutReplace(s[j], n, d)
    BY <2>1, <2>2 DEF lru_cache_put_copy
  <2>4. Listing(MoveFront(s, j))' /\ Counted'
    BY <1>1, <1>3, <2>3, ReplaceStep DEF IInv
  <2>5. key' = key /\ data' = [data EXCEPT ![s[j]] = d] /\ size' = [size EXCEPT ![s[j]] = n]
    BY <2>3 DEF PutReplace
  <2>6. PICK f : Contents' = Held(key', data', size', MoveFront(s, j)) /\ Adds(Contents', f)
    BY <2>4, ContentsNext DEF Facts
  <2>7. SameBut(s, j, key, data, size, key', data', size')
    <3>1. \A i \in 1 .. Len(s) : i # j => s[i] # s[j]
      BY <1>2 DEF Distinct
    <3>. QED BY <1>2, <2>5, <3>1 DEF SameBut, Entry
  <2>8. Entry(key', data', size', s[j]) = e
    BY <1>2, <2>1, <2>5 DEF Entry
  <2>9. Contents' = RaisedOf(c, e, j)
    BY <1>2, <2>6, <2>7, <2>8, RaisedHeld DEF c
  <2>10. j \in 1 .. Len(c) + 1 /\ j <= Len(c) /\ Len(c) \in Nat /\ c[j].key = e.key
    BY <1>2, <1>5, <1>6, <2>1
  <2>. HIDE DEF e
  <2>. QED BY ONLY <1>0, <1>4, <1>6, <2>6, <2>9, <2>10, PutShown, SMT
<1>. QED BY <1>1, <1>2, <1>7, <1>8, FindIs

\* A turn of the eviction changes nothing that the application sees.
LEMMA EvictRefines ==
    ASSUME IInv, lru_cache_evict_if_needed
    PROVE  Shown' = Shown /\ out' = out
<1>0. out' = out
  BY DEF lru_cache_evict_if_needed
<1>1. PICK s : Listing(s)
  BY DEF IInv
<1>2. s \in Seq(Nodes) /\ Distinct(s) /\ Counted /\ Len(s) = entry_count /\ pc = "evict"
  BY <1>1 DEF Listing, IInv, lru_cache_evict_if_needed
<1>3. PICK f : /\ Contents = Held(key, data, size, s) /\ Adds(Contents, f)
               /\ f[Len(s)] = used_bytes /\ Len(Contents) = Len(s)
  BY <1>1, <1>2, ContentsAre DEF Facts
<1>4. Shown = KeptOf(Contents)
  BY <1>2, ShownIs DEF ShownRight
<1>5. used_bytes \in Nat /\ entry_count \in Nat /\ max_bytes \in Nat /\ max_entries \in Nat
  BY LruAssumption DEF IInv, Typed, FieldsOK
<1>6. CASE Over
  <2>1. lru_cache_remove_entry(tail) /\ pc' = pc
    BY <1>6 DEF lru_cache_evict_if_needed
  <2>2. /\ Counted' /\ Listing(But(s))'
        /\ \A i \in live' : key'[i] = key[i] /\ data'[i] = data[i] /\ size'[i] = size[i]
    BY <1>1, <1>2, <1>6, <2>1, EvictStep DEF IInv
  <2>3. Len(s) # 0
    BY <1>1, <1>6, EndsAre DEF Listing, Over
  <2>4. Contents' = Held(key', data', size', But(s))
    BY <2>2, ContentsNext DEF Facts
  <2>5. /\ live' = {But(s)[i] : i \in 1 .. Len(But(s))} /\ Len(But(s)) = Len(s) - 1
        /\ \A i \in 1 .. Len(s) - 1 : But(s)[i] = s[i] /\ i \in 1 .. Len(s)
    BY <1>2, <2>2, <2>3, ButOf DEF Listing
  <2>6. ASSUME NEW i \in 1 .. Len(s) - 1
        PROVE  Entry(key', data', size', But(s)[i]) = Contents[i]
    <3>1. But(s)[i] \in live' /\ But(s)[i] = s[i]
      BY <2>5
    <3>2. Contents[i] = Entry(key, data, size, s[i])
      BY <1>2, <1>3, <2>5, HeldOf
    <3>. QED BY <2>2, <3>1, <3>2 DEF Entry
  <2>7. Contents' = First(Contents, Len(Contents) - 1)
    BY <1>3, <2>4, <2>5, <2>6 DEF Held, First
  <2>8. ~(Len(Contents) <= max_entries /\ f[Len(Contents)] <= max_bytes)
    BY <1>2, <1>3, <1>5, <1>6 DEF Over
  <2>9. KeptOf(Contents') = KeptOf(Contents)
    BY <1>3, <2>3, <2>7, <2>8, KeptShorter
  <2>. QED BY <1>0, <1>2, <1>4, <2>1, <2>9, ShownNext DEF ShownRight
<1>7. CASE ~Over
  <2>1. pc' = "idle" /\ UNCHANGED <<cache, heap>>
    BY <1>7 DEF lru_cache_evict_if_needed
  <2>2. IInv'
    BY <1>7, <2>1, EvictEnd
  <2>3. key' = key /\ data' = data /\ size' = size /\ head' = head /\ tail' = tail
        /\ live' = live /\ prev' = prev /\ next' = next
        /\ used_bytes' = used_bytes /\ entry_count' = entry_count
    BY <2>1 DEF cache, heap
  <2>4. used_bytes <= max_bytes /\ entry_count <= max_entries
    BY <2>1, <2>2, <2>3 DEF IInv, Counted
  <2>5. Listing(s)' /\ Counted'
    BY <1>1, <2>2, <2>3 DEF Listing, IInv
  <2>6. Contents' = Contents
    BY <1>3, <2>3, <2>5, ContentsNext DEF Facts
  <2>7. KeptOf(Contents) = Contents
    BY <1>2, <1>3, <2>4, KeptAll
  <2>. QED BY <1>0, <1>4, <2>1, <2>6, <2>7, ShownNext DEF ShownRight
<1>. QED BY <1>0, <1>6, <1>7

\* An empty cache shows an empty list.
LEMMA EmptyShown == Empty => Shown = <<>>
<1>. SUFFICES ASSUME Empty PROVE Shown = <<>>
  OBVIOUS
<1>1. IInv
  BY EmptyCache
<1>2. PICK s : Listing(s)
  BY <1>1 DEF IInv
<1>3. Len(s) = 0 /\ Contents = Held(key, data, size, s)
  BY <1>1, <1>2, ContentsAre DEF IInv, Facts, Listing, Empty
<1>4. Contents = <<>>
  <2>1. 1 .. Len(s) = {}
    BY <1>3
  <2>2. Contents = [i \in {} |-> Entry(key, data, size, s[i])]
    BY <1>3, <2>1 DEF Held
  <2>. QED BY <2>2
<1>. QED BY <1>4, ShownIs DEF ShownRight, Empty

\* The same after a step.
LEMMA EmptyShownNext == Empty' => Shown' = <<>>
<1>. DEFINE Nothing == Shown = <<>>
<1>1. Empty => Nothing
  BY EmptyShown
<1>. HIDE DEF Nothing
<1>2. Empty' => Nothing'
  BY <1>1, PTL
<1>. QED BY <1>2 DEF Nothing

\* Every step of the cache is a step of the list, or leaves it as it is.
LEMMA StepRefines == IInv /\ [Next]_vars => [List!Next]_<<Shown, out>>
<1>. SUFFICES ASSUME IInv, [Next]_vars PROVE List!Next \/ (Shown' = Shown /\ out' = out)
  OBVIOUS
<1>1. ASSUME NEW k \in Keys, lru_cache_get_copy(k) PROVE List!Next
  BY <1>1, GetRefines DEF List!Next
<1>2. ASSUME NEW k \in Keys, NEW n \in Sizes, NEW d \in Data, lru_cache_put_copy(k, n, d)
      PROVE  List!Next
  BY <1>2, PutRefines DEF List!Next
<1>3. CASE lru_cache_evict_if_needed
  BY <1>3, EvictRefines
<1>4. CASE lru_cache_clear
  BY <1>4, ClearStep, EmptyShownNext DEF List!Next, List!Clear, lru_cache_clear
<1>5. CASE CallFails \/ UNCHANGED vars
  <2>1. /\ used_bytes' = used_bytes /\ entry_count' = entry_count
        /\ head' = head /\ tail' = tail /\ live' = live /\ key' = key /\ data' = data
        /\ size' = size /\ prev' = prev /\ next' = next /\ pc' = pc
    BY <1>5 DEF vars, cache, heap, CallFails
  <2>2. PICK s : Listing(s)
    BY DEF IInv
  <2>3. Listing(s)' /\ Counted /\ Counted'
    BY <2>1, <2>2 DEF Listing, IInv, Counted
  <2>4. Contents = Held(key, data, size, s) /\ Contents' = Held(key', data', size', s)
    BY <2>2, <2>3, ContentsAre, ContentsNext DEF Facts
  <2>5. Shown' = Shown
    BY <2>1, <2>4, ShownIs, ShownNext DEF ShownRight
  <2>. QED BY <1>5, <2>5 DEF vars, CallFails, List!Next, List!Fail
<1>. QED BY <1>1, <1>2, <1>3, <1>4, <1>5 DEF Next

\* The linked list, with its searches, pointer moves and turns of eviction, does
\* what LruList says: a get hands out an entry and moves that one to the front,
\* a put moves its own there and drops the entries that were put or got longest
\* ago, as many as do not fit and no more, a call that fails moves nothing, and
\* no call does anything else (25-114, 143-274).
THEOREM CacheImplementsList == Spec => ListSpec
<1>1. Init => List!Init
  BY InitEmpty, EmptyShown DEF List!Init, Init
<1>. QED BY <1>1, Invariant, StepRefines, PTL DEF Spec, ListSpec, List!Spec
=============================================================================
