--------------------------- MODULE EventBusProofs ---------------------------
(***************************************************************************)
(* Proofs about the event bus: the bridges match the bindings whatever the *)
(* listeners do, and listeners that spare what a dispatch holds are each   *)
(* called as often as they should be, and never read after being freed.    *)
(***************************************************************************)
EXTENDS EventBus, SequenceTheorems, TLAPS

-----------------------------------------------------------------------------
(* The inductive invariant, whatever the listeners do.                     *)

Frame ==
    [name : Names, left : Nat, node : Nat, next : Nat, phase : {"loop", "call"},
     seen : Seq(Nat), start : Seq(Nat)]

BusTyped ==
    /\ bound \subseteq Names
    /\ lists \in [Names -> Seq(Nat)] /\ handlers \in [Names -> Nat]
    /\ entry \in Seq([fn : Fns, once : BOOLEAN]) /\ alive \subseteq 1 .. Len(entry)

StackTyped ==
    /\ stack \in Seq(Frame) /\ stale \in BOOLEAN
    /\ calls \in Seq(Nat) /\ Len(calls) = Len(entry) /\ nemits \in Nat

Rising(s) == \A i, j \in 1 .. Len(s) : i < j => s[i] < s[j]

In(s, e) == \E i \in 1 .. Len(s) : s[i] = e

\* Entry e is in the list of n.
Listed(n, e) == In(lists[n], e)

\* Each live entry is in one list, and the lists are in the order of allocation.
Lists ==
    /\ \A n \in Names : Rising(lists[n])
    /\ \A e \in alive : \E n \in Names : Listed(n, e)
    /\ \A n, m \in Names, e \in Nat : Listed(n, e) /\ Listed(m, e) => n = m
    /\ \A n \in Names, e \in Nat : Listed(n, e) => e \in alive

Bridges ==
    \A n \in Names :
        /\ handlers[n] = IF n \in bound THEN 1 ELSE 0
        /\ n \notin bound => lists[n] = <<>>

\* The bus, apart from the dispatches under way.
BusOk == BusTyped /\ Lists /\ Bridges

\* A frame of the stack holds entries that were in its list, and are while
\* they live.
Belongs(n, e) == e \in 1 .. Len(entry) /\ (e \in alive => Listed(n, e))

FrameBelongs(f) ==
    /\ f.left = 0 /\ (f.phase = "call" => f.node # 0)
    /\ f.node # 0 => Belongs(f.name, f.node)
    /\ f.next # 0 => Belongs(f.name, f.next)
    /\ \A i \in 1 .. Len(f.start) : Belongs(f.name, f.start[i])

Frames == \A i \in 1 .. Len(stack) : FrameBelongs(stack[i])

BusInv == BusOk /\ StackTyped /\ Frames

-----------------------------------------------------------------------------
(* What polite listeners add to it.                                        *)

HeldBy(f) == {f.node, f.next} \ {0}

\* No loop holds a freed entry, and no dispatch above it will free one that it
\* holds.
Kept ==
    /\ \A i \in 1 .. Len(stack) : HeldBy(stack[i]) \subseteq alive
    /\ \A i, j \in 1 .. Len(stack) : i < j =>
         \A e \in HeldBy(stack[i]) : Listed(stack[j].name, e) => ~entry[e].once

\* Where the loop of a frame has come to: the entry it reads next.
At(f) == IF f.phase = "loop" THEN f.node ELSE f.next

Reached(f) ==
    /\ Rising(f.seen)
    /\ f.phase = "loop" => f.next \in {0, f.node}
    /\ \A i \in 1 .. Len(f.seen) : f.seen[i] <= Len(entry)
    /\ f.phase = "loop" /\ f.node # 0 => \A i \in 1 .. Len(f.seen) : f.seen[i] < f.node
    /\ f.phase = "call" => \A i \in 1 .. Len(f.seen) : f.seen[i] <= f.node
    /\ f.phase = "call" /\ f.next # 0 => f.node < f.next
    /\ \A i \in 1 .. Len(f.start) : f.start[i] \in alive =>
         \/ \E j \in 1 .. Len(f.seen) : f.seen[j] = f.start[i]
         \/ At(f) # 0 /\ f.start[i] >= At(f)

AllReached == \A i \in 1 .. Len(stack) : Reached(stack[i])

\* Below the top every frame has its listener running.
Nested == \A i \in 1 .. Len(stack) : i < Len(stack) => stack[i].phase = "call"

\* A one-shot listener has been called by the dispatch that has yet to remove it.
Once ==
    \A e \in 1 .. Len(entry) : entry[e].once =>
        \/ calls[e] = 0
        \/ calls[e] = 1 /\ (e \in alive => \E i \in 1 .. Len(stack) :
                                stack[i].phase = "call" /\ stack[i].node = e)

PoliteInv == BusInv /\ ~stale /\ Kept /\ AllReached /\ Nested /\ Once
-----------------------------------------------------------------------------
(* Sequences.                                                              *)

\* The last element may be written over or removed.
LEMMA FrontOf ==
    ASSUME NEW S, NEW s \in Seq(S), s # <<>>
    PROVE  /\ Front(s) \in Seq(S) /\ Len(s) \in Nat \ {0} /\ Len(Front(s)) = Len(s) - 1
           /\ \A i \in 1 .. Len(s) - 1 : Front(s)[i] = s[i]
<1>1. Len(s) \in Nat \ {0}
  BY EmptySeq
<1>2. \A i \in 1 .. Len(s) - 1 : s[i] \in S
  BY <1>1, ElementOfSeq
<1>. DEFINE n == Len(s) - 1
<1>3. n \in Int
  BY <1>1
<1>4. /\ SubSeq(s, 1, n) \in Seq(S) /\ Len(SubSeq(s, 1, n)) = IF 1 <= n THEN n - 1 + 1 ELSE 0
      /\ \A i \in 1 .. n - 1 + 1 : SubSeq(s, 1, n)[i] = s[1 + i - 1]
  BY <1>2, <1>3, SubSeqProperties
<1>. DEFINE f == SubSeq(s, 1, n)
<1>5. f \in Seq(S) /\ Len(f) = Len(s) - 1 /\ \A i \in 1 .. Len(s) - 1 : f[i] = s[i]
  <2>1. (1 <= n => n - 1 + 1 = n) /\ (~(1 <= n) => n = 0) /\ n - 1 + 1 = n
    BY <1>1
  <2>2. f \in Seq(S) /\ Len(f) = n
    BY <1>4, <2>1
  <2>3. \A i \in 1 .. n : 1 + i - 1 = i
    BY <1>1
  <2>4. \A i \in 1 .. n : f[i] = s[i]
    BY <1>4, <2>1, <2>3
  <2>. QED BY <2>2, <2>4
<1>6. Front(s) = f
  BY DEF Front
<1>. HIDE DEF f
<1>. QED BY <1>1, <1>5, <1>6

\* An element is removed from its place, and the ones behind it move up.
LEMMA RemoveAtOf ==
    ASSUME NEW S, NEW s \in Seq(S), NEW k \in 1 .. Len(s)
    PROVE  /\ RemoveAt(s, k) \in Seq(S) /\ Len(RemoveAt(s, k)) = Len(s) - 1
           /\ \A i \in 1 .. Len(s) - 1 : RemoveAt(s, k)[i] = IF i < k THEN s[i] ELSE s[i + 1]
<1>1. Len(s) \in Nat /\ \A i \in 1 .. Len(s) : s[i] \in S
  BY LenProperties, ElementOfSeq
<1>. DEFINE a == SubSeq(s, 1, k - 1)  b == SubSeq(s, k + 1, Len(s))
<1>2. /\ a \in Seq(S) /\ Len(a) = k - 1
      /\ \A i \in 1 .. k - 1 : a[i] = s[i]
  <2>1. 1 \in Int /\ k - 1 \in Int /\ \A i \in 1 .. k - 1 : s[i] \in S
    BY <1>1
  <2>2. /\ a \in Seq(S) /\ Len(a) = IF 1 <= k - 1 THEN k - 1 - 1 + 1 ELSE 0
        /\ \A i \in 1 .. k - 1 - 1 + 1 : a[i] = s[1 + i - 1]
    BY <2>1, SubSeqProperties
  <2>. QED BY <1>1, <2>2
<1>3. /\ b \in Seq(S) /\ Len(b) = Len(s) - k
      /\ \A i \in 1 .. Len(s) - k : b[i] = s[k + i]
  <2>1. k + 1 \in Int /\ Len(s) \in Int /\ \A i \in k + 1 .. Len(s) : s[i] \in S
    BY <1>1
  <2>2. /\ b \in Seq(S) /\ Len(b) = IF k + 1 <= Len(s) THEN Len(s) - (k + 1) + 1 ELSE 0
        /\ \A i \in 1 .. Len(s) - (k + 1) + 1 : b[i] = s[k + 1 + i - 1]
    BY <2>1, SubSeqProperties
  <2>. QED BY <1>1, <2>2
<1>. HIDE DEF a, b
<1>4. /\ a \o b \in Seq(S) /\ Len(a \o b) = Len(a) + Len(b)
      /\ \A i \in 1 .. Len(a) + Len(b) :
           (a \o b)[i] = IF i <= Len(a) THEN a[i] ELSE b[i - Len(a)]
  BY <1>2, <1>3, ConcatProperties
<1>5. RemoveAt(s, k) = a \o b
  BY DEF RemoveAt, a, b
<1>6. ASSUME NEW i \in 1 .. Len(s) - 1
      PROVE  (a \o b)[i] = IF i < k THEN s[i] ELSE s[i + 1]
  <2>1. CASE i < k
    BY <1>1, <1>2, <1>3, <1>4, <2>1
  <2>2. CASE ~(i < k)
    <3>1. (a \o b)[i] = b[i - (k - 1)] /\ i - (k - 1) \in 1 .. Len(s) - k
      BY <1>1, <1>2, <1>3, <1>4, <2>2
    <3>2. b[i - (k - 1)] = s[k + (i - (k - 1))]
      BY <1>3, <3>1
    <3>3. k + (i - (k - 1)) = i + 1
      BY <1>1
    <3>. QED BY <2>2, <3>1, <3>2, <3>3
  <2>. QED BY <2>1, <2>2
<1>7. Len(a \o b) = Len(s) - 1
  BY <1>1, <1>2, <1>3, <1>4
<1>. DEFINE t == a \o b
<1>8. t \in Seq(S) /\ Len(t) = Len(s) - 1 /\ RemoveAt(s, k) = t
  BY <1>4, <1>5, <1>7
<1>9. \A i \in 1 .. Len(s) - 1 : t[i] = IF i < k THEN s[i] ELSE s[i + 1]
  BY <1>6
<1>. HIDE DEF t
<1>. QED BY <1>8, <1>9

\* A rising sequence stays rising when a larger number is put at its end.
LEMMA RisingAppend ==
    ASSUME NEW s \in Seq(Nat), NEW e \in Nat, Rising(s),
           \A i \in 1 .. Len(s) : s[i] < e
    PROVE  /\ Append(s, e) \in Seq(Nat) /\ Rising(Append(s, e))
           /\ \A x : In(Append(s, e), x) <=> In(s, x) \/ x = e
<1>1. /\ Append(s, e) \in Seq(Nat) /\ Len(s) \in Nat /\ Len(Append(s, e)) = Len(s) + 1
      /\ \A i \in 1 .. Len(s) : Append(s, e)[i] = s[i]
      /\ Append(s, e)[Len(s) + 1] = e
  BY AppendProperties, LenProperties
<1>2. Rising(Append(s, e))
  BY <1>1 DEF Rising
<1>3. ASSUME NEW x PROVE In(Append(s, e), x) <=> In(s, x) \/ x = e
  <2>1. In(Append(s, e), x) => In(s, x) \/ x = e
    BY <1>1 DEF In
  <2>2. In(s, x) => In(Append(s, e), x)
    BY <1>1 DEF In
  <2>3. x = e => In(Append(s, e), x)
    BY <1>1 DEF In
  <2>. QED BY <2>1, <2>2, <2>3
<1>. QED BY <1>1, <1>2, <1>3

\* It stays rising when an element is taken out, and only that one is gone.
LEMMA RisingRemove ==
    ASSUME NEW s \in Seq(Nat), NEW k \in 1 .. Len(s), Rising(s)
    PROVE  /\ RemoveAt(s, k) \in Seq(Nat) /\ Rising(RemoveAt(s, k))
           /\ \A x : In(RemoveAt(s, k), x) <=> In(s, x) /\ x # s[k]
<1>1. Len(s) \in Nat /\ \A i \in 1 .. Len(s) : s[i] \in Nat
  BY LenProperties, ElementOfSeq
<1>. DEFINE t == RemoveAt(s, k)
<1>2. /\ t \in Seq(Nat) /\ Len(t) = Len(s) - 1
      /\ \A i \in 1 .. Len(s) - 1 : t[i] = IF i < k THEN s[i] ELSE s[i + 1]
  BY RemoveAtOf
<1>. HIDE DEF t
<1>3. Rising(t)
  <2>. SUFFICES ASSUME NEW i \in 1 .. Len(t), NEW j \in 1 .. Len(t), i < j
                PROVE  t[i] < t[j]
    BY DEF Rising
  <2>1. \A x, y \in 1 .. Len(s) : x < y => s[x] < s[y]
    BY DEF Rising
  <2>2. \E x, y \in 1 .. Len(s) : x < y /\ t[i] = s[x] /\ t[j] = s[y]
    <3>. i \in 1 .. Len(s) - 1 /\ j \in 1 .. Len(s) - 1
      BY <1>2
    <3>1. CASE i < k /\ j < k
      <4>1. i \in 1 .. Len(s) /\ j \in 1 .. Len(s)
        BY <1>1
      <4>2. t[i] = s[i] /\ t[j] = s[j]
        BY <1>2, <3>1
      <4>. QED BY <4>1, <4>2
    <3>2. CASE i < k /\ ~(j < k)
      <4>1. i < j + 1 /\ i \in 1 .. Len(s) /\ j + 1 \in 1 .. Len(s)
        BY <1>1
      <4>2. t[i] = s[i] /\ t[j] = s[j + 1]
        BY <1>2, <3>2
      <4>. QED BY <4>1, <4>2
    <3>3. CASE ~(i < k)
      <4>1. ~(j < k) /\ i + 1 < j + 1 /\ i + 1 \in 1 .. Len(s) /\ j + 1 \in 1 .. Len(s)
        BY <1>1, <3>3
      <4>2. t[i] = s[i + 1] /\ t[j] = s[j + 1]
        BY <1>2, <3>3, <4>1
      <4>. QED BY <4>1, <4>2
    <3>. QED BY <3>1, <3>2, <3>3
  <2>. QED BY <2>1, <2>2
<1>4. ASSUME NEW x PROVE In(t, x) <=> In(s, x) /\ x # s[k]
  <2>1. ASSUME In(t, x) PROVE In(s, x) /\ x # s[k]
    <3>1. PICK i \in 1 .. Len(s) - 1 : t[i] = x
      BY <1>2, <2>1 DEF In
    <3>2. PICK j \in 1 .. Len(s) : j # k /\ s[j] = x
      <4>1. CASE i < k
        <5>1. i \in 1 .. Len(s) /\ i # k
          BY <1>1, <4>1
        <5>2. s[i] = x
          BY <1>2, <3>1, <4>1
        <5>. QED BY <5>1, <5>2
      <4>2. CASE ~(i < k)
        <5>1. i + 1 \in 1 .. Len(s) /\ i + 1 # k
          BY <1>1, <4>2
        <5>2. s[i + 1] = x
          BY <1>2, <3>1, <4>2
        <5>. QED BY <5>1, <5>2
      <4>. QED BY <4>1, <4>2
    <3>3. j < k \/ k < j
      BY <1>1, <3>2
    <3>4. s[j] < s[k] \/ s[k] < s[j]
      BY <3>3 DEF Rising
    <3>. QED BY <1>1, <3>2, <3>4 DEF In
  <2>2. ASSUME In(s, x), x # s[k] PROVE In(t, x)
    <3>1. PICK i \in 1 .. Len(s) : s[i] = x /\ i # k
      BY <2>2 DEF In
    <3>2. CASE i < k
      <4>1. i \in 1 .. Len(t) /\ t[i] = x
        BY <1>1, <1>2, <3>1, <3>2
      <4>. QED BY <4>1 DEF In
    <3>3. CASE ~(i < k)
      <4>1. i - 1 \in 1 .. Len(s) - 1 /\ ~(i - 1 < k) /\ (i - 1) + 1 = i
        BY <1>1, <3>1, <3>3
      <4>2. i - 1 \in 1 .. Len(t)
        BY <1>2, <4>1
      <4>3. t[i - 1] = x
        BY <1>2, <3>1, <4>1
      <4>. QED BY <4>2, <4>3 DEF In
    <3>. QED BY <3>2, <3>3
  <2>. QED BY <2>1, <2>2
<1>. QED BY <1>2, <1>3, <1>4 DEF t
-----------------------------------------------------------------------------
(* What the operations do to the lists.                                    *)

\* Entries keep what they are, freed ones stay freed, the others stay listed.
Continues ==
    /\ Len(entry) \in Nat /\ Len(entry') \in Nat /\ Len(entry) <= Len(entry')
    /\ \A e \in 1 .. Len(entry) : entry'[e] = entry[e] /\ (e \in alive' => e \in alive)
    /\ \A n \in Names, e \in 1 .. Len(entry) : e \in alive' => (Listed(n, e)' <=> Listed(n, e))

\* Nothing changes.
LEMMA BusSame ==
    ASSUME BusOk, UNCHANGED bus
    PROVE  BusOk' /\ Continues
<1>1. Len(entry) \in Nat
  BY LenProperties DEF BusOk, BusTyped
<1>2. /\ bound' = bound /\ lists' = lists /\ handlers' = handlers /\ entry' = entry
      /\ alive' = alive
  BY DEF bus
<1>3. BusOk'
  BY <1>2 DEF BusOk, BusTyped, Lists, Bridges, Listed
<1>4. Continues
  BY <1>1, <1>2 DEF Continues, Listed
<1>. QED BY <1>3, <1>4

\* An entry that is listed has a position.
LEMMA PositionIs ==
    ASSUME NEW n, NEW e, Listed(n, e)
    PROVE  Position(n, e) \in 1 .. Len(lists[n]) /\ lists[n][Position(n, e)] = e
  BY DEF Position, Listed, In

\* list_remove: the entry is freed and in no list.
LEMMA BusRemove ==
    ASSUME BusOk, NEW n \in Names, NEW e \in Nat, Listed(n, e), list_remove(n, e),
           UNCHANGED <<bound, handlers, entry>>
    PROVE  BusOk' /\ Continues /\ alive' = alive \ {e}
<1>1. BusTyped /\ Lists /\ Bridges /\ Len(entry) \in Nat
  BY LenProperties DEF BusOk, BusTyped
<1>. DEFINE k == Position(n, e)  s == lists[n]  t == RemoveAt(s, k)
<1>2. k \in 1 .. Len(s) /\ s[k] = e
  BY PositionIs
<1>3. s \in Seq(Nat) /\ Rising(s)
  BY <1>1 DEF BusTyped, Lists
<1>. HIDE DEF k
<1>4. t \in Seq(Nat) /\ Rising(t) /\ \A x : In(t, x) <=> In(s, x) /\ x # e
  BY <1>2, <1>3, RisingRemove
<1>5. lists' = [lists EXCEPT ![n] = t] /\ alive' = alive \ {e}
  BY DEF list_remove, k
<1>. HIDE DEF t
<1>6. /\ lists' \in [Names -> Seq(Nat)] /\ \A m \in Names : Rising(lists'[m])
      /\ lists'[n] = t /\ \A m \in Names : m # n => lists'[m] = lists[m]
  BY <1>1, <1>4, <1>5 DEF BusTyped, Lists
<1>7. \A m \in Names, x \in Nat : Listed(m, x)' <=> Listed(m, x) /\ x # e
  <2>. SUFFICES ASSUME NEW m \in Names, NEW x \in Nat
                PROVE  In(lists'[m], x) <=> In(lists[m], x) /\ x # e
    BY DEF Listed
  <2>1. CASE m = n
    BY <1>4, <1>6, <2>1
  <2>2. CASE m # n
    <3>1. ~In(lists[m], e)
      BY <1>1, <2>2 DEF Lists, Listed
    <3>. QED BY <1>6, <2>2, <3>1
  <2>. QED BY <2>1, <2>2
<1>8. Lists'
  <2>1. \A x \in alive' : \E m \in Names : Listed(m, x)'
    <3>1. alive \subseteq Nat
      BY <1>1 DEF BusTyped
    <3>. QED BY <1>1, <1>5, <1>7, <3>1 DEF Lists
  <2>2. \A m, l \in Names, x \in Nat : Listed(m, x)' /\ Listed(l, x)' => m = l
    BY <1>1, <1>7 DEF Lists
  <2>3. \A m \in Names, x \in Nat : Listed(m, x)' => x \in alive'
    BY <1>1, <1>5, <1>7 DEF Lists
  <2>. QED BY <1>6, <2>1, <2>2, <2>3 DEF Lists
<1>9. Bridges'
  <2>1. s # <<>>
    BY <1>2, <1>3, EmptySeq
  <2>2. n \in bound
    BY <1>1, <2>1 DEF Bridges
  <2>. QED BY <1>1, <1>6, <2>2 DEF Bridges
<1>10. BusTyped'
  BY <1>1, <1>5, <1>6 DEF BusTyped
<1>11. Continues
  BY <1>1, <1>5, <1>7 DEF Continues
<1>. QED BY <1>5, <1>8, <1>9, <1>10, <1>11 DEF BusOk

\* free_binding and the bridge with it: every entry of the name is freed.
LEMMA BusOffAll ==
    ASSUME BusOk, NEW n \in Names, n \in bound, free_binding(n),
           handlers' = [handlers EXCEPT ![n] = IF @ > 0 THEN @ - 1 ELSE 0],
           UNCHANGED entry
    PROVE  BusOk' /\ Continues /\ \A e \in alive \ alive' : Listed(n, e)
<1>1. BusTyped /\ Lists /\ Bridges /\ Len(entry) \in Nat
  BY LenProperties DEF BusOk, BusTyped
<1>2. /\ bound' = bound \ {n} /\ lists' = [lists EXCEPT ![n] = <<>>]
      /\ alive' = alive \ ToSet(lists[n])
  BY DEF free_binding
<1>3. \A x : x \in ToSet(lists[n]) <=> Listed(n, x)
  <2>1. DOMAIN lists[n] = 1 .. Len(lists[n])
    BY <1>1, LenProperties DEF BusTyped
  <2>. QED BY <2>1 DEF ToSet, Listed, In
<1>4. <<>> \in Seq(Nat) /\ Rising(<<>>) /\ \A x : ~In(<<>>, x)
  BY EmptySeq DEF Rising, In
<1>5. /\ lists' \in [Names -> Seq(Nat)] /\ \A m \in Names : Rising(lists'[m])
      /\ lists'[n] = <<>> /\ \A m \in Names : m # n => lists'[m] = lists[m]
  BY <1>1, <1>2, <1>4 DEF BusTyped, Lists
<1>6. \A m \in Names, x \in Nat : Listed(m, x)' <=> Listed(m, x) /\ m # n
  <2>. SUFFICES ASSUME NEW m \in Names, NEW x \in Nat
                PROVE  In(lists'[m], x) <=> In(lists[m], x) /\ m # n
    BY DEF Listed
  <2>. QED BY <1>4, <1>5
<1>7. Lists'
  <2>1. \A x \in alive' : \E m \in Names : Listed(m, x)'
    <3>1. alive \subseteq Nat
      BY <1>1 DEF BusTyped
    <3>. QED BY <1>1, <1>2, <1>3, <1>6, <3>1 DEF Lists
  <2>2. \A m, l \in Names, x \in Nat : Listed(m, x)' /\ Listed(l, x)' => m = l
    BY <1>1, <1>6 DEF Lists
  <2>3. \A m \in Names, x \in Nat : Listed(m, x)' => x \in alive'
    BY <1>1, <1>2, <1>3, <1>6 DEF Lists
  <2>. QED BY <1>5, <2>1, <2>2, <2>3 DEF Lists
<1>8. handlers' \in [Names -> Nat] /\ handlers'[n] = 0
      /\ \A m \in Names : m # n => handlers'[m] = handlers[m]
  <2>1. handlers[n] = 1 /\ handlers \in [Names -> Nat]
    BY <1>1 DEF BusTyped, Bridges
  <2>. QED BY <2>1
<1>9. Bridges'
  BY <1>1, <1>2, <1>5, <1>8 DEF Bridges
<1>10. BusTyped'
  BY <1>1, <1>2, <1>5, <1>8 DEF BusTyped
<1>11. Continues
  BY <1>1, <1>2, <1>3, <1>6 DEF Continues
<1>. QED BY <1>2, <1>3, <1>7, <1>9, <1>10, <1>11 DEF BusOk
\* event_bus_destroy: everything is freed.
LEMMA BusDestroy ==
    ASSUME BusOk, bound' = {}, alive' = {}, UNCHANGED entry,
           lists' = [n \in Names |-> <<>>], handlers' = [n \in Names |-> 0]
    PROVE  BusOk' /\ Continues
<1>1. BusTyped /\ Len(entry) \in Nat
  BY LenProperties DEF BusOk, BusTyped
<1>2. <<>> \in Seq(Nat) /\ Rising(<<>>) /\ \A x : ~In(<<>>, x)
  BY EmptySeq DEF Rising, In
<1>3. BusTyped'
  BY <1>1, <1>2 DEF BusTyped
<1>4. \A n \in Names : lists'[n] = <<>> /\ handlers'[n] = 0
  OBVIOUS
<1>5. Lists' /\ Bridges'
  BY <1>2, <1>4 DEF Lists, Bridges, Listed
<1>6. Continues
  BY <1>1 DEF Continues
<1>. QED BY <1>3, <1>5, <1>6 DEF BusOk

\* ensure_binding: a name without a binding gets one, and one bridge.
LEMMA BusBind ==
    ASSUME BusTyped, Bridges, NEW n \in Names, ensure_binding(n)
    PROVE  /\ bound' = bound \cup {n} /\ handlers' \in [Names -> Nat]
           /\ \A m \in Names : handlers'[m] = IF m \in bound' THEN 1 ELSE 0
<1>1. CASE n \in bound
  BY <1>1 DEF ensure_binding, BusTyped, Bridges
<1>2. CASE n \notin bound
  <2>1. bound' = bound \cup {n} /\ handlers' = [handlers EXCEPT ![n] = @ + 1]
    BY <1>2 DEF ensure_binding
  <2>2. handlers[n] = 0 /\ handlers \in [Names -> Nat]
    BY <1>2 DEF BusTyped, Bridges
  <2>3. /\ handlers' \in [Names -> Nat] /\ handlers'[n] = 1
        /\ \A m \in Names : m # n => handlers'[m] = handlers[m]
    BY <2>1, <2>2
  <2>. QED BY <2>1, <2>3 DEF Bridges
<1>. QED BY <1>1, <1>2

\* add_listener_internal: the entry is new, and the last of its list.
LEMMA BusAdd ==
    ASSUME BusOk, NEW n \in Names, NEW fn \in Fns, NEW once \in BOOLEAN,
           ensure_binding(n),
           \/ UNCHANGED <<lists, entry, alive>>
           \/ LET e == Len(entry) + 1 IN
              /\ entry' = Append(entry, [fn |-> fn, once |-> once])
              /\ lists' = [lists EXCEPT ![n] = Append(@, e)]
              /\ alive' = alive \cup {e}
    PROVE  BusOk' /\ Continues /\ alive \subseteq alive'
<1>1. BusTyped /\ Lists /\ Bridges /\ Len(entry) \in Nat
  BY LenProperties DEF BusOk, BusTyped
<1>2. /\ bound' = bound \cup {n} /\ handlers' \in [Names -> Nat]
      /\ \A m \in Names : handlers'[m] = IF m \in bound' THEN 1 ELSE 0
  BY <1>1, BusBind
<1>3. CASE UNCHANGED <<lists, entry, alive>>
  <2>1. BusTyped'
    BY <1>1, <1>2, <1>3 DEF BusTyped
  <2>2. Lists'
    BY <1>1, <1>3 DEF Lists, Listed
  <2>3. Bridges'
    BY <1>1, <1>2, <1>3 DEF Bridges
  <2>4. Continues
    BY <1>1, <1>3 DEF Continues, Listed
  <2>. QED BY <1>3, <2>1, <2>2, <2>3, <2>4 DEF BusOk
<1>4. CASE /\ entry' = Append(entry, [fn |-> fn, once |-> once])
           /\ lists' = [lists EXCEPT ![n] = Append(@, Len(entry) + 1)]
           /\ alive' = alive \cup {Len(entry) + 1}
  <2>. DEFINE e == Len(entry) + 1  s == lists[n]  t == Append(s, e)
  <2>1. e \in Nat /\ alive \subseteq 1 .. Len(entry)
    BY <1>1 DEF BusTyped
  <2>2. s \in Seq(Nat) /\ Rising(s) /\ \A i \in 1 .. Len(s) : s[i] < e
    <3>1. s \in Seq(Nat) /\ Rising(s)
      BY <1>1 DEF BusTyped, Lists
    <3>2. ASSUME NEW i \in 1 .. Len(s) PROVE s[i] < e
      <4>1. s[i] \in Nat
        BY <3>1, ElementOfSeq
      <4>2. Listed(n, s[i])
        BY DEF Listed, In
      <4>3. s[i] \in alive
        BY <1>1, <4>1, <4>2 DEF Lists
      <4>4. s[i] \in 1 .. Len(entry)
        BY <2>1, <4>3
      <4>. QED BY <1>1, <4>4
    <3>. QED BY <3>1, <3>2
  <2>3. t \in Seq(Nat) /\ Rising(t) /\ \A x : In(t, x) <=> In(s, x) \/ x = e
    BY <2>1, <2>2, RisingAppend
  <2>4. lists' = [lists EXCEPT ![n] = t] /\ alive' = alive \cup {e}
    BY <1>4
  <2>5. /\ entry' \in Seq([fn : Fns, once : BOOLEAN]) /\ Len(entry') = e
        /\ \A x \in 1 .. Len(entry) : entry'[x] = entry[x]
    <3>1. entry \in Seq([fn : Fns, once : BOOLEAN])
      BY <1>1 DEF BusTyped
    <3>. QED BY <1>4, <3>1, AppendProperties
  <2>6. e > Len(entry)
    BY <1>1
  <2>. HIDE DEF t, e
  <2>7. /\ lists' \in [Names -> Seq(Nat)] /\ \A m \in Names : Rising(lists'[m])
        /\ lists'[n] = t /\ \A m \in Names : m # n => lists'[m] = lists[m]
    BY <1>1, <2>3, <2>4 DEF BusTyped, Lists
  <2>8. \A m \in Names, x \in Nat : Listed(m, x)' <=> Listed(m, x) \/ (m = n /\ x = e)
    <3>. SUFFICES ASSUME NEW m \in Names, NEW x \in Nat
                  PROVE  In(lists'[m], x) <=> In(lists[m], x) \/ (m = n /\ x = e)
      BY DEF Listed
    <3>. QED BY <2>3, <2>7
  <2>9. e \notin alive /\ \A m \in Names : ~Listed(m, e)
    <3>1. e \notin alive
      BY <1>1, <2>1, <2>6
    <3>. QED BY <1>1, <2>1, <3>1 DEF Lists
  <2>10. Lists'
    <3>1. \A x \in alive' : \E m \in Names : Listed(m, x)'
      <4>1. alive \subseteq Nat
        BY <2>1
      <4>. QED BY <1>1, <2>1, <2>4, <2>8, <4>1 DEF Lists
    <3>2. \A m, l \in Names, x \in Nat : Listed(m, x)' /\ Listed(l, x)' => m = l
      BY <1>1, <2>8, <2>9 DEF Lists
    <3>3. \A m \in Names, x \in Nat : Listed(m, x)' => x \in alive'
      BY <1>1, <2>4, <2>8 DEF Lists
    <3>. QED BY <2>7, <3>1, <3>2, <3>3 DEF Lists
  <2>11. Bridges'
    BY <1>1, <1>2, <2>7 DEF Bridges
  <2>12. BusTyped'
    <3>1. alive' \subseteq 1 .. Len(entry')
      BY <1>1, <2>1, <2>4, <2>5, <2>6
    <3>. QED BY <1>1, <1>2, <2>5, <2>7, <3>1 DEF BusTyped
  <2>13. Continues
    BY <1>1, <2>1, <2>4, <2>5, <2>6, <2>8 DEF Continues
  <2>. QED BY <2>4, <2>10, <2>11, <2>12, <2>13 DEF BusOk
<1>. QED BY <1>3, <1>4
-----------------------------------------------------------------------------
(* What the dispatches hold.                                               *)

\* The lists hold entries that are alive, and no others.
LEMMA ListedIs ==
    ASSUME BusOk, NEW n \in Names
    PROVE  /\ Len(entry) \in Nat /\ Len(lists[n]) \in Nat
           /\ \A e : Listed(n, e) => e \in alive /\ e \in 1 .. Len(entry)
           /\ \A i \in 1 .. Len(lists[n]) : Listed(n, lists[n][i])
<1>1. Len(entry) \in Nat /\ Len(lists[n]) \in Nat
  BY LenProperties DEF BusOk, BusTyped
<1>2. ASSUME NEW e, Listed(n, e) PROVE e \in alive /\ e \in 1 .. Len(entry)
  <2>1. PICK i \in 1 .. Len(lists[n]) : lists[n][i] = e
    BY <1>2 DEF Listed, In
  <2>2. e \in Nat
    BY <2>1, ElementOfSeq DEF BusOk, BusTyped
  <2>3. e \in alive
    BY <1>2, <2>2 DEF BusOk, Lists
  <2>. QED BY <2>3 DEF BusOk, BusTyped
<1>. QED BY <1>1, <1>2 DEF Listed, In

\* node->next is the next larger entry of the list, or NULL behind the largest.
LEMMA SuccessorIs ==
    ASSUME BusOk, NEW n \in Names, NEW e, Listed(n, e)
    PROVE  LET x == Successor(n, e) IN
           /\ x \in Nat
           /\ x # 0 => Listed(n, x) /\ e < x
           /\ \A y : Listed(n, y) /\ y > e => x # 0 /\ y >= x
<1>. DEFINE s == lists[n]  k == Position(n, e)  x == Successor(n, e)
<1>1. k \in 1 .. Len(s) /\ s[k] = e
  BY PositionIs
<1>. HIDE DEF k
<1>2. Len(s) \in Nat /\ Rising(s) /\ \A i \in 1 .. Len(s) : s[i] \in Nat \ {0} /\ Listed(n, s[i])
  BY ListedIs DEF BusOk, Lists
<1>3. x = IF k = Len(s) THEN 0 ELSE s[k + 1]
  BY DEF Successor, k
<1>. HIDE DEF x
<1>4. ASSUME NEW y, Listed(n, y), y > e PROVE x # 0 /\ y >= x
  <2>1. PICK i \in 1 .. Len(s) : s[i] = y
    BY <1>4 DEF Listed, In
  <2>2. ~(i < k) /\ i # k
    BY <1>1, <1>2, <1>4, <2>1 DEF Rising
  <2>3. k + 1 \in 1 .. Len(s) /\ k # Len(s) /\ (k + 1 < i \/ k + 1 = i)
    BY <1>1, <1>2, <2>1, <2>2
  <2>4. x = s[k + 1] /\ x \in Nat \ {0}
    BY <1>2, <1>3, <2>3
  <2>5. k + 1 < i => s[k + 1] < s[i]
    BY <1>2, <2>3 DEF Rising
  <2>6. s[i] \in Nat
    BY <1>2
  <2>. QED BY <2>1, <2>3, <2>4, <2>5, <2>6
<1>5. x \in Nat /\ (x # 0 => Listed(n, x) /\ e < x)
  <2>1. CASE k = Len(s)
    BY <1>3, <2>1
  <2>2. CASE k # Len(s)
    <3>1. k + 1 \in 1 .. Len(s) /\ k < k + 1
      BY <1>1, <1>2, <2>2
    <3>2. s[k] < s[k + 1]
      BY <1>1, <1>2, <3>1 DEF Rising
    <3>. QED BY <1>1, <1>2, <1>3, <2>2, <3>1, <3>2
  <2>. QED BY <2>1, <2>2
<1>. QED BY <1>4, <1>5 DEF x

\* An entry that was listed is still, unless it was freed.
LEMMA BelongsStays ==
    ASSUME Continues, NEW n \in Names, NEW e, Belongs(n, e)
    PROVE  Belongs(n, e)'
  BY DEF Continues, Belongs

\* So does what a frame holds.
LEMMA FrameStays ==
    ASSUME Continues, NEW f \in Frame, FrameBelongs(f)
    PROVE  FrameBelongs(f)'
<1>1. f.name \in Names
  BY DEF Frame
<1>2. \A e : Belongs(f.name, e) => Belongs(f.name, e)'
  BY <1>1, BelongsStays
<1>. QED BY <1>2 DEF FrameBelongs

\* What an operation called by the application leaves alone.
LEMMA FramesSame ==
    ASSUME Continues, StackTyped, Frames, stack' = stack
    PROVE  Frames'
<1>1. \A i \in 1 .. Len(stack) : stack[i] \in Frame
  BY ElementOfSeq DEF StackTyped
<1>2. ASSUME NEW i \in 1 .. Len(stack') PROVE FrameBelongs(stack[i])'
  <2>1. PICK f : f = stack[i]
    OBVIOUS
  <2>2. FrameBelongs(f)'
    BY <1>1, <2>1, FrameStays DEF Frames
  <2>. QED BY <2>1, <2>2
<1>. QED BY <1>2 DEF Frames

\* The top frame is another one.
LEMMA FramesTop ==
    ASSUME Continues, StackTyped, Frames, stack # <<>>, NEW g \in Frame,
           stack' = SetTop(g), FrameBelongs(g)'
    PROVE  /\ Frames' /\ stack' \in Seq(Frame) /\ Len(stack) \in Nat \ {0}
           /\ Len(stack') = Len(stack) /\ stack'[Len(stack)] = g
           /\ \A i \in 1 .. Len(stack) : i # Len(stack) => stack'[i] = stack[i]
<1>1. stack \in Seq(Frame) /\ Len(stack) \in Nat \ {0}
  BY EmptySeq DEF StackTyped
<1>2. \A i \in 1 .. Len(stack) : stack[i] \in Frame
  BY <1>1, ElementOfSeq
<1>3. /\ stack' \in Seq(Frame) /\ Len(stack') = Len(stack) /\ stack'[Len(stack)] = g
      /\ \A i \in 1 .. Len(stack) : i # Len(stack) => stack'[i] = stack[i]
  BY <1>1, ExceptSeq DEF SetTop
<1>4. ASSUME NEW i \in 1 .. Len(stack') PROVE FrameBelongs(stack[i])'
  <2>1. CASE i = Len(stack)
    <3>1. stack'[i] = g
      BY <1>3, <2>1
    <3>. QED BY <3>1 DEF FrameBelongs, Belongs, Listed
  <2>2. CASE i # Len(stack)
    <3>1. PICK f : f = stack[i]
      OBVIOUS
    <3>2. FrameBelongs(f)' /\ stack'[i] = f
      BY <1>2, <1>3, <2>2, <3>1, FrameStays DEF Frames
    <3>. QED BY <3>2 DEF FrameBelongs, Belongs, Listed
  <2>. QED BY <2>1, <2>2
<1>. QED BY <1>1, <1>3, <1>4 DEF Frames

\* There is a frame more.
LEMMA FramesPush ==
    ASSUME Continues, StackTyped, Frames, NEW g \in Frame,
           stack' = Append(stack, g), FrameBelongs(g)'
    PROVE  /\ Frames' /\ stack' \in Seq(Frame) /\ Len(stack) \in Nat
           /\ Len(stack') = Len(stack) + 1 /\ stack'[Len(stack) + 1] = g
           /\ \A i \in 1 .. Len(stack) : stack'[i] = stack[i]
<1>1. stack \in Seq(Frame) /\ Len(stack) \in Nat
  BY LenProperties DEF StackTyped
<1>2. \A i \in 1 .. Len(stack) : stack[i] \in Frame
  BY <1>1, ElementOfSeq
<1>3. /\ stack' \in Seq(Frame) /\ Len(stack') = Len(stack) + 1 /\ stack'[Len(stack) + 1] = g
      /\ \A i \in 1 .. Len(stack) : stack'[i] = stack[i]
  BY <1>1, AppendProperties
<1>4. ASSUME NEW i \in 1 .. Len(stack') PROVE FrameBelongs(stack[i])'
  <2>1. CASE i = Len(stack) + 1
    <3>1. stack'[i] = g
      BY <1>3, <2>1
    <3>. QED BY <3>1 DEF FrameBelongs, Belongs, Listed
  <2>2. CASE i # Len(stack) + 1
    <3>1. PICK f : f = stack[i]
      OBVIOUS
    <3>. i \in 1 .. Len(stack)
      BY <1>1, <1>3, <2>2
    <3>2. FrameBelongs(f)' /\ stack'[i] = f
      BY <1>2, <1>3, <2>2, <3>1, FrameStays DEF Frames
    <3>. QED BY <3>2 DEF FrameBelongs, Belongs, Listed
  <2>. QED BY <2>1, <2>2
<1>. QED BY <1>1, <1>3, <1>4 DEF Frames

\* There is a frame less.
LEMMA FramesPop ==
    ASSUME Continues, StackTyped, Frames, stack # <<>>, stack' = Front(stack)
    PROVE  /\ Frames' /\ stack' \in Seq(Frame) /\ Len(stack) \in Nat \ {0}
           /\ Len(stack') = Len(stack) - 1
           /\ \A i \in 1 .. Len(stack) - 1 : stack'[i] = stack[i]
<1>1. /\ stack' \in Seq(Frame) /\ Len(stack) \in Nat \ {0} /\ Len(stack') = Len(stack) - 1
      /\ \A i \in 1 .. Len(stack) - 1 : stack'[i] = stack[i]
  BY FrontOf DEF StackTyped
<1>2. \A i \in 1 .. Len(stack) : stack[i] \in Frame
  BY ElementOfSeq DEF StackTyped
<1>3. ASSUME NEW i \in 1 .. Len(stack') PROVE FrameBelongs(stack[i])'
  <2>1. PICK f : f = stack[i]
    OBVIOUS
  <2>. i \in 1 .. Len(stack) /\ i \in 1 .. Len(stack) - 1
    BY <1>1
  <2>2. FrameBelongs(f)' /\ stack'[i] = f
    BY <1>1, <1>2, <2>1, FrameStays DEF Frames
  <2>. QED BY <2>2 DEF FrameBelongs, Belongs, Listed
<1>. QED BY <1>1, <1>3 DEF Frames
-----------------------------------------------------------------------------
(* Every step keeps BusInv.                                                *)

\* The top frame is the one of the same dispatch, further on.
TopIs(node, next, phase, seen) ==
    /\ Len(stack) \in Nat \ {0} /\ Len(stack') = Len(stack)
    /\ \A i \in 1 .. Len(stack) : i # Len(stack) => stack'[i] = stack[i]
    /\ LET f == stack[Len(stack)]  g == stack'[Len(stack)] IN
       /\ g.name = f.name /\ g.start = f.start
       /\ g.node = node /\ g.next = next /\ g.phase = phase /\ g.seen = seen

\* The top frame is there and holds what is listed under its name.
LEMMA TopBelongs ==
    ASSUME BusInv, stack # <<>>
    PROVE  /\ Len(stack) \in Nat \ {0} /\ Top = stack[Len(stack)]
           /\ Top \in Frame /\ FrameBelongs(Top)
           /\ Top.name \in Names /\ Top.node \in Nat /\ Top.next \in Nat /\ Top.left = 0
           /\ Top.seen \in Seq(Nat)
<1>1. Len(stack) \in Nat \ {0} /\ stack \in Seq(Frame)
  BY EmptySeq DEF BusInv, StackTyped
<1>2. Top = stack[Len(stack)] /\ Len(stack) \in 1 .. Len(stack)
  BY <1>1 DEF Top
<1>3. Top \in Frame /\ FrameBelongs(Top)
  BY <1>1, <1>2, ElementOfSeq DEF BusInv, Frames
<1>. QED BY <1>1, <1>2, <1>3 DEF Frame, FrameBelongs

\* An operation of the application: the stack stays.
LEMMA BusInvBus ==
    ASSUME BusInv, BusOk', Continues, stack' = stack, stale' \in BOOLEAN,
           calls' \in Seq(Nat), Len(calls') = Len(entry'), nemits' \in Nat
    PROVE  BusInv'
  BY FramesSame DEF BusInv, StackTyped

\* add_listener_internal
LEMMA AddBus ==
    ASSUME BusInv, NEW n \in Names, NEW fn \in Fns, NEW once \in BOOLEAN,
           add_listener_internal(n, fn, once)
    PROVE  /\ BusInv' /\ Continues /\ alive \subseteq alive' /\ stack' = stack
           /\ \A e \in 1 .. Len(entry) : calls'[e] = calls[e]
           /\ \A e \in 1 .. Len(entry') : e \notin 1 .. Len(entry) => calls'[e] = 0
<1>1. BusOk /\ StackTyped /\ Len(entry) \in Nat /\ calls \in Seq(Nat) /\ Len(calls) = Len(entry)
  BY LenProperties DEF BusInv, StackTyped, BusOk, BusTyped
<1>2. /\ ensure_binding(n) /\ stack' = stack /\ nemits' = nemits
      /\ \/ UNCHANGED <<lists, entry, alive>> /\ calls' = calls
         \/ LET e == Len(entry) + 1 IN
            /\ entry' = Append(entry, [fn |-> fn, once |-> once])
            /\ lists' = [lists EXCEPT ![n] = Append(@, e)]
            /\ alive' = alive \cup {e}
            /\ calls' = Append(calls, 0)
  BY DEF add_listener_internal
<1>3. BusOk' /\ Continues /\ alive \subseteq alive'
  BY <1>1, <1>2, BusAdd
<1>4. /\ calls' \in Seq(Nat) /\ Len(calls') = Len(entry')
      /\ \A e \in 1 .. Len(entry) : calls'[e] = calls[e]
      /\ \A e \in 1 .. Len(entry') : e \notin 1 .. Len(entry) => calls'[e] = 0
  <2>1. CASE UNCHANGED <<lists, entry, alive>> /\ calls' = calls
    BY <1>1, <2>1
  <2>2. CASE entry' = Append(entry, [fn |-> fn, once |-> once]) /\ calls' = Append(calls, 0)
    <3>1. /\ calls' \in Seq(Nat) /\ Len(calls') = Len(entry) + 1 /\ calls'[Len(entry) + 1] = 0
          /\ \A e \in 1 .. Len(entry) : calls'[e] = calls[e]
      BY <1>1, <2>2, AppendProperties
    <3>2. Len(entry') = Len(entry) + 1
      BY <1>1, <2>2, AppendProperties DEF BusOk, BusTyped
    <3>. QED BY <1>1, <3>1, <3>2
  <2>. QED BY <1>2, <2>1, <2>2
<1>5. stale' \in BOOLEAN
  BY <1>1, <1>2 DEF ensure_binding, StackTyped
<1>6. nemits' \in Nat
  BY <1>1, <1>2 DEF StackTyped
<1>. QED BY <1>2, <1>3, <1>4, <1>5, <1>6, BusInvBus

\* event_bus_off
LEMMA OffBus ==
    ASSUME BusInv, NEW n \in Names, NEW fn \in Fns, event_bus_off(n, fn)
    PROVE  /\ BusInv' /\ Continues /\ (Polite => Held \cap alive \subseteq alive')
           /\ UNCHANGED <<entry, stack, stale, calls, nemits>>
<1>1. BusOk /\ StackTyped
  BY DEF BusInv
<1>2. UNCHANGED <<bound, handlers, entry, stack, stale, calls, nemits>>
  BY DEF event_bus_off
<1>3. PICK i \in 1 .. Len(lists[n]) :
        Spares({lists[n][i]}) /\ list_remove(n, lists[n][i])
  BY DEF event_bus_off
<1>4. PICK e : e = lists[n][i]
  OBVIOUS
<1>5. Listed(n, e) /\ e \in Nat
  BY <1>1, <1>4, ListedIs
<1>6. BusOk' /\ Continues /\ alive' = alive \ {e}
  BY <1>1, <1>2, <1>3, <1>4, <1>5, BusRemove
<1>7. Polite => Held \cap alive \subseteq alive'
  BY <1>3, <1>4, <1>6 DEF Spares
<1>8. BusInv'
  BY <1>1, <1>2, <1>6, BusInvBus DEF StackTyped
<1>. QED BY <1>2, <1>6, <1>7, <1>8

\* event_bus_off_all: what a dispatch holds is listed under the name it dispatches.
LEMMA OffAllBus ==
    ASSUME BusInv, NEW n \in Names, event_bus_off_all(n)
    PROVE  /\ BusInv' /\ Continues /\ (Polite => Held \cap alive \subseteq alive')
           /\ UNCHANGED <<entry, stack, stale, calls, nemits>>
<1>1. BusOk /\ StackTyped
  BY DEF BusInv
<1>2. /\ UNCHANGED <<entry, stack, stale, calls, nemits>>
      /\ n \in bound /\ (Polite => n \notin Busy) /\ free_binding(n)
      /\ handlers' = [handlers EXCEPT ![n] = IF @ > 0 THEN @ - 1 ELSE 0]
  BY DEF event_bus_off_all
<1>3. BusOk' /\ Continues /\ \A e \in alive \ alive' : Listed(n, e)
  BY <1>1, <1>2, BusOffAll
<1>4. ASSUME Polite, NEW e \in Held \cap alive PROVE e \in alive'
  <2>1. PICK i \in 1 .. Len(stack) : e \in {stack[i].node, stack[i].next}
    BY DEF Held
  <2>2. stack[i].name \in Names /\ FrameBelongs(stack[i]) /\ stack[i].name # n
    <3>1. stack[i] \in Frame
      BY <1>1, ElementOfSeq DEF StackTyped
    <3>. QED BY <1>2, <1>4, <3>1 DEF Frame, BusInv, Frames, Busy
  <2>3. e \in 1 .. Len(entry) /\ Len(entry) \in Nat
    BY <1>1, LenProperties DEF BusOk, BusTyped
  <2>4. Listed(stack[i].name, e)
    BY <2>1, <2>2, <2>3 DEF FrameBelongs, Belongs
  <2>5. ~Listed(n, e)
    BY <1>1, <2>2, <2>3, <2>4 DEF BusOk, Lists
  <2>. QED BY <1>3, <2>5
<1>5. BusInv'
  BY <1>1, <1>2, <1>3, BusInvBus DEF StackTyped
<1>. QED BY <1>2, <1>3, <1>4, <1>5

\* event_bus_destroy
LEMMA DestroyBus ==
    ASSUME BusInv, event_bus_destroy
    PROVE  /\ BusInv' /\ Continues /\ stack = <<>>
           /\ UNCHANGED <<entry, stack, stale, calls, nemits>>
<1>1. BusOk /\ StackTyped
  BY DEF BusInv
<1>2. /\ bound' = {} /\ alive' = {} /\ stack = <<>>
      /\ lists' = [n \in Names |-> <<>>] /\ handlers' = [n \in Names |-> 0]
      /\ UNCHANGED <<entry, stack, stale, calls, nemits>>
  BY DEF event_bus_destroy
<1>3. BusOk' /\ Continues
  BY <1>1, <1>2, BusDestroy
<1>. QED BY <1>1, <1>2, <1>3, BusInvBus DEF StackTyped
\* A dispatch begins at the first entry of the list.
LEMMA FirstIs ==
    ASSUME BusOk, NEW n \in Names
    PROVE  /\ FirstOf(n) \in Nat
           /\ FirstOf(n) # 0 => Listed(n, FirstOf(n))
           /\ \A e : Listed(n, e) => FirstOf(n) # 0 /\ e >= FirstOf(n)
<1>. DEFINE s == lists[n]
<1>1. s \in Seq(Nat) /\ Rising(s) /\ Len(s) \in Nat
      /\ \A i \in 1 .. Len(s) : s[i] \in Nat \ {0} /\ Listed(n, s[i])
  BY ListedIs DEF BusOk, BusTyped, Lists
<1>2. CASE s = <<>>
  <2>1. \A e : ~Listed(n, e)
    BY <1>2, EmptySeq DEF Listed, In
  <2>. QED BY <1>2, <2>1 DEF FirstOf
<1>3. CASE s # <<>>
  <2>1. FirstOf(n) = s[1] /\ 1 \in 1 .. Len(s)
    <3>1. 1 \in 1 .. Len(s)
      BY <1>1, <1>3, EmptySeq
    <3>2. Head(s) = s[1]
      OBVIOUS
    <3>. QED BY <1>3, <3>1, <3>2 DEF FirstOf
  <2>2. ASSUME NEW e, Listed(n, e) PROVE e >= s[1]
    <3>1. PICK i \in 1 .. Len(s) : s[i] = e
      BY <2>2 DEF Listed, In
    <3>2. i = 1 \/ s[1] < s[i]
      BY <1>1, <2>1 DEF Rising
    <3>3. s[1] \in Nat /\ s[i] \in Nat
      BY <1>1, <2>1
    <3>. QED BY <3>1, <3>2, <3>3
  <2>3. s[1] \in Nat \ {0} /\ Listed(n, s[1])
    BY <1>1, <2>1
  <2>. QED BY <2>1, <2>2, <2>3
<1>. QED BY <1>2, <1>3

\* event_bus_emit: the dispatch of the one bridge begins, if there is one.
LEMMA EmitBus ==
    ASSUME BusInv, NEW n \in Names, event_bus_emit(n)
    PROVE  /\ BusInv' /\ Continues /\ UNCHANGED <<bus, stale, calls>>
           /\ \/ stack' = stack
              \/ /\ Len(stack) \in Nat /\ Len(stack') = Len(stack) + 1
                 /\ \A i \in 1 .. Len(stack) : stack'[i] = stack[i]
                 /\ LET g == stack'[Len(stack) + 1] IN
                    /\ g.name = n /\ g.node = FirstOf(n) /\ g.next = 0
                    /\ g.phase = "loop" /\ g.seen = <<>> /\ g.start = lists[n]
<1>1. BusOk /\ StackTyped /\ Frames
  BY DEF BusInv
<1>2. /\ UNCHANGED <<bus, stale, calls>> /\ nemits' = nemits + 1
      /\ stack' = IF handlers[n] = 0 THEN stack
                  ELSE Append(stack, Dispatch(n, handlers[n] - 1))
  BY DEF event_bus_emit
<1>3. BusOk' /\ Continues
  BY <1>1, <1>2, BusSame
<1>4. /\ stale' \in BOOLEAN /\ calls' \in Seq(Nat) /\ Len(calls') = Len(entry')
      /\ nemits' \in Nat
  BY <1>1, <1>2 DEF StackTyped, bus
<1>5. CASE handlers[n] = 0
  BY <1>2, <1>3, <1>4, <1>5, BusInvBus
<1>6. CASE handlers[n] # 0
  <2>. DEFINE g == Dispatch(n, 0)
  <2>1. stack' = Append(stack, g)
    <3>1. handlers[n] - 1 = 0
      BY <1>1, <1>6 DEF BusOk, Bridges
    <3>. QED BY <1>2, <1>6, <3>1
  <2>2. FirstOf(n) \in Nat /\ lists[n] \in Seq(Nat) /\ <<>> \in Seq(Nat)
    BY <1>1, FirstIs, EmptySeq DEF BusOk, BusTyped
  <2>3. /\ g \in Frame /\ g.name = n /\ g.node = FirstOf(n) /\ g.next = 0 /\ g.left = 0
        /\ g.phase = "loop" /\ g.seen = <<>> /\ g.start = lists[n]
    BY <2>2 DEF Dispatch, Frame
  <2>4. \A e : Listed(n, e) => Belongs(n, e)
    BY <1>1, ListedIs DEF Belongs
  <2>. HIDE DEF g
  <2>5. FrameBelongs(g)
    <3>1. \A i \in 1 .. Len(g.start) : Belongs(n, g.start[i])
      BY <1>1, <2>3, <2>4, ListedIs
    <3>2. g.node # 0 => Belongs(n, g.node)
      BY <1>1, <2>3, <2>4, FirstIs
    <3>. QED BY <2>3, <3>1, <3>2 DEF FrameBelongs
  <2>6. PICK h \in Frame : h = g /\ FrameBelongs(h)'
    <3>1. PICK h : h = g
      OBVIOUS
    <3>2. FrameBelongs(h)'
      BY <1>3, <2>3, <2>5, <3>1, FrameStays
    <3>. QED BY <2>3, <3>1, <3>2
  <2>7. /\ Frames' /\ stack' \in Seq(Frame) /\ Len(stack) \in Nat
        /\ Len(stack') = Len(stack) + 1 /\ stack'[Len(stack) + 1] = h
        /\ \A i \in 1 .. Len(stack) : stack'[i] = stack[i]
    BY <1>1, <1>3, <2>1, <2>6, FramesPush
  <2>8. BusInv'
    BY <1>3, <1>4, <2>7 DEF BusInv, StackTyped
  <2>. QED BY <1>2, <1>3, <2>3, <2>6, <2>7, <2>8
<1>. QED BY <1>5, <1>6

\* A loop that finds its entry freed changes nothing of the bus.
LEMMA StaleBus ==
    ASSUME BusInv, stale' = TRUE, UNCHANGED <<bus, stack, calls, nemits>>
    PROVE  BusInv'
<1>1. BusOk' /\ Continues
  BY BusSame DEF BusInv
<1>. QED BY <1>1, BusInvBus DEF BusInv, StackTyped, bus

\* A turn of the loop: the successor is read while the entry is listed.
LEMMA CallBus ==
    ASSUME BusInv, CallListener, Top.node \in alive
    PROVE  /\ BusInv' /\ Continues /\ UNCHANGED <<bus, stale, nemits>>
           /\ stack # <<>> /\ Top.phase = "loop"
           /\ Listed(Top.name, Top.node)
           /\ TopIs(Top.node, Successor(Top.name, Top.node), "call",
                    Append(Top.seen, Top.node))
           /\ calls' = [calls EXCEPT ![Top.node] = @ + 1]
<1>1. BusOk /\ StackTyped /\ Frames /\ stack # <<>> /\ Top.phase = "loop" /\ Top.node # 0
  BY DEF BusInv, CallListener
<1>2. PICK t \in Frame : t = Top
  BY <1>1, TopBelongs
<1>. DEFINE x == Successor(t.name, t.node)
            g == [t EXCEPT !.phase = "call", !.next = x, !.seen = Append(@, t.node)]
<1>3. /\ stack' = SetTop(g) /\ calls' = [calls EXCEPT ![t.node] = @ + 1]
      /\ UNCHANGED <<bus, stale, nemits>>
  BY <1>2 DEF CallListener
<1>4. /\ t.name \in Names /\ t.node \in Nat \ {0} /\ t.seen \in Seq(Nat) /\ FrameBelongs(t)
      /\ t.left = 0 /\ Len(stack) \in Nat \ {0} /\ t = stack[Len(stack)]
  BY <1>1, <1>2, TopBelongs
<1>5. Listed(t.name, t.node) /\ t.node \in 1 .. Len(entry)
  BY <1>2, <1>4 DEF FrameBelongs, Belongs
<1>6. x \in Nat /\ (x # 0 => Listed(t.name, x))
  BY <1>1, <1>4, <1>5, SuccessorIs
<1>7. BusOk' /\ Continues
  BY <1>1, <1>3, BusSame
<1>. DEFINE a == [t EXCEPT !.phase = "call"]
            b == [a EXCEPT !.next = x]
            c == [b EXCEPT !.seen = Append(t.seen, t.node)]
<1>. HIDE DEF x
<1>8. /\ c \in Frame /\ c.name = t.name /\ c.start = t.start /\ c.left = t.left
      /\ c.node = t.node /\ c.next = x /\ c.phase = "call" /\ c.seen = Append(t.seen, t.node)
  <2>1. /\ a \in Frame /\ a.name = t.name /\ a.start = t.start /\ a.left = t.left
        /\ a.node = t.node /\ a.phase = "call" /\ a.seen = t.seen
    BY DEF Frame
  <2>. HIDE DEF a
  <2>2. /\ b \in Frame /\ b.name = t.name /\ b.start = t.start /\ b.left = t.left
        /\ b.node = t.node /\ b.phase = "call" /\ b.seen = t.seen /\ b.next = x
    BY <1>6, <2>1 DEF Frame
  <2>. HIDE DEF b
  <2>3. Append(t.seen, t.node) \in Seq(Nat)
    BY <1>4, AppendProperties
  <2>. QED BY <2>2, <2>3 DEF Frame
<1>9. g = c
  BY DEF Frame
<1>10. PICK h : h = c
  OBVIOUS
<1>. HIDE DEF c, g
<1>11. FrameBelongs(h)
  BY <1>1, <1>4, <1>6, <1>8, <1>10, ListedIs DEF FrameBelongs, Belongs
<1>12. FrameBelongs(h)'
  BY <1>7, <1>8, <1>10, <1>11, FrameStays
<1>13. /\ Frames' /\ stack' \in Seq(Frame) /\ Len(stack) \in Nat \ {0}
       /\ Len(stack') = Len(stack) /\ stack'[Len(stack)] = h
       /\ \A i \in 1 .. Len(stack) : i # Len(stack) => stack'[i] = stack[i]
  BY <1>1, <1>3, <1>7, <1>8, <1>9, <1>10, <1>12, FramesTop
<1>14. calls' \in Seq(Nat) /\ Len(calls') = Len(entry')
  <2>1. calls \in Seq(Nat) /\ t.node \in 1 .. Len(calls) /\ entry' = entry
    BY <1>1, <1>3, <1>5 DEF StackTyped, bus
  <2>2. calls[t.node] + 1 \in Nat
    BY <2>1, ElementOfSeq
  <2>. QED BY <1>1, <1>3, <2>1, <2>2, ExceptSeq DEF StackTyped
<1>15. BusInv'
  BY <1>1, <1>3, <1>7, <1>13, <1>14 DEF BusInv, StackTyped
<1>16. TopIs(t.node, x, "call", Append(t.seen, t.node))
  BY <1>4, <1>8, <1>10, <1>13 DEF TopIs
<1>. QED BY <1>1, <1>2, <1>3, <1>5, <1>7, <1>15, <1>16 DEF x
\* The listener returns: a one-shot entry is removed, and the loop goes on.
LEMMA ReturnBus ==
    ASSUME BusInv, ListenerReturns, Top.node \in alive
    PROVE  /\ BusInv' /\ Continues /\ UNCHANGED <<bound, handlers, entry, stale, calls, nemits>>
           /\ stack # <<>> /\ Top.phase = "call"
           /\ Listed(Top.name, Top.node) /\ Top.node \in 1 .. Len(entry)
           /\ TopIs(Top.next, Top.next, "loop", Top.seen)
           /\ alive' = IF entry[Top.node].once THEN alive \ {Top.node} ELSE alive
<1>1. BusOk /\ StackTyped /\ Frames /\ stack # <<>> /\ Top.phase = "call"
  BY DEF BusInv, ListenerReturns
<1>2. PICK t \in Frame : t = Top
  BY <1>1, TopBelongs
<1>3. /\ t.name \in Names /\ t.node \in Nat \ {0} /\ t.next \in Nat /\ FrameBelongs(t)
      /\ t.left = 0 /\ Len(stack) \in Nat \ {0} /\ t = stack[Len(stack)]
  BY <1>1, <1>2, TopBelongs DEF FrameBelongs
<1>. DEFINE a == [t EXCEPT !.phase = "loop"]
            c == [a EXCEPT !.node = t.next]
            g == [t EXCEPT !.phase = "loop", !.node = t.next]
<1>4. /\ stack' = SetTop(g) /\ UNCHANGED <<bound, handlers, entry, stale, calls, nemits>>
      /\ IF entry[t.node].once THEN list_remove(t.name, t.node) ELSE UNCHANGED <<lists, alive>>
  BY <1>2 DEF ListenerReturns
<1>5. Listed(t.name, t.node) /\ t.node \in 1 .. Len(entry)
  BY <1>2, <1>3 DEF FrameBelongs, Belongs
<1>6. /\ BusOk' /\ Continues
      /\ alive' = IF entry[t.node].once THEN alive \ {t.node} ELSE alive
  <2>1. CASE entry[t.node].once
    BY <1>1, <1>3, <1>4, <1>5, <2>1, BusRemove
  <2>2. CASE ~entry[t.node].once
    BY <1>1, <1>4, <2>2, BusSame DEF bus
  <2>. QED BY <2>1, <2>2
<1>7. /\ c \in Frame /\ c.name = t.name /\ c.start = t.start /\ c.left = t.left
      /\ c.node = t.next /\ c.next = t.next /\ c.phase = "loop" /\ c.seen = t.seen
  <2>1. /\ a \in Frame /\ a.name = t.name /\ a.start = t.start /\ a.left = t.left
        /\ a.next = t.next /\ a.phase = "loop" /\ a.seen = t.seen
    BY DEF Frame
  <2>. HIDE DEF a
  <2>. QED BY <1>3, <2>1 DEF Frame
<1>8. g = c
  BY DEF Frame
<1>9. PICK h : h = c
  OBVIOUS
<1>. HIDE DEF c, g
<1>10. FrameBelongs(h)
  BY <1>3, <1>7, <1>9 DEF FrameBelongs
<1>11. FrameBelongs(h)'
  BY <1>6, <1>7, <1>9, <1>10, FrameStays
<1>12. /\ Frames' /\ stack' \in Seq(Frame) /\ Len(stack) \in Nat \ {0}
       /\ Len(stack') = Len(stack) /\ stack'[Len(stack)] = h
       /\ \A i \in 1 .. Len(stack) : i # Len(stack) => stack'[i] = stack[i]
  BY <1>1, <1>4, <1>6, <1>7, <1>8, <1>9, <1>11, FramesTop
<1>13. BusInv'
  BY <1>1, <1>4, <1>6, <1>12 DEF BusInv, StackTyped
<1>14. TopIs(t.next, t.next, "loop", t.seen)
  BY <1>3, <1>7, <1>9, <1>12 DEF TopIs
<1>. QED BY <1>1, <1>2, <1>4, <1>5, <1>6, <1>13, <1>14

\* The dispatch returns: there was one bridge.
LEMMA DispatchBus ==
    ASSUME BusInv, DispatchReturns
    PROVE  /\ BusInv' /\ Continues /\ UNCHANGED <<bus, stale, calls, nemits>>
           /\ stack # <<>> /\ Top.phase = "loop"
           /\ Len(stack) \in Nat \ {0} /\ Len(stack') = Len(stack) - 1
           /\ \A i \in 1 .. Len(stack) - 1 : stack'[i] = stack[i]
<1>1. BusOk /\ StackTyped /\ Frames /\ stack # <<>> /\ Top.phase = "loop"
  BY DEF BusInv, DispatchReturns
<1>2. Top.left = 0
  BY <1>1, TopBelongs
<1>3. stack' = Front(stack) /\ UNCHANGED <<bus, stale, calls, nemits>>
  BY <1>2 DEF DispatchReturns
<1>4. BusOk' /\ Continues
  BY <1>1, <1>3, BusSame
<1>5. /\ Frames' /\ stack' \in Seq(Frame) /\ Len(stack) \in Nat \ {0}
      /\ Len(stack') = Len(stack) - 1
      /\ \A i \in 1 .. Len(stack) - 1 : stack'[i] = stack[i]
  BY <1>1, <1>3, <1>4, FramesPop
<1>. QED BY <1>1, <1>3, <1>4, <1>5 DEF BusInv, StackTyped, bus

\* The bus is empty when it is created.
LEMMA BusInvInit == Init => BusInv
<1>. SUFFICES ASSUME Init PROVE BusInv
  OBVIOUS
<1>1. /\ bound = {} /\ alive = {} /\ entry = <<>> /\ stack = <<>> /\ calls = <<>>
      /\ lists = [n \in Names |-> <<>>] /\ handlers = [n \in Names |-> 0]
      /\ stale = FALSE /\ nemits = 0
  BY DEF Init
<1>2. /\ \A S : <<>> \in Seq(S)
      /\ Len(<<>>) = 0 /\ Rising(<<>>) /\ \A x : ~In(<<>>, x)
  BY EmptySeq DEF Rising, In
<1>3. BusTyped
  BY <1>1, <1>2 DEF BusTyped
<1>4. \A n \in Names : lists[n] = <<>> /\ handlers[n] = 0
  BY <1>1
<1>5. Lists /\ Bridges
  BY <1>1, <1>2, <1>4 DEF Lists, Bridges, Listed
<1>6. StackTyped
  <2>1. stack \in Seq(Frame) /\ calls \in Seq(Nat) /\ Len(calls) = Len(entry)
    BY <1>1, <1>2
  <2>. QED BY <1>1, <2>1 DEF StackTyped
<1>7. Frames
  <2>1. Len(stack) = 0
    BY <1>1, <1>2
  <2>. QED BY <2>1 DEF Frames
<1>. QED BY <1>3, <1>5, <1>6, <1>7 DEF BusInv, BusOk

\* Every step keeps the invariant.
LEMMA BusInvStep == BusInv /\ [Next]_vars => BusInv'
<1>. SUFFICES ASSUME BusInv, [Next]_vars PROVE BusInv'
  OBVIOUS
<1>1. ASSUME NEW n \in Names, NEW fn \in Fns, NEW once \in BOOLEAN,
             add_listener_internal(n, fn, once)
      PROVE  BusInv'
  BY <1>1, AddBus
<1>2. ASSUME NEW n \in Names, NEW fn \in Fns, event_bus_off(n, fn) PROVE BusInv'
  BY <1>2, OffBus
<1>3. ASSUME NEW n \in Names, event_bus_off_all(n) PROVE BusInv'
  BY <1>3, OffAllBus
<1>4. ASSUME NEW n \in Names, event_bus_emit(n) PROVE BusInv'
  BY <1>4, EmitBus
<1>5. CASE event_bus_destroy
  BY <1>5, DestroyBus
<1>6. CASE CallListener
  <2>1. CASE Top.node \in alive
    BY <1>6, <2>1, CallBus
  <2>2. CASE Top.node \notin alive
    BY <1>6, <2>2, StaleBus DEF CallListener
  <2>. QED BY <2>1, <2>2
<1>7. CASE ListenerReturns
  <2>1. CASE Top.node \in alive
    BY <1>7, <2>1, ReturnBus
  <2>2. CASE Top.node \notin alive
    BY <1>7, <2>2, StaleBus DEF ListenerReturns, bus
  <2>. QED BY <2>1, <2>2
<1>8. CASE DispatchReturns
  BY <1>8, DispatchBus
<1>9. CASE UNCHANGED vars
  <2>1. BusOk' /\ Continues
    BY <1>9, BusSame DEF BusInv, vars
  <2>. QED BY <1>9, <2>1, BusInvBus DEF BusInv, StackTyped, vars, bus
<1>. QED BY <1>1, <1>2, <1>3, <1>4, <1>5, <1>6, <1>7, <1>8, <1>9 DEF Next

\* The entries in the lists are those that are alive, and the dispatches know
\* nothing of the others, whatever the listeners do.
THEOREM BusInvariant == Spec => []BusInv
<1>. QED BY BusInvInit, BusInvStep, PTL DEF Spec

\* A name has one bridge exactly while it has a binding, so that an emit is
\* dispatched once, whatever was added, removed, added again or left half done
\* for want of memory, by polite listeners or others (110-111, 263-277).
THEOREM OneBridge == Spec => []BridgeMatches
<1>1. ASSUME BusInv PROVE BridgeMatches
  <2>1. BusOk /\ BusTyped /\ Lists /\ Bridges
    BY <1>1 DEF BusInv, BusOk
  <2>2. \A n \in Names : DOMAIN lists[n] = 1 .. Len(lists[n])
    BY <2>1, LenProperties DEF BusTyped
  <2>3. \A n \in Names : \A e : e \in ToSet(lists[n]) <=> Listed(n, e)
    BY <2>2 DEF ToSet, Listed, In
  <2>4. alive = UNION {ToSet(lists[n]) : n \in Names}
    BY <2>1, <2>3, ListedIs DEF Lists
  <2>5. ASSUME NEW n \in Names, NEW m \in Names, NEW i \in 1 .. Len(lists[n]),
               NEW j \in 1 .. Len(lists[m]), lists[n][i] = lists[m][j]
        PROVE  n = m /\ i = j
    <3>1. Listed(n, lists[n][i]) /\ Listed(m, lists[n][i]) /\ lists[n][i] \in Nat
      BY <2>1, <2>5, ListedIs
    <3>2. n = m
      BY <2>1, <3>1 DEF Lists
    <3>3. Len(lists[n]) \in Nat /\ Rising(lists[n])
      BY <2>1, ListedIs DEF Lists
    <3>4. ~(i < j) /\ ~(j < i)
      BY <2>5, <3>1, <3>2, <3>3 DEF Rising
    <3>. QED BY <3>2, <3>3, <3>4
  <2>. QED BY <2>1, <2>4, <2>5 DEF BridgeMatches, Bridges
<1>. QED BY <1>1, BusInvariant, PTL
-----------------------------------------------------------------------------
(* What polite listeners keep.                                             *)

\* Where a loop has come to is known of it alone.
LEMMA ReachedStays ==
    ASSUME Continues, NEW f \in Frame, FrameBelongs(f), Reached(f)
    PROVE  Reached(f)'
<1>1. \A i \in 1 .. Len(f.start) : f.start[i] \in alive' => f.start[i] \in alive
  BY DEF Continues, FrameBelongs, Belongs
<1>2. \A i \in 1 .. Len(f.seen) : f.seen[i] <= Len(entry')
  <2>1. \A i \in 1 .. Len(f.seen) : f.seen[i] \in Nat
    BY ElementOfSeq DEF Frame
  <2>. QED BY <2>1 DEF Continues, Reached
<1>3. At(f)' = At(f)
  BY DEF At
<1>. QED BY <1>1, <1>2, <1>3 DEF Reached

\* A step that leaves the frames below depth d alone, and frees nothing they hold.
LEMMA BelowStays ==
    ASSUME PoliteInv, Continues, NEW d \in 0 .. Len(stack), d <= Len(stack'),
           \A i \in 1 .. d : stack'[i] = stack[i],
           \A i \in 1 .. d : HeldBy(stack[i]) \subseteq alive'
    PROVE  /\ Len(stack) \in Nat
           /\ \A i \in 1 .. d : Reached(stack[i])' /\ HeldBy(stack'[i]) \subseteq alive'
           /\ \A i, j \in 1 .. d : i < j =>
                \A e \in HeldBy(stack'[i]) : Listed(stack[j].name, e)' => ~entry'[e].once
<1>1. BusInv /\ Kept /\ AllReached /\ stack \in Seq(Frame) /\ Len(stack) \in Nat
  BY LenProperties DEF PoliteInv, BusInv, StackTyped
<1>2. \A i \in 1 .. d : i \in 1 .. Len(stack) /\ stack[i] \in Frame /\ stack[i].name \in Names
  <2>. SUFFICES ASSUME NEW i \in 1 .. d
                PROVE  i \in 1 .. Len(stack) /\ stack[i] \in Frame /\ stack[i].name \in Names
    OBVIOUS
  <2>1. i \in 1 .. Len(stack)
    BY <1>1
  <2>2. stack[i] \in Frame
    BY <1>1, <2>1, ElementOfSeq
  <2>. QED BY <2>1, <2>2 DEF Frame
<1>3. ASSUME NEW i \in 1 .. d PROVE Reached(stack[i])'
  <2>1. PICK f : f = stack[i]
    OBVIOUS
  <2>2. f \in Frame /\ FrameBelongs(f) /\ Reached(f)
    BY <1>1, <1>2, <2>1 DEF BusInv, Frames, AllReached
  <2>3. Reached(f)'
    BY <2>2, ReachedStays
  <2>. QED BY <2>1, <2>3
<1>4. ASSUME NEW i \in 1 .. d, NEW j \in 1 .. d, i < j, NEW e \in HeldBy(stack'[i]),
             Listed(stack[j].name, e)'
      PROVE  ~entry'[e].once
  <2>1. PICK n \in Names : n = stack[j].name
    BY <1>2
  <2>2. e \in HeldBy(stack[i]) /\ e \in alive /\ e \in alive' /\ i \in 1 .. Len(stack)
        /\ j \in 1 .. Len(stack) /\ stack'[j].name = n
    BY <1>1, <1>2, <2>1 DEF Kept
  <2>3. e \in 1 .. Len(entry)
    BY <1>1, <2>2 DEF BusInv, BusOk, BusTyped
  <2>4. Listed(n, e)'
    BY <1>4, <2>2 DEF Listed
  <2>5. Listed(n, e) /\ entry'[e] = entry[e]
    BY <2>2, <2>3, <2>4 DEF Continues
  <2>. QED BY <1>1, <1>4, <2>1, <2>2, <2>5 DEF Kept
<1>. QED BY <1>1, <1>3, <1>4

\* The one-shot entries not called now, in a step that frees no frame that runs one.
LEMMA OnceStays ==
    ASSUME Continues, Once, NEW e \in 1 .. Len(entry), entry[e].once, calls'[e] = calls[e],
           \A i \in 1 .. Len(stack) : stack[i].phase = "call" /\ stack[i].node = e =>
              \/ e \notin alive'
              \/ \E j \in 1 .. Len(stack') : stack'[j].phase = "call" /\ stack'[j].node = e
    PROVE  \/ calls'[e] = 0
           \/ calls'[e] = 1 /\ (e \in alive' => \E i \in 1 .. Len(stack') :
                                   stack'[i].phase = "call" /\ stack'[i].node = e)
  BY DEF Continues, Once

\* An operation of the application.
LEMMA PoliteBus ==
    ASSUME PoliteInv, BusInv', Continues, stack' = stack, ~stale',
           \A i \in 1 .. Len(stack) : HeldBy(stack[i]) \subseteq alive',
           \A e \in 1 .. Len(entry) : calls'[e] = calls[e],
           \A e \in 1 .. Len(entry') : e \notin 1 .. Len(entry) => calls'[e] = 0
    PROVE  PoliteInv'
<1>1. Len(stack) \in Nat
  BY LenProperties DEF PoliteInv, BusInv, StackTyped
<1>2. PICK d : d = Len(stack)
  OBVIOUS
<1>3. /\ \A i \in 1 .. d : Reached(stack[i])' /\ HeldBy(stack'[i]) \subseteq alive'
      /\ \A i, j \in 1 .. d : i < j =>
           \A e \in HeldBy(stack'[i]) : Listed(stack[j].name, e)' => ~entry'[e].once
  <2>1. d \in 0 .. Len(stack) /\ d <= Len(stack')
    BY <1>1, <1>2
  <2>. QED BY <1>2, <2>1, BelowStays
<1>4. Kept'
  BY <1>2, <1>3 DEF Kept
<1>5. AllReached'
  BY <1>2, <1>3 DEF AllReached
<1>6. Nested'
  BY DEF PoliteInv, Nested
<1>7. Once'
  <2>. SUFFICES ASSUME NEW e \in 1 .. Len(entry'), entry'[e].once
                PROVE  \/ calls'[e] = 0
                       \/ calls'[e] = 1 /\ (e \in alive' => \E i \in 1 .. Len(stack') :
                                               stack'[i].phase = "call" /\ stack'[i].node = e)
    BY DEF Once
  <2>1. CASE e \in 1 .. Len(entry)
    <3>1. entry[e].once /\ calls'[e] = calls[e]
      BY <2>1 DEF Continues
    <3>. QED BY <2>1, <3>1, OnceStays DEF PoliteInv
  <2>2. CASE e \notin 1 .. Len(entry)
    BY <2>2
  <2>. QED BY <2>1, <2>2
<1>. QED BY <1>4, <1>5, <1>6, <1>7 DEF PoliteInv

\* What the frames hold is alive.
LEMMA HeldAlive ==
    ASSUME PoliteInv, Held \cap alive \subseteq alive', NEW i \in 1 .. Len(stack)
    PROVE  HeldBy(stack[i]) \subseteq alive'
<1>1. HeldBy(stack[i]) \subseteq alive
  BY DEF PoliteInv, Kept
<1>2. HeldBy(stack[i]) \subseteq Held
  BY DEF HeldBy, Held
<1>. QED BY <1>1, <1>2
\* A step of the top dispatch, which frees nothing the others hold.
LEMMA PoliteTop ==
    ASSUME PoliteInv, Continues, Len(stack) \in Nat \ {0}, Len(stack') = Len(stack),
           \A i \in 1 .. Len(stack) : i # Len(stack) => stack'[i] = stack[i],
           NEW g, g = stack'[Len(stack)], g.name = stack[Len(stack)].name,
           Reached(g)', HeldBy(g) \subseteq alive',
           \A i \in 1 .. Len(stack) : i # Len(stack) => HeldBy(stack[i]) \subseteq alive'
    PROVE  Kept' /\ AllReached' /\ Nested'
<1>1. PICK k \in Nat \ {0} : k = Len(stack)
  OBVIOUS
<1>2. /\ \A i \in 1 .. k - 1 : Reached(stack[i])' /\ HeldBy(stack'[i]) \subseteq alive'
      /\ \A i, j \in 1 .. k - 1 : i < j =>
           \A e \in HeldBy(stack'[i]) : Listed(stack[j].name, e)' => ~entry'[e].once
  <2>1. k - 1 \in 0 .. Len(stack) /\ k - 1 <= Len(stack')
    BY <1>1
  <2>2. \A i \in 1 .. k - 1 : i \in 1 .. Len(stack) /\ i # Len(stack)
    BY <1>1
  <2>. QED BY <2>1, <2>2, BelowStays
<1>3. \A i \in 1 .. Len(stack') : i \in 1 .. k - 1 \/ i = k
  BY <1>1
<1>4. stack'[k] = g /\ Reached(stack[k])'
  <2>1. stack'[k] = g
    BY <1>1
  <2>. QED BY <2>1 DEF Reached, At
<1>5. AllReached'
  BY <1>2, <1>3, <1>4 DEF AllReached
<1>6. \A i \in 1 .. Len(stack') : HeldBy(stack'[i]) \subseteq alive'
  BY <1>2, <1>3, <1>4
<1>7. ASSUME NEW i \in 1 .. Len(stack'), NEW j \in 1 .. Len(stack'), i < j,
             NEW e \in HeldBy(stack'[i]), Listed(stack[j].name, e)'
      PROVE  ~entry'[e].once
  <2>1. i \in 1 .. k - 1 /\ i \in 1 .. Len(stack) /\ i # Len(stack) /\ i < k
    BY <1>1, <1>7
  <2>2. CASE j \in 1 .. k - 1
    BY <1>2, <1>7, <2>1, <2>2
  <2>3. CASE j = k
    <3>1. k \in 1 .. Len(stack) /\ stack[k] \in Frame
      BY <1>1, ElementOfSeq DEF PoliteInv, BusInv, StackTyped
    <3>2. PICK n \in Names : n = stack[k].name
      BY <3>1 DEF Frame
    <3>3. e \in HeldBy(stack[i]) /\ e \in alive'
      BY <1>6, <2>1
    <3>4. e \in alive /\ e \in 1 .. Len(entry)
      BY <2>1, <3>3 DEF PoliteInv, Kept, BusInv, BusOk, BusTyped
    <3>5. Listed(n, e)'
      BY <1>1, <1>4, <1>7, <2>3, <3>2 DEF Listed
    <3>6. Listed(n, e) /\ entry'[e] = entry[e]
      BY <3>3, <3>4, <3>5 DEF Continues
    <3>. QED BY <2>1, <3>1, <3>2, <3>3, <3>6 DEF PoliteInv, Kept
  <2>. QED BY <1>3, <2>2, <2>3
<1>8. Kept'
  BY <1>6, <1>7 DEF Kept
<1>9. Nested'
  <2>. SUFFICES ASSUME NEW i \in 1 .. Len(stack'), i < Len(stack')
                PROVE  stack'[i].phase = "call"
    BY DEF Nested
  <2>1. i \in 1 .. Len(stack) /\ i # Len(stack) /\ i < Len(stack)
    BY <1>1
  <2>. QED BY <2>1 DEF PoliteInv, Nested
<1>. QED BY <1>5, <1>8, <1>9

\* A loop reads an entry that is alive, and one that has not been called if it
\* is a one-shot one.
LEMMA CallPolite ==
    ASSUME PoliteInv, CallListener
    PROVE  PoliteInv'
<1>1. BusInv /\ BusOk /\ Kept /\ AllReached /\ Once /\ ~stale
      /\ stack # <<>> /\ Top.phase = "loop" /\ Top.node # 0
  BY DEF PoliteInv, BusInv, CallListener
<1>2. PICK k \in Nat \ {0} : k = Len(stack)
  BY <1>1, TopBelongs
<1>3. PICK t \in Frame : /\ t = Top /\ t = stack[k] /\ FrameBelongs(t) /\ t.name \in Names
                         /\ t.node \in Nat \ {0} /\ t.seen \in Seq(Nat)
  BY <1>1, <1>2, TopBelongs
<1>4. k \in 1 .. Len(stack) /\ Reached(t) /\ t.node \in alive
  BY <1>1, <1>2, <1>3 DEF AllReached, Kept, HeldBy
<1>5. PICK x : x = Successor(t.name, t.node)
  OBVIOUS
<1>6. /\ BusInv' /\ Continues /\ UNCHANGED <<bus, stale, nemits>>
      /\ Listed(t.name, t.node)
      /\ TopIs(t.node, x, "call", Append(t.seen, t.node))
      /\ calls' = [calls EXCEPT ![t.node] = @ + 1]
  BY <1>1, <1>3, <1>4, <1>5, CallBus
<1>7. PICK g : g = stack'[k]
  OBVIOUS
<1>8. /\ g.name = t.name /\ g.start = t.start /\ g.node = t.node /\ g.next = x
      /\ g.phase = "call" /\ g.seen = Append(t.seen, t.node) /\ Len(stack') = Len(stack)
      /\ \A i \in 1 .. Len(stack) : i # Len(stack) => stack'[i] = stack[i]
  BY <1>2, <1>3, <1>6, <1>7 DEF TopIs
<1>9. /\ x \in Nat /\ (x # 0 => Listed(t.name, x) /\ t.node < x)
      /\ \A y : Listed(t.name, y) /\ y > t.node => x # 0 /\ y >= x
  BY <1>1, <1>3, <1>5, <1>6, SuccessorIs
<1>10. /\ alive' = alive /\ entry' = entry /\ t.node \in 1 .. Len(entry) /\ Len(entry) \in Nat
  BY <1>1, <1>3, <1>6, ListedIs DEF bus
<1>11. Reached(g)'
  <2>1. /\ Rising(t.seen) /\ Len(t.seen) \in Nat
        /\ \A i \in 1 .. Len(t.seen) : t.seen[i] \in Nat /\ t.seen[i] < t.node
    BY <1>1, <1>3, <1>4, ElementOfSeq, LenProperties DEF Reached
  <2>2. /\ Rising(g.seen) /\ \A y : In(g.seen, y) <=> In(t.seen, y) \/ y = t.node
    <3>1. t.node \in Nat /\ \A i \in 1 .. Len(t.seen) : t.seen[i] < t.node
      BY <1>3, <2>1
    <3>2. /\ Rising(Append(t.seen, t.node))
          /\ \A y : In(Append(t.seen, t.node), y) <=> In(t.seen, y) \/ y = t.node
      BY <1>3, <2>1, <3>1, RisingAppend
    <3>. QED BY <1>8, <3>2
  <2>3. \A i \in 1 .. Len(g.seen) : g.seen[i] <= t.node
    <3>1. \A i \in 1 .. Len(g.seen) : In(g.seen, g.seen[i])
      BY DEF In
    <3>2. \A y : In(t.seen, y) => y <= t.node
      BY <1>3, <2>1 DEF In
    <3>. QED BY <1>3, <2>2, <3>1, <3>2
  <2>4. \A i \in 1 .. Len(g.seen) : g.seen[i] <= Len(entry')
    <3>1. g.seen \in Seq(Nat)
      BY <1>3, <1>8, AppendProperties
    <3>. QED BY <1>10, <2>3, <3>1, ElementOfSeq
  <2>5. ASSUME NEW i \in 1 .. Len(g.start), g.start[i] \in alive'
        PROVE  \/ \E j \in 1 .. Len(g.seen) : g.seen[j] = g.start[i]
               \/ At(g) # 0 /\ g.start[i] >= At(g)
    <3>1. PICK e : e = t.start[i] /\ e = g.start[i] /\ e \in alive
      BY <1>8, <1>10, <2>5
    <3>2. Listed(t.name, e) /\ e \in 1 .. Len(entry)
      BY <1>3, <1>8, <3>1 DEF FrameBelongs, Belongs
    <3>3. In(t.seen, e) \/ e >= t.node
      BY <1>1, <1>3, <1>4, <1>8, <3>1 DEF Reached, At, In
    <3>4. CASE In(t.seen, e) \/ e = t.node
      BY <2>2, <3>1, <3>4 DEF In
    <3>5. CASE e > t.node
      BY <1>8, <1>9, <3>1, <3>2, <3>5 DEF At
    <3>. QED BY <1>3, <1>10, <3>2, <3>3, <3>4, <3>5
  <2>6. g.next # 0 => g.node < g.next
    BY <1>8, <1>9
  <2>. QED BY <1>8, <2>2, <2>3, <2>4, <2>5, <2>6 DEF Reached, At, In
<1>12. HeldBy(g) \subseteq alive'
  BY <1>1, <1>3, <1>4, <1>8, <1>9, <1>10, ListedIs DEF HeldBy
<1>13. \A i \in 1 .. Len(stack) : i # Len(stack) => HeldBy(stack[i]) \subseteq alive'
  BY <1>1, <1>10 DEF Kept
<1>14. Kept' /\ AllReached' /\ Nested'
  BY <1>2, <1>3, <1>6, <1>7, <1>8, <1>11, <1>12, <1>13, PoliteTop
<1>15. Once'
  <2>. SUFFICES ASSUME NEW e \in 1 .. Len(entry), entry[e].once
                PROVE  \/ calls'[e] = 0
                       \/ calls'[e] = 1 /\ (e \in alive' => \E i \in 1 .. Len(stack') :
                                               stack'[i].phase = "call" /\ stack'[i].node = e)
    BY <1>10 DEF Once
  <2>1. calls \in Seq(Nat) /\ Len(calls) = Len(entry)
    BY <1>1 DEF BusInv, StackTyped
  <2>2. CASE e = t.node
    <3>1. calls[e] = 0
      <4>1. ASSUME NEW i \in 1 .. Len(stack), stack[i].phase = "call", stack[i].node = e
            PROVE  FALSE
        <5>1. i < k
          BY <1>1, <1>2, <1>3, <4>1
        <5>2. e \in HeldBy(stack[i])
          BY <1>3, <2>2, <4>1 DEF HeldBy
        <5>. QED BY <1>1, <1>3, <1>4, <1>6, <2>2, <5>1, <5>2 DEF Kept
      <4>. QED BY <1>1, <1>4, <2>2, <4>1 DEF Once
    <3>2. calls'[e] = 1
      BY <1>6, <2>1, <2>2, <3>1, ExceptSeq
    <3>3. k \in 1 .. Len(stack') /\ stack'[k].phase = "call" /\ stack'[k].node = e
      BY <1>4, <1>7, <1>8, <2>2
    <3>. QED BY <3>2, <3>3
  <2>3. CASE e # t.node
    <3>1. calls'[e] = calls[e]
      BY <1>6, <2>1, <2>3
    <3>2. \A i \in 1 .. Len(stack) : stack[i].phase = "call" =>
            i \in 1 .. Len(stack') /\ stack'[i] = stack[i]
      BY <1>1, <1>2, <1>3, <1>8
    <3>. QED BY <1>1, <1>6, <3>1, <3>2, OnceStays
  <2>. QED BY <2>2, <2>3
<1>. QED BY <1>1, <1>6, <1>14, <1>15 DEF PoliteInv
\* The listener returns: only its own frame held a one-shot entry it removes.
LEMMA ReturnPolite ==
    ASSUME PoliteInv, ListenerReturns
    PROVE  PoliteInv'
<1>1. BusInv /\ Kept /\ AllReached /\ Once /\ ~stale /\ stack # <<>> /\ Top.phase = "call"
  BY DEF PoliteInv, BusInv, ListenerReturns
<1>2. PICK k \in Nat \ {0} : k = Len(stack)
  BY <1>1, TopBelongs
<1>3. PICK t \in Frame : /\ t = Top /\ t = stack[k] /\ FrameBelongs(t) /\ t.name \in Names
                         /\ t.node \in Nat \ {0} /\ t.next \in Nat /\ t.seen \in Seq(Nat)
  BY <1>1, <1>2, TopBelongs DEF FrameBelongs
<1>4. k \in 1 .. Len(stack) /\ Reached(t) /\ HeldBy(t) \subseteq alive /\ t.node \in alive
  BY <1>1, <1>2, <1>3 DEF AllReached, Kept, HeldBy
<1>5. /\ BusInv' /\ Continues /\ UNCHANGED <<bound, handlers, entry, stale, calls, nemits>>
      /\ Listed(t.name, t.node) /\ t.node \in 1 .. Len(entry)
      /\ TopIs(t.next, t.next, "loop", t.seen)
      /\ alive' = IF entry[t.node].once THEN alive \ {t.node} ELSE alive
  BY <1>1, <1>3, <1>4, ReturnBus
<1>6. PICK g : g = stack'[k]
  OBVIOUS
<1>7. /\ g.name = t.name /\ g.start = t.start /\ g.node = t.next /\ g.next = t.next
      /\ g.phase = "loop" /\ g.seen = t.seen /\ Len(stack') = Len(stack)
      /\ \A i \in 1 .. Len(stack) : i # Len(stack) => stack'[i] = stack[i]
  BY <1>2, <1>3, <1>5, <1>6 DEF TopIs
<1>8. Reached(g)'
  <2>1. \A i \in 1 .. Len(t.seen) : t.seen[i] \in Nat /\ t.seen[i] <= t.node
    BY <1>1, <1>3, <1>4, ElementOfSeq DEF Reached
  <2>2. t.next # 0 => \A i \in 1 .. Len(t.seen) : t.seen[i] < t.next
    BY <1>1, <1>3, <1>4, <2>1 DEF Reached
  <2>3. \A i \in 1 .. Len(t.start) : t.start[i] \in alive =>
          \/ \E j \in 1 .. Len(t.seen) : t.seen[j] = t.start[i]
          \/ t.next # 0 /\ t.start[i] >= t.next
    BY <1>1, <1>3, <1>4 DEF Reached, At
  <2>4. alive' \subseteq alive /\ entry' = entry
    BY <1>5
  <2>5. At(g)' = t.next
    BY <1>7 DEF At
  <2>6. Rising(g.seen) /\ \A i \in 1 .. Len(g.seen) : g.seen[i] <= Len(entry')
    BY <1>4, <1>7, <2>4 DEF Reached
  <2>. QED BY <1>7, <2>2, <2>3, <2>4, <2>5, <2>6 DEF Reached
<1>9. HeldBy(g) \subseteq alive'
  <2>1. t.next # 0 => t.next \in alive /\ t.next # t.node
    BY <1>1, <1>3, <1>4 DEF Reached, HeldBy
  <2>. QED BY <1>5, <1>7, <2>1 DEF HeldBy
<1>10. ASSUME NEW i \in 1 .. Len(stack), i # Len(stack)
       PROVE  HeldBy(stack[i]) \subseteq alive'
  <2>1. i < k /\ HeldBy(stack[i]) \subseteq alive
    BY <1>1, <1>2, <1>10 DEF Kept
  <2>2. t.node \in HeldBy(stack[i]) => ~entry[t.node].once
    BY <1>1, <1>3, <1>4, <1>5, <2>1 DEF Kept
  <2>. QED BY <1>5, <2>1, <2>2
<1>11. Kept' /\ AllReached' /\ Nested'
  BY <1>2, <1>3, <1>5, <1>6, <1>7, <1>8, <1>9, <1>10, PoliteTop
<1>12. Once'
  <2>. SUFFICES ASSUME NEW e \in 1 .. Len(entry), entry[e].once
                PROVE  \/ calls'[e] = 0
                       \/ calls'[e] = 1 /\ (e \in alive' => \E i \in 1 .. Len(stack') :
                                               stack'[i].phase = "call" /\ stack'[i].node = e)
    BY <1>5 DEF Once
  <2>1. ASSUME NEW i \in 1 .. Len(stack), stack[i].phase = "call", stack[i].node = e
        PROVE  \/ e \notin alive'
               \/ \E j \in 1 .. Len(stack') : stack'[j].phase = "call" /\ stack'[j].node = e
    <3>1. CASE i = k
      BY <1>3, <1>5, <2>1, <3>1
    <3>2. CASE i # k
      BY <1>2, <1>7, <2>1, <3>2
    <3>. QED BY <3>1, <3>2
  <2>2. calls'[e] = calls[e]
    BY <1>5
  <2>. QED BY <1>1, <1>5, <2>1, <2>2, OnceStays
<1>. QED BY <1>1, <1>5, <1>11, <1>12 DEF PoliteInv

\* A dispatch that has come to the end of its list holds nothing.
LEMMA DispatchPolite ==
    ASSUME PoliteInv, DispatchReturns
    PROVE  PoliteInv'
<1>1. BusInv /\ Kept /\ AllReached /\ Once /\ Nested /\ ~stale
  BY DEF PoliteInv
<1>2. /\ BusInv' /\ Continues /\ UNCHANGED <<bus, stale, calls, nemits>>
      /\ stack # <<>> /\ Top.phase = "loop"
      /\ Len(stack) \in Nat \ {0} /\ Len(stack') = Len(stack) - 1
      /\ \A i \in 1 .. Len(stack) - 1 : stack'[i] = stack[i]
  BY <1>1, DispatchBus
<1>3. PICK k \in Nat \ {0} : k = Len(stack)
  BY <1>2
<1>4. alive' = alive /\ entry' = entry
  BY <1>2 DEF bus
<1>5. /\ \A i \in 1 .. k - 1 : Reached(stack[i])' /\ HeldBy(stack'[i]) \subseteq alive'
      /\ \A i, j \in 1 .. k - 1 : i < j =>
           \A e \in HeldBy(stack'[i]) : Listed(stack[j].name, e)' => ~entry'[e].once
  <2>1. k - 1 \in 0 .. Len(stack) /\ k - 1 <= Len(stack')
    BY <1>2, <1>3
  <2>2. \A i \in 1 .. k - 1 : HeldBy(stack[i]) \subseteq alive'
    BY <1>1, <1>3, <1>4 DEF Kept
  <2>. QED BY <1>2, <1>3, <2>1, <2>2, BelowStays
<1>6. Kept' /\ AllReached'
  BY <1>2, <1>3, <1>5 DEF Kept, AllReached
<1>7. Nested'
  BY <1>1, <1>2 DEF Nested
<1>8. Once'
  <2>. SUFFICES ASSUME NEW e \in 1 .. Len(entry), entry[e].once
                PROVE  \/ calls'[e] = 0
                       \/ calls'[e] = 1 /\ (e \in alive' => \E i \in 1 .. Len(stack') :
                                               stack'[i].phase = "call" /\ stack'[i].node = e)
    BY <1>4 DEF Once
  <2>1. \A i \in 1 .. Len(stack) : stack[i].phase = "call" =>
          i \in 1 .. Len(stack') /\ stack'[i] = stack[i]
    BY <1>2 DEF Top
  <2>. QED BY <1>1, <1>2, <2>1, OnceStays
<1>. QED BY <1>1, <1>2, <1>6, <1>7, <1>8 DEF PoliteInv
\* A new dispatch may remove one-shot entries: none of them is held.
LEMMA EmitPolite ==
    ASSUME Polite, PoliteInv, NEW n \in Names, event_bus_emit(n)
    PROVE  PoliteInv'
<1>1. BusInv /\ BusOk /\ Kept /\ AllReached /\ Once /\ Nested /\ ~stale
  BY DEF PoliteInv, BusInv
<1>2. Running /\ Spares(OnceOf(n))
  BY DEF event_bus_emit
<1>3. PICK k \in Nat : k = Len(stack)
  BY <1>1, LenProperties DEF BusInv, StackTyped
<1>4. /\ BusInv' /\ Continues /\ UNCHANGED <<bus, stale, calls>>
      /\ \/ stack' = stack
         \/ /\ Len(stack') = k + 1
            /\ \A i \in 1 .. k : stack'[i] = stack[i]
            /\ LET g == stack'[k + 1] IN
               /\ g.name = n /\ g.node = FirstOf(n) /\ g.next = 0
               /\ g.phase = "loop" /\ g.seen = <<>> /\ g.start = lists[n]
  BY <1>1, <1>3, EmitBus
<1>5. alive' = alive /\ entry' = entry /\ calls' = calls /\ stale' = stale
  BY <1>4 DEF bus
<1>6. \A i \in 1 .. k : HeldBy(stack[i]) \subseteq alive'
  BY <1>1, <1>3, <1>5 DEF Kept
<1>7. CASE stack' = stack
  BY <1>1, <1>3, <1>4, <1>5, <1>6, <1>7, PoliteBus
<1>8. CASE /\ Len(stack') = k + 1
           /\ \A i \in 1 .. k : stack'[i] = stack[i]
           /\ LET g == stack'[k + 1] IN
              /\ g.name = n /\ g.node = FirstOf(n) /\ g.next = 0
              /\ g.phase = "loop" /\ g.seen = <<>> /\ g.start = lists[n]
  <2>1. PICK g : g = stack'[k + 1]
    OBVIOUS
  <2>2. /\ g.name = n /\ g.node = FirstOf(n) /\ g.next = 0
        /\ g.phase = "loop" /\ g.seen = <<>> /\ g.start = lists[n]
    BY <1>8, <2>1
  <2>3. /\ \A i \in 1 .. k : Reached(stack[i])' /\ HeldBy(stack'[i]) \subseteq alive'
        /\ \A i, j \in 1 .. k : i < j =>
             \A e \in HeldBy(stack'[i]) : Listed(stack[j].name, e)' => ~entry'[e].once
    <3>1. k \in 0 .. Len(stack) /\ k <= Len(stack')
      BY <1>3, <1>8
    <3>. QED BY <1>4, <1>6, <1>8, <3>1, BelowStays
  <2>4. \A i \in 1 .. Len(stack') : i \in 1 .. k \/ i = k + 1
    BY <1>8
  <2>5. FirstOf(n) # 0 => FirstOf(n) \in alive
    BY <1>1, FirstIs, ListedIs
  <2>6. Reached(g)'
    <3>1. Rising(g.seen) /\ Len(g.seen) = 0
      BY <2>2, EmptySeq DEF Rising
    <3>2. \A i \in 1 .. Len(g.start) : FirstOf(n) # 0 /\ g.start[i] >= FirstOf(n)
      BY <1>1, <2>2, FirstIs, ListedIs
    <3>3. At(g)' = g.node
      BY <2>2 DEF At
    <3>. QED BY <2>2, <3>1, <3>2, <3>3 DEF Reached
  <2>7. AllReached'
    <3>1. Reached(stack[k + 1])'
      BY <2>1, <2>6 DEF Reached, At
    <3>. QED BY <2>3, <2>4, <3>1 DEF AllReached
  <2>8. \A i \in 1 .. Len(stack') : HeldBy(stack'[i]) \subseteq alive'
    <3>1. HeldBy(g) \subseteq alive'
      BY <1>5, <2>2, <2>5 DEF HeldBy
    <3>. QED BY <2>1, <2>3, <2>4, <3>1
  <2>9. ASSUME NEW i \in 1 .. Len(stack'), NEW j \in 1 .. Len(stack'), i < j,
               NEW e \in HeldBy(stack'[i]), Listed(stack[j].name, e)'
        PROVE  ~entry'[e].once
    <3>1. i \in 1 .. k
      BY <1>8, <2>9
    <3>2. CASE j \in 1 .. k
      BY <2>3, <2>9, <3>1, <3>2
    <3>3. CASE j = k + 1
      <4>1. e \in HeldBy(stack[i]) /\ i \in 1 .. Len(stack)
        BY <1>3, <1>8, <3>1
      <4>2. e \in Held
        BY <4>1 DEF HeldBy, Held
      <4>3. Listed(n, e)
        BY <1>4, <2>1, <2>2, <2>9, <3>3 DEF Listed, bus
      <4>4. e \in ToSet(lists[n])
        <5>1. DOMAIN lists[n] = 1 .. Len(lists[n])
          BY <1>1, LenProperties DEF BusOk, BusTyped
        <5>. QED BY <4>3, <5>1 DEF Listed, In, ToSet
      <4>5. e \notin OnceOf(n)
        BY <1>2, <4>2 DEF Spares
      <4>. QED BY <1>5, <4>4, <4>5 DEF OnceOf
    <3>. QED BY <2>4, <3>2, <3>3
  <2>10. Kept'
    BY <2>8, <2>9 DEF Kept
  <2>11. Nested'
    <3>. SUFFICES ASSUME NEW i \in 1 .. Len(stack'), i < Len(stack')
                  PROVE  stack'[i].phase = "call"
      BY DEF Nested
    <3>1. i \in 1 .. k /\ stack'[i] = stack[i]
      BY <1>8
    <3>2. CASE i = k
      <4>1. stack # <<>>
        BY <1>3, <3>1, <3>2
      <4>. QED BY <1>2, <1>3, <3>1, <3>2, <4>1 DEF Running, Top
    <3>3. CASE i < k
      BY <1>1, <1>3, <3>1, <3>3 DEF Nested
    <3>. QED BY <1>3, <3>1, <3>2, <3>3
  <2>12. Once'
    <3>. SUFFICES ASSUME NEW e \in 1 .. Len(entry), entry[e].once
                  PROVE  \/ calls'[e] = 0
                         \/ calls'[e] = 1 /\ (e \in alive' => \E i \in 1 .. Len(stack') :
                                                 stack'[i].phase = "call" /\ stack'[i].node = e)
      BY <1>5 DEF Once
    <3>1. \A i \in 1 .. Len(stack) : i \in 1 .. Len(stack') /\ stack'[i] = stack[i]
      BY <1>3, <1>8
    <3>. QED BY <1>1, <1>4, <1>5, <3>1, OnceStays
  <2>. QED BY <1>1, <1>4, <1>5, <2>7, <2>10, <2>11, <2>12 DEF PoliteInv
<1>. QED BY <1>4, <1>7, <1>8

-----------------------------------------------------------------------------
(* The theorems.                                                           *)

\* Polite listeners keep what the dispatches hold.  No name of the application's
\* is the one that ee emits for itself.
LEMMA PoliteStep ==
    ASSUME Polite, NewListener \notin Names, PoliteInv, [Next]_vars
    PROVE  PoliteInv'
<1>1. BusInv /\ ~stale /\ Kept /\ Len(entry) \in Nat
  BY LenProperties DEF PoliteInv, BusInv, BusOk, BusTyped
<1>2. ASSUME NEW n \in Names, NEW fn \in Fns, NEW once \in BOOLEAN,
             add_listener_internal(n, fn, once)
      PROVE  PoliteInv'
  <2>1. /\ BusInv' /\ Continues /\ alive \subseteq alive' /\ stack' = stack
        /\ \A e \in 1 .. Len(entry) : calls'[e] = calls[e]
        /\ \A e \in 1 .. Len(entry') : e \notin 1 .. Len(entry) => calls'[e] = 0
    BY <1>1, <1>2, AddBus
  <2>2. ~stale'
    BY <1>1, <1>2 DEF add_listener_internal, ensure_binding
  <2>3. \A i \in 1 .. Len(stack) : HeldBy(stack[i]) \subseteq alive'
    BY <1>1, <2>1 DEF Kept
  <2>. QED BY <2>1, <2>2, <2>3, PoliteBus
<1>3. ASSUME NEW n \in Names, NEW fn \in Fns, event_bus_off(n, fn) PROVE PoliteInv'
  <2>1. /\ BusInv' /\ Continues /\ Held \cap alive \subseteq alive'
        /\ UNCHANGED <<entry, stack, stale, calls, nemits>>
    BY <1>1, <1>3, OffBus
  <2>. QED BY <1>1, <2>1, HeldAlive, PoliteBus
<1>4. ASSUME NEW n \in Names, event_bus_off_all(n) PROVE PoliteInv'
  <2>1. /\ BusInv' /\ Continues /\ Held \cap alive \subseteq alive'
        /\ UNCHANGED <<entry, stack, stale, calls, nemits>>
    BY <1>1, <1>4, OffAllBus
  <2>. QED BY <1>1, <2>1, HeldAlive, PoliteBus
<1>5. ASSUME NEW n \in Names, event_bus_emit(n) PROVE PoliteInv'
  BY <1>5, EmitPolite
<1>6. CASE event_bus_destroy
  <2>1. /\ BusInv' /\ Continues /\ stack = <<>>
        /\ UNCHANGED <<entry, stack, stale, calls, nemits>>
    BY <1>1, <1>6, DestroyBus
  <2>2. Len(stack) = 0
    BY <2>1, EmptySeq
  <2>. QED BY <1>1, <2>1, <2>2, PoliteBus
<1>7. CASE UNCHANGED vars
  <2>1. BusOk' /\ Continues
    BY <1>1, <1>7, BusSame DEF BusInv, vars
  <2>2. BusInv'
    BY <1>1, <1>7, BusInvStep
  <2>3. stack' = stack /\ ~stale' /\ calls' = calls /\ alive' = alive /\ entry' = entry
    BY <1>1, <1>7 DEF vars, bus
  <2>. QED BY <1>1, <2>1, <2>2, <2>3, PoliteBus DEF Kept
<1>. QED BY <1>2, <1>3, <1>4, <1>5, <1>6, <1>7, CallPolite, ReturnPolite, DispatchPolite DEF Next

\* Nothing is dispatched when the bus is created.
LEMMA PoliteInit == Init => PoliteInv
<1>. SUFFICES ASSUME Init PROVE PoliteInv
  OBVIOUS
<1>1. stack = <<>> /\ entry = <<>> /\ stale = FALSE
  BY DEF Init
<1>2. Len(stack) = 0 /\ Len(entry) = 0
  BY <1>1, EmptySeq
<1>3. Kept /\ AllReached /\ Nested /\ Once
  BY <1>2 DEF Kept, AllReached, Nested, Once
<1>. QED BY <1>1, <1>3, BusInvInit DEF PoliteInv

\* The loops of event_bridge_dispatch hold live entries, each further on in its
\* list, and the one-shot ones are called once.
THEOREM PoliteInvariant ==
    ASSUME Polite, NewListener \notin Names
    PROVE  Spec => []PoliteInv
<1>. QED BY PoliteInit, PoliteStep, PTL DEF Spec

\* A loop of event_bridge_dispatch (132-142) never reads an entry that has been
\* freed, if the listeners leave alone the two it holds.
THEOREM NothingFreedIsRead ==
    ASSUME Polite, NewListener \notin Names
    PROVE  Spec => []NoStale
<1>1. PoliteInv => NoStale
  BY DEF PoliteInv, NoStale
<1>. QED BY <1>1, PoliteInvariant, PTL

\* An emit calls the listeners in the order of registration, nobody twice, and
\* by its end all that were registered when it began and still are.
THEOREM EmitReaches ==
    ASSUME Polite, NewListener \notin Names
    PROVE  Spec => []EmitReachesAll
<1>1. ASSUME PoliteInv PROVE EmitReachesAll
  <2>. SUFFICES ASSUME NEW i \in 1 .. Len(stack)
                PROVE  LET f == stack[i] IN
                       /\ \A j \in 1 .. Len(f.seen) - 1 : f.seen[j] < f.seen[j + 1]
                       /\ f.phase = "loop" /\ f.node = 0 =>
                            \A e \in ToSet(f.start) \cap alive : e \in ToSet(f.seen)
    BY DEF EmitReachesAll
  <2>1. PICK f \in Frame : f = stack[i]
    BY <1>1, ElementOfSeq DEF PoliteInv, BusInv, StackTyped
  <2>2. Reached(f)
    BY <1>1, <2>1 DEF PoliteInv, AllReached
  <2>3. /\ Len(f.seen) \in Nat /\ DOMAIN f.seen = 1 .. Len(f.seen)
        /\ DOMAIN f.start = 1 .. Len(f.start)
    BY LenProperties DEF Frame
  <2>4. \A j \in 1 .. Len(f.seen) - 1 : f.seen[j] < f.seen[j + 1]
    <3>1. \A j \in 1 .. Len(f.seen) - 1 :
            j \in 1 .. Len(f.seen) /\ j + 1 \in 1 .. Len(f.seen) /\ j < j + 1
      BY <2>3
    <3>. QED BY <2>2, <3>1 DEF Reached, Rising
  <2>5. ASSUME f.phase = "loop", f.node = 0, NEW e \in ToSet(f.start) \cap alive
        PROVE  e \in ToSet(f.seen)
    BY <2>2, <2>3, <2>5 DEF Reached, At, ToSet
  <2>. QED BY <2>1, <2>4, <2>5
<1>. QED BY <1>1, PoliteInvariant, PTL

\* A one-shot listener is called once, however its emits nest.
THEOREM OneShot ==
    ASSUME Polite, NewListener \notin Names
    PROVE  Spec => []OnceOnce
<1>1. PoliteInv => OnceOnce
  BY DEF PoliteInv, Once, OnceOnce
<1>. QED BY <1>1, PoliteInvariant, PTL
=============================================================================
