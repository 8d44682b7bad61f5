------------------------- MODULE FileioPathsProofs -------------------------
(***************************************************************************)
(* Proofs about FileioPaths, for every set of names, mount points, paths   *)
(* and bounds:                                                             *)
(*                                                                         *)
(*   - fileio_normalize_relpath computes what a path means, whatever its   *)
(*     length, by an induction over its segments;                          *)
(*   - the answers of the calls are so, and no call touches anything       *)
(*     outside the mount point, by an inductive invariant of the tree.     *)
(***************************************************************************)
EXTENDS FileioPaths, WellFoundedInduction, FiniteSetTheorems, SequenceTheorems, TLAPS

\* Every nonempty set of naturals has a least member.
LEMMA LeastNat ==
    ASSUME NEW T \in SUBSET Nat, NEW n \in T
    PROVE  \E m \in T : \A k \in T : m <= k
<1>. DEFINE R == OpToRel(<, Nat)
<1>1. IsWellFoundedOn(R, Nat)
  BY NatLessThanWellFounded
<1>2. \A x, y \in Nat : x < y => <<x, y>> \in R
  BY DEF OpToRel
<1>. HIDE DEF R
<1>3. PICK m \in T : \A k \in T : <<k, m>> \notin R
  BY <1>1, WFMin
<1>4. \A k \in T : k \in Nat /\ m \in Nat /\ ~(k < m)
  BY <1>2, <1>3
<1>5. \A k \in T : m <= k
  BY <1>4
<1>. QED BY <1>5

\* Induction over the naturals, for a set of them.
LEMMA Induction ==
    ASSUME NEW T, 0 \in T, \A n \in Nat : n \in T => n + 1 \in T,
           NEW n \in Nat
    PROVE  n \in T
<1>. DEFINE bad == {k \in Nat : k \notin T}
<1>. SUFFICES ASSUME n \notin T PROVE FALSE
  OBVIOUS
<1>1. n \in bad /\ bad \in SUBSET Nat
  OBVIOUS
<1>2. PICK m \in bad : \A k \in bad : m <= k
  <2>. HIDE DEF bad
  <2>. QED BY <1>1, LeastNat
<1>3. m \in Nat /\ m # 0
  OBVIOUS
<1>4. m - 1 \in Nat /\ ~(m <= m - 1) /\ (m - 1) + 1 = m
  BY <1>3
<1>5. m - 1 \in T
  BY <1>2, <1>4
<1>6. m \in T
  BY <1>4, <1>5
<1>. QED BY <1>6

-----------------------------------------------------------------------------
(* The meaning of a path, segment by segment.                              *)

\* One more segment is counted if it is in the set.
LEMMA CountStep ==
    ASSUME NEW path, NEW S, NEW k \in Nat
    PROVE  /\ Count(path, S, k) \in Nat /\ Count(path, S, 0) = 0
           /\ Count(path, S, k + 1) = IF path[k + 1] \in S THEN Count(path, S, k) + 1
                                      ELSE Count(path, S, k)
<1>. DEFINE C(n) == {i \in 1 .. n : path[i] \in S}
<1>1. IsFiniteSet(1 .. k)
  BY FS_Interval
<1>2. C(k) \in SUBSET (1 .. k)
  OBVIOUS
<1>3. IsFiniteSet(C(k)) /\ Cardinality(C(k)) \in Nat
  <2>. HIDE DEF C
  <2>. QED BY <1>1, <1>2, FS_Subset, FS_CardinalityType
<1>4. C(0) = {}
  OBVIOUS
<1>5. Count(path, S, 0) = 0
  BY <1>4, FS_EmptySet DEF Count
<1>6. k + 1 \notin C(k)
  OBVIOUS
<1>7. CASE path[k + 1] \in S
  <2>1. C(k + 1) = C(k) \cup {k + 1}
    BY <1>7
  <2>2. Cardinality(C(k) \cup {k + 1}) = Cardinality(C(k)) + 1
    <3>. HIDE DEF C
    <3>. QED BY <1>3, <1>6, FS_AddElement
  <2>. QED BY <1>3, <1>5, <1>7, <2>1, <2>2 DEF Count
<1>8. CASE path[k + 1] \notin S
  <2>1. C(k + 1) = C(k)
    BY <1>8
  <2>. QED BY <1>3, <1>5, <1>8, <2>1 DEF Count
<1>. QED BY <1>7, <1>8

\* A name goes one level down, ".." one up, another segment nowhere.
LEMMA DepthStep ==
    ASSUME NEW path, NEW k \in Nat
    PROVE  /\ Depth(path, k) \in Int /\ Depth(path, 0) = 0
           /\ path[k + 1] \in Names => Depth(path, k + 1) = Depth(path, k) + 1
           /\ path[k + 1] = ".." => Depth(path, k + 1) = Depth(path, k) - 1
           /\ path[k + 1] \notin Names /\ path[k + 1] # ".." =>
                Depth(path, k + 1) = Depth(path, k)
<1>1. ".." \notin Names
  BY FileioPathsAssumption
<1>. DEFINE a == Count(path, Names, k)  b == Count(path, {".."}, k)
            a1 == Count(path, Names, k + 1)  b1 == Count(path, {".."}, k + 1)
<1>2. a \in Nat /\ Count(path, Names, 0) = 0
      /\ a1 = IF path[k + 1] \in Names THEN a + 1 ELSE a
  BY CountStep
<1>3. b \in Nat /\ Count(path, {".."}, 0) = 0
      /\ b1 = IF path[k + 1] \in {".."} THEN b + 1 ELSE b
  BY CountStep
<1>4. Depth(path, 0) = 0
  BY <1>2, <1>3 DEF Depth
<1>5. Depth(path, k) = a - b /\ Depth(path, k + 1) = a1 - b1
  BY DEF Depth
<1>. HIDE DEF a, b, a1, b1
<1>. QED BY <1>1, <1>2, <1>3, <1>4, <1>5

\* Segment e is the last of the first n that came to level d.
Latest(path, n, d, e) ==
    /\ e \in 1 .. n /\ path[e] \in Names /\ Depth(path, e) = d
    /\ \A y \in 1 .. n : path[y] \in Names /\ Depth(path, y) = d => y <= e

\* It is the one Meaning looks for.
LEMMA LatestIsMax ==
    ASSUME NEW path, NEW n \in Nat, NEW d, NEW e, Latest(path, n, d, e)
    PROVE  Max(Entries(path, n, d)) = e
<1>1. e \in Entries(path, n, d) /\ \A y \in Entries(path, n, d) : e >= y
  BY DEF Latest, Entries
<1>2. Entries(path, n, d) \subseteq Nat
  BY DEF Entries
<1>3. \A x \in Entries(path, n, d) :
        (\A y \in Entries(path, n, d) : x >= y) => x = e
  BY <1>1, <1>2
<1>. QED BY <1>1, <1>3 DEF Max

\* What came to level d stays the last to, unless the next segment does.
LEMMA LatestStep ==
    ASSUME NEW path, NEW n \in Nat, NEW d, NEW e, Latest(path, n, d, e),
           ~(path[n + 1] \in Names /\ Depth(path, n + 1) = d)
    PROVE  Latest(path, n + 1, d, e)
  BY DEF Latest

\* A name is the last to have come to the level it comes to.
LEMMA LatestNew ==
    ASSUME NEW path, NEW n \in Nat, path[n + 1] \in Names
    PROVE  Latest(path, n + 1, Depth(path, n + 1), n + 1)
  BY DEF Latest

-----------------------------------------------------------------------------
(* Normalization.                                                          *)

Start == [ok |-> TRUE, out |-> <<>>, marks |-> <<>>]

\* The definition of "after" in Normalized, for the first n segments.
Run(path, n, f) ==
    [k \in 0 .. n |-> IF k = 0 THEN Start ELSE NormalizeSegment(f[k - 1], path[k])]

\* The recursion over the segments defines a function.
LEMMA RunExists ==
    ASSUME NEW path, NEW n \in Nat
    PROVE  \E f : f = Run(path, n, f)
<1>. DEFINE T == {k \in Nat : \E f : f = Run(path, k, f)}
<1>1. 0 \in T
  <2>. DEFINE f == [k \in 0 .. 0 |-> Start]
  <2>1. f = Run(path, 0, f)
    BY DEF Run
  <2>. QED BY <2>1
<1>2. ASSUME NEW m \in Nat, m \in T PROVE m + 1 \in T
  <2>1. PICK f : f = Run(path, m, f)
    BY <1>2
  <2>. DEFINE g == [k \in 0 .. m + 1 |-> IF k = m + 1 THEN NormalizeSegment(f[m], path[m + 1])
                                        ELSE f[k]]
  <2>2. \A k \in 0 .. m : f[k] = IF k = 0 THEN Start ELSE NormalizeSegment(f[k - 1], path[k])
    <3>. DEFINE r == Run(path, m, f)
    <3>1. \A k \in 0 .. m : r[k] = IF k = 0 THEN Start ELSE NormalizeSegment(f[k - 1], path[k])
      BY DEF Run
    <3>. HIDE DEF r
    <3>2. f = r
      BY <2>1 DEF r
    <3>. QED BY <3>1, <3>2
  <2>3. ASSUME NEW k \in 0 .. m + 1
        PROVE  g[k] = IF k = 0 THEN Start ELSE NormalizeSegment(g[k - 1], path[k])
    <3>1. CASE k = m + 1
      <4>1. k # 0 /\ k - 1 = m /\ m \in 0 .. m + 1 /\ m # m + 1
        BY <3>1
      <4>2. g[k] = NormalizeSegment(f[m], path[m + 1]) /\ g[m] = f[m]
        BY <3>1, <4>1
      <4>. QED BY <3>1, <4>1, <4>2
    <3>2. CASE k # m + 1
      <4>1. k \in 0 .. m /\ (k # 0 => k - 1 \in 0 .. m + 1 /\ k - 1 # m + 1)
        BY <3>2
      <4>2. g[k] = f[k] /\ (k # 0 => g[k - 1] = f[k - 1])
        BY <3>2, <4>1
      <4>. QED BY <2>2, <4>1, <4>2
    <3>. QED BY <3>1, <3>2
  <2>4. g = [k \in 0 .. m + 1 |-> g[k]]
    OBVIOUS
  <2>. HIDE DEF g
  <2>5. g = Run(path, m + 1, g)
    BY <2>3, <2>4 DEF Run
  <2>. QED BY <2>5
<1>3. n \in T
  <2>. HIDE DEF T
  <2>. QED BY <1>1, <1>2, Induction
<1>. QED BY <1>3

\* Normalized is the end of a run over the segments.
LEMMA NormalizedRuns ==
    ASSUME NEW path \in Seq(Segments)
    PROVE  \E f : /\ f[0] = Start /\ Normalized(path) = f[Len(path)]
                  /\ \A n \in 0 .. Len(path) - 1 :
                       f[n + 1] = NormalizeSegment(f[n], path[n + 1])
<1>. DEFINE L == Len(path)
            h == CHOOSE x : x = Run(path, L, x)
<1>1. L \in Nat
  OBVIOUS
<1>. HIDE DEF L
<1>2. h = Run(path, L, h)
  BY <1>1, RunExists
<1>3. Normalized(path) = h[L]
  BY DEF Normalized, Run, L, Start
<1>. HIDE DEF h
<1>4. /\ \A k \in 0 .. L : h[k] = IF k = 0 THEN Start ELSE NormalizeSegment(h[k - 1], path[k])
  <2>. DEFINE r == Run(path, L, h)
  <2>1. \A k \in 0 .. L : r[k] = IF k = 0 THEN Start ELSE NormalizeSegment(h[k - 1], path[k])
    BY DEF Run
  <2>. HIDE DEF r
  <2>2. h = r
    BY <1>2 DEF r
  <2>. QED BY <2>1, <2>2
<1>5. h[0] = Start
  BY <1>1, <1>4
<1>6. ASSUME NEW n \in 0 .. L - 1 PROVE h[n + 1] = NormalizeSegment(h[n], path[n + 1])
  <2>1. n + 1 \in 0 .. L /\ n + 1 # 0 /\ (n + 1) - 1 = n
    BY <1>1
  <2>. QED BY <1>4, <2>1
<1>. QED BY <1>3, <1>5, <1>6 DEF L

\* The first n segments never go up from the mount point.
Below(path, n) == \A k \in 1 .. n : Depth(path, k) >= 0

\* What holds of the output after n segments: it has a name for every level,
\* the last that came there, and every mark is the length before one name.
Fits(path, n, out, marks) ==
    /\ Len(out) = Depth(path, n) /\ Len(marks) = Len(out)
    /\ \A d \in 1 .. Len(out) : /\ marks[d] = d - 1
                                /\ \E e : Latest(path, n, d, e) /\ out[d] = path[e]

Normal(path, n, s) ==
    /\ s \in [ok : BOOLEAN, out : Seq(Names), marks : Seq(Nat)]
    /\ (s.ok = TRUE) <=> Below(path, n)
    /\ s.ok = TRUE => Fits(path, n, s.out, s.marks)

\* One segment leaves a state of the same type, case by case.
LEMMA SegmentCases ==
    ASSUME NEW s \in [ok : BOOLEAN, out : Seq(Names), marks : Seq(Nat)], NEW seg
    PROVE  /\ s.ok = FALSE \/ seg \in {"", "."} => NormalizeSegment(s, seg) = s
           /\ s.ok = TRUE /\ seg = ".." /\ s.marks = <<>> =>
                NormalizeSegment(s, seg) = [ok |-> FALSE, out |-> s.out, marks |-> s.marks]
           /\ s.ok = TRUE /\ seg = ".." /\ s.marks # <<>> =>
                NormalizeSegment(s, seg) =
                    [ok |-> TRUE, out |-> SubSeq(s.out, 1, Last(s.marks)),
                     marks |-> Front(s.marks)]
           /\ s.ok = TRUE /\ seg \notin {"", ".", ".."} =>
                NormalizeSegment(s, seg) =
                    [ok |-> TRUE, out |-> Append(s.out, seg),
                     marks |-> Append(s.marks, Len(s.out))]
  BY DEF NormalizeSegment

\* One segment more is below if it ends below.
LEMMA BelowStep ==
    ASSUME NEW path, NEW n \in Nat
    PROVE  Below(path, n + 1) <=> Below(path, n) /\ Depth(path, n + 1) >= 0
<1>1. 1 .. n + 1 = (1 .. n) \cup {n + 1}
  OBVIOUS
<1>. QED BY <1>1 DEF Below

\* A segment that is empty or "." changes nothing.
LEMMA FitsStays ==
    ASSUME NEW path, NEW n \in Nat, path[n + 1] \notin Names, path[n + 1] # "..",
           NEW out \in Seq(Names), NEW marks \in Seq(Nat), Fits(path, n, out, marks)
    PROVE  Fits(path, n + 1, out, marks) /\ Depth(path, n + 1) >= 0
<1>1. Depth(path, n + 1) = Depth(path, n)
  BY DepthStep
<1>2. Len(out) \in Nat /\ Len(out) = Depth(path, n)
  BY DEF Fits
<1>3. Depth(path, n + 1) >= 0
  BY <1>1, <1>2
<1>4. \A d, e : Latest(path, n, d, e) => Latest(path, n + 1, d, e)
  BY LatestStep
<1>. QED BY <1>1, <1>3, <1>4 DEF Fits

\* ".." is refused where nothing is marked.
LEMMA FitsRefused ==
    ASSUME NEW path, NEW n \in Nat, path[n + 1] = "..",
           NEW out \in Seq(Names), Fits(path, n, out, <<>>)
    PROVE  ~(Depth(path, n + 1) >= 0)
<1>. DEFINE d == Depth(path, n)  d1 == Depth(path, n + 1)
<1>1. d = 0
  BY DEF Fits
<1>2. d1 = d - 1
  BY DepthStep
<1>. HIDE DEF d, d1
<1>3. ~(d1 >= 0)
  BY <1>1, <1>2
<1>. QED BY <1>3 DEF d1

\* Otherwise ".." takes the last name off, and its mark.
LEMMA FitsUp ==
    ASSUME NEW path, NEW n \in Nat, path[n + 1] = "..",
           NEW out \in Seq(Names), NEW marks \in Seq(Nat), Fits(path, n, out, marks),
           marks # <<>>
    PROVE  /\ SubSeq(out, 1, Last(marks)) \in Seq(Names) /\ Front(marks) \in Seq(Nat)
           /\ Fits(path, n + 1, SubSeq(out, 1, Last(marks)), Front(marks))
           /\ Depth(path, n + 1) >= 0
<1>. DEFINE D == Len(out)  o == SubSeq(out, 1, D - 1)  f == SubSeq(marks, 1, D - 1)
<1>1. /\ D \in Nat \ {0} /\ Len(marks) = D /\ D = Depth(path, n)
      /\ \A d \in 1 .. D : out[d] \in Names /\ marks[d] \in Nat
  BY DEF Fits
<1>2. Last(marks) = D - 1
  BY <1>1 DEF Fits, Last
<1>3. SubSeq(out, 1, Last(marks)) = o /\ Front(marks) = f
  BY <1>1, <1>2 DEF Front
<1>4. ".." \notin Names
  BY FileioPathsAssumption
<1>5. \A d, e : Latest(path, n, d, e) => Latest(path, n + 1, d, e)
  BY <1>4, LatestStep
<1>6. Depth(path, n + 1) = Depth(path, n) - 1
  BY DepthStep
<1>7. \A d \in 1 .. D : marks[d] = d - 1 /\ \E e : Latest(path, n, d, e) /\ out[d] = path[e]
  BY DEF Fits
<1>. HIDE DEF D
<1>8. /\ o \in Seq(Names) /\ Len(o) = D - 1 /\ \A d \in 1 .. D - 1 : o[d] = out[d]
  BY <1>1, SubSeqProperties
<1>9. /\ f \in Seq(Nat) /\ Len(f) = D - 1 /\ \A d \in 1 .. D - 1 : f[d] = marks[d]
  BY <1>1, SubSeqProperties
<1>. HIDE DEF o, f
<1>10. Depth(path, n + 1) = D - 1 /\ Depth(path, n + 1) >= 0
  <2>. DEFINE d1 == Depth(path, n + 1)
  <2>1. d1 = D - 1
    BY <1>1, <1>6
  <2>. HIDE DEF d1
  <2>2. d1 = D - 1 /\ d1 >= 0
    BY <1>1, <2>1
  <2>. QED BY <2>2 DEF d1
<1>11. ASSUME NEW d \in 1 .. D - 1
       PROVE  f[d] = d - 1 /\ \E e : Latest(path, n + 1, d, e) /\ o[d] = path[e]
  <2>1. d \in 1 .. D
    BY <1>1
  <2>. QED BY <1>5, <1>7, <1>8, <1>9, <2>1
<1>12. Fits(path, n + 1, o, f)
  BY <1>8, <1>9, <1>10, <1>11 DEF Fits
<1>. QED BY <1>3, <1>8, <1>9, <1>10, <1>12

\* A name is added, and marked with the length before it.
LEMMA FitsDown ==
    ASSUME NEW path, NEW n \in Nat, path[n + 1] \in Names,
           NEW out \in Seq(Names), NEW marks \in Seq(Nat), Fits(path, n, out, marks)
    PROVE  /\ Fits(path, n + 1, Append(out, path[n + 1]), Append(marks, Len(out)))
           /\ Depth(path, n + 1) >= 0
<1>. DEFINE D == Len(out)  seg == path[n + 1]  o == Append(out, seg)  f == Append(marks, D)
<1>1. D \in Nat /\ Len(marks) = D /\ D = Depth(path, n)
  BY DEF Fits
<1>2. \A d \in 1 .. D : marks[d] = d - 1 /\ \E e : Latest(path, n, d, e) /\ out[d] = path[e]
  BY DEF Fits
<1>3. Depth(path, n + 1) = Depth(path, n) + 1
  BY DepthStep
<1>4. Latest(path, n + 1, Depth(path, n + 1), n + 1)
  BY LatestNew
<1>. HIDE DEF D
<1>5. /\ Len(o) = D + 1 /\ o[D + 1] = seg /\ \A d \in 1 .. D : o[d] = out[d]
  BY <1>1 DEF D
<1>6. /\ Len(f) = D + 1 /\ f[D + 1] = D /\ \A d \in 1 .. D : f[d] = marks[d]
  BY <1>1
<1>. HIDE DEF o, f
<1>7. Depth(path, n + 1) = D + 1 /\ Depth(path, n + 1) >= 0
  <2>. DEFINE d1 == Depth(path, n + 1)
  <2>1. d1 = D + 1
    BY <1>1, <1>3
  <2>. HIDE DEF d1
  <2>2. d1 = D + 1 /\ d1 >= 0
    BY <1>1, <2>1
  <2>. QED BY <2>2 DEF d1
<1>8. ASSUME NEW d \in 1 .. D + 1
      PROVE  f[d] = d - 1 /\ \E e : Latest(path, n + 1, d, e) /\ o[d] = path[e]
  <2>1. CASE d = D + 1
    <3>1. d - 1 = D
      BY <1>1, <2>1
    <3>2. Latest(path, n + 1, d, n + 1) /\ o[d] = path[n + 1]
      BY <1>4, <1>5, <1>7, <2>1
    <3>. QED BY <1>6, <2>1, <3>1, <3>2
  <2>2. CASE d # D + 1
    <3>1. d \in 1 .. D
      BY <1>1, <2>2
    <3>2. PICK e : Latest(path, n, d, e) /\ out[d] = path[e]
      BY <1>2, <3>1
    <3>3. Depth(path, n + 1) # d
      BY <1>7, <2>2
    <3>4. Latest(path, n + 1, d, e)
      BY <3>2, <3>3, LatestStep
    <3>. QED BY <1>2, <1>5, <1>6, <3>1, <3>2, <3>4
  <2>. QED BY <2>1, <2>2
<1>9. Fits(path, n + 1, o, f)
  BY <1>5, <1>6, <1>7, <1>8 DEF Fits
<1>. QED BY <1>7, <1>9 DEF o, f, D

\* Every segment but a colon's keeps what holds of the output.
LEMMA NormalStep ==
    ASSUME NEW path, NEW n \in Nat, NEW s, Normal(path, n, s),
           path[n + 1] \in Segments \ {Colon}
    PROVE  Normal(path, n + 1, NormalizeSegment(s, path[n + 1]))
<1>. DEFINE seg == path[n + 1]  t == NormalizeSegment(s, seg)
            Type == [ok : BOOLEAN, out : Seq(Names), marks : Seq(Nat)]
<1>1. /\ s \in Type /\ ((s.ok = TRUE) <=> Below(path, n))
      /\ (s.ok = TRUE => Fits(path, n, s.out, s.marks))
  BY DEF Normal
<1>2. s.ok \in BOOLEAN /\ s.out \in Seq(Names) /\ s.marks \in Seq(Nat)
  BY <1>1
<1>3. Below(path, n + 1) <=> Below(path, n) /\ Depth(path, n + 1) >= 0
  BY BelowStep
<1>4. CASE s.ok = FALSE
  <2>1. t = s
    BY <1>1, <1>4, SegmentCases
  <2>2. ~Below(path, n + 1)
    BY <1>1, <1>3, <1>4
  <2>. QED BY <1>1, <1>4, <2>1, <2>2 DEF Normal
<1>5. CASE s.ok = TRUE
  <2>1. Fits(path, n, s.out, s.marks) /\ Below(path, n)
    BY <1>1, <1>5
  <2>2. CASE seg \in {"", "."}
    <3>1. seg \notin Names /\ seg # ".."
      BY <2>2, FileioPathsAssumption
    <3>2. t = s
      BY <1>1, <2>2, SegmentCases
    <3>3. Fits(path, n + 1, s.out, s.marks) /\ Depth(path, n + 1) >= 0
      BY <1>2, <2>1, <3>1, FitsStays
    <3>. QED BY <1>1, <1>3, <1>5, <2>1, <3>2, <3>3 DEF Normal
  <2>3. CASE seg = ".." /\ s.marks = <<>>
    <3>1. t = [ok |-> FALSE, out |-> s.out, marks |-> s.marks]
      BY <1>1, <1>5, <2>3, SegmentCases
    <3>2. ~(Depth(path, n + 1) >= 0)
      BY <1>2, <2>1, <2>3, FitsRefused
    <3>3. t \in Type /\ t.ok = FALSE
      BY <1>2, <3>1
    <3>. QED BY <1>3, <3>2, <3>3 DEF Normal
  <2>4. CASE seg = ".." /\ s.marks # <<>>
    <3>. DEFINE o == SubSeq(s.out, 1, Last(s.marks))  f == Front(s.marks)
    <3>1. t = [ok |-> TRUE, out |-> o, marks |-> f]
      BY <1>1, <1>5, <2>4, SegmentCases
    <3>2. /\ o \in Seq(Names) /\ f \in Seq(Nat) /\ Fits(path, n + 1, o, f)
          /\ Depth(path, n + 1) >= 0
      BY <1>2, <2>1, <2>4, FitsUp
    <3>. HIDE DEF o, f
    <3>3. t \in Type /\ t.ok = TRUE /\ t.out = o /\ t.marks = f
      BY <3>1, <3>2
    <3>. QED BY <1>3, <2>1, <3>2, <3>3 DEF Normal
  <2>5. CASE seg \in Names
    <3>. DEFINE o == Append(s.out, seg)  f == Append(s.marks, Len(s.out))
    <3>1. seg \notin {"", ".", ".."}
      BY <2>5, FileioPathsAssumption
    <3>2. t = [ok |-> TRUE, out |-> o, marks |-> f]
      BY <1>1, <1>5, <3>1, SegmentCases
    <3>3. o \in Seq(Names) /\ f \in Seq(Nat)
      BY <1>2, <2>5, AppendProperties, LenProperties
    <3>4. Fits(path, n + 1, o, f) /\ Depth(path, n + 1) >= 0
      BY <1>2, <2>1, <2>5, FitsDown
    <3>. HIDE DEF o, f
    <3>5. t \in Type /\ t.ok = TRUE /\ t.out = o /\ t.marks = f
      BY <3>2, <3>3
    <3>. QED BY <1>3, <2>1, <3>4, <3>5 DEF Normal
  <2>. QED BY <2>2, <2>3, <2>4, <2>5 DEF Segments
<1>. QED BY <1>2, <1>4, <1>5

\* For every path without a colon, whatever its length, the code accepts it
\* exactly if it never goes up from the mount point, and then its output is
\* what the path means.
LEMMA NormalizedIs ==
    ASSUME NEW path \in Seq(Segments), \A i \in 1 .. Len(path) : path[i] # Colon
    PROVE  /\ Normalized(path) \in [ok : BOOLEAN, out : Seq(Names), marks : Seq(Nat)]
           /\ (Normalized(path).ok = TRUE) <=> Below(path, Len(path))
           /\ Normalized(path).ok = TRUE => Normalized(path).out = Meaning(path)
<1>. DEFINE L == Len(path)  s == Normalized(path)
<1>1. L \in Nat /\ \A i \in 1 .. L : path[i] \in Segments \ {Colon}
  OBVIOUS
<1>2. PICK f : /\ f[0] = Start /\ s = f[L]
               /\ \A n \in 0 .. L - 1 : f[n + 1] = NormalizeSegment(f[n], path[n + 1])
  BY NormalizedRuns
<1>3. Normal(path, 0, Start)
  <2>1. Depth(path, 0) = 0
    BY DepthStep
  <2>2. Start \in [ok : BOOLEAN, out : Seq(Names), marks : Seq(Nat)]
        /\ Start.ok = TRUE /\ Start.out = <<>> /\ Start.marks = <<>>
    BY EmptySeq DEF Start
  <2>3. Below(path, 0)
    BY DEF Below
  <2>4. Fits(path, 0, <<>>, <<>>)
    BY <2>1 DEF Fits
  <2>. QED BY <2>2, <2>3, <2>4 DEF Normal
<1>. DEFINE T == {n \in Nat : n <= L => Normal(path, n, f[n])}
<1>. HIDE DEF L, s
<1>4. 0 \in T
  BY <1>2, <1>3
<1>5. ASSUME NEW n \in Nat, n \in T PROVE n + 1 \in T
  <2>. SUFFICES ASSUME n + 1 <= L PROVE Normal(path, n + 1, f[n + 1])
    OBVIOUS
  <2>1. n <= L /\ n \in 0 .. L - 1 /\ n + 1 \in 1 .. L
    BY <1>1
  <2>2. Normal(path, n, f[n])
    BY <1>5, <2>1
  <2>3. Normal(path, n + 1, NormalizeSegment(f[n], path[n + 1]))
    BY <1>1, <2>1, <2>2, NormalStep
  <2>. QED BY <1>2, <2>1, <2>3
<1>6. L \in T
  <2>. HIDE DEF T
  <2>. QED BY <1>1, <1>4, <1>5, Induction
<1>7. Normal(path, L, s)
  BY <1>1, <1>2, <1>6
<1>8. ASSUME s.ok = TRUE PROVE s.out = Meaning(path)
  <2>1. s.out \in Seq(Names) /\ Fits(path, L, s.out, s.marks)
    BY <1>7, <1>8 DEF Normal
  <2>. DEFINE out == s.out  D == Len(out)
  <2>2. D \in Nat /\ out = [d \in 1 .. D |-> out[d]]
    BY <2>1
  <2>3. D = Depth(path, L)
    BY <2>1 DEF Fits
  <2>4. ASSUME NEW d \in 1 .. D PROVE out[d] = path[Max(Entries(path, L, d))]
    <3>1. PICK e : Latest(path, L, d, e) /\ out[d] = path[e]
      BY <2>1 DEF Fits
    <3>2. Max(Entries(path, L, d)) = e
      BY <1>1, <3>1, LatestIsMax
    <3>. QED BY <3>1, <3>2
  <2>. HIDE DEF out, D
  <2>5. out = [d \in 1 .. D |-> path[Max(Entries(path, L, d))]]
    BY <2>2, <2>4
  <2>. QED BY <2>3, <2>5 DEF Meaning, out, L
<1>. QED BY <1>7, <1>8 DEF Normal, L, s

\* fileio_build_full_path accepts a path exactly if it is valid, and yields the
\* mount point and the meaning of the path, a sequence of names.
THEOREM FullPathIs ==
    ASSUME NEW path \in Seq(Segments), NEW allow_empty \in BOOLEAN
    PROVE  LET full == fileio_build_full_path(path, allow_empty)
           IN  /\ full.ok = Valid(path, allow_empty)
               /\ full.ok => /\ full.path = mount \o Meaning(path)
                             /\ Meaning(path) \in Seq(Names)
<1>. DEFINE s == Normalized(path)
            good == /\ ~Absolute(path) /\ ~Contains(path, Colon)
                    /\ s.ok /\ (allow_empty \/ s.out # <<>>)
            full == fileio_build_full_path(path, allow_empty)
<1>1. full.ok = good /\ full.path = mount \o s.out
  BY DEF fileio_build_full_path, fileio_normalize_relpath
<1>2. CASE Contains(path, Colon)
  <2>1. ~good /\ ~Valid(path, allow_empty)
    BY <1>2, Zenon DEF Contains, Valid
  <2>2. full.ok = FALSE /\ Valid(path, allow_empty) = FALSE
    <3>1. Valid(path, allow_empty) = FALSE
      BY <2>1 DEF Valid
    <3>. QED BY <1>1, <2>1, <3>1, Zenon
  <2>. QED BY <2>2, Zenon
<1>3. CASE ~Contains(path, Colon)
  <2>1. \A i \in 1 .. Len(path) : path[i] # Colon
    BY <1>3, Zenon DEF Contains
  <2>2. /\ s.ok \in BOOLEAN /\ s.out \in Seq(Names)
        /\ (s.ok = TRUE) <=> Below(path, Len(path))
        /\ s.ok = TRUE => s.out = Meaning(path)
    <3>1. /\ s \in [ok : BOOLEAN, out : Seq(Names), marks : Seq(Nat)]
          /\ (s.ok = TRUE) <=> Below(path, Len(path))
          /\ s.ok = TRUE => s.out = Meaning(path)
      BY <2>1, NormalizedIs
    <3>. HIDE DEF s
    <3>2. s.ok \in BOOLEAN /\ s.out \in Seq(Names)
      BY <3>1
    <3>. QED BY <3>1, <3>2
  <2>. DEFINE a == s.ok = TRUE  b == Below(path, Len(path))
  <2>3. Valid(path, allow_empty) =
          (~Absolute(path) /\ b /\ (allow_empty \/ Meaning(path) # <<>>))
    BY <2>1, Zenon DEF Valid, Below
  <2>4. good = (~Absolute(path) /\ s.ok = TRUE /\ (allow_empty \/ s.out # <<>>))
    <3>1. s.ok <=> s.ok = TRUE
      BY <2>2, Zenon
    <3>. QED BY <1>3, <3>1, Zenon
  <2>5. good = Valid(path, allow_empty)
    BY <2>2, <2>3, <2>4, Zenon
  <2>6. good => s.ok = TRUE
    BY <2>4, Zenon
  <2>7. good => s.out = Meaning(path) /\ Meaning(path) \in Seq(Names)
    BY <2>2, <2>6
  <2>. HIDE DEF good, s
  <2>8. full.ok = Valid(path, allow_empty)
    BY <1>1, <2>5, Zenon
  <2>9. full.ok => full.path = mount \o Meaning(path) /\ Meaning(path) \in Seq(Names)
    BY <1>1, <2>7, Zenon
  <2>. QED BY <2>8, <2>9, Zenon
<1>. QED BY <1>2, <1>3

\* fileio_build_full_path (62-125) is right for every path of any length: it
\* accepts the paths that stay below the mount point at every segment, and
\* yields where they lead.
THEOREM NormalizeCorrectAlways == Spec => []NormalizeCorrect
<1>1. NormalizeCorrect
  <2>. SUFFICES ASSUME NEW path \in BoundedSeq(Segments, MaxSegments),
                       NEW allow_empty \in BOOLEAN
                PROVE  LET full == fileio_build_full_path(path, allow_empty)
                       IN  /\ full.ok = Valid(path, allow_empty)
                           /\ full.ok => full.path = mount \o Meaning(path)
    BY DEF NormalizeCorrect
  <2>1. path \in Seq(Segments)
    <3>1. PICK m \in 0 .. MaxSegments : path \in [1 .. m -> Segments]
      BY DEF BoundedSeq, SeqOf
    <3>2. MaxSegments \in Nat
      BY FileioPathsAssumption, Zenon
    <3>3. m \in Nat
      BY ONLY <3>2, m \in 0 .. MaxSegments
    <3>. QED BY ONLY <3>1, <3>3, path \in [1 .. m -> Segments]
  <2>. QED BY <2>1, FullPathIs, Zenon
<1>. QED BY <1>1, PTL

-----------------------------------------------------------------------------
(* Prefixes.                                                               *)

\* The prefixes of a path, and the directory it is in.
LEMMA PrefixOf ==
    ASSUME NEW q \in Seq(Names), NEW k \in 0 .. Len(q)
    PROVE  /\ SubSeq(q, 1, k) \in Seq(Names) /\ Len(SubSeq(q, 1, k)) = k
           /\ \A j \in 1 .. k : SubSeq(q, 1, k)[j] = q[j]
           /\ IsPrefix(SubSeq(q, 1, k), q)
           /\ k < Len(q) => IsStrictPrefix(SubSeq(q, 1, k), q)
<1>. DEFINE p == SubSeq(q, 1, k)
<1>1. Len(q) \in Nat /\ k \in Nat /\ k <= Len(q) /\ \A i \in 1 .. k : q[i] \in Names
  OBVIOUS
<1>2. /\ p \in Seq(Names) /\ Len(p) = k /\ \A j \in 1 .. k : p[j] = q[j]
  BY <1>1, SubSeqProperties
<1>3. SubSeq(p, 1, k) = p
  <2>. HIDE DEF p
  <2>. QED BY <1>2, SubSeqFull
<1>4. IsPrefix(p, q)
  BY <1>1, <1>2, <1>3 DEF IsPrefix
<1>5. k < Len(q) => p # q
  BY <1>2
<1>. QED BY <1>2, <1>4, <1>5 DEF IsStrictPrefix

\* A strict prefix is one of these.
LEMMA PrefixIs ==
    ASSUME NEW p \in Seq(Names), NEW q \in Seq(Names), p # <<>>, IsStrictPrefix(p, q)
    PROVE  \E k \in 1 .. Len(q) - 1 : p = SubSeq(q, 1, k)
<1>. DEFINE k == Len(p)
<1>1. k \in Nat \ {0} /\ Len(q) \in Nat
  BY EmptySeq
<1>2. SubSeq(p, 1, k) = p /\ SubSeq(q, 1, Len(q)) = q
  BY SubSeqFull
<1>3. k <= Len(q) /\ p = SubSeq(q, 1, k) /\ p # q
  BY <1>2 DEF IsStrictPrefix, IsPrefix
<1>. HIDE DEF k
<1>4. k # Len(q)
  BY <1>2, <1>3
<1>5. k \in 1 .. Len(q) - 1
  BY <1>1, <1>3, <1>4
<1>. QED BY <1>3, <1>5

\* A prefix of a prefix.
LEMMA PrefixTwice ==
    ASSUME NEW q \in Seq(Names), NEW k \in 0 .. Len(q), NEW j \in 0 .. k
    PROVE  SubSeq(SubSeq(q, 1, k), 1, j) = SubSeq(q, 1, j)
<1>. DEFINE p == SubSeq(q, 1, k)  a == SubSeq(p, 1, j)  b == SubSeq(q, 1, j)
<1>1. j \in 0 .. Len(q) /\ k \in Nat /\ j \in Nat
  OBVIOUS
<1>2. p \in Seq(Names) /\ Len(p) = k /\ \A i \in 1 .. k : p[i] = q[i]
  BY PrefixOf
<1>3. b \in Seq(Names) /\ Len(b) = j /\ \A i \in 1 .. j : b[i] = q[i]
  BY <1>1, PrefixOf
<1>. HIDE DEF p
<1>4. a \in Seq(Names) /\ Len(a) = j /\ \A i \in 1 .. j : a[i] = p[i]
  BY <1>1, <1>2, PrefixOf
<1>. HIDE DEF a, b
<1>5. \A i \in 1 .. j : a[i] = b[i]
  BY <1>1, <1>2, <1>3, <1>4
<1>6. a = b
  BY <1>3, <1>4, <1>5, SeqEqual
<1>. QED BY <1>6 DEF a, b, p

\* A prefix of a path below m is one of m, or is itself below m.
LEMMA PrefixSplit ==
    ASSUME NEW m \in Seq(Names), NEW r \in Seq(Names), NEW j \in 1 .. Len(m \o r)
    PROVE  \/ IsStrictPrefix(m, SubSeq(m \o r, 1, j))
           \/ IsPrefix(SubSeq(m \o r, 1, j), m) /\ j <= Len(m)
<1>. DEFINE q == m \o r  p == SubSeq(q, 1, j)
<1>1. /\ q \in Seq(Names) /\ Len(q) = Len(m) + Len(r) /\ Len(m) \in Nat /\ Len(r) \in Nat
      /\ \A i \in 1 .. Len(m) : q[i] = m[i]
  BY ConcatProperties
<1>. HIDE DEF q
<1>2. j \in Nat /\ j <= Len(q) /\ j \in 0 .. Len(q)
  BY <1>1 DEF q
<1>3. p \in Seq(Names) /\ Len(p) = j /\ \A i \in 1 .. j : p[i] = q[i]
  BY <1>1, <1>2, PrefixOf
<1>. HIDE DEF p
<1>4. CASE j <= Len(m)
  <2>. DEFINE a == SubSeq(m, 1, j)
  <2>1. j \in 0 .. Len(m)
    BY <1>1, <1>2, <1>4
  <2>2. a \in Seq(Names) /\ Len(a) = j /\ (\A i \in 1 .. j : a[i] = m[i]) /\ IsPrefix(a, m)
    BY <2>1, PrefixOf
  <2>. HIDE DEF a
  <2>3. \A i \in 1 .. j : p[i] = a[i]
    BY <1>1, <1>2, <1>3, <1>4, <2>2
  <2>4. p = a
    BY <1>3, <2>2, <2>3, SeqEqual
  <2>. QED BY <1>4, <2>2, <2>4 DEF p, q
<1>5. CASE ~(j <= Len(m))
  <2>. DEFINE l == Len(m)  a == SubSeq(p, 1, l)
  <2>1. l \in 0 .. Len(p) /\ l < Len(p)
    BY <1>1, <1>2, <1>3, <1>5
  <2>2. /\ a \in Seq(Names) /\ Len(a) = l /\ (\A i \in 1 .. l : a[i] = p[i])
        /\ IsStrictPrefix(a, p)
    BY <1>3, <2>1, PrefixOf
  <2>. HIDE DEF a
  <2>3. \A i \in 1 .. l : a[i] = m[i]
    BY <1>1, <1>2, <1>3, <2>1, <2>2
  <2>4. a = m
    BY <2>2, <2>3, SeqEqual
  <2>. QED BY <2>2, <2>4 DEF p, q
<1>. QED BY <1>4, <1>5

-----------------------------------------------------------------------------
(* What the system makes of a path without "..".                           *)

\* The definition of "at" in Resolve.
Walk(p, f) == [n \in 0 .. Len(p) |-> IF n = 0 THEN <<>> ELSE Follow(f[n - 1], p[n])]

\* One name more.
LEMMA PrefixNext ==
    ASSUME NEW p \in Seq(Names), NEW n \in 0 .. Len(p) - 1
    PROVE  Follow(SubSeq(p, 1, n), p[n + 1]) = SubSeq(p, 1, n + 1)
<1>. DEFINE a == SubSeq(p, 1, n)  b == SubSeq(p, 1, n + 1)  c == Append(a, p[n + 1])
<1>1. n \in 0 .. Len(p) /\ n + 1 \in 0 .. Len(p) /\ n + 1 \in 1 .. Len(p) /\ n \in Nat
  OBVIOUS
<1>2. p[n + 1] \in Names
  BY <1>1, ElementOfSeq
<1>3. a \in Seq(Names) /\ Len(a) = n /\ \A i \in 1 .. n : a[i] = p[i]
  BY <1>1, PrefixOf
<1>4. b \in Seq(Names) /\ Len(b) = n + 1 /\ \A i \in 1 .. n + 1 : b[i] = p[i]
  BY <1>1, PrefixOf
<1>. HIDE DEF a, b
<1>5. /\ c \in Seq(Names) /\ Len(c) = n + 1 /\ c[n + 1] = p[n + 1]
      /\ \A i \in 1 .. n : c[i] = a[i]
  BY <1>1, <1>2, <1>3, AppendProperties
<1>. HIDE DEF c
<1>6. \A i \in 1 .. n + 1 : c[i] = b[i]
  <2>1. \A i \in 1 .. n + 1 : i \in 1 .. n \/ i = n + 1
    BY <1>1
  <2>. QED BY <1>3, <1>4, <1>5, <2>1
<1>7. c = b
  BY <1>4, <1>5, <1>6, SeqEqual
<1>8. p[n + 1] # ".."
  BY <1>2, FileioPathsAssumption
<1>. QED BY <1>7, <1>8 DEF Follow, a, b, c

\* A path of names is where it says.
LEMMA ResolveIs ==
    ASSUME NEW p \in Seq(Names)
    PROVE  Resolve(p) = p
<1>. DEFINE L == Len(p)  g == [n \in 0 .. L |-> SubSeq(p, 1, n)]
            h == CHOOSE x : x = Walk(p, x)
<1>1. L \in Nat /\ SubSeq(p, 1, L) = p /\ SubSeq(p, 1, 0) = <<>>
  BY SubSeqFull, SubSeqEmpty
<1>2. ASSUME NEW n \in 0 .. L
      PROVE  g[n] = IF n = 0 THEN <<>> ELSE Follow(g[n - 1], p[n])
  <2>1. CASE n = 0
    BY <1>1, <2>1
  <2>2. CASE n # 0
    <3>. DEFINE m == n - 1
    <3>1. m \in 0 .. L - 1 /\ m \in 0 .. L /\ m + 1 = n
      BY <1>1, <2>2
    <3>2. Follow(SubSeq(p, 1, m), p[m + 1]) = SubSeq(p, 1, m + 1)
      <4>. HIDE DEF m
      <4>. QED BY <3>1, PrefixNext
    <3>3. g[m] = SubSeq(p, 1, m) /\ g[n] = SubSeq(p, 1, n)
      BY <3>1
    <3>. QED BY <2>2, <3>1, <3>2, <3>3
  <2>. QED BY <2>1, <2>2
<1>3. g = [n \in 0 .. L |-> g[n]] /\ \A n \in 0 .. L : g[n] = SubSeq(p, 1, n)
  OBVIOUS
<1>. HIDE DEF g
<1>4. g = Walk(p, g)
  BY <1>2, <1>3 DEF Walk
<1>5. h = Walk(p, h)
  BY <1>4
<1>6. Resolve(p) = h[L]
  BY DEF Resolve, Walk
<1>. HIDE DEF h, L
<1>7. \A n \in 0 .. L : h[n] = IF n = 0 THEN <<>> ELSE Follow(h[n - 1], p[n])
  <2>. DEFINE w == Walk(p, h)
  <2>1. \A n \in 0 .. L : w[n] = IF n = 0 THEN <<>> ELSE Follow(h[n - 1], p[n])
    BY DEF Walk, L
  <2>. HIDE DEF w
  <2>2. h = w
    BY <1>5 DEF w
  <2>. QED BY <2>1, <2>2
<1>. DEFINE T == {n \in Nat : n <= L => h[n] = g[n]}
<1>8. 0 \in T
  BY <1>1, <1>2, <1>7
<1>9. ASSUME NEW n \in Nat, n \in T PROVE n + 1 \in T
  <2>. SUFFICES ASSUME n + 1 <= L PROVE h[n + 1] = g[n + 1]
    OBVIOUS
  <2>1. n <= L /\ n + 1 \in 0 .. L /\ n + 1 # 0 /\ (n + 1) - 1 = n
    BY <1>1
  <2>2. h[n] = g[n]
    BY <1>9, <2>1
  <2>. QED BY <1>2, <1>7, <2>1, <2>2
<1>10. L \in T
  <2>. HIDE DEF T
  <2>. QED BY <1>1, <1>8, <1>9, Induction
<1>11. h[L] = g[L] /\ g[L] = SubSeq(p, 1, L)
  BY <1>1, <1>3, <1>10
<1>. QED BY <1>1, <1>6, <1>11

-----------------------------------------------------------------------------
(* The tree.                                                               *)

\* Everything in the tree is a path of names, in a directory.
Tidy(t) ==
    \A q \in DOMAIN t :
        /\ q \in Seq(Names) /\ q # <<>>
        /\ \A k \in 1 .. Len(q) - 1 : Holds(t, SubSeq(q, 1, k), DIR)

\* The tree u is t with some directories made.
Grown(t, u, made) ==
    /\ DOMAIN t \subseteq DOMAIN u /\ \A q \in DOMAIN t : u[q] = t[q]
    /\ \A q \in DOMAIN u : q \notin DOMAIN t => q \in made /\ u[q] = DIR

\* Without takes one path out.
LEMMA WithoutIs ==
    ASSUME NEW t, NEW p
    PROVE  /\ DOMAIN Without(t, p) = DOMAIN t \ {p}
           /\ \A q \in DOMAIN t : q # p => Without(t, p)[q] = t[q]
  BY DEF Without

\* Nothing is below what is not a directory.
LEMMA NothingBelow ==
    ASSUME NEW t, Tidy(t), NEW p \in Seq(Names), p # <<>>, ~Holds(t, p, DIR)
    PROVE  Within(t, p) = {}
<1>. SUFFICES ASSUME NEW q \in DOMAIN t, IsStrictPrefix(p, q) PROVE FALSE
  BY DEF Within
<1>1. q \in Seq(Names) /\ \A k \in 1 .. Len(q) - 1 : Holds(t, SubSeq(q, 1, k), DIR)
  BY DEF Tidy
<1>2. PICK k \in 1 .. Len(q) - 1 : p = SubSeq(q, 1, k)
  BY <1>1, PrefixIs
<1>. QED BY <1>1, <1>2

\* Something new in a directory, or in place of a file, leaves the tree tidy.
LEMMA TidyWith ==
    ASSUME NEW t, Tidy(t), NEW p \in Seq(Names), p # <<>>, NEW content,
           IsDir(t, Front(p)), ~Holds(t, p, DIR)
    PROVE  Tidy(With(t, p, content))
<1>. DEFINE u == With(t, p, content)  L == Len(p)
<1>1. DOMAIN u = DOMAIN t \cup {p} /\ \A q \in DOMAIN t : q # p => u[q] = t[q]
  BY DEF With
<1>. HIDE DEF u
<1>2. \A q : Holds(t, q, DIR) => Holds(u, q, DIR)
  BY <1>1 DEF Holds
<1>3. L \in Nat \ {0}
  BY EmptySeq
<1>4. ASSUME NEW k \in 1 .. L - 1 PROVE Holds(t, SubSeq(p, 1, k), DIR)
  <2>. DEFINE f == SubSeq(p, 1, L - 1)
  <2>a. L = Len(p)
    OBVIOUS
  <2>. HIDE DEF L
  <2>0. L - 1 \in 0 .. Len(p) /\ k \in 0 .. L - 1 /\ L - 1 # 0
    BY ONLY <1>3, <2>a, k \in 1 .. L - 1
  <2>1. f \in Seq(Names) /\ Len(f) = L - 1
    BY <2>0, PrefixOf
  <2>2. SubSeq(f, 1, k) = SubSeq(p, 1, k)
    BY <2>0, PrefixTwice
  <2>3. Front(p) = f
    BY DEF Front, L
  <2>. HIDE DEF f
  <2>4. f # <<>>
    <3>1. Len(<<>>) = 0
      BY EmptySeq
    <3>. QED BY <2>0, <2>1, <3>1
  <2>5. Holds(t, f, DIR)
    BY <2>3, <2>4 DEF IsDir
  <2>6. CASE k = L - 1
    BY <2>5, <2>6 DEF f
  <2>7. CASE k # L - 1
    <3>1. k \in 1 .. Len(f) - 1
      BY <1>3, <2>1, <2>7
    <3>2. f \in DOMAIN t
      BY <2>5 DEF Holds
    <3>. QED BY <2>2, <3>1, <3>2 DEF Tidy
  <2>. QED BY <2>6, <2>7
<1>5. ASSUME NEW q \in DOMAIN u
      PROVE  /\ q \in Seq(Names) /\ q # <<>>
             /\ \A k \in 1 .. Len(q) - 1 : Holds(u, SubSeq(q, 1, k), DIR)
  <2>1. CASE q = p
    BY <1>2, <1>4, <2>1
  <2>2. CASE q # p
    <3>1. q \in DOMAIN t
      BY <1>1, <2>2
    <3>. QED BY <1>2, <3>1 DEF Tidy
  <2>. QED BY <2>1, <2>2
<1>. QED BY <1>5 DEF Tidy, u

\* What has nothing below can be taken out.
LEMMA TidyWithout ==
    ASSUME NEW t, Tidy(t), NEW p, Within(t, p) = {}
    PROVE  Tidy(Without(t, p))
<1>. DEFINE u == Without(t, p)
<1>1. DOMAIN u = DOMAIN t \ {p} /\ \A q \in DOMAIN t : q # p => u[q] = t[q]
  BY WithoutIs, Zenon
<1>. HIDE DEF u
<1>2. ASSUME NEW q \in DOMAIN u
      PROVE  /\ q \in Seq(Names) /\ q # <<>>
             /\ \A k \in 1 .. Len(q) - 1 : Holds(u, SubSeq(q, 1, k), DIR)
  <2>1. /\ q \in DOMAIN t /\ q \in Seq(Names) /\ q # <<>>
        /\ \A k \in 1 .. Len(q) - 1 : Holds(t, SubSeq(q, 1, k), DIR)
    BY <1>1 DEF Tidy
  <2>2. ASSUME NEW k \in 1 .. Len(q) - 1 PROVE Holds(u, SubSeq(q, 1, k), DIR)
    <3>1. k \in 0 .. Len(q) /\ k < Len(q)
      BY <2>1
    <3>2. IsStrictPrefix(SubSeq(q, 1, k), q)
      BY <2>1, <3>1, PrefixOf
    <3>3. SubSeq(q, 1, k) # p
      BY <2>1, <3>2 DEF Within
    <3>4. Holds(t, SubSeq(q, 1, k), DIR)
      BY <2>1
    <3>. QED BY <1>1, <3>3, <3>4 DEF Holds
  <2>. QED BY <2>1, <2>2
<1>. QED BY <1>2 DEF Tidy, u

\* The result r, an answer and a tree, of making the directories dirs in from.
Makes(r, ok, t, from, dirs) ==
    /\ r = [ok |-> ok, tree |-> t] /\ Tidy(t) /\ Grown(from, t, dirs)
    /\ ok => dirs \subseteq DOMAIN t

\* What mkdir answers and leaves.
LEMMA MkdirIs ==
    ASSUME NEW ok \in BOOLEAN, NEW t, Tidy(t), NEW p \in Seq(Names), p # <<>>, NEW broken
    PROVE  \E ok1 \in BOOLEAN : \E t1 :
             /\ Makes(mkdir([ok |-> ok, tree |-> t], p, broken), ok1, t1, t, {p})
             /\ ok1 => ok
<1>. DEFINE s == [ok |-> ok, tree |-> t]  r == mkdir(s, p, broken)
<1>1. s.ok = ok /\ s.tree = t
  OBVIOUS
<1>2. Grown(t, t, {p})
  BY DEF Grown
<1>3. CASE ~ok \/ p \in DOMAIN t
  <2>1. r = s
    BY <1>1, <1>3, Zenon DEF mkdir
  <2>2. ok => {p} \subseteq DOMAIN t
    BY <1>3
  <2>3. Makes(r, ok, t, t, {p}) /\ (ok => ok)
    BY <1>2, <2>1, <2>2, Zenon DEF Makes
  <2>. QED BY <2>3, Zenon
<1>4. CASE ok /\ p \notin DOMAIN t /\ (p = broken \/ ~IsDir(t, Front(p)))
  <2>1. r = [s EXCEPT !.ok = FALSE]
    BY <1>1, <1>4, Zenon DEF mkdir
  <2>2. r = [ok |-> FALSE, tree |-> t]
    BY <2>1
  <2>3. Makes(r, FALSE, t, t, {p}) /\ (FALSE => ok)
    BY <1>2, <2>2, Zenon DEF Makes
  <2>4. FALSE \in BOOLEAN
    OBVIOUS
  <2>. QED BY <2>3, <2>4, Zenon
<1>5. CASE ok /\ p \notin DOMAIN t /\ ~(p = broken \/ ~IsDir(t, Front(p)))
  <2>. DEFINE u == With(t, p, DIR)
  <2>1. r = [s EXCEPT !.tree = With(s.tree, p, DIR)]
    BY <1>1, <1>5, Zenon DEF mkdir
  <2>2. r = [ok |-> ok, tree |-> u]
    BY <2>1
  <2>3. Tidy(u)
    BY <1>5, TidyWith DEF Holds
  <2>4. {p} \subseteq DOMAIN u
    BY DEF With
  <2>5. Grown(t, u, {p})
    BY <1>5 DEF Grown, With
  <2>. HIDE DEF u
  <2>6. Makes(r, ok, u, t, {p}) /\ (ok => ok)
    BY <2>2, <2>3, <2>4, <2>5, Zenon DEF Makes
  <2>. QED BY <2>6, Zenon
<1>. QED BY <1>3, <1>4, <1>5, Zenon

\* The definition of "made" in MakeAbove, for the first n directories.
Making(full, broken, n, f) ==
    [k \in 0 .. n |-> IF k = 0 THEN Started
                      ELSE mkdir(f[k - 1], Resolve(SubSeq(full, 1, k)), broken)]

\* The recursion over the directories defines a function.
LEMMA MakingExists ==
    ASSUME NEW full, NEW broken, NEW n \in Nat
    PROVE  \E f : f = Making(full, broken, n, f)
<1>. DEFINE Dir(k) == Resolve(SubSeq(full, 1, k))
            T == {k \in Nat : \E f : f = Making(full, broken, k, f)}
<1>1. 0 \in T
  <2>. DEFINE f == [k \in 0 .. 0 |-> Started]
  <2>1. f = Making(full, broken, 0, f)
    BY DEF Making
  <2>. QED BY <2>1
<1>2. ASSUME NEW m \in Nat, m \in T PROVE m + 1 \in T
  <2>1. PICK f : f = Making(full, broken, m, f)
    BY <1>2
  <2>. DEFINE g == [k \in 0 .. m + 1 |-> IF k = m + 1 THEN mkdir(f[m], Dir(m + 1), broken)
                                        ELSE f[k]]
  <2>2. \A k \in 0 .. m : f[k] = IF k = 0 THEN Started ELSE mkdir(f[k - 1], Dir(k), broken)
    <3>. DEFINE r == Making(full, broken, m, f)
    <3>1. \A k \in 0 .. m : r[k] = IF k = 0 THEN Started ELSE mkdir(f[k - 1], Dir(k), broken)
      BY DEF Making
    <3>. HIDE DEF r, Dir
    <3>2. f = r
      BY <2>1 DEF r
    <3>. QED BY <3>1, <3>2
  <2>. HIDE DEF Dir
  <2>3. ASSUME NEW k \in 0 .. m + 1
        PROVE  g[k] = IF k = 0 THEN Started ELSE mkdir(g[k - 1], Dir(k), broken)
    <3>1. CASE k = m + 1
      <4>1. k # 0 /\ k - 1 = m /\ m \in 0 .. m + 1 /\ m # m + 1
        BY <3>1
      <4>2. g[k] = mkdir(f[m], Dir(m + 1), broken) /\ g[m] = f[m]
        BY <3>1, <4>1
      <4>. QED BY <3>1, <4>1, <4>2
    <3>2. CASE k # m + 1
      <4>1. k \in 0 .. m /\ (k # 0 => k - 1 \in 0 .. m + 1 /\ k - 1 # m + 1)
        BY <3>2
      <4>2. g[k] = f[k] /\ (k # 0 => g[k - 1] = f[k - 1])
        BY <3>2, <4>1
      <4>. QED BY <2>2, <4>1, <4>2
    <3>. QED BY <3>1, <3>2
  <2>4. g = [k \in 0 .. m + 1 |-> g[k]]
    OBVIOUS
  <2>. HIDE DEF g
  <2>5. g = Making(full, broken, m + 1, g)
    BY <2>3, <2>4 DEF Making, Dir
  <2>. QED BY <2>5
<1>3. n \in T
  <2>. HIDE DEF T
  <2>. QED BY <1>1, <1>2, Induction
<1>. QED BY <1>3

\* Growing twice.
LEMMA GrownTwice ==
    ASSUME NEW t, NEW u, NEW v, NEW A, NEW B, Grown(t, u, A), Grown(u, v, B)
    PROVE  Grown(t, v, A \cup B)
  BY DEF Grown

\* The directories above a path.
Above(full) == {SubSeq(full, 1, k) : k \in 1 .. Len(full) - 1}

\* MakeAbove leaves a tidy tree to which only directories above the path have
\* been added; if it answers well they are all there.
LEMMA MakeAboveIs ==
    ASSUME Tidy(tree), NEW full \in Seq(Names), full # <<>>, NEW broken
    PROVE  \E ok \in BOOLEAN : \E t : Makes(MakeAbove(full, broken), ok, t, tree, Above(full))
<1>. DEFINE L == Len(full) - 1
            h == CHOOSE x : x = Making(full, broken, L, x)
            Dir(k) == SubSeq(full, 1, k)
            Dirs(n) == {Dir(k) : k \in 1 .. n}
            Good(n) == \E ok \in BOOLEAN : \E t : Makes(h[n], ok, t, tree, Dirs(n))
<1>1. L \in Nat /\ L + 1 = Len(full)
  BY EmptySeq
<1>2. ASSUME NEW k \in 1 .. L
      PROVE  Dir(k) \in Seq(Names) /\ Dir(k) # <<>> /\ Resolve(Dir(k)) = Dir(k)
  <2>1. k \in 0 .. Len(full) /\ k # 0
    BY <1>1
  <2>2. Dir(k) \in Seq(Names) /\ Len(Dir(k)) = k
    BY <2>1, PrefixOf
  <2>. HIDE DEF Dir
  <2>3. Dir(k) # <<>>
    <3>1. Len(<<>>) = 0
      BY EmptySeq
    <3>. QED BY <2>1, <2>2, <3>1
  <2>. QED BY <2>2, <2>3, ResolveIs
<1>3. MakeAbove(full, broken) = h[L]
  BY DEF MakeAbove, Making
<1>. HIDE DEF L
<1>4. h = Making(full, broken, L, h)
  BY <1>1, MakingExists
<1>. HIDE DEF h
<1>5. \A k \in 0 .. L : h[k] = IF k = 0 THEN Started ELSE mkdir(h[k - 1], Resolve(Dir(k)), broken)
  <2>. DEFINE r == Making(full, broken, L, h)
  <2>1. \A k \in 0 .. L : r[k] = IF k = 0 THEN Started ELSE mkdir(h[k - 1], Resolve(Dir(k)), broken)
    BY DEF Making
  <2>. HIDE DEF r, Dir
  <2>2. h = r
    BY <1>4 DEF r
  <2>. QED BY <2>1, <2>2
<1>. HIDE DEF Dir
<1>6. Good(0)
  <2>1. 0 \in 0 .. L
    BY <1>1
  <2>2. h[0] = [ok |-> TRUE, tree |-> tree]
    BY <1>5, <2>1, Zenon DEF Started
  <2>3. Dirs(0) = {}
    OBVIOUS
  <2>4. Grown(tree, tree, Dirs(0))
    BY DEF Grown
  <2>. HIDE DEF Dirs
  <2>5. Dirs(0) \subseteq DOMAIN tree
    BY <2>3
  <2>6. Makes(h[0], TRUE, tree, tree, Dirs(0)) /\ TRUE \in BOOLEAN
    BY <2>2, <2>4, <2>5, Zenon DEF Makes
  <2>. QED BY <2>6, Zenon
<1>7. ASSUME NEW n \in 0 .. L - 1, Good(n) PROVE Good(n + 1)
  <2>1. n + 1 \in 0 .. L /\ n + 1 \in 1 .. L /\ n + 1 # 0 /\ (n + 1) - 1 = n /\ n \in Nat
    BY <1>1
  <2>2. Dirs(n + 1) = Dirs(n) \cup {Dir(n + 1)}
    <3>1. 1 .. n + 1 = (1 .. n) \cup {n + 1}
      BY <2>1
    <3>. QED BY <3>1
  <2>a. PICK ok \in BOOLEAN : \E t : Makes(h[n], ok, t, tree, Dirs(n))
    BY <1>7, Zenon
  <2>b. PICK t : Makes(h[n], ok, t, tree, Dirs(n))
    BY <2>a, Zenon
  <2>. HIDE DEF Dirs
  <2>3. /\ h[n] = [ok |-> ok, tree |-> t] /\ Tidy(t) /\ Grown(tree, t, Dirs(n))
        /\ ok => Dirs(n) \subseteq DOMAIN t
    BY <2>b, Zenon DEF Makes
  <2>. DEFINE r == mkdir([ok |-> ok, tree |-> t], Dir(n + 1), broken)
  <2>c. PICK ok1 \in BOOLEAN : \E t1 : Makes(r, ok1, t1, t, {Dir(n + 1)}) /\ (ok1 => ok)
    <3>1. Dir(n + 1) \in Seq(Names) /\ Dir(n + 1) # <<>>
      BY <1>2, <2>1
    <3>. QED BY <2>3, <3>1, MkdirIs, Zenon
  <2>d. PICK t1 : Makes(r, ok1, t1, t, {Dir(n + 1)}) /\ (ok1 => ok)
    BY <2>c, Zenon
  <2>4. /\ r = [ok |-> ok1, tree |-> t1] /\ Tidy(t1) /\ Grown(t, t1, {Dir(n + 1)})
        /\ ok1 => ok /\ {Dir(n + 1)} \subseteq DOMAIN t1
    BY <2>d, Zenon DEF Makes
  <2>5. h[n + 1] = [ok |-> ok1, tree |-> t1]
    <3>1. h[n + 1] = mkdir(h[n], Resolve(Dir(n + 1)), broken)
      BY <1>5, <2>1
    <3>2. Resolve(Dir(n + 1)) = Dir(n + 1)
      BY <1>2, <2>1
    <3>. QED BY <2>3, <2>4, <3>1, <3>2
  <2>6. Grown(tree, t1, Dirs(n + 1))
    BY <2>2, <2>3, <2>4, GrownTwice
  <2>7. ok1 => Dirs(n + 1) \subseteq DOMAIN t1
    BY <2>2, <2>3, <2>4 DEF Grown
  <2>8. Makes(h[n + 1], ok1, t1, tree, Dirs(n + 1))
    BY <2>4, <2>5, <2>6, <2>7, Zenon DEF Makes
  <2>. QED BY <2>8, Zenon
<1>. HIDE DEF Good
<1>. DEFINE T == {n \in Nat : n <= L => Good(n)}
<1>8. 0 \in T
  BY <1>6
<1>9. ASSUME NEW n \in Nat, n \in T PROVE n + 1 \in T
  <2>1. n + 1 <= L => n \in 0 .. L - 1 /\ n <= L
    BY <1>1
  <2>. QED BY <1>7, <1>9, <2>1
<1>10. L \in T
  <2>. HIDE DEF T
  <2>. QED BY <1>1, <1>8, <1>9, Induction
<1>11. Good(L)
  BY <1>1, <1>10
<1>12. Dirs(L) = Above(full)
  BY DEF Above, Dir, L
<1>. HIDE DEF Dirs
<1>. QED BY <1>3, <1>11, <1>12 DEF Good

-----------------------------------------------------------------------------
(* The invariant.                                                          *)

\* Every kept file holds what was written.
Keeps(k, t) == \A p \in DOMAIN k : Holds(t, p, k[p])

\* What the answer r says is so of the files kept and of the tree.
Answered(r, k, t) ==
    r.ok =>
      /\ r.valid
      /\ r.call = "write" => Holds(k, r.path, r.value) \/ Holds(k, r.path, UNKNOWN)
      /\ r.call = "read" => Holds(t, r.path, r.value)
      /\ r.call = "exists" => r.path \in DOMAIN t
      /\ r.call \in {"rmfile", "rmdir"} => r.path \notin DOMAIN t /\ Within(t, r.path) = {}

IInv ==
    /\ initialized \in BOOLEAN /\ (initialized => mount \in Mounts)
    /\ Tidy(tree) /\ Keeps(kept, tree) /\ Answered(ret, kept, tree)

\* FilesFaithful is the last two parts.
LEMMA FaithfulIs == FilesFaithful <=> Keeps(kept, tree) /\ Answered(ret, kept, tree)
  BY Zenon DEF FilesFaithful, Keeps, Answered

\* An answer of failure says nothing.
LEMMA AnsweredNo ==
    ASSUME NEW c, NEW v, NEW p, NEW w, NEW k, NEW t
    PROVE  Answered([call |-> c, ok |-> FALSE, value |-> v, path |-> p, valid |-> w], k, t)
  BY DEF Answered

\* Files are kept when the tree grows.
LEMMA KeepsGrown ==
    ASSUME NEW k, NEW t, NEW u, NEW A, Keeps(k, t), Grown(t, u, A)
    PROVE  Keeps(k, u)
  BY DEF Keeps, Grown, Holds

\* A write that returned 0 replaces what was kept at its path.
LEMMA KeepsWrite ==
    ASSUME NEW k, NEW t, NEW p, NEW c, Keeps(k, t)
    PROVE  Keeps(With(k, p, c), With(t, p, c)) /\ Holds(With(k, p, c), p, c)
  BY DEF Keeps, Holds, With

\* After a write that failed the path is no longer kept.
LEMMA KeepsFailed ==
    ASSUME NEW k, NEW t, NEW p, NEW c, Keeps(k, t)
    PROVE  Keeps(Without(k, p), With(t, p, c))
  BY DEF Keeps, Holds, With, Without

\* Nor after it was removed.
LEMMA KeepsRemoved ==
    ASSUME NEW k, NEW t, NEW p, Keeps(k, t)
    PROVE  Keeps(Without(k, p), Without(t, p))
  BY DEF Keeps, Holds, Without

\* The place of an accepted path is where its meaning says, below the mount
\* point, and the system finds it there.
LEMMA Accepted ==
    ASSUME IInv, NEW path \in Paths, NEW allow_empty \in BOOLEAN, Accepts(path, allow_empty)
    PROVE  /\ initialized /\ Valid(path, allow_empty)
           /\ mount \in Seq(Names) /\ Meaning(path) \in Seq(Names)
           /\ Full(path) = mount \o Meaning(path)
           /\ mount \o Meaning(path) \in Seq(Names) /\ mount \o Meaning(path) # <<>>
           /\ Resolve(mount \o Meaning(path)) = mount \o Meaning(path)
           /\ ~allow_empty => Meaning(path) # <<>>
<1>. DEFINE full == fileio_build_full_path(path, allow_empty)  m == Meaning(path)
<1>1. path \in Seq(Segments)
  BY FileioPathsAssumption
<1>2. initialized /\ full.ok
  BY DEF Accepts
<1>3. mount \in Mounts
  BY <1>2 DEF IInv
<1>4. mount \in Seq(Names) /\ mount # <<>>
  BY <1>3, FileioPathsAssumption
<1>5. /\ full.ok = Valid(path, allow_empty)
      /\ full.ok => full.path = mount \o m /\ m \in Seq(Names)
  BY <1>1, FullPathIs, Zenon
<1>6. Valid(path, allow_empty) /\ full.path = mount \o m /\ m \in Seq(Names)
  BY <1>2, <1>5, Zenon
<1>7. full.path = Full(path)
  BY DEF Full, fileio_build_full_path, fileio_normalize_relpath
<1>. HIDE DEF m, full
<1>8. mount \o m \in Seq(Names) /\ mount \o m # <<>>
  BY <1>4, <1>6, ConcatProperties, ConcatEqualIffEmpty
<1>9. Resolve(mount \o m) = mount \o m
  BY <1>8, ResolveIs
<1>10. ~allow_empty => m # <<>>
  BY <1>6, Zenon DEF Valid, m
<1>. QED BY <1>2, <1>4, <1>6, <1>7, <1>8, <1>9, <1>10, Zenon DEF m

\* The tree that is there before is tidy.
LEMMA InitIInv == Init => IInv
<1>. SUFFICES ASSUME Init PROVE IInv
  OBVIOUS
<1>1. initialized = FALSE /\ kept = <<>>
  BY DEF Init
<1>2. Tidy(tree)
  <2>1. /\ DOMAIN tree = Others
        /\ \A p \in Others : tree[p] = IF \E q \in Others : IsStrictPrefix(p, q) THEN DIR
                                       ELSE UNKNOWN
    BY DEF Init
  <2>2. \A q \in Others : /\ q \in Seq(Names) /\ q # <<>>
                          /\ \A k \in 1 .. Len(q) - 1 : SubSeq(q, 1, k) \in Others
    BY FileioPathsAssumption, Zenon
  <2>3. ASSUME NEW q \in Others, NEW k \in 1 .. Len(q) - 1
        PROVE  Holds(tree, SubSeq(q, 1, k), DIR)
    <3>1. SubSeq(q, 1, k) \in Others
      BY <2>2
    <3>2. Len(q) \in Nat
      BY <2>2, LenProperties
    <3>3. k \in 0 .. Len(q) /\ k < Len(q)
      BY <3>2
    <3>4. IsStrictPrefix(SubSeq(q, 1, k), q)
      BY <2>2, <3>3, PrefixOf
    <3>. QED BY <2>1, <3>1, <3>4 DEF Holds
  <2>. QED BY <2>1, <2>2, <2>3 DEF Tidy
<1>3. Keeps(kept, tree)
  BY <1>1 DEF Keeps
<1>4. Answered(ret, kept, tree)
  <2>1. ret = [call |-> "none", ok |-> FALSE, path |-> <<>>, valid |-> FALSE, value |-> 0]
    BY DEF Init
  <2>. QED BY <2>1 DEF Answered
<1>. QED BY <1>1, <1>2, <1>3, <1>4 DEF IInv

-----------------------------------------------------------------------------
(* What a step may change.                                                 *)

\* From t to u only what is below m changes, or directories above are made.
Inside(t, u, m) ==
    \A p \in DOMAIN t \cup DOMAIN u :
        p \notin DOMAIN t \/ p \notin DOMAIN u \/ t[p] # u[p] =>
            \/ IsStrictPrefix(m, p)
            \/ IsPrefix(p, m) /\ p \notin DOMAIN t /\ u[p] = DIR

\* What Confined says of a step is that.
LEMMA InsideIs ==
    Inside(tree, tree', mount') =>
        \A p \in Changed : \/ IsStrictPrefix(mount', p)
                           \/ IsPrefix(p, mount') /\ p \notin DOMAIN tree /\ tree'[p] = DIR
  BY Zenon DEF Inside, Changed

\* Nothing changes in a step that leaves the tree alone.
LEMMA InsideSame ==
    ASSUME NEW t, NEW m
    PROVE  Inside(t, t, m)
  BY DEF Inside

\* A path that is not the mount point is below it.
LEMMA BelowMount ==
    ASSUME NEW m \in Seq(Names), NEW r \in Seq(Names), r # <<>>
    PROVE  IsStrictPrefix(m, m \o r)
<1>. DEFINE q == m \o r  j == Len(q)
<1>1. q \in Seq(Names) /\ j = Len(m) + Len(r) /\ Len(m) \in Nat /\ Len(r) \in Nat \ {0}
  BY ConcatProperties, EmptySeq
<1>2. j \in 1 .. Len(q) /\ ~(j <= Len(m))
  BY <1>1
<1>3. IsStrictPrefix(m, SubSeq(q, 1, j))
  BY <1>2, PrefixSplit
<1>4. SubSeq(q, 1, j) = q
  <2>. HIDE DEF q
  <2>. QED BY <1>1, SubSeqFull
<1>. QED BY <1>3, <1>4

\* The directories above a path below the mount point.
LEMMA InsideGrown ==
    ASSUME NEW t, NEW u, NEW m \in Seq(Names), NEW r \in Seq(Names),
           Grown(t, u, Above(m \o r))
    PROVE  Inside(t, u, m)
<1>. DEFINE q == m \o r
<1>1. q \in Seq(Names) /\ Len(q) \in Nat
  BY ConcatProperties, LenProperties
<1>2. ASSUME NEW p \in Above(q) PROVE IsStrictPrefix(m, p) \/ IsPrefix(p, m)
  <2>. HIDE DEF q
  <2>1. PICK j \in 1 .. Len(q) - 1 : p = SubSeq(q, 1, j)
    BY <1>2 DEF Above
  <2>2. j \in 1 .. Len(q)
    BY <1>1
  <2>. QED BY <2>1, <2>2, PrefixSplit DEF q
<1>. HIDE DEF q
<1>3. \A p \in DOMAIN t \cup DOMAIN u :
        p \notin DOMAIN t \/ p \notin DOMAIN u \/ t[p] # u[p] =>
            p \notin DOMAIN t /\ p \in Above(q) /\ u[p] = DIR
  BY DEF Grown, q
<1>. QED BY <1>2, <1>3 DEF Inside

\* Then something is put below the mount point.
LEMMA InsideWith ==
    ASSUME NEW t, NEW u, NEW m, NEW p, NEW c, Inside(t, u, m), IsStrictPrefix(m, p)
    PROVE  Inside(t, With(u, p, c), m)
<1>. DEFINE v == With(u, p, c)
<1>1. DOMAIN v = DOMAIN u \cup {p} /\ \A q \in DOMAIN u : q # p => v[q] = u[q]
  BY DEF With
<1>. HIDE DEF v
<1>2. ASSUME NEW q \in DOMAIN t \cup DOMAIN v,
             q \notin DOMAIN t \/ q \notin DOMAIN v \/ t[q] # v[q]
      PROVE  \/ IsStrictPrefix(m, q)
             \/ IsPrefix(q, m) /\ q \notin DOMAIN t /\ v[q] = DIR
  <2>1. CASE q = p
    BY <2>1
  <2>2. CASE q # p
    <3>1. /\ q \in DOMAIN t \cup DOMAIN u
          /\ q \notin DOMAIN t \/ q \notin DOMAIN u \/ t[q] # u[q]
      BY <1>1, <1>2, <2>2
    <3>2. \/ IsStrictPrefix(m, q)
          \/ IsPrefix(q, m) /\ q \notin DOMAIN t /\ u[q] = DIR
      BY <3>1 DEF Inside
    <3>. QED BY <1>1, <1>2, <2>2, <3>2
  <2>. QED BY <2>1, <2>2
<1>. QED BY <1>2 DEF Inside, v

\* Or taken out.
LEMMA InsideWithout ==
    ASSUME NEW t, NEW m, NEW p, IsStrictPrefix(m, p)
    PROVE  Inside(t, Without(t, p), m)
<1>. DEFINE v == Without(t, p)
<1>1. DOMAIN v = DOMAIN t \ {p} /\ \A q \in DOMAIN t : q # p => v[q] = t[q]
  BY DEF Without
<1>. HIDE DEF v
<1>2. \A q \in DOMAIN t \cup DOMAIN v :
        q \notin DOMAIN t \/ q \notin DOMAIN v \/ t[q] # v[q] => q = p
  BY <1>1
<1>. QED BY <1>2 DEF Inside, v

-----------------------------------------------------------------------------
(* The calls.                                                              *)

\* fileio_init_common makes no more than the mount point.
LEMMA InitStep ==
    ASSUME IInv, NEW m \in Mounts, fileio_init_common(m)
    PROVE  IInv' /\ Inside(tree, tree', mount')
<1>1. m \in Seq(Names) /\ m # <<>>
  BY FileioPathsAssumption
<1>2. PICK broken \in {<<>>, m} : tree' = mkdir(Started, m, broken).tree
  BY DEF fileio_init_common
<1>3. Tidy(tree) /\ Keeps(kept, tree)
  BY DEF IInv
<1>. DEFINE r == mkdir([ok |-> TRUE, tree |-> tree], m, broken)
<1>a. PICK ok \in BOOLEAN : \E t : Makes(r, ok, t, tree, {m}) /\ (ok => TRUE)
  BY <1>1, <1>3, MkdirIs, Zenon
<1>b. PICK t : Makes(r, ok, t, tree, {m})
  BY <1>a, Zenon
<1>4. r = [ok |-> ok, tree |-> t] /\ Tidy(t) /\ Grown(tree, t, {m})
  BY <1>b, Zenon DEF Makes
<1>5. tree' = t
  BY <1>2, <1>4 DEF Started
<1>6. initialized' = TRUE /\ mount' = m /\ kept' = kept
  BY DEF fileio_init_common
<1>7. Keeps(kept', tree')
  BY <1>3, <1>4, <1>5, <1>6, KeepsGrown
<1>8. Answered(ret', kept', tree')
  <2>1. ret' = [call |-> "none", ok |-> FALSE, path |-> <<>>, valid |-> FALSE, value |-> 0]
    BY DEF fileio_init_common, NoCall
  <2>. QED BY <2>1 DEF Answered
<1>9. IInv'
  BY <1>4, <1>5, <1>6, <1>7, <1>8 DEF IInv
<1>10. IsPrefix(m, m)
  BY <1>1 DEF IsPrefix
<1>11. Inside(tree, t, m)
  BY <1>4, <1>10 DEF Grown, Inside
<1>. QED BY <1>5, <1>6, <1>9, <1>11

\* fileio_deinit_common leaves the tree alone.
LEMMA DeinitStep ==
    ASSUME IInv, fileio_deinit_common
    PROVE  IInv' /\ Inside(tree, tree', mount')
<1>1. initialized' = FALSE /\ tree' = tree /\ kept' = kept
  BY DEF fileio_deinit_common
<1>2. Answered(ret', kept', tree')
  <2>1. ret' = [call |-> "none", ok |-> FALSE, path |-> <<>>, valid |-> FALSE, value |-> 0]
    BY DEF fileio_deinit_common, NoCall
  <2>. QED BY <2>1 DEF Answered
<1>3. IInv'
  BY <1>1, <1>2 DEF IInv
<1>. QED BY <1>1, <1>3, InsideSame

\* A call that answers failure and changes no tree and no history.
LEMMA FailedStep ==
    ASSUME IInv, NEW call, NEW path, NEW value, Returns(call, path, FALSE, value),
           UNCHANGED <<initialized, mount, tree, kept>>
    PROVE  IInv' /\ Inside(tree, tree', mount')
<1>1. initialized' = initialized /\ mount' = mount /\ tree' = tree /\ kept' = kept
  OBVIOUS
<1>2. Answered(ret', kept', tree')
  BY AnsweredNo DEF Returns
<1>3. IInv'
  BY <1>1, <1>2 DEF IInv
<1>. QED BY <1>1, <1>3, InsideSame

\* fileio_mkdir_common makes directories above the path.
LEMMA MkdirStep ==
    ASSUME IInv, NEW path \in Paths, fileio_mkdir_common(path)
    PROVE  IInv' /\ Inside(tree, tree', mount')
<1>. DEFINE full == mount \o Meaning(path)
<1>1. Accepts(path, TRUE)
  BY DEF fileio_mkdir_common
<1>2. /\ initialized /\ Valid(path, TRUE)
      /\ mount \in Seq(Names) /\ Meaning(path) \in Seq(Names)
      /\ Full(path) = full /\ full \in Seq(Names) /\ full # <<>>
  BY <1>1, Accepted
<1>3. PICK broken : LET made == MakeAbove(full, broken)
                    IN  tree' = made.tree /\ Returns("mkdir", path, made.ok, 0)
  BY <1>2 DEF fileio_mkdir_common
<1>4. Tidy(tree) /\ Keeps(kept, tree)
  BY DEF IInv
<1>a. PICK ok \in BOOLEAN : \E t : Makes(MakeAbove(full, broken), ok, t, tree, Above(full))
  <2>. HIDE DEF full
  <2>. QED BY <1>2, <1>4, MakeAboveIs, Zenon
<1>b. PICK t : Makes(MakeAbove(full, broken), ok, t, tree, Above(full))
  BY <1>a, Zenon
<1>5. /\ MakeAbove(full, broken) = [ok |-> ok, tree |-> t]
      /\ Tidy(t) /\ Grown(tree, t, Above(full))
  BY <1>b, Zenon DEF Makes
<1>6. tree' = t /\ Returns("mkdir", path, ok, 0)
  BY <1>3, <1>5
<1>7. initialized' = initialized /\ mount' = mount /\ kept' = kept
  BY DEF fileio_mkdir_common
<1>8. Keeps(kept', tree')
  BY <1>4, <1>5, <1>6, <1>7, KeepsGrown
<1>9. Answered(ret', kept', tree')
  <2>1. ret' = [call |-> "mkdir", ok |-> ok, value |-> 0, path |-> full,
                valid |-> initialized /\ Valid(path, "mkdir" = "mkdir")]
    BY <1>6 DEF Returns
  <2>2. ("mkdir" = "mkdir") = TRUE
    OBVIOUS
  <2>3. (initialized /\ Valid(path, "mkdir" = "mkdir")) = TRUE
    BY <1>2, <2>2, Zenon
  <2>4. ret' = [call |-> "mkdir", ok |-> ok, value |-> 0, path |-> full, valid |-> TRUE]
    BY <2>1, <2>3, Zenon
  <2>. QED BY <1>6, <2>4 DEF Answered
<1>10. IInv'
  BY <1>5, <1>6, <1>7, <1>8, <1>9 DEF IInv
<1>11. Inside(tree, t, mount)
  BY <1>2, <1>5, InsideGrown
<1>. QED BY <1>6, <1>7, <1>10, <1>11

\* An answer about an accepted path is one about a valid path.
LEMMA ReturnsIs ==
    ASSUME NEW call, call # "mkdir", NEW path, NEW ok, NEW value,
           initialized, Valid(path, FALSE), Returns(call, path, ok, value)
    PROVE  ret' = [call |-> call, ok |-> ok, value |-> value,
                   path |-> mount \o Meaning(path), valid |-> TRUE]
<1>1. (call = "mkdir") = FALSE
  OBVIOUS
<1>2. (initialized /\ Valid(path, call = "mkdir")) = TRUE
  BY <1>1, Zenon
<1>3. ret' = [call |-> call, ok |-> ok, value |-> value, path |-> mount \o Meaning(path),
              valid |-> initialized /\ Valid(path, call = "mkdir")]
  BY DEF Returns
<1>. QED BY <1>2, <1>3, Zenon

\* fopen and what follows, in the tree that fileio_mkdirs has left.
LEMMA WriteFileStep ==
    ASSUME IInv, NEW path \in Paths, Accepts(path, FALSE),
           NEW t, Tidy(t), Grown(tree, t, Above(mount \o Meaning(path))),
           NEW made, made.tree = t, NEW ok \in BOOLEAN, NEW flushed \in BOOLEAN,
           WriteFile(path, made, ok, flushed, ok), UNCHANGED <<initialized, mount>>
    PROVE  IInv' /\ Inside(tree, tree', mount')
<1>. DEFINE p == mount \o Meaning(path)
            stored == IF flushed THEN nwrites + 1 ELSE UNKNOWN
            written == IF ok /\ flushed THEN nwrites + 1 ELSE UNKNOWN
<1>1. /\ initialized /\ Valid(path, FALSE)
      /\ mount \in Seq(Names) /\ Meaning(path) \in Seq(Names) /\ Meaning(path) # <<>>
      /\ Full(path) = p /\ p \in Seq(Names) /\ p # <<>> /\ Resolve(p) = p
  BY Accepted
<1>s. /\ ok => written = stored
      /\ stored \in {nwrites + 1, UNKNOWN}
  OBVIOUS
<1>2. /\ IsDir(t, Front(p)) /\ ~IsDir(t, p) /\ tree' = With(t, p, written)
      /\ kept' = IF ok THEN With(kept, p, stored) ELSE Without(kept, p)
      /\ Returns("write", path, ok, nwrites + 1)
  <2>. HIDE DEF p
  <2>1. Resolve(Full(path)) = p
    BY <1>1
  <2>. QED BY <2>1 DEF WriteFile, p
<1>. HIDE DEF stored, written
<1>3. initialized' = initialized /\ mount' = mount
  OBVIOUS
<1>4. ret' = [call |-> "write", ok |-> ok, value |-> nwrites + 1, path |-> p, valid |-> TRUE]
  BY <1>1, <1>2, ReturnsIs
<1>5. IsStrictPrefix(mount, p)
  BY <1>1, BelowMount
<1>6. Inside(tree, t, mount)
  BY <1>1, InsideGrown
<1>7. Keeps(kept, t)
  BY KeepsGrown DEF IInv
<1>. HIDE DEF p
<1>8. Tidy(tree')
  BY <1>1, <1>2, TidyWith DEF IsDir
<1>9. Inside(tree, tree', mount')
  BY <1>2, <1>3, <1>5, <1>6, InsideWith
<1>10. CASE ok = TRUE
  <2>1. kept' = With(kept, p, stored) /\ written = stored
    BY <1>s, <1>2, <1>10
  <2>2. Keeps(kept', tree') /\ Holds(kept', p, stored)
    BY <1>2, <1>7, <2>1, KeepsWrite
  <2>3. Holds(kept', p, nwrites + 1) \/ Holds(kept', p, UNKNOWN)
    BY <1>s, <2>2
  <2>5. Answered(ret', kept', tree')
    BY <1>4, <2>3 DEF Answered
  <2>4. IInv'
    BY <1>3, <1>8, <2>2, <2>5 DEF IInv
  <2>. QED BY <1>9, <2>4
<1>11. CASE ok = FALSE
  <2>1. kept' = Without(kept, p)
    BY <1>2, <1>11
  <2>2. Keeps(kept', tree')
    BY <1>2, <1>7, <2>1, KeepsFailed
  <2>3. Answered(ret', kept', tree')
    BY <1>4, <1>11, AnsweredNo
  <2>4. IInv'
    BY <1>3, <1>8, <2>2, <2>3 DEF IInv
  <2>. QED BY <1>9, <2>4
<1>. QED BY <1>10, <1>11

\* fileio_write_common makes what is above the path and writes it.
LEMMA WriteStep ==
    ASSUME IInv, NEW path \in Paths, fileio_write_common(path)
    PROVE  IInv' /\ Inside(tree, tree', mount')
<1>. DEFINE full == mount \o Meaning(path)
<1>1. Accepts(path, FALSE) /\ UNCHANGED <<initialized, mount>>
  BY DEF fileio_write_common
<1>2. /\ mount \in Seq(Names) /\ Meaning(path) \in Seq(Names)
      /\ Full(path) = full /\ full \in Seq(Names) /\ full # <<>>
  BY <1>1, Accepted
<1>3. PICK broken :
         LET made == MakeAbove(full, broken) IN
         \/ tree' = made.tree /\ Returns("write", path, FALSE, 0) /\ UNCHANGED kept
         \/ \E whole, flushed \in BOOLEAN : WriteFile(path, made, whole, flushed, whole)
  BY <1>2 DEF fileio_write_common
<1>. DEFINE made == MakeAbove(full, broken)
<1>4. Tidy(tree) /\ Keeps(kept, tree)
  BY DEF IInv
<1>a. PICK ok \in BOOLEAN : \E t : Makes(made, ok, t, tree, Above(full))
  <2>. HIDE DEF full
  <2>. QED BY <1>2, <1>4, MakeAboveIs, Zenon
<1>b. PICK t : Makes(made, ok, t, tree, Above(full))
  BY <1>a, Zenon
<1>5. made = [ok |-> ok, tree |-> t] /\ Tidy(t) /\ Grown(tree, t, Above(full))
  BY <1>b, Zenon DEF Makes
<1>6. made.tree = t
  BY <1>5
<1>. HIDE DEF made
<1>7. CASE tree' = made.tree /\ Returns("write", path, FALSE, 0) /\ UNCHANGED kept
  <2>1. tree' = t /\ kept' = kept /\ initialized' = initialized /\ mount' = mount
    BY <1>1, <1>6, <1>7
  <2>2. Keeps(kept', tree')
    BY <1>4, <1>5, <2>1, KeepsGrown
  <2>3. Answered(ret', kept', tree')
    BY <1>7, AnsweredNo DEF Returns
  <2>4. IInv'
    BY <1>5, <2>1, <2>2, <2>3 DEF IInv
  <2>5. Inside(tree, t, mount)
    BY <1>2, <1>5, InsideGrown
  <2>. QED BY <2>1, <2>4, <2>5
<1>8. CASE \E whole, flushed \in BOOLEAN : WriteFile(path, made, whole, flushed, whole)
  BY <1>1, <1>5, <1>6, <1>8, WriteFileStep
<1>. QED BY <1>3, <1>7, <1>8 DEF made

\* fileio_read_common returns what the file holds.
LEMMA ReadStep ==
    ASSUME IInv, NEW path \in Paths, fileio_read_common(path)
    PROVE  IInv' /\ Inside(tree, tree', mount')
<1>. DEFINE p == mount \o Meaning(path)
<1>1. /\ Accepts(path, FALSE)
      /\ UNCHANGED <<initialized, mount, tree, kept>>
  BY DEF fileio_read_common
<1>2. initialized /\ Valid(path, FALSE) /\ Resolve(Full(path)) = p
  BY <1>1, Accepted
<1>3. \/ p \in DOMAIN tree /\ Returns("read", path, TRUE, tree[p])
      \/ Returns("read", path, FALSE, 0)
  BY <1>2 DEF fileio_read_common
<1>4. CASE p \in DOMAIN tree /\ Returns("read", path, TRUE, tree[p])
  <2>1. ret' = [call |-> "read", ok |-> TRUE, value |-> tree[p], path |-> p, valid |-> TRUE]
    BY <1>2, <1>4, ReturnsIs
  <2>2. initialized' = initialized /\ mount' = mount /\ tree' = tree /\ kept' = kept
    BY <1>1
  <2>. HIDE DEF p
  <2>3. Holds(tree', p, tree[p])
    BY <1>4, <2>2 DEF Holds
  <2>4. Answered(ret', kept', tree')
    BY <2>1, <2>3 DEF Answered
  <2>5. IInv'
    BY <2>2, <2>4 DEF IInv
  <2>. QED BY <2>2, <2>5, InsideSame
<1>5. CASE Returns("read", path, FALSE, 0)
  BY <1>1, <1>5, FailedStep
<1>. QED BY <1>3, <1>4, <1>5

\* fileio_exists_common finds only what is there.
LEMMA ExistsStep ==
    ASSUME IInv, NEW path \in Paths, fileio_exists_common(path)
    PROVE  IInv' /\ Inside(tree, tree', mount')
<1>. DEFINE p == mount \o Meaning(path)
<1>1. /\ Accepts(path, FALSE)
      /\ UNCHANGED <<initialized, mount, tree, kept>>
  BY DEF fileio_exists_common
<1>2. initialized /\ Valid(path, FALSE) /\ Resolve(Full(path)) = p
  BY <1>1, Accepted
<1>3. PICK ok \in {FALSE, (p \in DOMAIN tree)} : Returns("exists", path, ok, 0)
  BY <1>2 DEF fileio_exists_common
<1>4. CASE p \in DOMAIN tree /\ ok = TRUE
  <2>1. ret' = [call |-> "exists", ok |-> ok, value |-> 0, path |-> p, valid |-> TRUE]
    BY <1>2, <1>3, ReturnsIs
  <2>2. initialized' = initialized /\ mount' = mount /\ tree' = tree /\ kept' = kept
    BY <1>1
  <2>. HIDE DEF p
  <2>4. Answered(ret', kept', tree')
    BY <1>4, <2>1, <2>2 DEF Answered
  <2>5. IInv'
    BY <2>2, <2>4 DEF IInv
  <2>. QED BY <2>2, <2>5, InsideSame
<1>5. CASE ok = FALSE
  BY <1>1, <1>3, <1>5, FailedStep
<1>6. ok = FALSE \/ (p \in DOMAIN tree /\ ok = TRUE)
  <2>1. (p \in DOMAIN tree) \in BOOLEAN
    OBVIOUS
  <2>. HIDE DEF p
  <2>. QED BY <1>3, <2>1, Zenon
<1>. QED BY <1>4, <1>5, <1>6

\* fileio_rmfile_common and fileio_rmdir_common: what they say is removed is.
LEMMA RemovesStep ==
    ASSUME IInv, NEW path \in Paths, NEW call \in {"rmfile", "rmdir"}, NEW removable,
           Removes(call, path, removable)
    PROVE  IInv' /\ Inside(tree, tree', mount')
<1>. DEFINE p == mount \o Meaning(path)
<1>1. Accepts(path, FALSE) /\ UNCHANGED <<initialized, mount>>
  BY DEF Removes
<1>2. /\ initialized /\ Valid(path, FALSE) /\ Resolve(Full(path)) = p
      /\ mount \in Seq(Names) /\ Meaning(path) \in Seq(Names) /\ Meaning(path) # <<>>
      /\ p \in Seq(Names) /\ p # <<>>
  BY <1>1, Accepted
<1>3. initialized' = initialized /\ mount' = mount
  BY <1>1
<1>4. \/ /\ p \in DOMAIN tree /\ Within(tree, p) = {} /\ tree' = Without(tree, p)
         /\ kept' = Without(kept, p) /\ Returns(call, path, TRUE, 0)
      \/ p \notin DOMAIN tree /\ Returns(call, path, TRUE, 0) /\ UNCHANGED <<tree, kept>>
      \/ Returns(call, path, FALSE, 0) /\ UNCHANGED <<tree, kept>>
  BY <1>2 DEF Removes
<1>5. ASSUME Returns(call, path, TRUE, 0), p \notin DOMAIN tree', Within(tree', p) = {}
      PROVE  Answered(ret', kept', tree')
  <2>1. ret' = [call |-> call, ok |-> TRUE, value |-> 0, path |-> p, valid |-> TRUE]
    BY <1>2, <1>5, ReturnsIs
  <2>. HIDE DEF p
  <2>. QED BY <1>5, <2>1 DEF Answered
<1>6. IsStrictPrefix(mount, p)
  BY <1>2, BelowMount
<1>7. Tidy(tree) /\ Keeps(kept, tree)
  BY DEF IInv
<1>8. CASE /\ p \in DOMAIN tree /\ Within(tree, p) = {} /\ tree' = Without(tree, p)
           /\ kept' = Without(kept, p) /\ Returns(call, path, TRUE, 0)
  <2>. HIDE DEF p
  <2>1. p \notin DOMAIN tree' /\ Within(tree', p) = {}
    BY <1>8 DEF Without, Within
  <2>2. Tidy(tree') /\ Keeps(kept', tree')
    BY <1>7, <1>8, TidyWithout, KeepsRemoved
  <2>3. Answered(ret', kept', tree')
    BY <1>5, <1>8, <2>1
  <2>4. IInv'
    BY <1>3, <2>2, <2>3 DEF IInv
  <2>5. Inside(tree, tree', mount')
    BY <1>3, <1>6, <1>8, InsideWithout
  <2>. QED BY <2>4, <2>5
<1>9. CASE p \notin DOMAIN tree /\ Returns(call, path, TRUE, 0) /\ UNCHANGED <<tree, kept>>
  <2>1. tree' = tree /\ kept' = kept
    BY <1>9
  <2>. HIDE DEF p
  <2>2. Within(tree, p) = {}
    BY <1>2, <1>7, <1>9, NothingBelow DEF Holds
  <2>3. Answered(ret', kept', tree')
    BY <1>5, <1>9, <2>1, <2>2
  <2>4. IInv'
    BY <1>3, <2>1, <2>3 DEF IInv
  <2>. QED BY <2>1, <2>4, InsideSame
<1>10. CASE Returns(call, path, FALSE, 0) /\ UNCHANGED <<tree, kept>>
  BY <1>3, <1>10, FailedStep
<1>. QED BY <1>4, <1>8, <1>9, <1>10

\* Every step keeps the invariant, and stays inside the mount point.
LEMMA NextStep == IInv /\ [Next]_vars => IInv' /\ Inside(tree, tree', mount')
<1>. SUFFICES ASSUME IInv, [Next]_vars PROVE IInv' /\ Inside(tree, tree', mount')
  OBVIOUS
<1>1. CASE UNCHANGED vars
  <2>1. UNCHANGED <<initialized, mount, tree, kept, ret>>
    BY <1>1 DEF vars
  <2>2. IInv'
    BY <2>1 DEF IInv
  <2>. QED BY <2>1, <2>2, InsideSame
<1>2. ASSUME NEW m \in Mounts, fileio_init_common(m)
      PROVE  IInv' /\ Inside(tree, tree', mount')
  BY <1>2, InitStep
<1>3. CASE fileio_deinit_common
  BY <1>3, DeinitStep
<1>4. ASSUME NEW path \in Paths, NEW call \in Calls, Refused(call, path)
      PROVE  IInv' /\ Inside(tree, tree', mount')
  BY <1>4, FailedStep DEF Refused
<1>5. ASSUME NEW path \in Paths,
             \/ fileio_write_common(path) \/ fileio_read_common(path)
             \/ fileio_exists_common(path) \/ fileio_mkdir_common(path)
      PROVE  IInv' /\ Inside(tree, tree', mount')
  BY <1>5, WriteStep, ReadStep, ExistsStep, MkdirStep
<1>6. ASSUME NEW path \in Paths, fileio_rmfile_common(path) \/ fileio_rmdir_common(path)
      PROVE  IInv' /\ Inside(tree, tree', mount')
  <2>1. CASE fileio_rmfile_common(path)
    BY <2>1, RemovesStep DEF fileio_rmfile_common
  <2>2. CASE fileio_rmdir_common(path)
    BY <2>2, RemovesStep DEF fileio_rmdir_common
  <2>. QED BY <1>6, <2>1, <2>2
<1>. QED BY <1>1, <1>2, <1>3, <1>4, <1>5, <1>6 DEF Next

\* The tree stays one in which everything is in a directory, and the two parts
\* of FilesFaithful hold.
LEMMA IInvAlways == Spec => []IInv
<1>1. Init => IInv
  BY InitIInv
<1>2. IInv /\ [Next]_vars => IInv'
  BY NextStep
<1>. QED BY <1>1, <1>2, PTL DEF Spec

\* What a call has answered is so: unless fclose lost it, files keep what was
\* written to them through failed writes, removes, mkdirs and changes of the mount
\* point; reads return what they hold; what has been removed is gone; no invalid
\* path is answered well.
THEOREM FilesFaithfulAlways == Spec => []FilesFaithful
<1>1. IInv => FilesFaithful
  BY FaithfulIs DEF IInv
<1>. QED BY <1>1, IInvAlways, PTL

\* No call touches anything outside the mount point, whatever its path, but to
\* make the directories above the mount point where they are missing.
THEOREM ConfinedAlways == Spec => Confined
<1>1. IInv /\ [Next]_vars =>
        [\A p \in Changed :
           \/ IsStrictPrefix(mount', p)
           \/ IsPrefix(p, mount') /\ p \notin DOMAIN tree /\ tree'[p] = DIR]_vars
  BY NextStep, InsideIs
<1>. QED BY <1>1, IInvAlways, PTL DEF Spec, Confined
=============================================================================
