--------------------------- MODULE Folding_proofs ---------------------------
(***************************************************************************)
(* What the folds of the model compute.  A fold is a function defined by   *)
(* recursion on the subsets of a finite set; that the recursion defines    *)
(* one, and what it yields along a sequence, is shown by induction.  So is *)
(* that a recursion along a measure defines a function; then come facts    *)
(* about lists.                                                            *)
(***************************************************************************)
EXTENDS Citations, FiniteSetTheorems, SequenceTheorems, WellFoundedInduction, TLAPS

Less == {pair \in Nat \X Nat : pair[1] < pair[2]}

(* Induction over the naturals, for a set in the place of a predicate.      *)
LEMMA SetInduction ==
  ASSUME NEW S, 0 \in S, \A n \in Nat : n \in S => n + 1 \in S
  PROVE  Nat \subseteq S
<1>1. SUFFICES ASSUME Nat \ S # {} PROVE FALSE
  OBVIOUS
<1>2. IsWellFoundedOn(Less, Nat)
  BY NatLessThanWellFounded DEF OpToRel, Less
<1>3. PICK x \in Nat \ S : \A y \in Nat \ S : ~(<<y, x>> \in Less)
  BY <1>1, <1>2, WFMin
<1>4. x # 0 /\ x - 1 \in Nat /\ x - 1 < x
  BY <1>3
<1>5. x - 1 \in S
  BY <1>3, <1>4 DEF Less
<1> QED
  BY <1>3, <1>4, <1>5

IsFold(f, S, T, base, Pick, G) ==
  /\ f \in [SUBSET S -> T]
  /\ \A s \in SUBSET S :
       f[s] = IF s = {} THEN base ELSE G[<<Pick[s], f[s \ {Pick[s]}]>>]

(* A step function and a way to pick from a set define a fold.              *)
LEMMA FoldIsDefined ==
  ASSUME NEW S, IsFiniteSet(S), NEW T, NEW base \in T,
         NEW Pick, \A s \in SUBSET S : s # {} => Pick[s] \in s,
         NEW G \in [S \X T -> T]
  PROVE  \E f : IsFold(f, S, T, base, Pick, G)
<1> DEFINE Small(k) == {s \in SUBSET S : Cardinality(s) <= k}
           Good(f, k) ==
             \A s \in Small(k) :
               f[s] = IF s = {} THEN base ELSE G[<<Pick[s], f[s \ {Pick[s]}]>>]
           K == {k \in Nat : \E f \in [Small(k) -> T] : Good(f, k)}
<1>1. \A s \in SUBSET S : IsFiniteSet(s) /\ Cardinality(s) \in Nat /\ Cardinality(s) <= Cardinality(S)
  BY FS_Subset, FS_CardinalityType
<1>2. \A s \in SUBSET S : Cardinality(s) = 0 <=> s = {}
  BY <1>1, FS_EmptySet
<1>3. ASSUME NEW s \in SUBSET S, s # {}
      PROVE  s \ {Pick[s]} \in SUBSET S /\ Cardinality(s \ {Pick[s]}) = Cardinality(s) - 1
  BY <1>1, <1>3, FS_RemoveElement
<1>4. 0 \in K
  <2> DEFINE f == [s \in Small(0) |-> base]
  <2>1. \A s \in Small(0) : s = {}
    BY <1>1, <1>2
  <2>2. f \in [Small(0) -> T] /\ Good(f, 0)
    BY <2>1
  <2> QED
    BY <2>2
<1>5. ASSUME NEW k \in Nat, k \in K PROVE k + 1 \in K
  <2>1. PICK f \in [Small(k) -> T] : Good(f, k)
    BY <1>5
  <2> DEFINE g == [s \in Small(k + 1) |->
                     IF s = {} THEN base ELSE G[<<Pick[s], f[s \ {Pick[s]}]>>]]
  <2>2. ASSUME NEW s \in Small(k + 1), s # {}
        PROVE  Pick[s] \in S /\ s \ {Pick[s]} \in Small(k)
    <3>1. Cardinality(s) \in Nat /\ Cardinality(s) <= k + 1
      BY <1>1
    <3> QED
      BY <1>3, <2>2, <3>1
  <2>3. g \in [Small(k + 1) -> T]
    <3>1. ASSUME NEW s \in Small(k + 1), s # {}
          PROVE  G[<<Pick[s], f[s \ {Pick[s]}]>>] \in T
      <4>1. f[s \ {Pick[s]}] \in T
        BY <2>2, <3>1
      <4> QED
        BY <2>2, <3>1, <4>1
    <3> QED
      BY <3>1
  <2>4. \A s \in Small(k) : s \in Small(k + 1) /\ g[s] = f[s]
    <3>1. \A s \in Small(k) : s \in Small(k + 1)
      BY <1>1
    <3> QED
      BY <2>1, <3>1
  <2>5. Good(g, k + 1)
    BY <2>2, <2>4
  <2> HIDE DEF g, Good, Small
  <2> QED
    BY <2>3, <2>5
<1>6. Cardinality(S) \in K
  <2>1. Nat \subseteq K
    <3> HIDE DEF K
    <3> QED
      BY <1>4, <1>5, SetInduction
  <2> QED
    BY <2>1, <1>1
<1>7. Small(Cardinality(S)) = SUBSET S
  BY <1>1
<1>8. PICK f \in [SUBSET S -> T] : Good(f, Cardinality(S))
  BY <1>6, <1>7
<1>9. IsFold(f, S, T, base, Pick, G)
  BY <1>7, <1>8 DEF IsFold
<1> QED
  BY <1>9

(* The segments of the naturals a fold from the left goes through.          *)
LEMMA Segments ==
  ASSUME NEW m \in Nat \ {0}
  PROVE  1 .. m # {} /\ Max(1 .. m) = m /\ (1 .. m) \ {m} = 1 .. m - 1
<1>1. m \in 1 .. m /\ \A y \in 1 .. m : m >= y
  OBVIOUS
<1>2. Max(1 .. m) = m
  <2>1. \A x \in 1 .. m : (\A y \in 1 .. m : x >= y) => x = m
    BY <1>1
  <2> QED
    BY <1>1, <2>1 DEF Max
<1> QED
  BY <1>2

LEMMA MaxIsThere ==
  ASSUME NEW n \in Nat, NEW s \in SUBSET (1 .. n), s # {}
  PROVE  Max(s) \in s /\ \A y \in s : y <= Max(s)
<1> DEFINE K == {k \in Nat : \E x \in s : k = n - x}
<1>1. K \subseteq Nat /\ K # {}
  <2>1. PICK x \in s : TRUE
    OBVIOUS
  <2>2. n - x \in K
    OBVIOUS
  <2> QED
    BY <2>2
<1>2. IsWellFoundedOn(Less, Nat)
  BY NatLessThanWellFounded DEF OpToRel, Less
<1> HIDE DEF K
<1>3. PICK k \in K : \A j \in K : ~(<<j, k>> \in Less)
  BY <1>1, <1>2, WFMin
<1> USE DEF K
<1>4. PICK x \in s : k = n - x
  BY <1>3
<1>5. \A y \in s : x >= y
  <2>1. ASSUME NEW y \in s PROVE x >= y
    <3>1. n - y \in K
      OBVIOUS
    <3>2. ~(n - y < n - x)
      BY <1>3, <1>4, <3>1 DEF Less
    <3> QED
      BY <3>2
  <2> QED
    BY <2>1
<1>6. \E z \in s : \A y \in s : z >= y
  BY <1>5
<1>7. Max(s) \in s /\ \A y \in s : Max(s) >= y
  BY <1>6 DEF Max
<1> QED
  BY <1>7

(* The fold from the left over n places, once its step is a function on T.  *)
IsLeftFold(f, n, T, base, G) ==
  /\ f \in [SUBSET (1 .. n) -> T]
  /\ \A s \in SUBSET (1 .. n) :
       f[s] = IF s = {} THEN base ELSE G[<<Max(s), f[s \ {Max(s)}]>>]

LEMMA FoldLeftIsDefined ==
  ASSUME NEW n \in Nat, NEW T, NEW base \in T, NEW G \in [(1 .. n) \X T -> T]
  PROVE  \E f : IsLeftFold(f, n, T, base, G)
<1> DEFINE S == 1 .. n
           Pick == [s \in SUBSET S |-> Max(s)]
<1>1. \A s \in SUBSET S : Pick[s] = Max(s)
  OBVIOUS
<1>2. IsFiniteSet(S)
  BY FS_Interval
<1>3. \A s \in SUBSET S : s # {} => Pick[s] \in s
  BY MaxIsThere
<1>4. G \in [S \X T -> T]
  OBVIOUS
<1> HIDE DEF Pick, S
<1>5. PICK f : IsFold(f, S, T, base, Pick, G)
  BY <1>2, <1>3, <1>4, FoldIsDefined
<1>6. f \in [SUBSET S -> T]
  BY <1>5 DEF IsFold
<1>7. \A s \in SUBSET S : f[s] = IF s = {} THEN base ELSE G[<<Max(s), f[s \ {Max(s)}]>>]
  BY <1>1, <1>5 DEF IsFold
<1>8. IsLeftFold(f, n, T, base, G)
  BY <1>6, <1>7 DEF S, IsLeftFold
<1> QED
  BY <1>8

(* The values of a fold from the left, after 0 to n places.                 *)
IsRun(it, iter, n, T, base, G) ==
  /\ it \in [0 .. n -> T]
  /\ it[n] = iter[1 .. n]
  /\ it[0] = base
  /\ \A m \in 1 .. n : it[m] = G[<<m, it[m - 1]>>]

(* `iter` is computed by G wherever its values are in T.                    *)
FoldsBy(iter, n, T, base, G) ==
  /\ n \in Nat
  /\ base \in T
  /\ G \in [(1 .. n) \X T -> T]
  /\ iter[{}] = base
  /\ \A s \in SUBSET (1 .. n) : s # {} /\ iter[s \ {Max(s)}] \in T =>
       iter[s] = G[<<Max(s), iter[s \ {Max(s)}]>>]

LEMMA FoldRuns ==
  ASSUME NEW n, NEW T, NEW base, NEW G, NEW iter, FoldsBy(iter, n, T, base, G)
  PROVE  \E it : IsRun(it, iter, n, T, base, G)
<1>0. n \in Nat /\ base \in T /\ G \in [(1 .. n) \X T -> T]
  BY DEF FoldsBy
<1> DEFINE it == [m \in 0 .. n |-> iter[1 .. m]]
           Typed == {m \in Nat : m <= n => iter[1 .. m] \in T}
<1>1. ASSUME NEW m \in 1 .. n, iter[1 .. m - 1] \in T
      PROVE  iter[1 .. m] = G[<<m, iter[1 .. m - 1]>>] /\ iter[1 .. m] \in T
  <2>1. 1 .. m \in SUBSET (1 .. n)
    BY <1>0
  <2>2. 1 .. m # {} /\ Max(1 .. m) = m /\ (1 .. m) \ {m} = 1 .. m - 1
    <3>1. m \in Nat \ {0}
      BY <1>0
    <3> QED
      BY <3>1, Segments
  <2>3. iter[1 .. m] = G[<<m, iter[1 .. m - 1]>>]
    BY <1>0, <1>1, <2>1, <2>2 DEF FoldsBy
  <2> QED
    BY <1>0, <1>1, <2>3
<1>2. 1 .. 0 = {}
  OBVIOUS
<1>3. 0 \in Typed
  BY <1>2 DEF FoldsBy
<1>4. ASSUME NEW m \in Nat, m \in Typed PROVE m + 1 \in Typed
  <2>1. CASE m + 1 <= n
    <3>1. m + 1 \in 1 .. n /\ (m + 1) - 1 = m /\ iter[1 .. m] \in T
      BY <1>0, <1>4, <2>1
    <3>2. iter[1 .. m + 1] \in T
      BY <1>1, <3>1
    <3> QED
      BY <3>2
  <2>2. CASE ~(m + 1 <= n)
    BY <1>0, <2>2
  <2> QED
    BY <2>1, <2>2
<1> HIDE DEF Typed
<1>5. Nat \subseteq Typed
  BY <1>3, <1>4, SetInduction
<1> USE DEF Typed
<1>6. \A m \in 0 .. n : iter[1 .. m] \in T
  BY <1>0, <1>5
<1>7. it \in [0 .. n -> T] /\ it[0] = base /\ it[n] = iter[1 .. n]
  BY <1>0, <1>2, <1>6 DEF FoldsBy
<1>8. \A m \in 1 .. n : it[m] = G[<<m, it[m - 1]>>]
  BY <1>0, <1>1, <1>6
<1> HIDE DEF it
<1> QED
  BY <1>7, <1>8 DEF IsRun

-----------------------------------------------------------------------------
(* The markers of an answer: each number once, in the order of its first    *)
(* appearance.                                                              *)

Marked(seen, n) == IF n \in ToSet(seen) THEN seen ELSE Append(seen, n)

LEMMA MarkersRun ==
  ASSUME NEW answer \in Seq(Int)
  PROVE  \E it \in [0 .. Len(answer) -> Seq(Int)] :
           /\ it[0] = <<>>
           /\ \A m \in 1 .. Len(answer) : it[m] = Marked(it[m - 1], answer[m])
           /\ extract_markers(answer) = it[Len(answer)]
<1> DEFINE n == Len(answer)
           T == Seq(Int)
           G == [p \in (1 .. n) \X T |-> Marked(p[2], answer[p[1]])]
           Rec(f) == f = [s \in SUBSET (1 .. n) |->
                            IF s = {} THEN <<>>
                            ELSE Marked(f[s \ {Max(s)}], answer[Max(s)])]
           iter == CHOOSE f : Rec(f)
<1>1. n \in Nat /\ DOMAIN answer = 1 .. n /\ <<>> \in T
  OBVIOUS
<1>2. G \in [(1 .. n) \X T -> T]
  <2>1. ASSUME NEW p \in (1 .. n) \X T PROVE Marked(p[2], answer[p[1]]) \in T
    BY DEF Marked
  <2> QED
    BY <2>1
<1>3. \A m \in 1 .. n, t \in T : G[<<m, t>>] = Marked(t, answer[m])
  OBVIOUS
<1>4. extract_markers(answer) = iter[1 .. n]
  BY <1>1 DEF extract_markers, FoldLeft, MapThenFoldSet, Marked
<1> HIDE DEF T, G, n
<1>5. PICK f : IsLeftFold(f, n, T, <<>>, G)
  BY <1>1, <1>2, FoldLeftIsDefined
<1>6. Rec(f)
  <2>1. ASSUME NEW s \in SUBSET (1 .. n), s # {}
        PROVE  f[s] = Marked(f[s \ {Max(s)}], answer[Max(s)])
    <3>1. Max(s) \in 1 .. n
      BY <1>1, <2>1, MaxIsThere
    <3>2. s \ {Max(s)} \in SUBSET (1 .. n) /\ f[s \ {Max(s)}] \in T
      BY <1>5 DEF IsLeftFold
    <3> QED
      BY <1>3, <1>5, <2>1, <3>1, <3>2 DEF IsLeftFold
  <2>2. f = [s \in SUBSET (1 .. n) |-> f[s]]
    BY <1>5 DEF IsLeftFold
  <2> QED
    BY <1>5, <2>1, <2>2 DEF IsLeftFold
<1>7. Rec(iter)
  BY <1>6
<1> HIDE DEF iter
<1>8. iter[{}] = <<>>
  BY <1>7
<1>9. ASSUME NEW s \in SUBSET (1 .. n), s # {}, iter[s \ {Max(s)}] \in T
      PROVE  iter[s] = G[<<Max(s), iter[s \ {Max(s)}]>>]
  <2>1. Max(s) \in 1 .. n
    BY <1>1, <1>9, MaxIsThere
  <2>2. iter[s] = Marked(iter[s \ {Max(s)}], answer[Max(s)])
    BY <1>7, <1>9
  <2> QED
    BY <1>3, <1>9, <2>1, <2>2
<1>10. PICK it : IsRun(it, iter, n, T, <<>>, G)
  <2>1. FoldsBy(iter, n, T, <<>>, G)
    BY <1>1, <1>2, <1>8, <1>9 DEF FoldsBy
  <2> QED
    BY <2>1, FoldRuns
<1>11. \A m \in 1 .. n : it[m] = Marked(it[m - 1], answer[m])
  <2>1. ASSUME NEW m \in 1 .. n PROVE it[m] = Marked(it[m - 1], answer[m])
    <3>1. it[m - 1] \in T
      BY <1>1, <1>10 DEF IsRun
    <3> QED
      BY <1>3, <1>10, <3>1 DEF IsRun
  <2> QED
    BY <2>1
<1>12. it \in [0 .. n -> T] /\ it[0] = <<>> /\ it[n] = iter[1 .. n]
  BY <1>10 DEF IsRun
<1> QED
  BY <1>4, <1>11, <1>12 DEF n, T

LEMMA MarkersOnce ==
  ASSUME NEW answer \in Seq(Int)
  PROVE  LET markers == extract_markers(answer) IN
         /\ markers \in Seq(Int)
         /\ ToSet(markers) = ToSet(answer)
         /\ \A i, j \in DOMAIN markers : markers[i] = markers[j] => i = j
<1> DEFINE n == Len(answer)
           Once(t) == \A i, j \in DOMAIN t : t[i] = t[j] => i = j
<1>1. PICK it \in [0 .. n -> Seq(Int)] :
        /\ it[0] = <<>>
        /\ \A m \in 1 .. n : it[m] = Marked(it[m - 1], answer[m])
        /\ extract_markers(answer) = it[n]
  BY MarkersRun
<1> DEFINE K == {m \in Nat : m <= n => /\ Once(it[m])
                                       /\ ToSet(it[m]) = {answer[i] : i \in 1 .. m}}
<1>2. n \in Nat /\ DOMAIN answer = 1 .. n
  OBVIOUS
<1>3. 0 \in K
  BY <1>1 DEF ToSet
<1>4. ASSUME NEW m \in Nat, m \in K PROVE m + 1 \in K
  <2>1. SUFFICES ASSUME m + 1 <= n
                 PROVE  /\ Once(it[m + 1])
                        /\ ToSet(it[m + 1]) = {answer[i] : i \in 1 .. m + 1}
    OBVIOUS
  <2>2. m <= n /\ m \in 0 .. n /\ m + 1 \in 1 .. n /\ (m + 1) - 1 = m
    BY <1>2, <2>1
  <2> DEFINE seen == it[m]
             x == answer[m + 1]
  <2>3. /\ it[m + 1] = Marked(seen, x)
        /\ seen \in Seq(Int)
        /\ x \in Int
        /\ Once(seen)
        /\ ToSet(seen) = {answer[i] : i \in 1 .. m}
    BY <1>1, <1>4, <2>2
  <2>4. {answer[i] : i \in 1 .. m + 1} = {answer[i] : i \in 1 .. m} \cup {x}
    OBVIOUS
  <2>5. CASE x \in ToSet(seen)
    BY <2>3, <2>4, <2>5 DEF Marked
  <2>6. CASE x \notin ToSet(seen)
    <3> HIDE DEF seen, x
    <3> DEFINE t == Append(seen, x)
    <3>1. /\ it[m + 1] = t
          /\ t \in Seq(Int)
          /\ DOMAIN t = 1 .. Len(seen) + 1
          /\ DOMAIN seen = 1 .. Len(seen)
          /\ Len(seen) \in Nat
          /\ t[Len(seen) + 1] = x
          /\ \A i \in 1 .. Len(seen) : t[i] = seen[i]
      BY <2>3, <2>6 DEF Marked
    <3> HIDE DEF t
    <3>2. Once(t)
      <4>1. \A i \in 1 .. Len(seen) : t[i] # x
        BY <2>6, <3>1 DEF ToSet
      <4>2. \A i, j \in 1 .. Len(seen) : t[i] = t[j] => i = j
        BY <2>3, <3>1
      <4> QED
        BY SMTT(40), <3>1, <4>1, <4>2
    <3>3. ToSet(t) = ToSet(seen) \cup {x}
      <4>1. ASSUME NEW y \in ToSet(t) PROVE y \in ToSet(seen) \cup {x}
        <5>1. PICK i \in 1 .. Len(seen) + 1 : y = t[i]
          BY <3>1 DEF ToSet
        <5>2. CASE i = Len(seen) + 1
          BY <3>1, <5>1, <5>2
        <5>3. CASE i # Len(seen) + 1
          <6>1. i \in DOMAIN seen /\ y = seen[i]
            BY <3>1, <5>1, <5>3
          <6> QED
            BY <6>1 DEF ToSet
        <5> QED
          BY <5>2, <5>3
      <4>2. ASSUME NEW y \in ToSet(seen) PROVE y \in ToSet(t)
        <5>1. PICK i \in 1 .. Len(seen) : y = seen[i]
          BY <3>1 DEF ToSet
        <5>2. i \in DOMAIN t /\ y = t[i]
          BY <3>1, <5>1
        <5> QED
          BY <5>2 DEF ToSet
      <4>3. x \in ToSet(t)
        <5>1. Len(seen) + 1 \in DOMAIN t
          BY <3>1
        <5> QED
          BY <3>1, <5>1 DEF ToSet
      <4> QED
        BY <4>1, <4>2, <4>3
    <3> QED
      BY <2>3, <2>4, <3>1, <3>2, <3>3
  <2> QED
    BY <2>5, <2>6
<1>5. n \in K
  <2> HIDE DEF K
  <2>1. Nat \subseteq K
    BY <1>3, <1>4, SetInduction
  <2> QED
    BY <1>2, <2>1
<1>6. ToSet(answer) = {answer[i] : i \in 1 .. n}
  BY <1>2 DEF ToSet
<1> QED
  BY <1>1, <1>2, <1>5, <1>6

-----------------------------------------------------------------------------
(* The citations of an answer: one per marker in range, in their order.     *)

Citation(C) == [marker : Int, chunk : C]

Cited(cited, n, chunks) ==
  IF n \in 1 .. Len(chunks) THEN Append(cited, [marker |-> n, chunk |-> chunks[n]]) ELSE cited

(* The citations after 0 to Len(markers) markers.                           *)
IsCiting(it, answer, markers, C, chunks) ==
  /\ it \in [0 .. Len(markers) -> Seq(Citation(C))]
  /\ it[0] = <<>>
  /\ \A m \in 1 .. Len(markers) : it[m] = Cited(it[m - 1], markers[m], chunks)
  /\ build_citations(answer, chunks) = it[Len(markers)]

LEMMA CitationsRun ==
  ASSUME NEW answer, NEW markers \in Seq(Int), extract_markers(answer) = markers,
         NEW C, NEW chunks \in Seq(C)
  PROVE  \E it : IsCiting(it, answer, markers, C, chunks)
<1> DEFINE n == Len(markers)
           T == Seq(Citation(C))
           G == [p \in (1 .. n) \X T |-> Cited(p[2], markers[p[1]], chunks)]
           Rec(f) == f = [s \in SUBSET (1 .. n) |->
                            IF s = {} THEN <<>>
                            ELSE Cited(f[s \ {Max(s)}], markers[Max(s)], chunks)]
           iter == CHOOSE f : Rec(f)
<1>1. n \in Nat /\ DOMAIN markers = 1 .. n /\ <<>> \in T
  OBVIOUS
<1>2. G \in [(1 .. n) \X T -> T]
  <2>1. ASSUME NEW p \in (1 .. n) \X T PROVE Cited(p[2], markers[p[1]], chunks) \in T
    <3>1. markers[p[1]] \in Int /\ p[2] \in T
      OBVIOUS
    <3>2. \A m \in 1 .. Len(chunks) : [marker |-> m, chunk |-> chunks[m]] \in Citation(C)
      BY DEF Citation
    <3> QED
      BY <3>1, <3>2 DEF Cited
  <2> QED
    BY <2>1
<1>3. \A m \in 1 .. n, t \in T : G[<<m, t>>] = Cited(t, markers[m], chunks)
  OBVIOUS
<1>4. build_citations(answer, chunks) = iter[1 .. n]
  BY <1>1 DEF build_citations, FoldLeft, MapThenFoldSet, Cited
<1> HIDE DEF T, G, n
<1>5. PICK f : IsLeftFold(f, n, T, <<>>, G)
  BY <1>1, <1>2, FoldLeftIsDefined
<1>6. Rec(f)
  <2>1. ASSUME NEW s \in SUBSET (1 .. n), s # {}
        PROVE  f[s] = Cited(f[s \ {Max(s)}], markers[Max(s)], chunks)
    <3>1. Max(s) \in 1 .. n
      BY <1>1, <2>1, MaxIsThere
    <3>2. s \ {Max(s)} \in SUBSET (1 .. n) /\ f[s \ {Max(s)}] \in T
      BY <1>5 DEF IsLeftFold
    <3> QED
      BY <1>3, <1>5, <2>1, <3>1, <3>2 DEF IsLeftFold
  <2>2. f = [s \in SUBSET (1 .. n) |-> f[s]]
    BY <1>5 DEF IsLeftFold
  <2> QED
    BY <1>5, <2>1, <2>2 DEF IsLeftFold
<1>7. Rec(iter)
  BY <1>6
<1> HIDE DEF iter
<1>8. iter[{}] = <<>>
  BY <1>7
<1>9. ASSUME NEW s \in SUBSET (1 .. n), s # {}, iter[s \ {Max(s)}] \in T
      PROVE  iter[s] = G[<<Max(s), iter[s \ {Max(s)}]>>]
  <2>1. Max(s) \in 1 .. n
    BY <1>1, <1>9, MaxIsThere
  <2>2. iter[s] = Cited(iter[s \ {Max(s)}], markers[Max(s)], chunks)
    BY <1>7, <1>9
  <2> QED
    BY <1>3, <1>9, <2>1, <2>2
<1>10. PICK it : IsRun(it, iter, n, T, <<>>, G)
  <2>1. FoldsBy(iter, n, T, <<>>, G)
    BY <1>1, <1>2, <1>8, <1>9 DEF FoldsBy
  <2> QED
    BY <2>1, FoldRuns
<1>11. \A m \in 1 .. n : it[m] = Cited(it[m - 1], markers[m], chunks)
  <2>1. ASSUME NEW m \in 1 .. n PROVE it[m] = Cited(it[m - 1], markers[m], chunks)
    <3>1. it[m - 1] \in T
      BY <1>1, <1>10 DEF IsRun
    <3> QED
      BY <1>3, <1>10, <3>1 DEF IsRun
  <2> QED
    BY <2>1
<1>12. it \in [0 .. n -> T] /\ it[0] = <<>> /\ it[n] = iter[1 .. n]
  BY <1>10 DEF IsRun
<1> QED
  <2>1. IsCiting(it, answer, markers, C, chunks)
    BY <1>4, <1>11, <1>12 DEF n, T, IsCiting
  <2> QED
    BY <2>1

(* What the citations of a list of markers are.                             *)
Resolved(cites, chunks) ==
  \A i \in DOMAIN cites :
    cites[i].marker \in DOMAIN chunks /\ cites[i].chunk = chunks[cites[i].marker]

CitedOnce(cites) == \A i, j \in DOMAIN cites : cites[i].marker = cites[j].marker => i = j

Numbers(cites) == {cites[i].marker : i \in DOMAIN cites}

Upto(markers, m) == {markers[i] : i \in 1 .. m}

LEMMA OneMoreCitation ==
  ASSUME NEW C, NEW chunks \in Seq(C), NEW cites \in Seq(Citation(C)), NEW x \in Int,
         Resolved(cites, chunks), CitedOnce(cites), x \notin Numbers(cites)
  PROVE  LET t == Cited(cites, x, chunks) IN
         /\ Resolved(t, chunks)
         /\ CitedOnce(t)
         /\ Numbers(t) = Numbers(cites) \cup ({x} \cap DOMAIN chunks)
<1>1. DOMAIN chunks = 1 .. Len(chunks)
  OBVIOUS
<1>2. CASE x \notin DOMAIN chunks
  BY <1>1, <1>2 DEF Cited
<1>3. CASE x \in DOMAIN chunks
  <2> DEFINE new == [marker |-> x, chunk |-> chunks[x]]
             t == Append(cites, new)
  <2>1. new \in Citation(C) /\ new.marker = x /\ new.chunk = chunks[x]
    BY <1>3 DEF Citation
  <2>2. Cited(cites, x, chunks) = t
    BY <1>1, <1>3 DEF Cited
  <2> HIDE DEF new
  <2>3. /\ DOMAIN t = 1 .. Len(cites) + 1
        /\ DOMAIN cites = 1 .. Len(cites)
        /\ Len(cites) \in Nat
        /\ t[Len(cites) + 1] = new
        /\ \A i \in 1 .. Len(cites) : t[i] = cites[i]
    BY <2>1
  <2> HIDE DEF t
  <2>4. Resolved(t, chunks)
    <3>1. ASSUME NEW i \in 1 .. Len(cites)
          PROVE  t[i].marker \in DOMAIN chunks /\ t[i].chunk = chunks[t[i].marker]
      BY <2>3 DEF Resolved
    <3>2. /\ t[Len(cites) + 1].marker \in DOMAIN chunks
          /\ t[Len(cites) + 1].chunk = chunks[t[Len(cites) + 1].marker]
      BY <1>3, <2>1, <2>3
    <3> QED
      BY <2>3, <3>1, <3>2 DEF Resolved
  <2>5. CitedOnce(t)
    <3>1. \A i \in 1 .. Len(cites) : t[i].marker # x
      BY <2>3 DEF Numbers
    <3>2. \A i, j \in 1 .. Len(cites) : t[i].marker = t[j].marker => i = j
      BY <2>3 DEF CitedOnce
    <3>3. t[Len(cites) + 1].marker = x
      BY <2>1, <2>3
    <3> QED
      BY <2>3, <3>1, <3>2, <3>3 DEF CitedOnce
  <2>6. Numbers(t) = Numbers(cites) \cup {x}
    <3>1. \A y \in Numbers(t) : y \in Numbers(cites) \cup {x}
      BY <2>1, <2>3 DEF Numbers
    <3>2. \A y \in Numbers(cites) \cup {x} : y \in Numbers(t)
      BY <2>1, <2>3 DEF Numbers
    <3> QED
      BY <3>1, <3>2
  <2> QED
    BY <1>3, <2>2, <2>4, <2>5, <2>6
<1> QED
  BY <1>2, <1>3

(* An answer cites each chunk it numbers once, under its number.            *)
LEMMA CitationsOnce ==
  ASSUME NEW answer \in Seq(Int), NEW C, NEW chunks \in Seq(C)
  PROVE  LET cites == build_citations(answer, chunks) IN
         /\ cites \in Seq(Citation(C))
         /\ Resolved(cites, chunks)
         /\ CitedOnce(cites)
         /\ Numbers(cites) = ToSet(answer) \cap DOMAIN chunks
<1>1. PICK markers \in Seq(Int) :
        /\ extract_markers(answer) = markers
        /\ ToSet(markers) = ToSet(answer)
        /\ \A i, j \in DOMAIN markers : markers[i] = markers[j] => i = j
  BY MarkersOnce
<1> DEFINE n == Len(markers)
<1>2. PICK it : IsCiting(it, answer, markers, C, chunks)
  BY <1>1, CitationsRun
<1>3. n \in Nat /\ DOMAIN markers = 1 .. n
  OBVIOUS
<1> DEFINE K == {m \in Nat : m <= n =>
                   /\ Resolved(it[m], chunks)
                   /\ CitedOnce(it[m])
                   /\ Numbers(it[m]) = Upto(markers, m) \cap DOMAIN chunks}
<1>4. 0 \in K
  BY <1>2 DEF IsCiting, Resolved, CitedOnce, Numbers, Upto
<1>5. ASSUME NEW m \in Nat, m \in K PROVE m + 1 \in K
  <2>1. SUFFICES ASSUME m + 1 <= n
                 PROVE  /\ Resolved(it[m + 1], chunks)
                        /\ CitedOnce(it[m + 1])
                        /\ Numbers(it[m + 1]) = Upto(markers, m + 1) \cap DOMAIN chunks
    OBVIOUS
  <2>2. m <= n /\ m \in 0 .. n /\ m + 1 \in 1 .. n /\ (m + 1) - 1 = m
    BY <1>3, <2>1
  <2>3. /\ it[m + 1] = Cited(it[m], markers[m + 1], chunks)
        /\ it[m] \in Seq(Citation(C))
    BY <1>2, <2>2 DEF IsCiting
  <2>4. /\ markers[m + 1] \in Int
        /\ Resolved(it[m], chunks)
        /\ CitedOnce(it[m])
        /\ Numbers(it[m]) = Upto(markers, m) \cap DOMAIN chunks
    BY <1>3, <1>5, <2>2
  <2>5. Upto(markers, m + 1) = Upto(markers, m) \cup {markers[m + 1]}
    <3>1. 1 .. m + 1 = (1 .. m) \cup {m + 1}
      OBVIOUS
    <3> QED
      BY <3>1 DEF Upto
  <2>6. markers[m + 1] \notin Upto(markers, m)
    <3>1. \A i \in 1 .. m : i \in DOMAIN markers /\ i # m + 1
      BY <1>3, <2>2
    <3> QED
      BY <1>1, <1>3, <2>2, <3>1 DEF Upto
  <2>7. /\ Resolved(it[m + 1], chunks)
        /\ CitedOnce(it[m + 1])
        /\ Numbers(it[m + 1]) = Numbers(it[m]) \cup ({markers[m + 1]} \cap DOMAIN chunks)
    BY <2>3, <2>4, <2>6, OneMoreCitation
  <2> QED
    BY <2>4, <2>5, <2>7
<1>6. n \in K
  <2> HIDE DEF K
  <2>1. Nat \subseteq K
    BY <1>4, <1>5, SetInduction
  <2> QED
    BY <1>3, <2>1
<1>7. ToSet(markers) = Upto(markers, n)
  BY <1>3 DEF ToSet, Upto
<1>8. build_citations(answer, chunks) = it[n] /\ it[n] \in Seq(Citation(C))
  BY <1>2, <1>3 DEF IsCiting
<1> QED
  BY <1>1, <1>3, <1>6, <1>7, <1>8

-----------------------------------------------------------------------------
(* Sums over finite sets.                                                   *)

SumOf(f, S) == MapThenSumSet(LAMBDA x : f[x], S)

Picked(s) == CHOOSE x \in s : TRUE

IsSum(g, f, U) ==
  /\ g \in [SUBSET U -> Nat]
  /\ \A s \in SUBSET U : g[s] = IF s = {} THEN 0 ELSE f[Picked(s)] + g[s \ {Picked(s)}]

(* Induction over the subsets of a finite set.                              *)
LEMMA SubsetInduction ==
  ASSUME NEW U, IsFiniteSet(U), NEW P,
         \A s \in SUBSET U : (\A x \in s : s \ {x} \in P) => s \in P
  PROVE  SUBSET U \subseteq P
<1> DEFINE K == {k \in Nat : \A s \in SUBSET U : Cardinality(s) = k => s \in P}
<1>1. \A s \in SUBSET U : IsFiniteSet(s) /\ Cardinality(s) \in Nat
  BY FS_Subset, FS_CardinalityType
<1>2. 0 \in K
  BY <1>1, FS_EmptySet
<1>3. ASSUME NEW k \in Nat, k \in K PROVE k + 1 \in K
  <2>1. ASSUME NEW s \in SUBSET U, Cardinality(s) = k + 1, NEW x \in s PROVE s \ {x} \in P
    <3>0. IsFiniteSet(s)
      BY <1>1
    <3>1. Cardinality(s \ {x}) = Cardinality(s) - 1
      BY <2>1, <3>0, FS_RemoveElement
    <3>2. s \ {x} \in SUBSET U /\ Cardinality(s \ {x}) = k
      BY <2>1, <3>1
    <3> QED
      BY <1>3, <3>2
  <2> QED
    BY <2>1
<1> HIDE DEF K
<1>4. Nat \subseteq K
  BY <1>2, <1>3, SetInduction
<1> QED
  BY <1>1, <1>4 DEF K

LEMMA SumExists ==
  ASSUME NEW U, IsFiniteSet(U), NEW f \in [U -> Nat]
  PROVE  \E g : IsSum(g, f, U)
<1> DEFINE Pick == [s \in SUBSET U |-> Picked(s)]
           G == [p \in U \X Nat |-> f[p[1]] + p[2]]
<1>1. \A s \in SUBSET U : Pick[s] = Picked(s)
  OBVIOUS
<1>2. \A s \in SUBSET U : s # {} => Picked(s) \in s
  BY DEF Picked
<1>3. G \in [U \X Nat -> Nat]
  OBVIOUS
<1>4. \A x \in U, n \in Nat : G[<<x, n>>] = f[x] + n
  OBVIOUS
<1> HIDE DEF Pick, G
<1>5. PICK g : IsFold(g, U, Nat, 0, Pick, G)
  <2>1. \A s \in SUBSET U : s # {} => Pick[s] \in s
    BY <1>1, <1>2
  <2> QED
    BY <1>3, <2>1, FoldIsDefined
<1>6. g \in [SUBSET U -> Nat]
  BY <1>5 DEF IsFold
<1>7. ASSUME NEW s \in SUBSET U
      PROVE  g[s] = IF s = {} THEN 0 ELSE f[Picked(s)] + g[s \ {Picked(s)}]
  <2>1. CASE s = {}
    BY <1>5, <2>1 DEF IsFold
  <2>2. CASE s # {}
    <3>1. Picked(s) \in U /\ g[s \ {Picked(s)}] \in Nat
      BY <1>2, <1>6, <2>2
    <3>2. g[s] = G[<<Picked(s), g[s \ {Picked(s)}]>>]
      BY <1>1, <1>5, <2>2 DEF IsFold
    <3> QED
      BY <1>4, <2>2, <3>1, <3>2
  <2> QED
    BY <2>1, <2>2
<1> QED
  BY <1>6, <1>7 DEF IsSum

LEMMA SumIs ==
  ASSUME NEW U, IsFiniteSet(U), NEW f, NEW g, IsSum(g, f, U), NEW S \in SUBSET U
  PROVE  SumOf(f, S) = g[S]
<1> DEFINE Rec(h) == h = [s \in SUBSET S |->
                            IF s = {} THEN 0 ELSE f[Picked(s)] + h[s \ {Picked(s)}]]
           iter == CHOOSE h : Rec(h)
           restricted == [s \in SUBSET S |-> g[s]]
           P == {s \in SUBSET S : iter[s] = g[s]}
<1>1. SumOf(f, S) = iter[S]
  BY DEF SumOf, MapThenSumSet, MapThenFoldSet, Picked
<1>2. Rec(restricted)
  <2>1. ASSUME NEW s \in SUBSET S
        PROVE  g[s] = IF s = {} THEN 0 ELSE f[Picked(s)] + restricted[s \ {Picked(s)}]
    <3>1. s \in SUBSET U /\ s \ {Picked(s)} \in SUBSET S
      OBVIOUS
    <3>2. restricted[s \ {Picked(s)}] = g[s \ {Picked(s)}]
      BY <3>1
    <3> QED
      BY <3>1, <3>2 DEF IsSum
  <2> QED
    BY <2>1
<1>3. Rec(iter)
  BY <1>2
<1> HIDE DEF iter, restricted
<1>4. \A s \in SUBSET S : iter[s] = IF s = {} THEN 0 ELSE f[Picked(s)] + iter[s \ {Picked(s)}]
  BY <1>3
<1>5. ASSUME NEW s \in SUBSET S, \A x \in s : s \ {x} \in P PROVE s \in P
  <2>1. s \in SUBSET U
    OBVIOUS
  <2>2. CASE s = {}
    BY <1>4, <2>2, <2>1 DEF IsSum
  <2>3. CASE s # {}
    <3>1. Picked(s) \in s
      BY <2>3 DEF Picked
    <3>2. iter[s \ {Picked(s)}] = g[s \ {Picked(s)}]
      BY <1>5, <3>1
    <3> QED
      BY <1>4, <2>1, <2>3, <3>2 DEF IsSum
  <2> QED
    BY <2>2, <2>3
<1>6. SUBSET S \subseteq P
  <2>1. IsFiniteSet(S)
    BY FS_Subset
  <2> HIDE DEF P
  <2> QED
    BY <1>5, <2>1, SubsetInduction
<1> QED
  BY <1>1, <1>6

(* A sum is a number, and any of its terms may be taken first.              *)
LEMMA SumPeels ==
  ASSUME NEW U, IsFiniteSet(U), NEW f \in [U -> Nat]
  PROVE  /\ SumOf(f, {}) = 0
         /\ \A s \in SUBSET U : SumOf(f, s) \in Nat
         /\ \A s \in SUBSET U : \A x \in s : SumOf(f, s) = f[x] + SumOf(f, s \ {x})
<1>1. PICK g : IsSum(g, f, U)
  BY SumExists
<1>2. \A s \in SUBSET U : SumOf(f, s) = g[s] /\ g[s] \in Nat
  <2>1. \A s \in SUBSET U : g[s] \in Nat
    BY <1>1 DEF IsSum
  <2>2. ASSUME NEW s \in SUBSET U PROVE SumOf(f, s) = g[s]
    BY <1>1, SumIs
  <2> QED
    BY <2>1, <2>2
<1>3. \A s \in SUBSET U : g[s] = IF s = {} THEN 0 ELSE f[Picked(s)] + g[s \ {Picked(s)}]
  BY <1>1 DEF IsSum
<1> DEFINE P == {s \in SUBSET U : \A x \in s : g[s] = f[x] + g[s \ {x}]}
<1>4. ASSUME NEW s \in SUBSET U, \A x \in s : s \ {x} \in P PROVE s \in P
  <2>1. ASSUME NEW x \in s PROVE g[s] = f[x] + g[s \ {x}]
    <3> DEFINE y == Picked(s)
    <3>1. y \in s /\ g[s] = f[y] + g[s \ {y}]
      BY <1>3, <2>1 DEF Picked
    <3> HIDE DEF y
    <3>2. CASE y = x
      BY <3>1, <3>2
    <3>3. CASE y # x
      <4>1. g[s \ {y}] = f[x] + g[(s \ {y}) \ {x}]
        BY <1>4, <3>1, <3>3
      <4>2. g[s \ {x}] = f[y] + g[(s \ {x}) \ {y}]
        BY <1>4, <2>1, <3>1, <3>3
      <4>3. (s \ {y}) \ {x} = (s \ {x}) \ {y}
        OBVIOUS
      <4>4. f[x] \in Nat /\ f[y] \in Nat /\ g[(s \ {x}) \ {y}] \in Nat
        BY <1>2, <2>1, <3>1
      <4> QED
        BY <3>1, <4>1, <4>2, <4>3, <4>4
    <3> QED
      BY <3>2, <3>3
  <2> QED
    BY <2>1
<1>5. SUBSET U \subseteq P
  <2> HIDE DEF P
  <2> QED
    BY <1>4, SubsetInduction
<1>6. \A s \in SUBSET U : \A x \in s : SumOf(f, s) = f[x] + SumOf(f, s \ {x})
  <2>1. ASSUME NEW s \in SUBSET U, NEW x \in s PROVE SumOf(f, s) = f[x] + SumOf(f, s \ {x})
    <3>1. s \ {x} \in SUBSET U
      OBVIOUS
    <3> QED
      BY <1>2, <1>5, <3>1
  <2> QED
    BY <2>1
<1>7. SumOf(f, {}) = 0
  BY <1>2, <1>3
<1> QED
  BY <1>2, <1>6, <1>7

LEMMA SumsAdd ==
  ASSUME NEW U, IsFiniteSet(U), NEW f \in [U -> Nat],
         NEW s \in SUBSET U, NEW t \in SUBSET U, s \cap t = {}
  PROVE  SumOf(f, s \cup t) = SumOf(f, s) + SumOf(f, t)
<1> DEFINE P == {r \in SUBSET s : SumOf(f, r \cup t) = SumOf(f, r) + SumOf(f, t)}
<1>1. ASSUME NEW r \in SUBSET s, \A x \in r : r \ {x} \in P PROVE r \in P
  <2>0. r \in SUBSET U /\ r \cup t \in SUBSET U
    OBVIOUS
  <2>1. CASE r = {}
    <3>1. r \cup t = t
      BY <2>1
    <3> QED
      BY <2>1, <3>1, SumPeels
  <2>2. CASE r # {}
    <3>1. PICK x \in r : TRUE
      BY <2>2
    <3>2. SumOf(f, (r \ {x}) \cup t) = SumOf(f, r \ {x}) + SumOf(f, t)
      BY <1>1, <3>1
    <3>3. (r \cup t) \ {x} = (r \ {x}) \cup t
      BY <3>1
    <3>4. SumOf(f, r \cup t) = f[x] + SumOf(f, (r \cup t) \ {x})
      BY <2>0, <3>1, SumPeels
    <3>5. SumOf(f, r) = f[x] + SumOf(f, r \ {x})
      BY <2>0, <3>1, SumPeels
    <3>6. f[x] \in Nat /\ SumOf(f, r \ {x}) \in Nat /\ SumOf(f, t) \in Nat
      <4>1. r \ {x} \in SUBSET U
        BY <2>0
      <4> QED
        BY <4>1, <3>1, SumPeels
    <3> QED
      BY <3>2, <3>3, <3>4, <3>5, <3>6
  <2> QED
    BY <2>1, <2>2
<1>2. SUBSET s \subseteq P
  <2>1. IsFiniteSet(s)
    BY FS_Subset
  <2> HIDE DEF P
  <2> QED
    BY <1>1, <2>1, SubsetInduction
<1> QED
  BY <1>2

(* One more at x is one more wherever x counts.                             *)
LEMMA SumGrows ==
  ASSUME NEW U, IsFiniteSet(U), NEW f \in [U -> Nat], NEW x \in U,
         NEW h \in [U -> Nat], h[x] = f[x] + 1, \A y \in U : y # x => h[y] = f[y],
         NEW s \in SUBSET U
  PROVE  SumOf(h, s) = SumOf(f, s) + (IF x \in s THEN 1 ELSE 0)
<1> DEFINE P == {r \in SUBSET s : SumOf(h, r) = SumOf(f, r) + (IF x \in r THEN 1 ELSE 0)}
<1>1. h \in [U -> Nat] /\ h[x] = f[x] + 1 /\ \A y \in U : y # x => h[y] = f[y]
  OBVIOUS
<1>2. ASSUME NEW r \in SUBSET s, \A y \in r : r \ {y} \in P PROVE r \in P
  <2>0. r \in SUBSET U
    OBVIOUS
  <2>1. CASE r = {}
    <3>1. SumOf(f, {}) = 0 /\ SumOf(h, {}) = 0
      BY <1>1, SumPeels
    <3> QED
      BY <2>1, <3>1
  <2>2. CASE r # {}
    <3>1. PICK y \in r : TRUE
      BY <2>2
    <3>2. SumOf(h, r \ {y}) = SumOf(f, r \ {y}) + (IF x \in r \ {y} THEN 1 ELSE 0)
      BY <1>2, <3>1
    <3>3. SumOf(f, r) = f[y] + SumOf(f, r \ {y})
      BY <2>0, <3>1, SumPeels
    <3>4. SumOf(h, r) = h[y] + SumOf(h, r \ {y})
      BY <1>1, <2>0, <3>1, SumPeels
    <3>5. f[y] \in Nat /\ SumOf(f, r \ {y}) \in Nat
      <4>1. r \ {y} \in SUBSET U
        BY <2>0
      <4> QED
        BY <4>1, <3>1, SumPeels
    <3>6. SumOf(h, r) = SumOf(f, r) + (IF x \in r THEN 1 ELSE 0)
      <4>1. CASE y = x
        BY <1>1, <3>1, <3>2, <3>3, <3>4, <3>5, <4>1
      <4>2. CASE y # x
        BY <1>1, <3>1, <3>2, <3>3, <3>4, <3>5, <4>2
      <4> QED
        BY <4>1, <4>2
    <3> QED
      BY <3>6
  <2> QED
    BY <2>1, <2>2
<1>3. SUBSET s \subseteq P
  <2>1. IsFiniteSet(s)
    BY FS_Subset
  <2> HIDE DEF P
  <2> QED
    BY <1>2, <2>1, SubsetInduction
<1> QED
  BY <1>3

LEMMA SumsOrdered ==
  ASSUME NEW U, IsFiniteSet(U), NEW f \in [U -> Nat], NEW t \in SUBSET U, NEW s \in SUBSET t
  PROVE  SumOf(f, s) <= SumOf(f, t)
<1>1. s \in SUBSET U /\ t \ s \in SUBSET U /\ s \cap (t \ s) = {} /\ s \cup (t \ s) = t
  OBVIOUS
<1>2. SumOf(f, s \cup (t \ s)) = SumOf(f, s) + SumOf(f, t \ s)
  BY <1>1, SumsAdd
<1>3. SumOf(f, s) \in Nat /\ SumOf(f, t \ s) \in Nat
  BY <1>1, SumPeels
<1>4. SumOf(f, t) = SumOf(f, s) + SumOf(f, t \ s)
  BY <1>1, <1>2
<1> DEFINE part == SumOf(f, s)
           rest == SumOf(f, t \ s)
<1>5. part <= part + rest
  <2> HIDE DEF part, rest
  <2> QED
    BY <1>3 DEF part, rest
<1> QED
  BY <1>4, <1>5

LEMMA SumOfZeros ==
  ASSUME NEW U, IsFiniteSet(U), NEW f \in [U -> Nat], NEW s \in SUBSET U, \A x \in s : f[x] = 0
  PROVE  SumOf(f, s) = 0
<1> DEFINE P == {r \in SUBSET s : SumOf(f, r) = 0}
<1>1. ASSUME NEW r \in SUBSET s, \A x \in r : r \ {x} \in P PROVE r \in P
  <2>1. CASE r = {}
    BY <2>1, SumPeels
  <2>2. CASE r # {}
    <3>1. PICK x \in r : TRUE
      BY <2>2
    <3>2. r \in SUBSET U /\ f[x] = 0 /\ SumOf(f, r \ {x}) = 0
      BY <1>1, <3>1
    <3>3. SumOf(f, r) = f[x] + SumOf(f, r \ {x})
      BY <3>1, <3>2, SumPeels
    <3> QED
      BY <3>2, <3>3
  <2> QED
    BY <2>1, <2>2
<1>2. SUBSET s \subseteq P
  <2>1. IsFiniteSet(s)
    BY FS_Subset
  <2> HIDE DEF P
  <2> QED
    BY <1>1, <2>1, SubsetInduction
<1> QED
  BY <1>2

-----------------------------------------------------------------------------
(* A list of a set's elements, each once, counts them.                      *)
Lists(f, n, S) ==
  /\ f \in [1 .. n -> S]
  /\ \A i, j \in 1 .. n : f[i] = f[j] => i = j
  /\ \A y \in S : \E i \in 1 .. n : f[i] = y

LEMMA Counted ==
  ASSUME NEW S, NEW n \in Nat, NEW f, Lists(f, n, S)
  PROVE  IsFiniteSet(S) /\ Cardinality(S) = n
<1>1. f \in Bijection(1 .. n, S)
  BY DEF Lists, Bijection, Injection, Surjection, IsInjective
<1>2. ExistsBijection(1 .. n, S)
  BY <1>1 DEF ExistsBijection
<1> QED
  BY <1>2, FS_CountingElements, FS_NatBijection

LEMMA SmallerOfTwo ==
  ASSUME NEW a \in Nat, NEW b \in Nat
  PROVE  Min({a, b}) = IF a <= b THEN a ELSE b
<1> DEFINE m == IF a <= b THEN a ELSE b
<1>1. m \in {a, b} /\ \A y \in {a, b} : m <= y
  OBVIOUS
<1>2. \A x \in {a, b} : (\A y \in {a, b} : x <= y) => x = m
  OBVIOUS
<1> QED
  BY <1>1, <1>2 DEF Min

-----------------------------------------------------------------------------
(* A step that looks only at what comes before, by some measure, defines a  *)
(* recursive function.                                                      *)
Local(G, D, T, measure) ==
  /\ \A d \in D, f \in [D -> T] : G[<<d, f>>] \in T
  /\ \A d \in D : \A f, g \in [D -> T] :
       (\A e \in D : measure[e] < measure[d] => f[e] = g[e]) => G[<<d, f>>] = G[<<d, g>>]

IsRecursive(f, G, D, T) ==
  /\ f \in [D -> T]
  /\ \A d \in D : f[d] = G[<<d, f>>]

LEMMA RecursionIsDefined ==
  ASSUME NEW D, NEW T, NEW b \in T, NEW measure \in [D -> Nat],
         NEW G, Local(G, D, T, measure)
  PROVE  \E f : IsRecursive(f, G, D, T)
<1> DEFINE Good(f, k) == \A d \in D : measure[d] < k => f[d] = G[<<d, f>>]
           K == {k \in Nat : \E f \in [D -> T] : Good(f, k)}
<1>1. 0 \in K
  <2>1. [d \in D |-> b] \in [D -> T] /\ Good([d \in D |-> b], 0)
    OBVIOUS
  <2> QED
    BY <2>1
<1>2. ASSUME NEW k \in Nat, k \in K PROVE k + 1 \in K
  <2>1. PICK f \in [D -> T] : Good(f, k)
    BY <1>2
  <2> DEFINE g == [d \in D |-> IF measure[d] < k THEN f[d] ELSE G[<<d, f>>]]
  <2>2. g \in [D -> T]
    BY DEF Local
  <2>3. ASSUME NEW d \in D, measure[d] < k + 1 PROVE g[d] = G[<<d, g>>]
    <3>1. \A e \in D : measure[e] < measure[d] => f[e] = g[e]
      BY <2>3
    <3> HIDE DEF g
    <3>2. G[<<d, f>>] = G[<<d, g>>]
      BY <2>2, <3>1 DEF Local
    <3>3. g[d] = G[<<d, f>>]
      BY <2>1 DEF g
    <3> QED
      BY <3>2, <3>3
  <2> HIDE DEF g
  <2>4. Good(g, k + 1)
    BY <2>3
  <2> QED
    BY <2>2, <2>4
<1>3. ASSUME NEW k \in Nat, NEW l \in Nat, NEW f \in [D -> T], NEW g \in [D -> T],
             Good(f, k), Good(g, l)
      PROVE  \A d \in D : measure[d] < k /\ measure[d] < l => f[d] = g[d]
  <2> DEFINE Same(j) == \A d \in D : measure[d] < j /\ measure[d] < k /\ measure[d] < l => f[d] = g[d]
             U == {j \in Nat : Same(j)}
  <2>1. 0 \in U
    OBVIOUS
  <2>2. ASSUME NEW j \in Nat, j \in U PROVE j + 1 \in U
    <3>1. SUFFICES ASSUME NEW d \in D, measure[d] < j + 1, measure[d] < k, measure[d] < l
                   PROVE  f[d] = g[d]
      OBVIOUS
    <3>2. \A e \in D : measure[e] < measure[d] => f[e] = g[e]
      BY <2>2, <3>1
    <3>3. G[<<d, f>>] = G[<<d, g>>]
      BY <3>2 DEF Local
    <3> QED
      BY <1>3, <3>1, <3>3
  <2> HIDE DEF U
  <2>3. Nat \subseteq U
    BY <2>1, <2>2, SetInduction
  <2>4. k \in U
    BY <2>3
  <2> QED
    BY <2>4 DEF U
<1>4. Nat \subseteq K
  <2> HIDE DEF K
  <2> QED
    BY <1>1, <1>2, SetInduction
<1> DEFINE H(d) == CHOOSE f \in [D -> T] : Good(f, measure[d] + 1)
           F == [d \in D |-> H(d)[d]]
<1>5. ASSUME NEW d \in D PROVE H(d) \in [D -> T] /\ Good(H(d), measure[d] + 1)
  <2>1. measure[d] + 1 \in K
    BY <1>4
  <2>2. \E f \in [D -> T] : Good(f, measure[d] + 1)
    BY <2>1
  <2> QED
    BY <2>2
<1> HIDE DEF H
<1>6. F \in [D -> T]
  BY <1>5
<1>7. ASSUME NEW d \in D PROVE F[d] = G[<<d, F>>]
  <2>1. ASSUME NEW e \in D, measure[e] < measure[d] PROVE F[e] = H(d)[e]
    <3>1. measure[e] + 1 \in Nat /\ measure[d] + 1 \in Nat
          /\ measure[e] < measure[e] + 1 /\ measure[e] < measure[d] + 1
      BY <2>1
    <3>2. H(e)[e] = H(d)[e]
      BY <1>3, <1>5, <3>1
    <3> QED
      BY <3>2
  <2>2. G[<<d, F>>] = G[<<d, H(d)>>]
    <3>1. H(d) \in [D -> T]
      BY <1>5
    <3> HIDE DEF F
    <3> QED
      BY <1>6, <2>1, <3>1 DEF Local
  <2>3. measure[d] < measure[d] + 1
    OBVIOUS
  <2>4. H(d)[d] = G[<<d, H(d)>>]
    BY <1>5, <2>3
  <2> QED
    BY <2>2, <2>4
<1> HIDE DEF F
<1> QED
  BY <1>6, <1>7 DEF IsRecursive

LEMMA MinIsThere ==
  ASSUME NEW S \in SUBSET Nat, S # {}
  PROVE  Min(S) \in S /\ \A y \in S : Min(S) <= y
<1>1. IsWellFoundedOn(Less, Nat)
  BY NatLessThanWellFounded DEF OpToRel, Less
<1>2. PICK x \in S : \A y \in S : ~(<<y, x>> \in Less)
  BY <1>1, WFMin
<1>3. ASSUME NEW y \in S PROVE x <= y
  <2>1. x \in Nat /\ y \in Nat /\ ~(<<y, x>> \in Less)
    BY <1>2
  <2> QED
    BY <2>1 DEF Less
<1>4. \E x_1 \in S : \A y \in S : x_1 <= y
  BY <1>3
<1> QED
  BY <1>4 DEF Min

-----------------------------------------------------------------------------
(* Flat lists.                                                              *)

(* FlattenSeq is a function defined by recursion on the places.             *)
IsFlat(it, ss, S) ==
  /\ it \in [0 .. Len(ss) -> Seq(S)]
  /\ it[0] = <<>>
  /\ \A m \in 1 .. Len(ss) : it[m] = it[m - 1] \o ss[m]
  /\ FlattenSeq(ss) = it[Len(ss)]

LEMMA FlatRun ==
  ASSUME NEW S, NEW ss \in Seq(Seq(S)) PROVE \E it : IsFlat(it, ss, S)
<1> DEFINE n == Len(ss)
           T == Seq(S)
           G == [p \in (1 .. n) \X T |-> p[2] \o ss[p[1]]]
           Rec(f) == f = [i \in 1 .. n |-> IF i = 1 THEN ss[i] ELSE f[i - 1] \o ss[i]]
           flatten == CHOOSE f : Rec(f)
<1>1. n \in Nat /\ <<>> \in T /\ \A m \in 1 .. n : ss[m] \in T
  OBVIOUS
<1>2. CASE n = 0
  <2> DEFINE it == [m \in 0 .. n |-> <<>>]
  <2>1. FlattenSeq(ss) = <<>>
    BY <1>2 DEF FlattenSeq
  <2>2. IsFlat(it, ss, S)
    BY <1>1, <1>2, <2>1 DEF IsFlat
  <2> QED
    BY <2>2
<1>3. CASE n # 0
  <2>1. FlattenSeq(ss) = flatten[n]
    BY <1>3 DEF FlattenSeq
  <2>2. \A m \in 1 .. n, t \in T : t \o ss[m] \in T
    OBVIOUS
  <2>3. G \in [(1 .. n) \X T -> T] /\ \A m \in 1 .. n, t \in T : G[<<m, t>>] = t \o ss[m]
    BY <2>2
  <2> HIDE DEF T, G, n
  <2>4. PICK f : IsLeftFold(f, n, T, <<>>, G)
    BY <1>1, <2>3, FoldLeftIsDefined
  <2> DEFINE g == [i \in 1 .. n |-> f[1 .. i]]
  <2>5. ASSUME NEW i \in 1 .. n
        PROVE  f[1 .. i] = f[1 .. i - 1] \o ss[i] /\ f[1 .. i - 1] \in T
    <3>1. i \in Nat \ {0} /\ 1 .. i \in SUBSET (1 .. n) /\ 1 .. i - 1 \in SUBSET (1 .. n)
      BY <1>1
    <3>2. 1 .. i # {} /\ Max(1 .. i) = i /\ (1 .. i) \ {i} = 1 .. i - 1
      BY <3>1, Segments
    <3>3. f[1 .. i] = G[<<i, f[1 .. i - 1]>>] /\ f[1 .. i - 1] \in T
      BY <2>4, <3>1, <3>2 DEF IsLeftFold
    <3> QED
      BY <2>3, <3>3
  <2>6. Rec(g)
    <3>1. ASSUME NEW i \in 1 .. n
          PROVE  g[i] = IF i = 1 THEN ss[i] ELSE g[i - 1] \o ss[i]
      <4>1. CASE i = 1
        <5>1. 1 .. i - 1 = {}
          BY <4>1
        <5>3. f[{}] = <<>>
          BY <2>4 DEF IsLeftFold
        <5>2. <<>> \o ss[i] = ss[i]
          BY <1>1 DEF T
        <5> QED
          BY <2>5, <4>1, <5>1, <5>2, <5>3
      <4>2. CASE i # 1
        <5>1. i - 1 \in 1 .. n
          BY <1>1, <4>2
        <5> QED
          BY <2>5, <4>2, <5>1
      <4> QED
        BY <4>1, <4>2
    <3> QED
      BY <3>1
  <2>7. Rec(flatten)
    <3> HIDE DEF g
    <3> QED
      BY <2>6
  <2> HIDE DEF flatten
  <2>8. \A i \in 1 .. n : flatten[i] = IF i = 1 THEN ss[i] ELSE flatten[i - 1] \o ss[i]
    BY <2>7
  <2> DEFINE K == {i \in Nat : i + 1 <= n => flatten[i + 1] \in T}
  <2>9. 0 \in K
    <3>1. 1 \in 1 .. n
      BY <1>1, <1>3
    <3>2. flatten[1] = ss[1]
      BY <2>8, <3>1
    <3> QED
      BY <1>1, <3>1, <3>2
  <2>10. ASSUME NEW i \in Nat, i \in K PROVE i + 1 \in K
    <3>1. SUFFICES ASSUME (i + 1) + 1 <= n PROVE flatten[(i + 1) + 1] \in T
      OBVIOUS
    <3>2. /\ (i + 1) + 1 \in 1 .. n /\ (i + 1) + 1 # 1 /\ ((i + 1) + 1) - 1 = i + 1
          /\ i + 1 <= n
      BY <1>1, <3>1
    <3>3. flatten[i + 1] \in T
      BY <2>10, <3>2
    <3>4. flatten[(i + 1) + 1] = flatten[i + 1] \o ss[(i + 1) + 1]
      BY <2>8, <3>2
    <3> QED
      BY <2>2, <3>2, <3>3, <3>4
  <2>11. \A i \in 1 .. n : flatten[i] \in T
    <3> HIDE DEF K
    <3>1. Nat \subseteq K
      BY <2>9, <2>10, SetInduction
    <3>2. ASSUME NEW i \in 1 .. n PROVE flatten[i] \in T
      <4>1. i - 1 \in Nat /\ (i - 1) + 1 = i /\ i <= n
        BY <1>1
      <4>2. i - 1 \in K
        BY <3>1, <4>1
      <4> QED
        BY <4>1, <4>2 DEF K
    <3> QED
      BY <3>2
  <2> DEFINE it == [m \in 0 .. n |-> IF m = 0 THEN <<>> ELSE flatten[m]]
  <2>12. it \in [0 .. n -> T] /\ it[0] = <<>>
    BY <1>1, <2>11
  <2>13. ASSUME NEW m \in 1 .. n PROVE it[m] = it[m - 1] \o ss[m]
    <3>1. m \in 0 .. n /\ m - 1 \in 0 .. n /\ m # 0 /\ m \in Int
      BY <1>1
    <3>4. it[m] = flatten[m] /\ it[m - 1] = IF m - 1 = 0 THEN <<>> ELSE flatten[m - 1]
      BY <3>1
    <3>5. flatten[m] = IF m = 1 THEN ss[m] ELSE flatten[m - 1] \o ss[m]
      BY <2>8
    <3> HIDE DEF it
    <3>2. CASE m = 1
      <4>1. <<>> \o ss[m] = ss[m]
        BY <1>1 DEF T
      <4>2. m - 1 = 0
        BY <3>2
      <4> QED
        BY <3>2, <3>4, <3>5, <4>1, <4>2
    <3>3. CASE m # 1
      <4>1. m - 1 # 0
        BY <3>1, <3>3
      <4> QED
        BY <3>3, <3>4, <3>5, <4>1
    <3> QED
      BY <3>2, <3>3
  <2>14. FlattenSeq(ss) = it[n]
    BY <1>1, <1>3, <2>1
  <2> HIDE DEF it
  <2>15. IsFlat(it, ss, S)
    BY <2>12, <2>13, <2>14 DEF IsFlat, n, T
  <2> QED
    BY <2>15
<1> QED
  BY <1>2, <1>3

LEMMA FlatIsASequence ==
  ASSUME NEW S, NEW ss \in Seq(Seq(S)) PROVE FlattenSeq(ss) \in Seq(S)
<1>1. PICK it : IsFlat(it, ss, S)
  BY FlatRun
<1> QED
  BY <1>1 DEF IsFlat


(* Induction over sequences, for a set in the place of a predicate.         *)
LEMMA SeqInduction ==
  ASSUME NEW X, NEW P, <<>> \in P, \A s \in Seq(X), x \in X : s \in P => Append(s, x) \in P
  PROVE  Seq(X) \subseteq P
<1> DEFINE K == {n \in Nat : \A s \in Seq(X) : Len(s) = n => s \in P}
<1>1. 0 \in K
  <2>1. \A s \in Seq(X) : Len(s) = 0 => s = <<>>
    OBVIOUS
  <2> QED
    BY <2>1
<1>2. ASSUME NEW n \in Nat, n \in K PROVE n + 1 \in K
  <2>1. SUFFICES ASSUME NEW s \in Seq(X), Len(s) = n + 1 PROVE s \in P
    OBVIOUS
  <2> DEFINE t == SubSeq(s, 1, n)
             x == s[n + 1]
  <2>2. t \in Seq(X) /\ Len(t) = n /\ x \in X /\ s = Append(t, x)
    BY <2>1
  <2>3. t \in P
    BY <1>2, <2>2
  <2> QED
    BY <2>2, <2>3
<1>3. Nat \subseteq K
  <2> HIDE DEF K
  <2> QED
    BY <1>1, <1>2, SetInduction
<1>4. \A s \in Seq(X) : Len(s) \in Nat
  OBVIOUS
<1> QED
  BY <1>3, <1>4

LEMMA Associative ==
  ASSUME NEW S, NEW a \in Seq(S), NEW b \in Seq(S), NEW c \in Seq(S)
  PROVE  a \o b \in Seq(S) /\ (a \o b) \o c = a \o (b \o c) /\ a \o <<>> = a /\ <<>> \o a = a
OBVIOUS

(* A flat list, one list more.                                              *)
LEMMA FlatAppends ==
  ASSUME NEW S, NEW ss \in Seq(Seq(S)), NEW x \in Seq(S)
  PROVE  FlattenSeq(Append(ss, x)) = FlattenSeq(ss) \o x
<1> DEFINE more == Append(ss, x)
           n == Len(ss)
<1>1. /\ more \in Seq(Seq(S)) /\ n \in Nat /\ Len(more) = n + 1
      /\ more[n + 1] = x /\ \A m \in 1 .. n : more[m] = ss[m]
  OBVIOUS
<1>2. PICK it : IsFlat(it, ss, S)
  BY FlatRun
<1> HIDE DEF more
<1>3. PICK jt : IsFlat(jt, more, S)
  BY <1>1, FlatRun
<1> DEFINE U == {m \in Nat : m <= n => it[m] = jt[m]}
<1>4. 0 \in U
  BY <1>2, <1>3 DEF IsFlat
<1>5. ASSUME NEW m \in Nat, m \in U PROVE m + 1 \in U
  <2>1. SUFFICES ASSUME m + 1 <= n PROVE it[m + 1] = jt[m + 1]
    OBVIOUS
  <2>5. n \in Nat /\ it[m] = jt[m]
    BY <1>1, <1>5, <2>1
  <2>2. m + 1 \in 1 .. n /\ m + 1 \in 1 .. n + 1 /\ (m + 1) - 1 = m /\ it[m] = jt[m]
    <3> HIDE DEF n
    <3> QED
      BY <2>1, <2>5
  <2> DEFINE k == m + 1
  <2>3. it[k] = it[k - 1] \o ss[k] /\ jt[k] = jt[k - 1] \o more[k]
    <3> HIDE DEF k, n
    <3>1. k \in 1 .. Len(ss) /\ k \in 1 .. Len(more)
      BY <1>1, <2>2 DEF k, n
    <3> QED
      BY <1>2, <1>3, <3>1 DEF IsFlat
  <2>4. more[k] = ss[k]
    BY <1>1, <2>2
  <2> QED
    BY <2>2, <2>3, <2>4
<1>6. n \in U
  <2> HIDE DEF U
  <2> QED
    BY <1>1, <1>4, <1>5, SetInduction
<1>7. n + 1 \in 1 .. Len(more) /\ (n + 1) - 1 = n
  BY <1>1
<1>8. jt[n + 1] = jt[n] \o more[n + 1] /\ FlattenSeq(more) = jt[n + 1] /\ FlattenSeq(ss) = it[n]
  <2>1. n + 1 \in 1 .. Len(more) => jt[n + 1] = jt[(n + 1) - 1] \o more[n + 1]
    <3> DEFINE k == n + 1
    <3> HIDE DEF k
    <3>1. k \in 1 .. Len(more) => jt[k] = jt[k - 1] \o more[k]
      BY <1>3 DEF IsFlat
    <3> QED
      BY <3>1 DEF k
  <2>2. FlattenSeq(more) = jt[Len(more)] /\ FlattenSeq(ss) = it[Len(ss)]
    BY <1>2, <1>3 DEF IsFlat
  <2> QED
    BY <1>1, <1>7, <2>1, <2>2
<1>9. it[n] = jt[n]
  BY <1>1, <1>6
<1>10. FlattenSeq(more) = FlattenSeq(ss) \o x
  BY <1>1, <1>8, <1>9
<1> QED
  BY <1>10 DEF more

LEMMA FlatOfNone ==
  FlattenSeq(<<>>) = <<>>
BY DEF FlattenSeq

LEMMA FlatOfOne ==
  ASSUME NEW S, NEW x \in Seq(S) PROVE FlattenSeq(<<x>>) = x
<1>1. <<>> \in Seq(Seq(S)) /\ Append(<<>>, x) = <<x>> /\ <<>> \o x = x
  OBVIOUS
<1>2. FlattenSeq(Append(<<>>, x)) = FlattenSeq(<<>>) \o x
  BY <1>1, FlatAppends
<1> QED
  BY <1>1, <1>2, FlatOfNone

(* Two flat lists, one after the other.                                     *)
LEMMA FlatTogether ==
  ASSUME NEW S, NEW ss \in Seq(Seq(S)), NEW tt \in Seq(Seq(S))
  PROVE  FlattenSeq(ss \o tt) = FlattenSeq(ss) \o FlattenSeq(tt)
<1> DEFINE P == {q \in Seq(Seq(S)) : FlattenSeq(ss \o q) = FlattenSeq(ss) \o FlattenSeq(q)}
<1>1. FlattenSeq(ss) \in Seq(S)
  BY FlatIsASequence
<1>2. <<>> \in P
  <2>1. ss \o <<>> = ss /\ <<>> \in Seq(Seq(S)) /\ FlattenSeq(ss) \o <<>> = FlattenSeq(ss)
    BY <1>1
  <2> QED
    BY <2>1, FlatOfNone
<1>3. ASSUME NEW q \in Seq(Seq(S)), NEW x \in Seq(S), q \in P PROVE Append(q, x) \in P
  <2>1. ss \o q \in Seq(Seq(S)) /\ ss \o Append(q, x) = Append(ss \o q, x) /\ Append(q, x) \in Seq(Seq(S))
    OBVIOUS
  <2>2. FlattenSeq(Append(ss \o q, x)) = FlattenSeq(ss \o q) \o x
    BY <2>1, FlatAppends
  <2>3. FlattenSeq(Append(q, x)) = FlattenSeq(q) \o x
    BY FlatAppends
  <2>4. FlattenSeq(q) \in Seq(S) /\ FlattenSeq(ss \o q) = FlattenSeq(ss) \o FlattenSeq(q)
    BY <1>3, FlatIsASequence
  <2>5. (FlattenSeq(ss) \o FlattenSeq(q)) \o x = FlattenSeq(ss) \o (FlattenSeq(q) \o x)
    BY SMTT(40), <1>1, <2>4, Associative
  <2> QED
    BY <2>1, <2>2, <2>3, <2>4, <2>5
<1>4. Seq(Seq(S)) \subseteq P
  <2> HIDE DEF P
  <2> QED
    BY <1>2, <1>3, SeqInduction
<1> QED
  BY <1>4

(* A flat list of lists that are empty.                                     *)
LEMMA FlatOfEmpty ==
  ASSUME NEW S, NEW ss \in Seq(Seq(S)), \A i \in 1 .. Len(ss) : ss[i] = <<>>
  PROVE  FlattenSeq(ss) = <<>>
<1>1. PICK it : IsFlat(it, ss, S)
  BY FlatRun
<1> DEFINE n == Len(ss)
           U == {m \in Nat : m <= n => it[m] = <<>>}
<1>2. n \in Nat
  OBVIOUS
<1>3. 0 \in U
  BY <1>1 DEF IsFlat
<1>4. ASSUME NEW m \in Nat, m \in U PROVE m + 1 \in U
  <2>1. SUFFICES ASSUME m + 1 <= n PROVE it[m + 1] = <<>>
    OBVIOUS
  <2>2. m + 1 \in 1 .. n /\ (m + 1) - 1 = m /\ it[m] = <<>>
    BY <1>2, <1>4, <2>1
  <2>3. it[m + 1] = it[m] \o ss[m + 1]
    BY <1>1, <2>2 DEF IsFlat
  <2> QED
    BY SMTT(40), <2>2, <2>3
<1>5. n \in U
  <2> HIDE DEF U
  <2> QED
    BY <1>2, <1>3, <1>4, SetInduction
<1> QED
  BY <1>1, <1>2, <1>5 DEF IsFlat

(* Two lists, one after the other, place by place.                          *)
Follows(u, s, t) ==
  /\ Len(u) = Len(s) + Len(t) /\ Len(s) \in Nat /\ Len(t) \in Nat
  /\ \A i \in 1 .. Len(s) : u[i] = s[i]
  /\ \A i \in 1 .. Len(t) : u[Len(s) + i] = t[i]

LEMMA TwoTogether ==
  ASSUME NEW S, NEW s \in Seq(S), NEW t \in Seq(S)
  PROVE  s \o t \in Seq(S) /\ Follows(s \o t, s, t)
<1>1. s \o t \in Seq(S) /\ Len(s \o t) = Len(s) + Len(t)
  BY ConcatProperties
<1>2. \A i \in 1 .. Len(s) : (s \o t)[i] = s[i]
  OBVIOUS
<1>3. \A i \in 1 .. Len(t) : (s \o t)[Len(s) + i] = t[i]
  OBVIOUS
<1>4. Len(s) \in Nat /\ Len(t) \in Nat
  OBVIOUS
<1> QED
  BY <1>1, <1>2, <1>3, <1>4 DEF Follows

(* Lists with the same elements at the same places.                         *)
LEMMA SameList ==
  ASSUME NEW S, NEW s \in Seq(S), NEW t \in Seq(S), Len(s) = Len(t), \A i \in 1 .. Len(s) : s[i] = t[i]
  PROVE  s = t
OBVIOUS

LEMMA PrefixGrows ==
  ASSUME NEW S, NEW s \in Seq(S), NEW m \in Nat, m + 1 <= Len(s)
  PROVE  /\ SubSeq(s, 1, m) \in Seq(S) /\ s[m + 1] \in S /\ m + 1 \in 1 .. Len(s) /\ (m + 1) - 1 = m
         /\ SubSeq(s, 1, m + 1) = Append(SubSeq(s, 1, m), s[m + 1])
<1>1. Len(s) \in Nat /\ m + 1 \in 1 .. Len(s) /\ (m + 1) - 1 = m
  OBVIOUS
<1>2. s[m + 1] \in S
  BY <1>1
<1>3. SubSeq(s, 1, m) \in Seq(S) /\ Len(SubSeq(s, 1, m)) = m /\ \A i \in 1 .. m : SubSeq(s, 1, m)[i] = s[i]
  BY <1>1
<1>4. /\ SubSeq(s, 1, m + 1) \in Seq(S) /\ Len(SubSeq(s, 1, m + 1)) = m + 1
      /\ \A i \in 1 .. m + 1 : SubSeq(s, 1, m + 1)[i] = s[i]
  BY <1>1
<1> DEFINE t == SubSeq(s, 1, m)
           u == SubSeq(s, 1, m + 1)
           x == s[m + 1]
           v == Append(t, x)
<1> HIDE DEF t, u, x
<1>5. v \in Seq(S) /\ Len(v) = m + 1 /\ \A i \in 1 .. m + 1 : v[i] = IF i = m + 1 THEN x ELSE t[i]
  BY <1>2, <1>3 DEF t, x
<1>6. \A i \in 1 .. m + 1 : u[i] = v[i]
  BY <1>3, <1>4, <1>5 DEF t, u, x
<1> HIDE DEF v
<1>7. u = v
  BY <1>4, <1>5, <1>6, SameList DEF u
<1> QED
  BY <1>1, <1>2, <1>3, <1>7 DEF t, u, v, x

LEMMA WholeList ==
  ASSUME NEW S, NEW s \in Seq(S)
  PROVE  SubSeq(s, 1, Len(s)) = s /\ SubSeq(s, 1, 0) = <<>> /\ Len(s) \in Nat
OBVIOUS

(* What a list becomes when each of its elements is replaced by a list.     *)
Each(s, g) == [i \in DOMAIN s |-> g[s[i]]]

Mapped(s, g) == FlattenSeq(Each(s, g))

LEMMA EachIsASequence ==
  ASSUME NEW X, NEW T, NEW g \in [X -> T], NEW s \in Seq(X)
  PROVE  /\ Each(s, g) \in Seq(T) /\ Len(Each(s, g)) = Len(s)
         /\ \A i \in 1 .. Len(s) : Each(s, g)[i] = g[s[i]]
<1>1. Len(s) \in Nat /\ DOMAIN s = 1 .. Len(s) /\ \A i \in 1 .. Len(s) : g[s[i]] \in T
  OBVIOUS
<1>2. Each(s, g) \in [1 .. Len(s) -> T]
  BY <1>1 DEF Each
<1> QED
  BY <1>1, <1>2 DEF Each

LEMMA MapIsASequence ==
  ASSUME NEW X, NEW S, NEW g \in [X -> Seq(S)], NEW s \in Seq(X)
  PROVE  Each(s, g) \in Seq(Seq(S)) /\ Mapped(s, g) \in Seq(S)
<1>1. Each(s, g) \in Seq(Seq(S))
  BY EachIsASequence
<1> QED
  BY <1>1, FlatIsASequence DEF Mapped

(* Two lists element by element, one after the other.                       *)
LEMMA EachTogether ==
  ASSUME NEW X, NEW T, NEW g \in [X -> T], NEW s \in Seq(X), NEW t \in Seq(X)
  PROVE  Each(s \o t, g) = Each(s, g) \o Each(t, g)
<1>1. ASSUME NEW q \in Seq(X)
      PROVE  /\ Each(q, g) \in Seq(T) /\ Len(Each(q, g)) = Len(q)
             /\ \A i \in 1 .. Len(q) : Each(q, g)[i] = g[q[i]]
  BY SMTT(40), EachIsASequence
<1> DEFINE a == Each(s, g)
           b == Each(t, g)
           u == s \o t
           both == Each(u, g)
<1>2. /\ u \in Seq(X) /\ Len(u) = Len(s) + Len(t) /\ Len(s) \in Nat /\ Len(t) \in Nat
      /\ \A i \in 1 .. Len(s) : u[i] = s[i]
      /\ \A i \in 1 .. Len(t) : u[Len(s) + i] = t[i]
  OBVIOUS
<1> HIDE DEF u
<1>3. a \in Seq(T) /\ Len(a) = Len(s) /\ \A i \in 1 .. Len(s) : a[i] = g[s[i]]
  BY <1>1
<1>4. b \in Seq(T) /\ Len(b) = Len(t) /\ \A i \in 1 .. Len(t) : b[i] = g[t[i]]
  BY <1>1
<1>5. both \in Seq(T) /\ Len(both) = Len(u) /\ \A i \in 1 .. Len(u) : both[i] = g[u[i]]
  BY <1>1, <1>2
<1> HIDE DEF a, b, both
<1>6. /\ a \o b \in Seq(T) /\ Len(a \o b) = Len(s) + Len(t)
      /\ \A i \in 1 .. Len(s) : (a \o b)[i] = a[i]
      /\ \A i \in 1 .. Len(t) : (a \o b)[Len(s) + i] = b[i]
  <2>1. a \o b \in Seq(T) /\ Len(a \o b) = Len(a) + Len(b)
    BY <1>3, <1>4, ConcatProperties
  <2>2. \A i \in 1 .. Len(a) : (a \o b)[i] = a[i]
    BY <1>3, <1>4
  <2>3. \A i \in 1 .. Len(b) : (a \o b)[Len(a) + i] = b[i]
    BY <1>3, <1>4
  <2> QED
    BY <1>3, <1>4, <2>1, <2>2, <2>3
<1>7. ASSUME NEW i \in 1 .. Len(s) + Len(t) PROVE both[i] = (a \o b)[i]
  <2>1. both[i] = g[u[i]]
    BY <1>2, <1>5
  <2>2. CASE i <= Len(s)
    <3>1. i \in 1 .. Len(s)
      BY <1>2, <2>2
    <3> QED
      BY <1>2, <1>3, <1>6, <2>1, <3>1
  <2>3. CASE i > Len(s)
    <3> DEFINE k == i - Len(s)
    <3>1. k \in 1 .. Len(t) /\ Len(s) + k = i
      BY <1>2, <2>3
    <3> HIDE DEF k
    <3>2. u[Len(s) + k] = t[k] /\ (a \o b)[Len(s) + k] = b[k] /\ b[k] = g[t[k]]
      BY <1>2, <1>4, <1>6, <3>1
    <3> QED
      BY <2>1, <3>1, <3>2
  <2>4. i <= Len(s) \/ i > Len(s)
    BY <1>2
  <2> QED
    BY <2>2, <2>3, <2>4
<1>8. both = a \o b
  <2> DEFINE c == a \o b
  <2>1. c \in Seq(T) /\ Len(c) = Len(both) /\ both \in Seq(T) /\ \A i \in 1 .. Len(both) : both[i] = c[i]
    BY <1>2, <1>5, <1>6, <1>7
  <2> HIDE DEF c
  <2>2. both = c
    BY SMTT(40), <2>1
  <2> QED
    BY <2>2 DEF c
<1> QED
  BY <1>8 DEF a, b, both, u

LEMMA MapTogether ==
  ASSUME NEW X, NEW S, NEW g \in [X -> Seq(S)], NEW s \in Seq(X), NEW t \in Seq(X)
  PROVE  Mapped(s \o t, g) = Mapped(s, g) \o Mapped(t, g)
<1>1. Each(s, g) \in Seq(Seq(S)) /\ Each(t, g) \in Seq(Seq(S))
  BY MapIsASequence
<1>2. Each(s \o t, g) = Each(s, g) \o Each(t, g)
  BY ZenonT(60), EachTogether
<1>3. FlattenSeq(Each(s, g) \o Each(t, g)) = FlattenSeq(Each(s, g)) \o FlattenSeq(Each(t, g))
  BY <1>1, FlatTogether
<1> QED
  BY <1>2, <1>3 DEF Mapped

LEMMA MapOfNone ==
  ASSUME NEW g PROVE Mapped(<<>>, g) = <<>>
<1>1. Each(<<>>, g) = <<>>
  BY DEF Each
<1> QED
  BY <1>1, FlatOfNone DEF Mapped

LEMMA MapOfOne ==
  ASSUME NEW X, NEW S, NEW g \in [X -> Seq(S)], NEW x \in X
  PROVE  Mapped(<<x>>, g) = g[x]
<1>1. Each(<<x>>, g) = <<g[x]>> /\ g[x] \in Seq(S)
  BY DEF Each
<1> QED
  BY <1>1, FlatOfOne DEF Mapped

LEMMA MapAppends ==
  ASSUME NEW X, NEW S, NEW g \in [X -> Seq(S)], NEW s \in Seq(X), NEW x \in X
  PROVE  Mapped(Append(s, x), g) = Mapped(s, g) \o g[x]
<1>1. Append(s, x) = s \o <<x>> /\ <<x>> \in Seq(X)
  OBVIOUS
<1>2. Mapped(s \o <<x>>, g) = Mapped(s, g) \o Mapped(<<x>>, g)
  BY <1>1, MapTogether
<1>3. Mapped(<<x>>, g) = g[x]
  BY MapOfOne
<1> QED
  BY <1>1, <1>2, <1>3

(* What becomes of a list depends on what becomes of its elements.          *)
LEMMA MapAgrees ==
  ASSUME NEW s, NEW t, NEW g, NEW h, DOMAIN s = DOMAIN t, \A i \in DOMAIN s : g[s[i]] = h[t[i]]
  PROVE  Mapped(s, g) = Mapped(t, h)
<1>1. Each(s, g) = Each(t, h)
  BY DEF Each
<1> QED
  BY <1>1 DEF Mapped

LEMMA MapOfEmpty ==
  ASSUME NEW X, NEW S, NEW g \in [X -> Seq(S)], NEW s \in Seq(X), \A i \in DOMAIN s : g[s[i]] = <<>>
  PROVE  Mapped(s, g) = <<>>
<1>1. Each(s, g) \in Seq(Seq(S))
  BY MapIsASequence
<1>2. \A k \in 1 .. Len(Each(s, g)) : Each(s, g)[k] = <<>>
  BY <1>1 DEF Each
<1> QED
  BY <1>1, <1>2, FlatOfEmpty DEF Mapped

(* Replacing the elements of what replaced the elements.                    *)
Composes(both, g, h, X, Y, S) ==
  /\ g \in [X -> Seq(Y)] /\ h \in [Y -> Seq(S)] /\ both \in [X -> Seq(S)]
  /\ \A x \in X : both[x] = Mapped(g[x], h)

LEMMA MapOfMap ==
  ASSUME NEW X, NEW Y, NEW S, NEW g, NEW h, NEW both, Composes(both, g, h, X, Y, S),
         NEW s \in Seq(X)
  PROVE  Mapped(Mapped(s, g), h) = Mapped(s, both)
<1> USE DEF Composes
<1> DEFINE P == {q \in Seq(X) : Mapped(Mapped(q, g), h) = Mapped(q, both)}
<1>1. <<>> \in P
  BY MapOfNone
<1>2. ASSUME NEW q \in Seq(X), NEW x \in X, q \in P PROVE Append(q, x) \in P
  <2>1. Mapped(Append(q, x), g) = Mapped(q, g) \o g[x]
    BY ZenonT(60), MapAppends
  <2>2. Mapped(q, g) \in Seq(Y) /\ g[x] \in Seq(Y)
    BY MapIsASequence
  <2> DEFINE u == Mapped(q, g)
             v == g[x]
  <2> HIDE DEF u, v
  <2>7. u \in Seq(Y) /\ v \in Seq(Y)
    BY <2>2 DEF u, v
  <2>6. Mapped(u \o v, h) = Mapped(u, h) \o Mapped(v, h)
    BY ZenonT(60), <2>7, MapTogether
  <2>3. Mapped(Mapped(q, g) \o g[x], h) = Mapped(Mapped(q, g), h) \o Mapped(g[x], h)
    BY <2>6 DEF u, v
  <2>4. Mapped(Append(q, x), both) = Mapped(q, both) \o both[x]
    BY ZenonT(60), MapAppends
  <2>5. Mapped(Mapped(q, g), h) = Mapped(q, both) /\ Append(q, x) \in Seq(X)
    BY <1>2
  <2> QED
    BY <2>1, <2>3, <2>4, <2>5
<1>3. Seq(X) \subseteq P
  <2> HIDE DEF P
  <2> QED
    BY <1>1, <1>2, SeqInduction
<1> QED
  BY <1>3

(* A flat list is a list of lists whose elements are replaced by themselves.*)
LEMMA FlatIsMapped ==
  ASSUME NEW S, NEW ss \in Seq(Seq(S)), NEW same \in [Seq(S) -> Seq(S)], \A t \in Seq(S) : same[t] = t
  PROVE  FlattenSeq(ss) = Mapped(ss, same)
<1>1. Each(ss, same) = ss
  BY DEF Each
<1> QED
  BY <1>1 DEF Mapped

-----------------------------------------------------------------------------
(* Lists: what is in them, and what their parts are.                        *)
Distinct(s) == \A i, j \in DOMAIN s : s[i] = s[j] => i = j

(* A sequence that grows by something it does not have.                     *)
LEMMA DistinctGrows ==
  ASSUME NEW E, NEW s \in Seq(E), Distinct(s), NEW x \in E, x \notin ToSet(s)
  PROVE  /\ Append(s, x) \in Seq(E)
         /\ Distinct(Append(s, x))
         /\ ToSet(Append(s, x)) = ToSet(s) \cup {x}
<1> DEFINE t == Append(s, x)
<1>1. /\ t \in Seq(E)
      /\ DOMAIN t = 1 .. Len(s) + 1
      /\ DOMAIN s = 1 .. Len(s)
      /\ Len(s) \in Nat
      /\ t[Len(s) + 1] = x
      /\ \A i \in 1 .. Len(s) : t[i] = s[i]
  OBVIOUS
<1> HIDE DEF t
<1>2. \A i \in DOMAIN t : i \in 1 .. Len(s) \/ i = Len(s) + 1
  BY <1>1
<1>3. \A i \in 1 .. Len(s) : i \in DOMAIN t /\ i \in DOMAIN s /\ t[i] # x /\ t[i] \in ToSet(s)
  BY <1>1 DEF ToSet
<1>4. Distinct(t)
  <2>1. ASSUME NEW i \in DOMAIN t, NEW j \in DOMAIN t, t[i] = t[j] PROVE i = j
    <3>1. CASE i \in 1 .. Len(s) /\ j \in 1 .. Len(s)
      BY <1>1, <2>1, <3>1 DEF Distinct
    <3>2. CASE i = Len(s) + 1 \/ j = Len(s) + 1
      BY <1>1, <1>2, <1>3, <2>1, <3>2
    <3> QED
      BY <1>2, <3>1, <3>2
  <2> QED
    BY <2>1 DEF Distinct
<1>5. ToSet(t) = ToSet(s) \cup {x}
  <2>1. ASSUME NEW y \in ToSet(t) PROVE y \in ToSet(s) \cup {x}
    <3>1. PICK i \in DOMAIN t : y = t[i]
      BY DEF ToSet
    <3> QED
      BY <1>1, <1>2, <1>3, <3>1
  <2>2. ASSUME NEW y \in ToSet(s) PROVE y \in ToSet(t)
    <3>1. PICK i \in DOMAIN s : y = s[i]
      BY DEF ToSet
    <3>2. i \in DOMAIN t /\ y = t[i]
      BY <1>1, <3>1
    <3> QED
      BY <3>2 DEF ToSet
  <2>3. x \in ToSet(t)
    <3>1. Len(s) + 1 \in DOMAIN t
      BY <1>1
    <3> QED
      BY <1>1, <3>1 DEF ToSet
  <2> QED
    BY <2>1, <2>2, <2>3
<1> QED
  BY <1>1, <1>4, <1>5 DEF t

LEMMA EachAppends ==
  ASSUME NEW X, NEW T, NEW g \in [X -> T], NEW s \in Seq(X), NEW x \in X
  PROVE  Each(Append(s, x), g) = Append(Each(s, g), g[x]) /\ Each(s, g) \in Seq(T)
<1>1. Append(s, x) = s \o <<x>> /\ <<x>> \in Seq(X)
  OBVIOUS
<1>2. Each(s \o <<x>>, g) = Each(s, g) \o Each(<<x>>, g)
  BY <1>1, EachTogether
<1>3. Each(<<x>>, g) = <<g[x]>>
  BY DEF Each
<1>4. Each(s, g) \in Seq(T) /\ g[x] \in T
  BY EachIsASequence
<1> DEFINE a == Each(s, g)
           y == g[x]
<1> HIDE DEF a, y
<1>5. a \o <<y>> = Append(a, y)
  BY <1>4 DEF a, y
<1> QED
  BY <1>1, <1>2, <1>3, <1>4, <1>5 DEF a, y

LEMMA EachOver ==
  ASSUME NEW X, NEW g, DOMAIN g = X, NEW s \in Seq(X), NEW x \in X
  PROVE  Each(Append(s, x), g) = Each(s, g) \o <<g[x]>>
<1> DEFINE T == {g[y] : y \in X}
           f == [y \in X |-> g[y]]
<1>1. f \in [X -> T] /\ \A y \in X : f[y] = g[y]
  OBVIOUS
<1> HIDE DEF f, T
<1>2. Each(Append(s, x), f) = Append(Each(s, f), f[x]) /\ Each(s, f) \in Seq(T) /\ f[x] \in T
  <2>1. f[x] \in T
    BY <1>1
  <2>2. Each(Append(s, x), f) = Append(Each(s, f), f[x]) /\ Each(s, f) \in Seq(T)
    BY <1>1, EachAppends
  <2> QED
    BY <2>1, <2>2
<1>3. ASSUME NEW q \in Seq(X) PROVE Each(q, f) = Each(q, g)
  <2>1. \A i \in DOMAIN q : q[i] \in X
    OBVIOUS
  <2> QED
    BY <1>1, <2>1 DEF Each
<1> DEFINE a == Each(s, f)
           y == f[x]
<1>4. Append(a, y) = a \o <<y>>
  <2> HIDE DEF a, y
  <2>1. a \in Seq(T) /\ y \in T
    BY <1>2 DEF a, y
  <2> QED
    BY <2>1
<1>5. Append(s, x) \in Seq(X)
  OBVIOUS
<1> QED
  BY <1>1, <1>2, <1>3, <1>4, <1>5

(* The chunks in a set, in their order.                                     *)
Choosing(R, P) == [c \in R |-> IF c \in P THEN <<c>> ELSE <<>>]

LEMMA ChosenAre ==
  ASSUME NEW R, NEW P, NEW cs \in Seq(R) PROVE Mapped(cs, Choosing(R, P)) \in Seq(R)
<1>1. Choosing(R, P) \in [R -> Seq(R)]
  BY DEF Choosing
<1> QED
  BY <1>1, MapIsASequence

(* What is in a list.                                                       *)
LEMMA HasTogether ==
  ASSUME NEW S, NEW s \in Seq(S), NEW t \in Seq(S) PROVE ToSet(s \o t) = ToSet(s) \cup ToSet(t)
<1> DEFINE u == s \o t
<1>1. u \in Seq(S) /\ Follows(u, s, t)
  BY TwoTogether
<1> HIDE DEF u
<1>2. /\ DOMAIN u = 1 .. Len(u) /\ DOMAIN s = 1 .. Len(s) /\ DOMAIN t = 1 .. Len(t)
      /\ Len(u) = Len(s) + Len(t) /\ Len(s) \in Nat /\ Len(t) \in Nat
  BY <1>1 DEF Follows
<1>3. ASSUME NEW i \in DOMAIN u PROVE u[i] \in ToSet(s) \cup ToSet(t)
  <2>1. CASE i \in 1 .. Len(s)
    <3>1. u[i] = s[i]
      BY <1>1, <2>1 DEF Follows
    <3> QED
      BY <1>2, <2>1, <3>1 DEF ToSet
  <2>2. CASE i \notin 1 .. Len(s)
    <3> DEFINE k == i - Len(s)
    <3>1. k \in 1 .. Len(t) /\ i = Len(s) + k
      BY <1>2, <2>2
    <3> HIDE DEF k
    <3>2. u[i] = t[k]
      BY <1>1, <3>1 DEF Follows
    <3> QED
      BY <1>2, <3>1, <3>2 DEF ToSet
  <2> QED
    BY <2>1, <2>2
<1>4. ASSUME NEW i \in 1 .. Len(s) PROVE s[i] \in ToSet(u)
  <2>1. u[i] = s[i] /\ i \in DOMAIN u
    BY <1>1, <1>2 DEF Follows
  <2> QED
    BY <2>1 DEF ToSet
<1>5. ASSUME NEW i \in 1 .. Len(t) PROVE t[i] \in ToSet(u)
  <2>1. u[Len(s) + i] = t[i] /\ Len(s) + i \in DOMAIN u
    BY <1>1, <1>2 DEF Follows
  <2> QED
    BY <2>1 DEF ToSet
<1>6. ToSet(u) \subseteq ToSet(s) \cup ToSet(t)
  BY <1>3 DEF ToSet
<1>7. ToSet(s) \subseteq ToSet(u) /\ ToSet(t) \subseteq ToSet(u)
  BY <1>2, <1>4, <1>5 DEF ToSet
<1> QED
  BY <1>6, <1>7 DEF u

LEMMA HasAppended ==
  ASSUME NEW S, NEW s \in Seq(S), NEW x \in S PROVE ToSet(Append(s, x)) = ToSet(s) \cup {x}
<1>1. Append(s, x) = s \o <<x>> /\ <<x>> \in Seq(S)
  OBVIOUS
<1>2. ToSet(s \o <<x>>) = ToSet(s) \cup ToSet(<<x>>)
  BY ZenonT(60), <1>1, HasTogether
<1>3. ToSet(<<x>>) = {x}
  BY DEF ToSet
<1> QED
  BY <1>1, <1>2, <1>3

LEMMA MapHas ==
  ASSUME NEW X, NEW S, NEW g \in [X -> Seq(S)], NEW s \in Seq(X)
  PROVE  ToSet(Mapped(s, g)) = UNION {ToSet(g[x]) : x \in ToSet(s)}
<1> DEFINE U == {q \in Seq(X) : ToSet(Mapped(q, g)) = UNION {ToSet(g[x]) : x \in ToSet(q)}}
<1>1. <<>> \in U
  <2>1. Mapped(<<>>, g) = <<>> /\ ToSet(<<>>) = {}
    BY MapOfNone DEF ToSet
  <2> QED
    BY <2>1
<1>2. ASSUME NEW q \in Seq(X), NEW x \in X, q \in U PROVE Append(q, x) \in U
  <2>1. Mapped(Append(q, x), g) = Mapped(q, g) \o g[x] /\ Mapped(q, g) \in Seq(S) /\ g[x] \in Seq(S)
    BY MapAppends, MapIsASequence
  <2>2. ToSet(Append(q, x)) = ToSet(q) \cup {x} /\ Append(q, x) \in Seq(X)
    BY HasAppended
  <2> DEFINE a == Mapped(q, g)
             b == g[x]
  <2> HIDE DEF a, b
  <2>3. a \in Seq(S) /\ b \in Seq(S)
    BY <2>1 DEF a, b
  <2>4. ToSet(a \o b) = ToSet(a) \cup ToSet(b)
    BY <2>3, HasTogether
  <2>5. ToSet(a) = UNION {ToSet(g[y]) : y \in ToSet(q)}
    BY <1>2 DEF a
  <2>6. ToSet(Mapped(Append(q, x), g)) = ToSet(a) \cup ToSet(g[x])
    BY <2>1, <2>4 DEF a, b
  <2>7. UNION {ToSet(g[y]) : y \in ToSet(q) \cup {x}} = (UNION {ToSet(g[y]) : y \in ToSet(q)}) \cup ToSet(g[x])
    OBVIOUS
  <2> QED
    BY <2>2, <2>5, <2>6, <2>7
<1>3. Seq(X) \subseteq U
  <2> HIDE DEF U
  <2> QED
    BY <1>1, <1>2, SeqInduction
<1> QED
  BY <1>3

(* One symbol after the other.                                              *)
LEMMA SymbolsJoin ==
  ASSUME NEW S, NEW s \in Seq(S) PROVE FlattenSeq([i \in DOMAIN s |-> <<s[i]>>]) = s
<1> DEFINE g == [c \in S |-> <<c>>]
           U == {q \in Seq(S) : Mapped(q, g) = q}
<1>1. g \in [S -> Seq(S)] /\ \A c \in S : g[c] = <<c>>
  OBVIOUS
<1>2. [i \in DOMAIN s |-> <<s[i]>>] = Each(s, g)
  BY DEF Each
<1> HIDE DEF g
<1>3. <<>> \in U
  BY MapOfNone
<1>4. ASSUME NEW q \in Seq(S), NEW c \in S, q \in U PROVE Append(q, c) \in U
  <2>1. Mapped(Append(q, c), g) = Mapped(q, g) \o g[c]
    BY <1>1, MapAppends
  <2>2. q \o <<c>> = Append(q, c) /\ Append(q, c) \in Seq(S)
    OBVIOUS
  <2> QED
    BY <1>1, <1>4, <2>1, <2>2
<1>5. Seq(S) \subseteq U
  <2> HIDE DEF U
  <2> QED
    BY <1>3, <1>4, SeqInduction
<1> QED
  BY <1>2, <1>5 DEF Mapped

LEMMA ThreeAre ==
  ASSUME NEW S, NEW a \in Seq(S), NEW b \in Seq(S), NEW c \in Seq(S)
  PROVE  /\ a \o b \o c \in Seq(S)
         /\ Len(a \o b \o c) = Len(a) + Len(b) + Len(c)
         /\ Len(a) \in Nat /\ Len(b) \in Nat /\ Len(c) \in Nat
<1>1. ASSUME NEW p \in Seq(S), NEW q \in Seq(S)
      PROVE  /\ p \o q \in Seq(S) /\ Len(p \o q) = Len(p) + Len(q)
             /\ Len(p) \in Nat /\ Len(q) \in Nat
  OBVIOUS
<1>2. a \in Seq(S) /\ b \in Seq(S) /\ c \in Seq(S)
  OBVIOUS
<1>3. a \o b \in Seq(S) /\ Len(a \o b) = Len(a) + Len(b) /\ Len(a) \in Nat /\ Len(b) \in Nat
  BY <1>1, <1>2
<1> DEFINE d == a \o b
<1>4. d \in Seq(S) /\ Len(d) = Len(a) + Len(b)
  BY <1>3
<1>5. a \o b \o c = d \o c
  OBVIOUS
<1> HIDE DEF d
<1>6. d \o c \in Seq(S) /\ Len(d \o c) = Len(d) + Len(c) /\ Len(c) \in Nat
  BY <1>1, <1>2, <1>4
<1> QED
  BY <1>3, <1>4, <1>5, <1>6

(* A stretch of a text, cut in two.                                         *)
LEMMA CutsInTwo ==
  ASSUME NEW S, NEW s \in Seq(S), NEW a \in 1 .. Len(s) + 1, NEW b \in 0 .. Len(s), NEW i \in a - 1 .. b
  PROVE  /\ SubSeq(s, a, i) \in Seq(S) /\ SubSeq(s, i + 1, b) \in Seq(S) /\ SubSeq(s, a, b) \in Seq(S)
         /\ SubSeq(s, a, b) = SubSeq(s, a, i) \o SubSeq(s, i + 1, b)
<1>1. /\ Len(s) \in Nat /\ a \in Nat /\ b \in Nat /\ i \in Nat /\ a >= 1 /\ a <= i + 1 /\ i <= b /\ b <= Len(s)
      /\ s \in Seq(S)
  OBVIOUS
<1> DEFINE x == SubSeq(s, a, i)
           y == SubSeq(s, i + 1, b)
           z == SubSeq(s, a, b)
<1>2. x \in Seq(S) /\ Len(x) = i + 1 - a /\ \A k \in 1 .. i + 1 - a : x[k] = s[a + k - 1]
  BY <1>1
<1>3. y \in Seq(S) /\ Len(y) = b - i /\ \A k \in 1 .. b - i : y[k] = s[i + k]
  BY <1>1
<1>4. z \in Seq(S) /\ Len(z) = b + 1 - a /\ \A k \in 1 .. b + 1 - a : z[k] = s[a + k - 1]
  BY <1>1
<1> HIDE DEF x, y, z
<1>8. /\ x \o y \in Seq(S) /\ Len(x \o y) = Len(x) + Len(y)
      /\ \A k \in 1 .. Len(x) : (x \o y)[k] = x[k]
      /\ \A k \in 1 .. Len(y) : (x \o y)[Len(x) + k] = y[k]
  <2>1. x \in Seq(S) /\ y \in Seq(S)
    BY <1>2, <1>3
  <2>2. x \o y \in Seq(S) /\ Follows(x \o y, x, y)
    BY <2>1, TwoTogether
  <2> QED
    BY <2>2 DEF Follows
<1>5. x \o y \in Seq(S) /\ Len(x \o y) = b + 1 - a
  BY <1>1, <1>2, <1>3, <1>8
<1>6. ASSUME NEW k \in 1 .. b + 1 - a PROVE z[k] = (x \o y)[k]
  <2>1. CASE k <= i + 1 - a
    <3>1. k \in 1 .. Len(x)
      BY <1>1, <1>2, <2>1
    <3>2. (x \o y)[k] = x[k]
      BY <1>8, <3>1
    <3> QED
      BY <1>1, <1>2, <1>4, <3>1, <3>2
  <2>2. CASE k > i + 1 - a
    <3> DEFINE m == k - (i + 1 - a)
    <3>1. m \in 1 .. Len(y) /\ k = Len(x) + m /\ i + m = a + k - 1
      BY <1>1, <1>2, <1>3, <2>2
    <3> HIDE DEF m
    <3>2. (x \o y)[Len(x) + m] = y[m]
      BY <1>8, <3>1
    <3>3. y[m] = s[i + m]
      BY <1>3, <3>1
    <3> QED
      BY <1>4, <3>1, <3>2, <3>3
  <2>3. k <= i + 1 - a \/ k > i + 1 - a
    BY <1>1
  <2> QED
    BY <2>1, <2>2, <2>3
<1>7. z = x \o y
  <2> DEFINE u == x \o y
  <2>1. u \in Seq(S) /\ Len(u) = Len(z) /\ \A k \in 1 .. Len(z) : z[k] = u[k]
    BY <1>4, <1>5, <1>6
  <2> HIDE DEF u
  <2>2. z = u
    BY <1>4, <2>1, SameList
  <2> QED
    BY <2>2 DEF u
<1> QED
  BY <1>2, <1>3, <1>4, <1>7 DEF x, y, z

(* The two halves of a text.                                                *)
LEMMA HalvesAre ==
  ASSUME NEW S, NEW a \in Seq(S), NEW b \in Seq(S)
  PROVE  /\ a \o b \in Seq(S) /\ Len(a \o b) = Len(a) + Len(b) /\ Len(a) \in Nat /\ Len(b) \in Nat
         /\ SubSeq(a \o b, 1, Len(a)) = a /\ SubSeq(a \o b, Len(a) + 1, Len(a \o b)) = b
<1>1. a \in Seq(S) /\ b \in Seq(S)
  OBVIOUS
<1> DEFINE u == a \o b
<1>2. u \in Seq(S) /\ Follows(u, a, b)
  BY <1>1, TwoTogether
<1> HIDE DEF u
<1>3. /\ Len(u) = Len(a) + Len(b) /\ Len(a) \in Nat /\ Len(b) \in Nat
      /\ \A i \in 1 .. Len(a) : u[i] = a[i]
      /\ \A i \in 1 .. Len(b) : u[Len(a) + i] = b[i]
  BY <1>2 DEF Follows
<1>4. SubSeq(u, 1, Len(a)) = a
  <2> DEFINE v == SubSeq(u, 1, Len(a))
  <2>1. v \in Seq(S) /\ Len(v) = Len(a) /\ \A i \in 1 .. Len(v) : v[i] = a[i]
    BY <1>2, <1>3
  <2> HIDE DEF v
  <2>2. v = a
    BY <1>1, <2>1, SameList
  <2> QED
    BY <2>2 DEF v
<1>5. SubSeq(u, Len(a) + 1, Len(u)) = b
  <2> DEFINE k == Len(a) + 1
             v == SubSeq(u, k, Len(u))
  <2>1. k \in 1 .. Len(u) + 1 /\ Len(u) + 1 - k = Len(b) /\ Len(u) \in Nat
    BY <1>3
  <2>2. \A i \in 1 .. Len(b) : k + i - 1 = Len(a) + i
    BY <1>3
  <2> HIDE DEF k
  <2>3. v \in Seq(S) /\ Len(v) = Len(b) /\ \A i \in 1 .. Len(b) : v[i] = u[k + i - 1]
    BY <1>2, <2>1
  <2> HIDE DEF v
  <2>4. \A i \in 1 .. Len(b) : v[i] = b[i]
    BY <1>3, <2>2, <2>3
  <2>5. v = b
    BY <1>1, <2>3, <2>4, SameList
  <2> QED
    BY <2>5 DEF v, k
<1> QED
  BY <1>2, <1>3, <1>4, <1>5 DEF u

LEMMA SubOfSub ==
  ASSUME NEW S, NEW s \in Seq(S), NEW a \in 1 .. Len(s), NEW b \in 1 .. Len(s), NEW p \in Nat \ {0}, NEW q \in Nat,
         a + q - 1 <= b
  PROVE  SubSeq(SubSeq(s, a, b), p, q) = SubSeq(s, a + p - 1, a + q - 1)
<1> DEFINE t == SubSeq(s, a, b)
           u == SubSeq(t, p, q)
           v == SubSeq(s, a + p - 1, a + q - 1)
<1>1. s \in Seq(S) /\ Len(s) \in Nat
  OBVIOUS
<1>2. t \in Seq(S) /\ (a <= b => Len(t) = b - a + 1) /\ \A i \in 1 .. b - a + 1 : t[i] = s[a + i - 1]
  BY <1>1
<1>3. CASE q < p
  <2>1. u = <<>> /\ v = <<>>
    BY <1>1, <1>2, <1>3
  <2> QED
    BY <2>1
<1>4. CASE p <= q
  <2>1. a <= b /\ q <= b - a + 1 /\ a + q - 1 <= Len(s) /\ (a + q - 1) - (a + p - 1) + 1 = q - p + 1
    BY <1>1, <1>4
  <2> HIDE DEF t
  <2>1a. t \in Seq(S) /\ p \in 1 .. Len(t) /\ q \in 1 .. Len(t) /\ p <= q
    BY <1>2, <1>4, <2>1
  <2>2. u \in Seq(S) /\ Len(u) = q - p + 1 /\ \A i \in 1 .. q - p + 1 : u[i] = t[p + i - 1]
    BY <2>1a
  <2> DEFINE x == a + p - 1
             y == a + q - 1
  <2>3. x \in 1 .. Len(s) /\ y \in 1 .. Len(s) /\ x <= y /\ y - x + 1 = q - p + 1
    BY <1>1, <1>4, <2>1
  <2>3a. \A i \in 1 .. q - p + 1 : x + i - 1 = a + (p + i - 1) - 1 /\ p + i - 1 \in 1 .. b - a + 1
    BY <2>1
  <2> HIDE DEF x, y
  <2>4. SubSeq(s, x, y) \in Seq(S) /\ Len(SubSeq(s, x, y)) = y - x + 1
        /\ \A i \in 1 .. y - x + 1 : SubSeq(s, x, y)[i] = s[x + i - 1]
    BY <1>1, <2>3
  <2>5. v = SubSeq(s, x, y)
    BY DEF x, y
  <2> HIDE DEF u, v
  <2>6. \A i \in 1 .. q - p + 1 : u[i] = v[i]
    <3>1. ASSUME NEW i \in 1 .. q - p + 1 PROVE u[i] = v[i]
      <4>1. u[i] = t[p + i - 1] /\ p + i - 1 \in 1 .. b - a + 1 /\ v[i] = s[x + i - 1]
        BY <2>2, <2>3, <2>3a, <2>4, <2>5
      <4>2. t[p + i - 1] = s[a + (p + i - 1) - 1]
        BY <1>2, <4>1
      <4> QED
        BY <2>3a, <4>1, <4>2
    <3> QED
      BY <3>1
  <2>7. Len(u) = Len(v) /\ v \in Seq(S)
    BY <2>2, <2>3, <2>4, <2>5
  <2>8. u = v
    <3> DEFINE k == q - p + 1
    <3>1. k \in Nat /\ Len(u) = k /\ Len(v) = k /\ u \in Seq(S) /\ v \in Seq(S) /\ \A i \in 1 .. k : u[i] = v[i]
      <4>1. k \in Nat
        BY <1>4
      <4>2. Len(u) = k /\ u \in Seq(S)
        BY <2>2
      <4>3. Len(v) = k /\ v \in Seq(S)
        BY <4>2, <2>7
      <4> QED
        BY <2>6, <4>1, <4>2, <4>3
    <3> HIDE DEF k
    <3>2. u = [i \in 1 .. k |-> u[i]] /\ v = [i \in 1 .. k |-> v[i]]
      BY <3>1
    <3> QED
      BY <3>1, <3>2, Zenon
  <2> QED
    BY <2>8 DEF u, v, t
<1> QED
  BY <1>3, <1>4

LengthOf(ss) == FoldLeft(LAMBDA n, x : n + Len(x) + 1, 0, ss)

LEMMA LengthRun ==
  ASSUME NEW S, NEW ss \in Seq(Seq(S))
  PROVE  \E it \in [0 .. Len(ss) -> Nat] :
           /\ it[0] = 0
           /\ \A m \in 1 .. Len(ss) : it[m] = it[m - 1] + Len(ss[m]) + 1
           /\ LengthOf(ss) = it[Len(ss)]
<1> DEFINE n == Len(ss)
           T == Nat
           base == 0
           G == [p \in (1 .. n) \X T |-> p[2] + Len(ss[p[1]]) + 1]
           Rec(f) == f = [s \in SUBSET (1 .. n) |->
                            IF s = {} THEN base ELSE f[s \ {Max(s)}] + Len(ss[Max(s)]) + 1]
           iter == CHOOSE f : Rec(f)
<1>1. n \in Nat /\ base \in T /\ DOMAIN ss = 1 .. n
  OBVIOUS
<1>2. \A t \in T, m \in 1 .. n : t + Len(ss[m]) + 1 \in T
  OBVIOUS
<1>3. G \in [(1 .. n) \X T -> T] /\ \A m \in 1 .. n, t \in T : G[<<m, t>>] = t + Len(ss[m]) + 1
  BY <1>2
<1>4. LengthOf(ss) = iter[1 .. n]
  BY <1>1 DEF LengthOf, FoldLeft, MapThenFoldSet
<1> HIDE DEF T, G, n, base
<1>5. PICK f : IsLeftFold(f, n, T, base, G)
  BY <1>1, <1>3, FoldLeftIsDefined
<1>6. Rec(f)
  <2>1. ASSUME NEW s \in SUBSET (1 .. n), s # {}
        PROVE  f[s] = f[s \ {Max(s)}] + Len(ss[Max(s)]) + 1
    <3>1. Max(s) \in 1 .. n
      BY <1>1, <2>1, MaxIsThere
    <3>2. s \ {Max(s)} \in SUBSET (1 .. n) /\ f[s \ {Max(s)}] \in T
      BY <1>5 DEF IsLeftFold
    <3> QED
      BY <1>3, <1>5, <2>1, <3>1, <3>2 DEF IsLeftFold
  <2>2. f = [s \in SUBSET (1 .. n) |-> f[s]]
    BY <1>5 DEF IsLeftFold
  <2> QED
    BY <1>5, <2>1, <2>2 DEF IsLeftFold
<1>7. Rec(iter)
  BY <1>6
<1> HIDE DEF iter
<1>8. ASSUME NEW s \in SUBSET (1 .. n), s # {}, iter[s \ {Max(s)}] \in T
      PROVE  iter[s] = G[<<Max(s), iter[s \ {Max(s)}]>>]
  <2>1. Max(s) \in 1 .. n
    BY <1>1, <1>8, MaxIsThere
  <2>2. iter[s] = iter[s \ {Max(s)}] + Len(ss[Max(s)]) + 1
    BY <1>7, <1>8
  <2> QED
    BY <1>3, <1>8, <2>1, <2>2
<1>9. FoldsBy(iter, n, T, base, G)
  <2>1. iter[{}] = base
    BY <1>7
  <2> QED
    BY <1>1, <1>3, <1>8, <2>1 DEF FoldsBy
<1>10. PICK it : IsRun(it, iter, n, T, base, G)
  BY <1>9, FoldRuns
<1>11. it \in [0 .. n -> T] /\ it[0] = base /\ it[n] = iter[1 .. n]
  BY <1>10 DEF IsRun
<1>12. ASSUME NEW m \in 1 .. n PROVE it[m] = it[m - 1] + Len(ss[m]) + 1
  <2>1. it[m - 1] \in T
    BY <1>1, <1>11
  <2> QED
    BY <1>3, <1>10, <2>1 DEF IsRun
<1> QED
  BY <1>4, <1>11, <1>12 DEF n, T, base

(* The pieces of a text that is cut after some of its places: from the      *)
(* beginning or a cut to the next cut or the end.                           *)
Stretches(text, ends) ==
  {p \in (1 .. Len(text)) \X (1 .. Len(text)) :
     /\ p[1] <= p[2]
     /\ p[1] = 1 \/ p[1] - 1 \in ends
     /\ p[2] = Len(text) \/ p[2] \in ends
     /\ \A e \in p[1] .. p[2] - 1 : e \notin ends}

Upto_(text, ends, m) == {p \in Stretches(text, ends) : p[2] <= m}

Pieces(text, S) == {SubSeq(text, p[1], p[2]) : p \in S}

(* A stretch has begun and no cut came since.                               *)
Begun(ends, from, m) ==
  /\ from \in 1 .. m + 1
  /\ from = 1 \/ from - 1 \in ends
  /\ \A e \in from .. m : e \notin ends

NextIs(text, ends, from, m, k) ==
  /\ k \in ends \cup {Len(text)} => Upto_(text, ends, k) = Upto_(text, ends, m) \cup {<<from, k>>}
  /\ k \notin ends \cup {Len(text)} => Upto_(text, ends, k) = Upto_(text, ends, m)

LEMMA NextStretch ==
  ASSUME NEW S, NEW text \in Seq(S), NEW ends, NEW m \in Nat, NEW k, k = m + 1, k <= Len(text),
         NEW from, Begun(ends, from, m)
  PROVE  NextIs(text, ends, from, m, k)
<1> SUFFICES
         /\ k \in ends \cup {Len(text)} => Upto_(text, ends, k) = Upto_(text, ends, m) \cup {<<from, k>>}
         /\ k \notin ends \cup {Len(text)} => Upto_(text, ends, k) = Upto_(text, ends, m)
  BY DEF NextIs
<1> DEFINE n == Len(text)
           St == Stretches(text, ends)
<1>0. from \in 1 .. m + 1 /\ (from = 1 \/ from - 1 \in ends) /\ \A e \in from .. m : e \notin ends
  BY DEF Begun
<1>1. n \in Nat /\ k \in 1 .. n /\ from \in 1 .. k /\ k - 1 = m
  BY <1>0
<1>2. \A p \in St : /\ p = <<p[1], p[2]>> /\ p[1] \in 1 .. n /\ p[2] \in 1 .. n /\ p[1] <= p[2]
                    /\ p[1] = 1 \/ p[1] - 1 \in ends
                    /\ p[2] = n \/ p[2] \in ends
                    /\ \A e \in p[1] .. p[2] - 1 : e \notin ends
  BY DEF Stretches
<1>3. k \in ends \cup {n} => <<from, k>> \in St
  BY <1>0, <1>1 DEF Stretches
<1> HIDE DEF n, St
<1>4. ASSUME NEW p \in St, p[2] = k PROVE p = <<from, k>> /\ k \in ends \cup {n}
  <2> DEFINE a == p[1]
  <2>1. a \in 1 .. k /\ (a = 1 \/ a - 1 \in ends) /\ \A e \in a .. m : e \notin ends
    BY <1>1, <1>2, <1>4
  <2>2. p = <<a, k>> /\ k \in ends \cup {n}
    BY <1>2, <1>4
  <2> HIDE DEF a
  <2>3. ~(a < from)
    <3>1. ASSUME a < from PROVE FALSE
      <4>1. from - 1 \in a .. m /\ from # 1
        BY <1>1, <2>1, <3>1
      <4> QED
        BY <1>0, <2>1, <4>1
    <3> QED
      BY <3>1
  <2>4. ~(a > from)
    <3>1. ASSUME a > from PROVE FALSE
      <4>1. a - 1 \in from .. m /\ a # 1
        BY <1>1, <2>1, <3>1
      <4> QED
        BY <1>0, <2>1, <4>1
    <3> QED
      BY <3>1
  <2>5. a = from
    BY <1>1, <2>1, <2>3, <2>4
  <2> QED
    BY <2>2, <2>5
<1>5. \A p \in St : p[2] <= k <=> p[2] <= m \/ p[2] = k
  BY <1>1, <1>2
<1>6. Upto_(text, ends, k) = {p \in St : p[2] <= k} /\ Upto_(text, ends, m) = {p \in St : p[2] <= m}
  BY DEF Upto_, St
<1>7. <<from, k>>[2] <= k
  BY <1>1
<1>8. CASE k \in ends \cup {n}
  <2>1. {p \in St : p[2] <= k} = {p \in St : p[2] <= m} \cup {<<from, k>>}
    BY <1>3, <1>4, <1>5, <1>7, <1>8
  <2> QED
    BY <1>6, <1>8, <2>1 DEF n
<1>9. CASE k \notin ends \cup {n}
  <2>1. {p \in St : p[2] <= k} = {p \in St : p[2] <= m}
    BY <1>4, <1>5, <1>9
  <2> QED
    BY <1>6, <1>9, <2>1 DEF n
<1> QED
  BY <1>8, <1>9
=============================================================================
