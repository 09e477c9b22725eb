------------------------ MODULE PopulatedRangesProofs ------------------------
(***************************************************************************)
(* The interval arithmetic, for a file of any size and any sequence of     *)
(* inserts and removals: that the intervals denote what was written is     *)
(* inductive only together with their being apart.  From that, what        *)
(* remove_range counts is a sum over disjoint sets, and what first_gap     *)
(* finds an invariant of its walk over the intervals by their starts.      *)
(***************************************************************************)
EXTENDS PopulatedRanges, FiniteLemmas

\* Separated, of any set of intervals.
Apart(iv) ==
  /\ \A i \in iv : i[1] < i[2]
  /\ \A i, j \in iv : i # j => i[2] < j[1] \/ j[2] < i[1]

\* What an interval covers.
Within(i, b) == i[1] <= b /\ b < i[2]

LEMMA CoveredIs ==
  ASSUME NEW iv \in SUBSET (Offset \X Offset), NEW b
  PROVE  b \in Covered(iv) <=> b \in Int /\ \E i \in iv : Within(i, b)
<1>1. \A i \in iv : i[1] \in Int /\ i[2] \in Int
  BY FileSizeAssumption DEF Offset
<1>2. ASSUME NEW i \in iv PROVE b \in BytesOf(i[1], i[2]) <=> b \in Int /\ Within(i, b)
  BY <1>1 DEF BytesOf, Within
<1> QED
  BY <1>2 DEF Covered

\* The interval that insert makes of [start, end) and of those that touch it.
LEMMA Joined ==
  ASSUME NEW iv \in SUBSET (Offset \X Offset), Apart(iv),
         NEW start \in Offset, NEW end \in Offset, start < end
  PROVE  \E lo, hi \in Offset :
           /\ InsertInto(iv, start, end)
                = (iv \ {i \in iv : i[1] <= end /\ i[2] >= start}) \cup {<<lo, hi>>}
           /\ lo <= start /\ end <= hi
           /\ \A i \in iv : i[1] <= end /\ i[2] >= start => lo <= i[1] /\ i[2] <= hi
           /\ lo = start \/ \E i \in iv : i[1] <= end /\ i[2] >= start /\ i[1] = lo
           /\ hi = end \/ \E i \in iv : i[1] <= end /\ i[2] >= start /\ i[2] = hi
<1> DEFINE merged == {i \in iv : i[1] <= end /\ i[2] >= start}
           los == {start} \cup {i[1] : i \in merged}
           his == {end} \cup {i[2] : i \in merged}
<1>1. los \subseteq 0 .. FileSize /\ los # {} /\ his \subseteq 0 .. FileSize /\ his # {}
  BY DEF Offset
<1>2. los \subseteq Nat /\ FileSize \in Nat
  BY <1>1, FileSizeAssumption
<1>3. Min(los) \in los /\ \A x \in los : Min(los) <= x
  <2> HIDE DEF los
  <2> QED
    BY <1>1, <1>2, MinExists
<1>4. Max(his) \in his /\ \A x \in his : x <= Max(his)
  <2> HIDE DEF his
  <2> QED
    BY <1>1, <1>2, MaxExists
<1>5. InsertInto(iv, start, end) = (iv \ merged) \cup {<<Min(los), Max(his)>>}
  <2>1. ~ (start >= end)
    BY DEF Offset
  <2> QED
    BY <2>1 DEF InsertInto
<1>6. Min(los) \in Offset /\ Max(his) \in Offset
  BY <1>1, <1>3, <1>4 DEF Offset
<1>7. \A i \in merged : i[1] \in los /\ i[2] \in his
  OBVIOUS
<1>8. start \in los /\ end \in his
  OBVIOUS
<1>9. Min(los) = start \/ \E i \in merged : i[1] = Min(los)
  BY <1>3
<1>10. Max(his) = end \/ \E i \in merged : i[2] = Max(his)
  BY <1>4
<1>11. \A i \in merged : Min(los) <= i[1] /\ i[2] <= Max(his)
  BY <1>3, <1>4, <1>7
<1>12. Min(los) <= start /\ end <= Max(his)
  BY <1>3, <1>4, <1>8
<1>13. \A i : i \in merged <=> i \in iv /\ i[1] <= end /\ i[2] >= start
  OBVIOUS
<1> HIDE DEF merged, los, his
<1>14. PICK lo \in Offset, hi \in Offset : lo = Min(los) /\ hi = Max(his)
  BY <1>6
<1>15. /\ InsertInto(iv, start, end) = (iv \ merged) \cup {<<lo, hi>>}
       /\ lo <= start /\ end <= hi
       /\ \A i \in iv : i[1] <= end /\ i[2] >= start => lo <= i[1] /\ i[2] <= hi
       /\ lo = start \/ \E i \in iv : i[1] <= end /\ i[2] >= start /\ i[1] = lo
       /\ hi = end \/ \E i \in iv : i[1] <= end /\ i[2] >= start /\ i[2] = hi
  BY <1>5, <1>9, <1>10, <1>11, <1>12, <1>13, <1>14
<1> QED
  BY <1>15 DEF merged

\* insert keeps the intervals apart and adds exactly the bytes inserted.
LEMMA InsertSound ==
  ASSUME NEW iv \in SUBSET (Offset \X Offset), Apart(iv),
         NEW start \in Offset, NEW end \in Offset
  PROVE  /\ InsertInto(iv, start, end) \in SUBSET (Offset \X Offset)
         /\ Apart(InsertInto(iv, start, end))
         /\ Covered(InsertInto(iv, start, end)) = Covered(iv) \cup BytesOf(start, end)
<1> DEFINE new == InsertInto(iv, start, end)
           merged == {i \in iv : i[1] <= end /\ i[2] >= start}
<1>0. \A i \in iv : i[1] \in Int /\ i[2] \in Int
  BY FileSizeAssumption DEF Offset
<1>00. start \in Int /\ end \in Int
  BY FileSizeAssumption DEF Offset
<1>1. CASE start >= end
  <2>1. new = iv
    BY <1>1 DEF InsertInto
  <2>2. BytesOf(start, end) = {}
    BY <1>1, <1>00 DEF BytesOf
  <2> QED
    BY <2>1, <2>2
<1>2. CASE start < end
  <2>1. PICK lo \in Offset, hi \in Offset :
           /\ new = (iv \ merged) \cup {<<lo, hi>>}
           /\ lo <= start /\ end <= hi
           /\ \A i \in iv : i[1] <= end /\ i[2] >= start => lo <= i[1] /\ i[2] <= hi
           /\ lo = start \/ \E i \in iv : i[1] <= end /\ i[2] >= start /\ i[1] = lo
           /\ hi = end \/ \E i \in iv : i[1] <= end /\ i[2] >= start /\ i[2] = hi
    BY <1>2, Joined
  <2>2. lo \in Int /\ hi \in Int /\ lo < hi
    BY <1>2, <1>00, <2>1, FileSizeAssumption DEF Offset
  <2>3. new \in SUBSET (Offset \X Offset)
    BY <2>1
  <2>4. \A i : i \in new <=> (i \in iv /\ (i[1] > end \/ i[2] < start)) \/ i = <<lo, hi>>
    <3>1. \A i \in iv : i \notin merged <=> i[1] > end \/ i[2] < start
      BY <1>0, <1>00
    <3> QED
      BY <2>1, <3>1
  <2>5. ASSUME NEW i \in iv, i[1] > end \/ i[2] < start
        PROVE  i[1] < i[2] /\ (i[2] < lo \/ hi < i[1])
    <3>1. i[1] < i[2] /\ \A j \in iv : i # j => i[2] < j[1] \/ j[2] < i[1]
      BY DEF Apart
    <3> QED
      BY <1>0, <1>00, <1>2, <2>1, <2>2, <2>5, <3>1
  <2>6. Apart(new)
    <3>1. \A i \in new : i[1] < i[2]
      BY <2>2, <2>4, <2>5
    <3>2. ASSUME NEW i \in new, NEW j \in new, i # j PROVE i[2] < j[1] \/ j[2] < i[1]
      <4>1. CASE i \in iv /\ (i[1] > end \/ i[2] < start) /\ j \in iv
        BY <3>2, <4>1 DEF Apart
      <4>2. CASE i \in iv /\ (i[1] > end \/ i[2] < start) /\ j = <<lo, hi>>
        BY <2>5, <4>2
      <4>3. CASE i = <<lo, hi>> /\ j \in iv /\ (j[1] > end \/ j[2] < start)
        BY <2>5, <4>3
      <4> QED
        BY <2>4, <3>2, <4>1, <4>2, <4>3
    <3> QED
      BY <3>1, <3>2 DEF Apart
  <2>7. ASSUME NEW b PROVE b \in Covered(new) <=> b \in Covered(iv) \/ b \in BytesOf(start, end)
    <3>1. b \in Covered(new) <=> b \in Int /\ \E i \in new : Within(i, b)
      BY <2>3, CoveredIs
    <3>2. b \in Covered(iv) <=> b \in Int /\ \E i \in iv : Within(i, b)
      BY CoveredIs
    <3>3. b \in BytesOf(start, end) <=> b \in Int /\ start <= b /\ b < end
      BY <1>00 DEF BytesOf
    <3>4. CASE b \notin Int
      BY <3>1, <3>2, <3>3, <3>4
    <3>5. CASE b \in Int
      <4>1. ASSUME NEW i \in iv, Within(i, b) PROVE \E j \in new : Within(j, b)
        <5>1. CASE i[1] > end \/ i[2] < start
          BY <2>4, <4>1, <5>1
        <5>2. CASE i[1] <= end /\ i[2] >= start
          <6>1. Within(<<lo, hi>>, b)
            BY <1>0, <1>00, <2>1, <2>2, <3>5, <4>1, <5>2 DEF Within
          <6> QED
            BY <2>4, <6>1
        <5> QED
          BY <1>0, <1>00, <5>1, <5>2
      <4>2. start <= b /\ b < end => Within(<<lo, hi>>, b)
        BY <1>00, <2>1, <2>2, <3>5 DEF Within
      <4>3. ASSUME Within(<<lo, hi>>, b) PROVE (start <= b /\ b < end) \/ \E i \in iv : Within(i, b)
        <5>1. lo <= b /\ b < hi
          BY <4>3 DEF Within
        <5>2. CASE b < start
          BY <1>0, <1>00, <2>1, <2>2, <3>5, <5>1, <5>2 DEF Within
        <5>3. CASE b >= end
          BY <1>0, <1>00, <2>1, <2>2, <3>5, <5>1, <5>3 DEF Within
        <5> QED
          BY <1>00, <3>5, <5>2, <5>3
      <4> QED
        BY <2>4, <3>1, <3>2, <3>3, <3>5, <4>1, <4>2, <4>3
    <3> QED
      BY <3>4, <3>5
  <2> QED
    BY <2>3, <2>6, <2>7
<1> QED
  BY <1>00, <1>1, <1>2

\* What remove_range leaves of an interval: all of it, what lies before the range,
\* or what lies behind.
Left(i, start, end, n) ==
  \/ (i[1] >= end \/ i[2] <= start) /\ n = i
  \/ i[1] < end /\ i[2] > start /\ i[1] < start /\ n = <<i[1], start>>
  \/ i[1] < end /\ i[2] > start /\ i[2] > end /\ n = <<end, i[2]>>

\* remove_range keeps the intervals apart and takes away exactly the bytes removed.
LEMMA RemoveSound ==
  ASSUME NEW iv \in SUBSET (Offset \X Offset), Apart(iv),
         NEW start \in Offset, NEW end \in Offset
  PROVE  /\ RemoveFrom(iv, start, end) \in SUBSET (Offset \X Offset)
         /\ Apart(RemoveFrom(iv, start, end))
         /\ Covered(RemoveFrom(iv, start, end)) = Covered(iv) \ BytesOf(start, end)
<1> DEFINE new == RemoveFrom(iv, start, end)
<1>1. \A i \in iv : i[1] \in Int /\ i[2] \in Int /\ i[1] < i[2] /\ i = <<i[1], i[2]>>
  BY FileSizeAssumption DEF Offset, Apart
<1>2. start \in Int /\ end \in Int
  BY FileSizeAssumption DEF Offset
<1>3. CASE start >= end
  <2>1. new = iv
    BY <1>3 DEF RemoveFrom
  <2>2. BytesOf(start, end) = {}
    BY <1>2, <1>3 DEF BytesOf
  <2> QED
    BY <2>1, <2>2
<1>4. CASE start < end
  <2>1. \A n : n \in new <=> \E i \in iv : Left(i, start, end, n)
    <3> DEFINE hit == {i \in iv : i[1] < end /\ i[2] > start}
    <3>1. new = (iv \ hit) \cup {<<i[1], start>> : i \in {j \in hit : j[1] < start}}
                           \cup {<<end, i[2]>> : i \in {j \in hit : j[2] > end}}
      BY <1>2, <1>4 DEF RemoveFrom, Overlapping
    <3>2. \A i \in iv : i \notin hit <=> i[1] >= end \/ i[2] <= start
      BY <1>1, <1>2
    <3> QED
      BY <3>1, <3>2 DEF Left
  <2>2. ASSUME NEW i \in iv, NEW n, Left(i, start, end, n)
        PROVE  /\ n \in Offset \X Offset /\ n[1] \in Int /\ n[2] \in Int
               /\ i[1] <= n[1] /\ n[1] < n[2] /\ n[2] <= i[2]
    <3>1. i \in Offset \X Offset
      OBVIOUS
    <3> QED
      BY <1>1, <1>2, <1>4, <2>2, <3>1 DEF Left
  <2>3. new \in SUBSET (Offset \X Offset)
    BY <2>1, <2>2
  <2>4. Apart(new)
    <3>1. \A n \in new : n[1] < n[2]
      BY <2>1, <2>2
    <3>2. ASSUME NEW n \in new, NEW m \in new, n # m PROVE n[2] < m[1] \/ m[2] < n[1]
      <4>1. PICK i \in iv, j \in iv : Left(i, start, end, n) /\ Left(j, start, end, m)
        BY <2>1
      <4>2. CASE i = j
        BY <1>1, <1>2, <1>4, <3>2, <4>1, <4>2 DEF Left
      <4>3. CASE i # j
        <5>1. i[2] < j[1] \/ j[2] < i[1]
          BY <4>3 DEF Apart
        <5> QED
          BY <1>1, <2>2, <4>1, <5>1
      <4> QED
        BY <4>2, <4>3
    <3> QED
      BY <3>1, <3>2 DEF Apart
  <2>5. ASSUME NEW b PROVE b \in Covered(new) <=> b \in Covered(iv) /\ b \notin BytesOf(start, end)
    <3>1. b \in Covered(new) <=> b \in Int /\ \E n \in new : Within(n, b)
      BY <2>3, CoveredIs
    <3>2. b \in Covered(iv) <=> b \in Int /\ \E i \in iv : Within(i, b)
      BY CoveredIs
    <3>3. b \in BytesOf(start, end) <=> b \in Int /\ start <= b /\ b < end
      BY <1>2 DEF BytesOf
    <3>4. ASSUME b \in Int, NEW i \in iv, NEW n, Left(i, start, end, n), Within(n, b)
          PROVE  Within(i, b) /\ ~ (start <= b /\ b < end)
      BY <1>1, <1>2, <1>4, <3>4 DEF Left, Within
    <3>5. ASSUME b \in Int, NEW i \in iv, Within(i, b), ~ (start <= b /\ b < end)
          PROVE  \E n \in new : Within(n, b)
      <4>1. CASE i[1] >= end \/ i[2] <= start
        BY <2>1, <3>5, <4>1 DEF Left
      <4>2. CASE i[1] < end /\ i[2] > start /\ b < start
        <5>1. Left(i, start, end, <<i[1], start>>) /\ Within(<<i[1], start>>, b)
          BY <1>1, <1>2, <3>5, <4>2 DEF Left, Within
        <5> QED
          BY <2>1, <5>1
      <4>3. CASE i[1] < end /\ i[2] > start /\ b >= end
        <5>1. Left(i, start, end, <<end, i[2]>>) /\ Within(<<end, i[2]>>, b)
          BY <1>1, <1>2, <3>5, <4>3 DEF Left, Within
        <5> QED
          BY <2>1, <5>1
      <4> QED
        BY <1>1, <1>2, <3>5, <4>1, <4>2, <4>3
    <3> QED
      BY <2>1, <3>1, <3>2, <3>3, <3>4, <3>5
  <2> QED
    BY <2>3, <2>4, <2>5
<1> QED
  BY <1>2, <1>3, <1>4

\* contains_range looks at one interval, which is enough where they are apart.
LEMMA ContainsRangeExact ==
  ASSUME NEW iv \in SUBSET (Offset \X Offset), Apart(iv),
         NEW start \in Offset, NEW end \in Offset
  PROVE  ContainsRange(iv, start, end) <=> BytesOf(start, end) \subseteq Covered(iv)
<1>1. \A i \in iv : i[1] \in Nat /\ i[2] \in Nat
  BY FileSizeAssumption DEF Offset
<1>2. start \in Nat /\ end \in Nat
  BY FileSizeAssumption DEF Offset
<1>3. ASSUME NEW b \in start .. end - 1
      PROVE  b \in Covered(iv) <=> \E i \in iv : i[1] <= b /\ b < i[2]
  BY <1>2, CoveredIs DEF Within
<1>4. CASE start >= end
  BY <1>2, <1>4 DEF ContainsRange, BytesOf
<1>5. CASE start < end
  <2>1. ASSUME ContainsRange(iv, start, end) PROVE BytesOf(start, end) \subseteq Covered(iv)
    <3>1. PICK i \in iv : i[1] <= start /\ i[2] >= end
      BY <1>2, <1>5, <2>1 DEF ContainsRange
    <3> QED
      BY <1>1, <1>2, <1>3, <3>1 DEF BytesOf
  <2>2. ASSUME BytesOf(start, end) \subseteq Covered(iv) PROVE ContainsRange(iv, start, end)
    <3>1. start \in start .. end - 1 /\ start \in Covered(iv)
      BY <1>2, <1>5, <2>2 DEF BytesOf
    <3>2. PICK i \in iv : i[1] <= start /\ start < i[2]
      BY <1>3, <3>1
    <3>3. \A j \in iv : i # j => i[2] < j[1] \/ j[2] < i[1]
      BY DEF Apart
    <3>4. i[2] >= end
      <4> SUFFICES ASSUME i[2] < end PROVE FALSE
        BY <1>1, <1>2
      <4>1. i[2] \in start .. end - 1 /\ i[2] \in Covered(iv)
        BY <1>1, <1>2, <2>2, <3>2 DEF BytesOf
      <4>2. PICK j \in iv : j[1] <= i[2] /\ i[2] < j[2]
        BY <1>3, <4>1
      <4>3. i # j
        BY <1>1, <4>2
      <4> QED
        BY <1>1, <1>2, <3>2, <3>3, <4>2, <4>3
    <3>5. \A j \in iv : j[1] <= start => j[1] <= i[1]
      <4> SUFFICES ASSUME NEW j \in iv, j[1] <= start, j # i PROVE j[1] <= i[1]
        BY <1>1
      <4> QED
        BY <1>1, <1>2, <3>2, <3>3 DEF Apart
    <3> QED
      BY <3>2, <3>4, <3>5 DEF ContainsRange
  <2> QED
    BY <2>1, <2>2
<1> QED
  BY <1>2, <1>4, <1>5
------------------------------------------------------------------------------
Exact ==
  /\ intervals \in SUBSET (Offset \X Offset)
  /\ Separated
  /\ DenotesWritten

\* It is inductive.
LEMMA AlwaysExact == Spec => []Exact
<1>1. Init => Exact
  BY DEF Init, Exact, Separated, DenotesWritten, Covered
<1>2. Exact /\ [Next]_vars => Exact'
  <2> SUFFICES ASSUME Exact, [Next]_vars PROVE Exact'
    OBVIOUS
  <2>1. intervals \in SUBSET (Offset \X Offset) /\ Apart(intervals) /\ Covered(intervals) = written
    BY DEF Exact, Separated, Apart, DenotesWritten
  <2>2. CASE \E start, end \in Offset : Insert(start, end)
    <3>1. PICK start \in Offset, end \in Offset : Insert(start, end)
      BY <2>2
    <3>2. /\ intervals' \in SUBSET (Offset \X Offset) /\ Apart(intervals')
          /\ Covered(intervals') = written'
      BY <2>1, <3>1, InsertSound DEF Insert
    <3> QED
      BY <3>2 DEF Exact, Separated, Apart, DenotesWritten
  <2>3. CASE \E start, end \in Offset : RemoveRange(start, end)
    <3>1. PICK start \in Offset, end \in Offset : RemoveRange(start, end)
      BY <2>3
    <3>2. /\ intervals' \in SUBSET (Offset \X Offset) /\ Apart(intervals')
          /\ Covered(intervals') = written'
      BY <2>1, <3>1, RemoveSound DEF RemoveRange
    <3> QED
      BY <3>2 DEF Exact, Separated, Apart, DenotesWritten
  <2>4. CASE UNCHANGED vars
    BY <2>4 DEF vars, Exact, Separated, DenotesWritten, Covered
  <2> QED
    BY <2>2, <2>3, <2>4 DEF Next
<1> QED
  BY <1>1, <1>2, PTL DEF Spec

\* Whatever was inserted and removed, in whatever order, the intervals stay apart
\* and denote exactly the bytes written (PopulatedRanges of ranges.rs).
THEOREM RangesDenoteWritten == Spec => [](TypeOK /\ Separated /\ DenotesWritten)
<1>1. Exact => TypeOK /\ Separated /\ DenotesWritten
  <2> SUFFICES ASSUME Exact PROVE written \subseteq BytesOf(0, FileSize)
    BY DEF Exact, TypeOK
  <2>1. ASSUME NEW b \in Covered(intervals) PROVE b \in 0 .. FileSize - 1
    <3>1. b \in Int /\ \E i \in intervals : i[1] <= b /\ b < i[2]
      BY CoveredIs DEF Exact, Within
    <3> QED
      BY <3>1, FileSizeAssumption DEF Exact, Offset
  <2> QED
    BY <2>1, FileSizeAssumption DEF Exact, DenotesWritten, BytesOf
<1> QED
  BY <1>1, AlwaysExact, PTL

\* No interval is ever empty, and two of them are always at least a missing byte
\* apart: what contains_range relies on when it looks at one interval only.
THEOREM IntervalsStayApart == Spec => []Separated
  BY RangesDenoteWritten, PTL

\* has_range answers TRUE exactly for the ranges of which every byte is written.
THEOREM HasRangeExact ==
  Spec => [](\A start, end \in Offset :
               ContainsRange(intervals, start, end) <=> BytesOf(start, end) \subseteq written)
<1>1. Exact => \A start, end \in Offset :
                 ContainsRange(intervals, start, end) <=> BytesOf(start, end) \subseteq written
  BY ContainsRangeExact DEF Exact, Separated, Apart, DenotesWritten
<1> QED
  BY <1>1, AlwaysExact, PTL

-----------------------------------------------------------------------------
(* What the intervals add up to.                                           *)

\* A set of intervals is finite, and an interval has as many bytes as its length.
LEMMA IntervalSizes ==
  ASSUME NEW iv \in SUBSET (Offset \X Offset)
  PROVE  /\ IsFiniteSet(iv)
         /\ \A a, b \in Int : /\ IsFiniteSet(BytesOf(a, b))
                              /\ a <= b => Cardinality(BytesOf(a, b)) = b - a
<1>1. IsFiniteSet(Offset)
  <2>1. 0 \in Int /\ FileSize \in Int
    BY FileSizeAssumption
  <2> QED
    BY <2>1, FS_Interval DEF Offset
<1>2. IsFiniteSet(Offset \X Offset)
  BY <1>1, FS_Product
<1>3. ASSUME NEW a \in Int, NEW b \in Int
      PROVE  /\ IsFiniteSet(BytesOf(a, b))
             /\ a <= b => Cardinality(BytesOf(a, b)) = b - a
  <2>1. b - 1 \in Int
    OBVIOUS
  <2>2. /\ IsFiniteSet(a .. b - 1)
        /\ Cardinality(a .. b - 1) = IF a > b - 1 THEN 0 ELSE (b - 1) - a + 1
    BY <2>1, FS_Interval
  <2> QED
    BY <2>2 DEF BytesOf
<1> QED
  BY <1>2, <1>3, FS_Subset

\* TotalBytes adds the lengths up one by one.
LEMMA TotalUnfolds ==
  ASSUME NEW iv \in SUBSET (Int \X Int), IsFiniteSet(iv)
  PROVE  \E g : /\ TotalBytes(iv) = g[iv]
                /\ g[{}] = 0
                /\ \A s \in SUBSET iv : s # {} =>
                     \E x \in s : g[s] = (x[2] - x[1]) + g[s \ {x}]
<1> DEFINE F == [x \in iv |-> x[2] - x[1]]
<1>1. F \in [iv -> Int] /\ \A x \in iv : F[x] = x[2] - x[1]
  OBVIOUS
<1> HIDE DEF F
<1>2. PICK f : Sums(f, iv, F)
  BY <1>1, SumsExist
<1>3. f = [s \in SUBSET iv |->
             IF s = {} THEN 0
             ELSE LET x == CHOOSE y \in s : TRUE IN (x[2] - x[1]) + f[s \ {x}]]
  <2>1. ASSUME NEW s \in SUBSET iv, s # {}
        PROVE  LET x == CHOOSE y \in s : TRUE
               IN  f[s] = (x[2] - x[1]) + f[s \ {x}]
    BY <1>1, <1>2, <2>1 DEF Sums
  <2> QED
    BY <1>2, <2>1 DEF Sums
<1>4. PICK g : /\ g = [s \in SUBSET iv |->
                         IF s = {} THEN 0
                         ELSE LET x == CHOOSE y \in s : TRUE IN (x[2] - x[1]) + g[s \ {x}]]
               /\ TotalBytes(iv) = g[iv]
  BY <1>3 DEF TotalBytes, MapThenSumSet, MapThenFoldSet
<1>5. ASSUME NEW s \in SUBSET iv, s # {}
      PROVE  \E x \in s : g[s] = (x[2] - x[1]) + g[s \ {x}]
  <2>1. g[s] = LET x == CHOOSE y \in s : TRUE IN (x[2] - x[1]) + g[s \ {x}]
    BY <1>4, <1>5
  <2> QED
    BY <1>5, <2>1
<1>6. /\ TotalBytes(iv) = g[iv]
      /\ g[{}] = 0
      /\ \A s \in SUBSET iv : s # {} => \E x \in s : g[s] = (x[2] - x[1]) + g[s \ {x}]
  BY <1>4, <1>5
<1> QED
  BY <1>6

\* So is what of each interval lies between two bounds.
CutSum(hit, start, end) == MapThenSumSet(LAMBDA i : Min({i[2], end}) - Max({i[1], start}), hit)

CutsAddUp(g, hit, start, end) ==
  /\ CutSum(hit, start, end) = g[hit]
  /\ g[{}] = 0
  /\ \A s \in SUBSET hit : s # {} =>
       \E x \in s : g[s] = (Min({x[2], end}) - Max({x[1], start})) + g[s \ {x}]

LEMMA CutsUnfold ==
  ASSUME NEW hit, NEW start \in Int, NEW end \in Int,
         hit \in SUBSET (Int \X Int), IsFiniteSet(hit)
  PROVE  \E g : CutsAddUp(g, hit, start, end)
<1> DEFINE F == [x \in hit |-> Min({x[2], end}) - Max({x[1], start})]
<1>1. ASSUME NEW x \in hit PROVE Min({x[2], end}) - Max({x[1], start}) \in Int
  <2>1. x[1] \in Int /\ x[2] \in Int
    OBVIOUS
  <2>2. Min({x[2], end}) \in Int /\ Max({x[1], start}) \in Int
    BY <2>1, PairBounds
  <2> QED
    BY <2>2
<1>2. F \in [hit -> Int] /\ \A x \in hit : F[x] = Min({x[2], end}) - Max({x[1], start})
  BY <1>1
<1> HIDE DEF F
<1>3. PICK f : Sums(f, hit, F)
  BY <1>2, SumsExist
<1>4. f = [s \in SUBSET hit |->
             IF s = {} THEN 0
             ELSE LET x == CHOOSE y \in s : TRUE
                  IN  (Min({x[2], end}) - Max({x[1], start})) + f[s \ {x}]]
  <2>1. ASSUME NEW s \in SUBSET hit, s # {}
        PROVE  LET x == CHOOSE y \in s : TRUE
               IN  f[s] = (Min({x[2], end}) - Max({x[1], start})) + f[s \ {x}]
    BY <1>2, <1>3, <2>1 DEF Sums
  <2> QED
    BY <1>3, <2>1 DEF Sums
<1>5. PICK g : /\ g = [s \in SUBSET hit |->
                         IF s = {} THEN 0
                         ELSE LET x == CHOOSE y \in s : TRUE
                              IN  (Min({x[2], end}) - Max({x[1], start})) + g[s \ {x}]]
               /\ CutSum(hit, start, end) = g[hit]
  BY <1>4 DEF CutSum, MapThenSumSet, MapThenFoldSet
<1>6. ASSUME NEW s \in SUBSET hit, s # {}
      PROVE  \E x \in s : g[s] = (Min({x[2], end}) - Max({x[1], start})) + g[s \ {x}]
  <2>1. g[s] = LET x == CHOOSE y \in s : TRUE
               IN  (Min({x[2], end}) - Max({x[1], start})) + g[s \ {x}]
    BY <1>5, <1>6
  <2> QED
    BY <1>6, <2>1
<1>7. /\ CutSum(hit, start, end) = g[hit]
      /\ g[{}] = 0
      /\ \A s \in SUBSET hit : s # {} =>
           \E x \in s : g[s] = (Min({x[2], end}) - Max({x[1], start})) + g[s \ {x}]
  BY <1>5, <1>6
<1> QED
  BY <1>7 DEF CutsAddUp

\* Intervals apart have as many bytes in all as they cover.
LEMMA TotalIsCovered ==
  ASSUME NEW iv \in SUBSET (Offset \X Offset), Apart(iv)
  PROVE  IsFiniteSet(Covered(iv)) /\ TotalBytes(iv) = Cardinality(Covered(iv))
<1> DEFINE B == [x \in iv |-> BytesOf(x[1], x[2])]
<1>1. \A x \in iv : x[1] \in Int /\ x[2] \in Int /\ x[1] <= x[2]
  BY FileSizeAssumption DEF Offset, Apart
<1>2. IsFiniteSet(iv) /\ \A x \in iv : IsFiniteSet(B[x]) /\ Cardinality(B[x]) = x[2] - x[1]
  BY <1>1, IntervalSizes
<1>3. ASSUME NEW x \in iv, NEW y \in iv, x # y PROVE B[x] \cap B[y] = {}
  BY <1>1, <1>3 DEF Apart, BytesOf
<1>4. PICK g : /\ TotalBytes(iv) = g[iv]
               /\ g[{}] = 0
               /\ \A s \in SUBSET iv : s # {} =>
                    \E x \in s : g[s] = (x[2] - x[1]) + g[s \ {x}]
  <2>1. iv \in SUBSET (Int \X Int)
    BY <1>1
  <2> QED
    BY <1>2, <2>1, TotalUnfolds
<1>5. \A s \in SUBSET iv : s # {} => \E x \in s : g[s] = Cardinality(B[x]) + g[s \ {x}]
  BY <1>2, <1>4
<1>6. Covered(iv) = UNION {B[x] : x \in iv}
  BY DEF Covered
<1> HIDE DEF B
<1>7. /\ IsFiniteSet(UNION {B[x] : x \in iv})
      /\ g[iv] = Cardinality(UNION {B[x] : x \in iv})
  <2>1. Counts(g, iv, B)
    BY <1>2, <1>3, <1>4, <1>5 DEF Counts
  <2> QED
    BY <2>1, DisjointSum
<1> QED
  BY <1>4, <1>6, <1>7

\* What remove_range reports is what the intervals had in the range.
LEMMA RemovedIsCovered ==
  ASSUME NEW iv \in SUBSET (Offset \X Offset), Apart(iv),
         NEW start \in Offset, NEW end \in Offset
  PROVE  RemovedBytes(iv, start, end) = Cardinality(Covered(iv) \cap BytesOf(start, end))
<1>0. PICK hit : hit = Overlapping(iv, start, end)
  OBVIOUS
<1> DEFINE lo(x) == Max({x[1], start})
           hi(x) == Min({x[2], end})
           B == [x \in hit |-> BytesOf(lo(x), hi(x))]
<1>1. \A x \in iv : x[1] \in Int /\ x[2] \in Int /\ x[1] < x[2]
  BY FileSizeAssumption DEF Offset, Apart
<1>2. start \in Int /\ end \in Int
  BY FileSizeAssumption DEF Offset
<1>3. CASE start >= end
  <2>1. BytesOf(start, end) = {}
    BY <1>2, <1>3 DEF BytesOf
  <2> QED
    BY <1>3, <2>1, FS_EmptySet DEF RemovedBytes
<1>4. CASE start < end
  <2>1. \A x : x \in hit <=> x \in iv /\ x[1] < end /\ x[2] > start
    BY <1>0 DEF Overlapping
  <2>2. ASSUME NEW x \in hit
        PROVE  /\ lo(x) \in Int /\ hi(x) \in Int /\ lo(x) <= hi(x)
               /\ \A b \in Int : lo(x) <= b /\ b < hi(x) <=>
                                   x[1] <= b /\ b < x[2] /\ start <= b /\ b < end
    <3>1. /\ x[1] \in Int /\ x[2] \in Int /\ x[1] < x[2]
          /\ x[1] < end /\ x[2] > start
      BY <1>1, <2>1
    <3>2. lo(x) = IF x[1] <= start THEN start ELSE x[1]
      BY <1>2, <3>1 DEF Max
    <3>3. hi(x) = IF x[2] <= end THEN x[2] ELSE end
      BY <1>2, <3>1 DEF Min
    <3> HIDE DEF lo, hi
    <3> QED
      BY <1>2, <1>4, <3>1, <3>2, <3>3
  <2> HIDE DEF lo, hi
  <2>3. IsFiniteSet(hit)
    <3>1. IsFiniteSet(iv) /\ hit \in SUBSET iv
      BY <2>1, IntervalSizes
    <3> QED
      BY <3>1, FS_Subset
  <2>4. \A x \in hit : IsFiniteSet(B[x]) /\ Cardinality(B[x]) = hi(x) - lo(x)
    BY <2>2, IntervalSizes
  <2>5. ASSUME NEW x \in hit, NEW b
        PROVE  b \in B[x] <=> b \in Int /\ Within(x, b) /\ start <= b /\ b < end
    <3>1. b \in B[x] <=> b \in Int /\ lo(x) <= b /\ b < hi(x)
      BY <2>2 DEF BytesOf
    <3> QED
      BY <2>2, <3>1 DEF Within
  <2>6. ASSUME NEW x \in hit, NEW y \in hit, x # y PROVE B[x] \cap B[y] = {}
    <3>1. x \in iv /\ y \in iv /\ (x[2] < y[1] \/ y[2] < x[1])
      BY <2>1, <2>6 DEF Apart
    <3>2. ASSUME NEW b \in B[x], b \in B[y] PROVE FALSE
      <4>1. b \in Int /\ Within(x, b) /\ Within(y, b)
        BY <2>5, <3>2
      <4> QED
        BY <1>1, <3>1, <4>1 DEF Within
    <3> QED
      BY <3>2
  <2>7. UNION {B[x] : x \in hit} = Covered(iv) \cap BytesOf(start, end)
    <3>1. ASSUME NEW b
          PROVE  b \in Covered(iv) \cap BytesOf(start, end) <=> \E x \in hit : b \in B[x]
      <4>1. b \in BytesOf(start, end) <=> b \in Int /\ start <= b /\ b < end
        BY <1>2 DEF BytesOf
      <4>2. b \in Covered(iv) <=> b \in Int /\ \E x \in iv : Within(x, b)
        BY CoveredIs
      <4>3. ASSUME b \in Int, start <= b, b < end, NEW x \in iv, Within(x, b) PROVE x \in hit
        BY <1>1, <1>2, <2>1, <4>3 DEF Within
      <4>4. \A x \in hit : x \in iv
        BY <2>1
      <4> HIDE DEF B
      <4> QED
        BY <2>5, <4>1, <4>2, <4>3, <4>4
    <3> HIDE DEF B
    <3> QED
      BY <3>1
  <2>8. PICK g : /\ RemovedBytes(iv, start, end) = g[hit]
                 /\ g[{}] = 0
                 /\ \A s \in SUBSET hit : s # {} =>
                      \E x \in s : g[s] = (hi(x) - lo(x)) + g[s \ {x}]
    <3>1. hit \in SUBSET (Int \X Int)
      BY <1>1, <2>1
    <3>2. PICK g : CutsAddUp(g, hit, start, end)
      BY <1>2, <2>3, <3>1, CutsUnfold
    <3>3. RemovedBytes(iv, start, end) = CutSum(hit, start, end)
      <4>1. ~ (start >= end)
        BY <1>2, <1>4
      <4> QED
        BY <1>0, <4>1 DEF RemovedBytes, CutSum
    <3> QED
      BY <3>2, <3>3 DEF CutsAddUp, lo, hi
  <2> HIDE DEF B
  <2>9. Counts(g, hit, B)
    <3>1. \A s \in SUBSET hit : s # {} => \E x \in s : g[s] = Cardinality(B[x]) + g[s \ {x}]
      BY <2>4, <2>8
    <3> QED
      BY <2>3, <2>4, <2>6, <2>8, <3>1 DEF Counts
  <2>10. /\ IsFiniteSet(UNION {B[x] : x \in hit})
         /\ g[hit] = Cardinality(UNION {B[x] : x \in hit})
    BY <2>9, DisjointSum
  <2> QED
    BY <2>7, <2>8, <2>10
<1> QED
  BY <1>2, <1>3, <1>4

\* What maybe_evict_behind logs and returns is right: after any inserts and
\* removals, total_bytes counts the bytes written, and a step that adds none
\* reports exactly those it took.
THEOREM AccountsBalance == Spec => AccountingExact
<1>1. ASSUME Exact, Exact', Next
      PROVE  /\ TotalBytes(intervals') = Cardinality(written')
             /\ written' \subseteq written =>
                  removed' = TotalBytes(intervals) - TotalBytes(intervals')
  <2>1. /\ intervals \in SUBSET (Offset \X Offset) /\ Apart(intervals)
        /\ Covered(intervals) = written
    BY <1>1 DEF Exact, Separated, Apart, DenotesWritten
  <2>2. /\ intervals' \in SUBSET (Offset \X Offset) /\ Apart(intervals')
        /\ Covered(intervals') = written'
    BY <1>1 DEF Exact, Separated, Apart, DenotesWritten, Covered
  <2>3. /\ IsFiniteSet(written) /\ TotalBytes(intervals) = Cardinality(written)
    BY <2>1, TotalIsCovered
  <2>4. /\ IsFiniteSet(written') /\ TotalBytes(intervals') = Cardinality(written')
    BY <2>2, TotalIsCovered
  <2>5. Cardinality(written) \in Nat /\ Cardinality(written') \in Nat
    BY <2>3, <2>4, FS_CardinalityType
  <2>6. PICK start \in Offset, end \in Offset : Insert(start, end) \/ RemoveRange(start, end)
    BY <1>1 DEF Next
  <2>7. ASSUME Insert(start, end), written' \subseteq written
        PROVE  removed' = TotalBytes(intervals) - TotalBytes(intervals')
    <3>1. written' = written /\ removed' = 0
      BY <2>7 DEF Insert
    <3> QED
      BY <2>3, <2>4, <2>5, <3>1
  <2>8. ASSUME RemoveRange(start, end)
        PROVE  removed' = TotalBytes(intervals) - TotalBytes(intervals')
    <3>1. /\ removed' = Cardinality(written \cap BytesOf(start, end))
          /\ written' = written \ BytesOf(start, end)
      BY <2>1, <2>8, RemovedIsCovered DEF RemoveRange
    <3> DEFINE taken == written \cap BytesOf(start, end)
    <3>2. written = written' \cup taken /\ written' \cap taken = {} /\ taken \subseteq written
      BY <3>1
    <3>3. IsFiniteSet(taken) /\ Cardinality(taken) \in Nat
      BY <2>3, <3>2, FS_Subset, FS_CardinalityType
    <3>4. Cardinality(written' \cup taken)
            = Cardinality(written') + Cardinality(taken) - Cardinality(written' \cap taken)
      BY <2>4, <3>3, FS_Union
    <3>5. Cardinality(written' \cap taken) = 0
      BY <3>2, FS_EmptySet
    <3>6. removed' = Cardinality(taken)
      BY <3>1
    <3> HIDE DEF taken
    <3> QED
      BY <2>3, <2>4, <2>5, <3>2, <3>3, <3>4, <3>5, <3>6
  <2> QED
    BY <2>4, <2>6, <2>7, <2>8
<1>2. Exact /\ Exact' /\ [Next]_vars =>
        [/\ TotalBytes(intervals') = Cardinality(written')
         /\ written' \subseteq written =>
              removed' = TotalBytes(intervals) - TotalBytes(intervals')]_vars
  BY <1>1
<1> QED
  BY <1>2, AlwaysExact, PTL DEF Spec, AccountingExact

-----------------------------------------------------------------------------
(* The walk of first_gap.                                                  *)

\* The intervals that start before `end', in the order in which they are walked.
Before(iv, end) == {i \in iv : i[1] < end}
Walk(iv, end) == InOrder(Before(iv, end), LAMBDA i, j : i[1] < j[1])

\* They come by their starts, and each of them comes.
LEMMA WalkInOrder ==
  ASSUME NEW iv \in SUBSET (Offset \X Offset), Apart(iv), NEW end \in Offset
  PROVE  LET q == Walk(iv, end)
         IN  /\ Cardinality(Before(iv, end)) \in Nat
             /\ q \in [1 .. Cardinality(Before(iv, end)) -> Before(iv, end)]
             /\ \A k, m \in DOMAIN q : k < m => q[k][1] < q[m][1]
             /\ \A i \in Before(iv, end) : \E k \in DOMAIN q : q[k] = i
<1>0. PICK S : S = Before(iv, end)
  OBVIOUS
<1> DEFINE n == Cardinality(S)
           B == [x \in S |-> {y \in S : y[1] < x[1]}]
           rank == [x \in S |-> Cardinality({y \in S : y[1] < x[1]})]
           q == [k \in 1 .. n |-> CHOOSE x \in S : rank[x] = k - 1]
<1>1. S \in SUBSET iv /\ IsFiniteSet(S)
  <2>1. S \in SUBSET iv
    BY <1>0 DEF Before
  <2> QED
    BY <2>1, IntervalSizes, FS_Subset
<1>2. \A x \in S : x[1] \in Int /\ x[2] \in Int /\ x[1] < x[2]
  BY <1>1, FileSizeAssumption DEF Offset, Apart
<1>3. Ordered(S, B)
  <2>1. \A x \in S : B[x] \subseteq S /\ x \notin B[x]
    BY <1>2
  <2>2. ASSUME NEW x \in S, NEW y \in S, x # y PROVE x \in B[y] \/ y \in B[x]
    <3>1. x[2] < y[1] \/ y[2] < x[1]
      BY <1>1, <2>2 DEF Apart
    <3>2. x[1] < y[1] \/ y[1] < x[1]
      BY <1>2, <3>1
    <3> QED
      BY <3>2
  <2>3. ASSUME NEW x \in S, NEW y \in S, x \in B[y] PROVE B[x] \subseteq B[y]
    <3>1. x[1] < y[1]
      BY <2>3
    <3>2. ASSUME NEW z \in S, z[1] < x[1] PROVE z[1] < y[1]
      BY <1>2, <3>1, <3>2
    <3> QED
      BY <3>2
  <2> HIDE DEF B
  <2> QED
    BY <1>1, <2>1, <2>2, <2>3 DEF Ordered
<1>4. \A x \in S : B[x] = {y \in S : y[1] < x[1]}
  OBVIOUS
<1>5. \A x, y \in S : x \in B[y] <=> x[1] < y[1]
  OBVIOUS
<1> HIDE DEF B
<1>6. /\ n \in Nat
      /\ \A x, y \in S : x \in B[y] <=> Cardinality(B[x]) < Cardinality(B[y])
      /\ \A x, y \in S : Cardinality(B[x]) = Cardinality(B[y]) => x = y
      /\ \A i \in 0 .. n - 1 : \E x \in S : Cardinality(B[x]) = i
      /\ \A x \in S : Cardinality(B[x]) \in 0 .. n - 1
  BY <1>3, Ranks
<1>7. \A x \in S : rank[x] = Cardinality(B[x])
  BY <1>4
<1>8. q = Walk(iv, end)
  BY <1>0 DEF Walk, InOrder
<1> HIDE DEF rank
<1>9. ASSUME NEW k \in 1 .. n PROVE q[k] \in S /\ Cardinality(B[q[k]]) = k - 1
  <2>1. k - 1 \in 0 .. n - 1
    BY <1>6
  <2>2. \E x \in S : rank[x] = k - 1
    BY <1>7, <1>6, <2>1
  <2>3. q[k] \in S /\ rank[q[k]] = k - 1
    BY <2>2
  <2> HIDE DEF q
  <2> QED
    BY <1>7, <2>3
<1>10. DOMAIN q = 1 .. n /\ q \in [1 .. n -> S]
  <2>1. \A k \in 1 .. n : (CHOOSE x \in S : rank[x] = k - 1) \in S
    BY <1>9
  <2> QED
    BY <2>1
<1> HIDE DEF q
<1>11. ASSUME NEW k \in 1 .. n, NEW m \in 1 .. n, k < m PROVE q[k][1] < q[m][1]
  <2>1. Cardinality(B[q[k]]) < Cardinality(B[q[m]])
    BY <1>6, <1>9, <1>11
  <2> QED
    BY <1>5, <1>6, <1>9, <2>1
<1>12. ASSUME NEW i \in S PROVE \E k \in 1 .. n : q[k] = i
  <2>1. Cardinality(B[i]) + 1 \in 1 .. n /\ Cardinality(B[i]) \in Nat
    BY <1>6
  <2>2. q[Cardinality(B[i]) + 1] \in S
        /\ Cardinality(B[q[Cardinality(B[i]) + 1]]) = Cardinality(B[i])
    BY <1>9, <2>1
  <2> QED
    BY <1>6, <2>1, <2>2
<1> QED
  BY <1>0, <1>6, <1>8, <1>10, <1>11, <1>12

\* What the walk has found so far: where it stands, or the gap.
Walks == [cursor : Int, gap : {NoGap} \cup (Int \X Int)]
Walked(q, start, end) ==
  FoldLeft(LAMBDA walk, i : GapStep(walk, i, end), [cursor |-> start, gap |-> NoGap], q)

\* The walk w over q, step by step.
WalkSteps(w, q, n, start, end) ==
  /\ w \in [0 .. n -> Walks]
  /\ w[0] = [cursor |-> start, gap |-> NoGap]
  /\ \A k \in 1 .. n : w[k] = GapStep(w[k - 1], q[k], end)
  /\ Walked(q, start, end) = w[n]

LEMMA GapStepType ==
  ASSUME NEW walk \in Walks, NEW i \in Int \X Int, NEW end \in Int
  PROVE  GapStep(walk, i, end) \in Walks
<1>1. walk.cursor \in Int /\ i[1] \in Int /\ i[2] \in Int
  BY DEF Walks
<1>2. Min({i[1], end}) \in Int
  BY <1>1, PairBounds
<1>3. [walk EXCEPT !.gap = <<walk.cursor, Min({i[1], end})>>] \in Walks
  BY <1>1, <1>2 DEF Walks
<1>4. [walk EXCEPT !.cursor = i[2]] \in Walks
  BY <1>1 DEF Walks
<1> QED
  BY <1>3, <1>4 DEF GapStep

LEMMA WalkUnfolds ==
  ASSUME NEW n \in Nat, NEW q, q \in [1 .. n -> Int \X Int], NEW start \in Int, NEW end \in Int
  PROVE  \E w : WalkSteps(w, q, n, start, end)
<1> DEFINE base == [cursor |-> start, gap |-> NoGap]
           step == [k \in 1 .. n |-> [walk \in Walks |-> GapStep(walk, q[k], end)]]
<1>1. base \in Walks
  BY DEF Walks
<1>2. \A k \in 1 .. n, walk \in Walks : GapStep(walk, q[k], end) \in Walks
  BY GapStepType
<1>3. step \in [1 .. n -> [Walks -> Walks]]
  BY <1>2
<1>4. \A k \in 1 .. n, walk \in Walks : step[k][walk] = GapStep(walk, q[k], end)
  OBVIOUS
<1> HIDE DEF step
<1>5. PICK f : Folds(f, n, Walks, base, step)
  <2> HIDE DEF base
  <2> QED BY <1>1, <1>3, FoldsExist
<1>6. DOMAIN q = 1 .. n
  OBVIOUS
<1>7. f = [s \in SUBSET DOMAIN q |->
             IF s = {} THEN base ELSE LET x == Max(s) IN GapStep(f[s \ {x}], q[x], end)]
  <2>1. ASSUME NEW s \in SUBSET (1 .. n), s # {}
        PROVE  LET x == Max(s) IN f[s] = GapStep(f[s \ {x}], q[x], end)
    <3>1. Max(s) \in s
      <4>1. s \subseteq 0 .. n
        OBVIOUS
      <4> QED
        BY <2>1, <4>1, MaxExists
    <3>2. PICK x \in s : x = Max(s)
      BY <3>1
    <3>3. f[s \ {x}] \in Walks /\ f[s] = step[x][f[s \ {x}]]
      BY <1>5, <2>1, <3>2 DEF Folds
    <3> QED
      BY <1>4, <3>2, <3>3
  <2>2. f[{}] = base /\ f = [s \in SUBSET (1 .. n) |-> f[s]]
    BY <1>5 DEF Folds
  <2> HIDE DEF base
  <2> QED
    BY <1>6, <2>1, <2>2
<1>8. PICK g : /\ g = [s \in SUBSET DOMAIN q |->
                         IF s = {} THEN base
                         ELSE LET x == Max(s) IN GapStep(g[s \ {x}], q[x], end)]
               /\ Walked(q, start, end) = g[DOMAIN q]
  BY <1>7 DEF Walked, FoldLeft, MapThenFoldSet
<1> HIDE DEF base
<1> DEFINE w == [k \in 0 .. n |-> g[1 .. k]]
<1>9. w[0] = base /\ 0 \in 0 .. n
  <2>1. 1 .. 0 = {} /\ 0 \in 0 .. n
    OBVIOUS
  <2> QED
    BY <1>8, <2>1
<1>10. ASSUME NEW k \in 1 .. n PROVE w[k] = GapStep(w[k - 1], q[k], end)
  <2>1. 1 .. k \subseteq 1 .. n /\ 1 .. k # {} /\ Max(1 .. k) = k /\ (1 .. k) \ {k} = 1 .. k - 1
    BY PrefixOf
  <2>2. g[1 .. k] = GapStep(g[1 .. k - 1], q[k], end)
    BY <1>6, <1>8, <2>1
  <2>3. k \in 0 .. n /\ k - 1 \in 0 .. n
    OBVIOUS
  <2> QED
    BY <2>2, <2>3
<1>11. w[n] = Walked(q, start, end)
  BY <1>6, <1>8, n \in 0 .. n
<1>12. w = [k \in 0 .. n |-> w[k]]
  OBVIOUS
<1> HIDE DEF w
<1>13. \A k \in 0 .. n : w[k] \in Walks
  <2> DEFINE S == {k \in Nat : k <= n => w[k] \in Walks}
  <2>1. 0 \in S
    BY <1>1, <1>9
  <2>2. ASSUME NEW k \in Nat, k \in S PROVE k + 1 \in S
    <3> SUFFICES ASSUME k + 1 <= n PROVE w[k + 1] \in Walks
      OBVIOUS
    <3>1. k + 1 \in 1 .. n /\ (k + 1) - 1 = k
      OBVIOUS
    <3>2. w[k] \in Walks /\ q[k + 1] \in Int \X Int
      BY <2>2, <3>1
    <3>3. w[k + 1] = GapStep(w[k], q[k + 1], end)
      BY <1>10, <3>1
    <3> QED
      BY <3>2, <3>3, GapStepType
  <2>3. Nat \subseteq S
    <3> HIDE DEF S
    <3> QED BY <2>1, <2>2, NatSetInduction
  <2> QED
    BY <2>3
<1>14. w \in [0 .. n -> Walks]
  BY <1>12, <1>13
<1>15. WalkSteps(w, q, n, start, end)
  BY <1>9, <1>10, <1>11, <1>14 DEF WalkSteps, base
<1> QED
  BY <1>15

-----------------------------------------------------------------------------
(* What the walk finds. *)

\* After k intervals of q: with no gap found, every byte up to the cursor is
\* covered, and the cursor has passed the end or all of these intervals; a gap
\* found is the first maximal run of missing bytes.
WalkedTo(k, walk, q, bytes, start, end) ==
  /\ walk.gap = NoGap =>
       /\ start <= walk.cursor
       /\ \A b \in Int : start <= b /\ b < walk.cursor => b \in bytes
       /\ end <= walk.cursor \/ \A m \in 1 .. k : q[m][2] <= walk.cursor
  /\ walk.gap # NoGap =>
       /\ start <= walk.gap[1] /\ walk.gap[1] < walk.gap[2] /\ walk.gap[2] <= end
       /\ \A b \in Int : start <= b /\ b < walk.gap[1] => b \in bytes
       /\ \A b \in Int : walk.gap[1] <= b /\ b < walk.gap[2] => b \notin bytes
       /\ walk.gap[2] = end \/ walk.gap[2] \in bytes

\* The intervals q that cover the bytes below the end, by their starts.
Covers(q, n, bytes, end) ==
  /\ n \in Nat
  /\ end \in Int
  /\ q \in [1 .. n -> Int \X Int]
  /\ \A k \in 1 .. n : q[k][1] < q[k][2] /\ q[k][1] < end
  /\ \A k, m \in 1 .. n : k < m => q[k][1] < q[m][1]
  /\ \A b \in Int : (\E k \in 1 .. n : Within(q[k], b)) => b \in bytes
  /\ \A b \in Int : b \in bytes /\ b < end => \E k \in 1 .. n : Within(q[k], b)

\* One more interval.
LEMMA WalkStep ==
  ASSUME NEW q, NEW n, NEW bytes, NEW end, Covers(q, n, bytes, end),
         NEW start \in Int, start < end,
         NEW k \in 1 .. n, NEW walk \in Walks,
         WalkedTo(k - 1, walk, q, bytes, start, end)
  PROVE  WalkedTo(k, GapStep(walk, q[k], end), q, bytes, start, end)
<1>0. PICK next : next = GapStep(walk, q[k], end)
  OBVIOUS
<1>1. /\ n \in Nat /\ end \in Int
      /\ q[k] \in Int \X Int /\ q[k][1] \in Int /\ q[k][2] \in Int
      /\ \A m \in 1 .. n : q[m][1] \in Int /\ q[m][2] \in Int
      /\ \A m \in 1 .. k : m = k \/ m \in 1 .. k - 1
      /\ q[k][1] < q[k][2] /\ q[k][1] < end
      /\ k \in Int /\ walk.cursor \in Int
  BY DEF Covers, Walks
<1>2. CASE walk.gap # NoGap
  <2>1. next = walk
    BY <1>0, <1>2 DEF GapStep
  <2> QED
    BY <1>0, <1>2, <2>1 DEF WalkedTo
<1>3. CASE walk.gap = NoGap /\ walk.cursor >= end
  <2>1. next = walk
    BY <1>0, <1>3 DEF GapStep
  <2> QED
    BY <1>0, <1>1, <1>3, <2>1 DEF WalkedTo
<1>4. CASE walk.gap = NoGap /\ walk.cursor < end /\ q[k][2] <= walk.cursor
  <2>1. next = walk
    BY <1>0, <1>4 DEF GapStep
  <2>2. \A m \in 1 .. k - 1 : q[m][2] <= walk.cursor
    BY <1>1, <1>4 DEF WalkedTo
  <2>3. \A m \in 1 .. k : q[m][2] <= walk.cursor
    BY <1>1, <1>4, <2>2
  <2> QED
    BY <1>0, <1>4, <2>1, <2>3 DEF WalkedTo
<1>5. CASE /\ walk.gap = NoGap /\ walk.cursor < end
           /\ walk.cursor < q[k][2] /\ q[k][1] <= walk.cursor
  <2>1. next = [walk EXCEPT !.cursor = q[k][2]]
    BY <1>0, <1>1, <1>5 DEF GapStep
  <2>2. next.cursor = q[k][2] /\ next.gap = NoGap
    BY <1>5, <2>1 DEF Walks
  <2>3. start <= q[k][2]
    BY <1>1, <1>5 DEF WalkedTo
  <2>4. ASSUME NEW b \in Int, start <= b, b < q[k][2] PROVE b \in bytes
    <3>1. CASE b < walk.cursor
      BY <1>5, <2>4, <3>1 DEF WalkedTo
    <3>2. CASE b >= walk.cursor
      <4>1. Within(q[k], b)
        BY <1>1, <1>5, <2>4, <3>2 DEF Within
      <4> QED
        BY <4>1 DEF Covers
    <3> QED
      BY <1>1, <3>1, <3>2
  <2>5. \A m \in 1 .. k - 1 : q[m][2] <= walk.cursor
    BY <1>1, <1>5 DEF WalkedTo
  <2>6. \A m \in 1 .. k : q[m][2] <= q[k][2]
    <3>1. ASSUME NEW m \in 1 .. k PROVE q[m][2] <= q[k][2]
      <4>1. m = k \/ q[m][2] <= walk.cursor
        BY <1>1, <2>5
      <4>2. m \in 1 .. n
        BY <1>1
      <4>3. q[m][2] \in Int
        BY <1>1, <4>2
      <4> QED
        BY <1>1, <1>5, <4>1, <4>3
    <3> QED
      BY <3>1
  <2>7. WalkedTo(k, next, q, bytes, start, end)
    BY <2>2, <2>3, <2>4, <2>6 DEF WalkedTo
  <2> QED
    BY <1>0, <2>7
<1>6. CASE walk.gap = NoGap /\ walk.cursor < end /\ walk.cursor < q[k][1]
  <2>1. Min({q[k][1], end}) = q[k][1]
    <3>1. PICK least : least = Min({q[k][1], end})
      OBVIOUS
    <3>2. least \in {q[k][1], end} /\ least <= q[k][1]
      BY <1>1, <3>1, PairBounds
    <3> QED
      BY <1>1, <3>1, <3>2
  <2>2. next = [walk EXCEPT !.gap = <<walk.cursor, q[k][1]>>]
    BY <1>0, <1>1, <1>6, <2>1 DEF GapStep
  <2>3. next.gap = <<walk.cursor, q[k][1]>>
    BY <2>2 DEF Walks
  <2>4. next.gap # NoGap
    BY <2>3 DEF NoGap
  <2>5. start <= walk.cursor /\ \A b \in Int : start <= b /\ b < walk.cursor => b \in bytes
    BY <1>6 DEF WalkedTo
  <2>6. \A m \in 1 .. k - 1 : q[m][2] <= walk.cursor
    BY <1>1, <1>6 DEF WalkedTo
  <2>7. ASSUME NEW b \in Int, walk.cursor <= b, b < q[k][1] PROVE b \notin bytes
    <3> SUFFICES ASSUME b \in bytes PROVE FALSE
      OBVIOUS
    <3>1. b < end
      BY <1>1, <2>7
    <3>2. PICK m \in 1 .. n : Within(q[m], b)
      BY <3>1 DEF Covers
    <3>3. q[m][1] <= b /\ b < q[m][2] /\ q[m][1] \in Int /\ q[m][2] \in Int
      BY <1>1, <3>2 DEF Within
    <3>4. CASE m < k
      <4>1. m \in 1 .. k - 1
        BY <1>1, <3>4
      <4>2. q[m][2] <= walk.cursor
        BY <2>6, <4>1
      <4> QED
        BY <1>1, <2>7, <3>3, <4>2
    <3>5. CASE m = k
      BY <1>1, <2>7, <3>3, <3>5
    <3>6. CASE k < m
      <4>1. q[k][1] < q[m][1]
        BY <3>6 DEF Covers
      <4> QED
        BY <1>1, <2>7, <3>3, <4>1
    <3> QED
      BY <1>1, <3>4, <3>5, <3>6
  <2>8. q[k][1] \in bytes
    <3>1. Within(q[k], q[k][1])
      BY <1>1 DEF Within
    <3> QED
      BY <1>1, <3>1 DEF Covers
  <2>9. q[k][1] <= end
    BY <1>1
  <2>10. PICK gap : gap = <<walk.cursor, q[k][1]>>
    OBVIOUS
  <2>11. gap[1] = walk.cursor /\ gap[2] = q[k][1] /\ next.gap = gap
    BY <2>3, <2>10
  <2>12. WalkedTo(k, next, q, bytes, start, end)
    BY <1>1, <1>6, <2>4, <2>5, <2>7, <2>8, <2>9, <2>11 DEF WalkedTo
  <2> QED
    BY <1>0, <2>12
<1> QED
  BY <1>1, <1>2, <1>3, <1>4, <1>5, <1>6

\* first_gap returns the first maximal run of missing bytes below the end, and
\* nothing where none is missing.
LEMMA FirstGapFinds ==
  ASSUME NEW iv \in SUBSET (Offset \X Offset), Apart(iv),
         NEW start \in Offset, NEW end \in Offset, start < end
  PROVE  LET gap == FirstGap(iv, start, end)
         IN  \/ /\ gap = NoGap
                /\ \A b \in Int : start <= b /\ b < end => b \in Covered(iv)
             \/ /\ gap # NoGap
                /\ gap[1] \in Int /\ gap[2] \in Int
                /\ start <= gap[1] /\ gap[1] < gap[2] /\ gap[2] <= end
                /\ \A b \in Int : start <= b /\ b < gap[1] => b \in Covered(iv)
                /\ \A b \in Int : gap[1] <= b /\ b < gap[2] => b \notin Covered(iv)
                /\ gap[2] = end \/ gap[2] \in Covered(iv)
<1>1. PICK q : q = Walk(iv, end)
  OBVIOUS
<1>2. PICK n : n = Cardinality(Before(iv, end))
  OBVIOUS
<1>3. PICK bytes : bytes = Covered(iv)
  OBVIOUS
<1>4. start \in Int /\ end \in Int
  BY FileSizeAssumption DEF Offset
<1>5. /\ n \in Nat
      /\ q \in [1 .. n -> Before(iv, end)]
      /\ \A k, m \in 1 .. n : k < m => q[k][1] < q[m][1]
      /\ \A i \in Before(iv, end) : \E k \in 1 .. n : q[k] = i
  BY <1>1, <1>2, WalkInOrder
<1>6. \A i \in Before(iv, end) :
        i \in iv /\ i \in Int \X Int /\ i[1] \in Int /\ i[2] \in Int /\ i[1] < i[2] /\ i[1] < end
  BY FileSizeAssumption DEF Before, Offset, Apart
<1>7. Covers(q, n, bytes, end)
  <2>1. q \in [1 .. n -> Int \X Int]
    BY <1>5, <1>6
  <2>2. \A k \in 1 .. n : q[k] \in iv /\ q[k][1] < q[k][2] /\ q[k][1] < end
    BY <1>5, <1>6
  <2>3. ASSUME NEW b \in Int, NEW k \in 1 .. n, Within(q[k], b) PROVE b \in bytes
    BY <1>3, <2>2, <2>3, CoveredIs
  <2>4. ASSUME NEW b \in Int, b \in bytes, b < end PROVE \E k \in 1 .. n : Within(q[k], b)
    <3>1. PICK i \in iv : Within(i, b)
      BY <1>3, <2>4, CoveredIs
    <3>2. i[1] < end
      <4>1. i[1] \in Int
        BY FileSizeAssumption DEF Offset
      <4> QED
        BY <1>4, <2>4, <3>1, <4>1 DEF Within
    <3>3. i \in Before(iv, end)
      BY <3>2 DEF Before
    <3> QED
      BY <1>5, <3>1, <3>3
  <2> QED
    BY <1>4, <1>5, <2>1, <2>2, <2>3, <2>4 DEF Covers
<1>8. q \in [1 .. n -> Int \X Int]
  BY <1>7 DEF Covers
<1>9. PICK w : WalkSteps(w, q, n, start, end)
  BY <1>4, <1>5, <1>8, WalkUnfolds
<1>10. \A k \in 0 .. n : w[k] \in Walks
  BY <1>9 DEF WalkSteps
<1>11. \A k \in 0 .. n : WalkedTo(k, w[k], q, bytes, start, end)
  <2> DEFINE T == {k \in Nat : k <= n => WalkedTo(k, w[k], q, bytes, start, end)}
  <2>1. 0 \in T
    <3>1. w[0].cursor = start /\ w[0].gap = NoGap
      BY <1>9 DEF WalkSteps
    <3>2. 1 .. 0 = {}
      OBVIOUS
    <3>3. WalkedTo(0, w[0], q, bytes, start, end)
      BY <1>4, <3>1, <3>2 DEF WalkedTo
    <3> QED
      BY <3>3
  <2>2. ASSUME NEW k \in Nat, k \in T PROVE k + 1 \in T
    <3> SUFFICES ASSUME k + 1 <= n PROVE WalkedTo(k + 1, w[k + 1], q, bytes, start, end)
      OBVIOUS
    <3>1. PICK m \in 1 .. n : m = k + 1
      BY <1>5
    <3>2. m - 1 = k /\ k \in 0 .. n
      BY <1>5, <3>1
    <3>3. w[m - 1] \in Walks /\ WalkedTo(m - 1, w[m - 1], q, bytes, start, end)
      BY <1>5, <1>10, <2>2, <3>2
    <3>4. w[m] = GapStep(w[m - 1], q[m], end)
      BY <1>9 DEF WalkSteps
    <3>5. WalkedTo(m, GapStep(w[m - 1], q[m], end), q, bytes, start, end)
      BY <1>4, <1>7, <3>3, WalkStep
    <3> QED
      BY <3>1, <3>4, <3>5
  <2>3. Nat \subseteq T
    <3> HIDE DEF T
    <3> QED
      BY <2>1, <2>2, NatSetInduction
  <2> QED
    BY <1>5, <2>3
<1>12. PICK walk \in Walks : walk = w[n] /\ WalkedTo(n, walk, q, bytes, start, end)
  BY <1>5, <1>10, <1>11
<1>13. Walked(Walk(iv, end), start, end) = walk
  BY <1>1, <1>9, <1>12 DEF WalkSteps
<1>14. FirstGap(iv, start, end)
         = IF start < end /\ walk.gap = NoGap /\ walk.cursor < end
           THEN <<walk.cursor, end>> ELSE walk.gap
  <2>1. FirstGap(iv, start, end)
          = IF start < end /\ Walked(Walk(iv, end), start, end).gap = NoGap
               /\ Walked(Walk(iv, end), start, end).cursor < end
            THEN <<Walked(Walk(iv, end), start, end).cursor, end>>
            ELSE Walked(Walk(iv, end), start, end).gap
    BY DEF FirstGap, Walked, Walk, Before
  <2> QED
    BY <1>13, <2>1
<1>15. PICK gap : gap = FirstGap(iv, start, end)
  OBVIOUS
<1>16. walk.cursor \in Int
  BY <1>12 DEF Walks
<1>17. CASE walk.gap # NoGap
  <2>1. gap = walk.gap /\ gap[1] \in Int /\ gap[2] \in Int
    BY <1>14, <1>15, <1>17 DEF Walks
  <2> QED
    BY <1>3, <1>12, <1>15, <1>17, <2>1 DEF WalkedTo
<1>18. CASE walk.gap = NoGap /\ walk.cursor >= end
  <2>1. gap = NoGap
    BY <1>4, <1>14, <1>15, <1>16, <1>18
  <2>2. \A b \in Int : start <= b /\ b < end => b \in bytes
    BY <1>4, <1>12, <1>16, <1>18 DEF WalkedTo
  <2> QED
    BY <1>3, <1>15, <2>1, <2>2
<1>19. CASE walk.gap = NoGap /\ walk.cursor < end
  <2>1. gap = <<walk.cursor, end>>
    BY <1>14, <1>15, <1>19
  <2>2. gap # NoGap /\ gap[1] = walk.cursor /\ gap[2] = end
    BY <2>1 DEF NoGap
  <2>3. /\ start <= walk.cursor
        /\ \A b \in Int : start <= b /\ b < walk.cursor => b \in bytes
        /\ \A m \in 1 .. n : q[m][2] <= walk.cursor
    BY <1>4, <1>12, <1>16, <1>19 DEF WalkedTo
  <2>4. ASSUME NEW b \in Int, walk.cursor <= b, b < end, b \in bytes PROVE FALSE
    <3>1. PICK m \in 1 .. n : Within(q[m], b)
      BY <1>7, <2>4 DEF Covers
    <3>2. b < q[m][2] /\ q[m][2] <= walk.cursor /\ q[m][2] \in Int
      BY <1>8, <2>3, <3>1 DEF Within
    <3> QED
      BY <1>16, <2>4, <3>2
  <2> QED
    BY <1>3, <1>4, <1>15, <1>16, <1>19, <2>2, <2>3, <2>4
<1> QED
  BY <1>4, <1>16, <1>17, <1>18, <1>19

\* An empty range has no gap.
LEMMA NothingToFind ==
  ASSUME NEW iv \in SUBSET (Offset \X Offset), Apart(iv),
         NEW start \in Offset, NEW end \in Offset, start >= end
  PROVE  FirstGap(iv, start, end) = NoGap
<1>0. start \in Int /\ end \in Int
  BY FileSizeAssumption DEF Offset
<1>1. PICK q : q = Walk(iv, end)
  OBVIOUS
<1>2. PICK n : n = Cardinality(Before(iv, end))
  OBVIOUS
<1>3. n \in Nat /\ q \in [1 .. n -> Before(iv, end)]
  BY <1>1, <1>2, WalkInOrder
<1>4. q \in [1 .. n -> Int \X Int]
  <2>1. Before(iv, end) \subseteq Int \X Int
    BY FileSizeAssumption DEF Before, Offset
  <2> QED
    BY <1>3, <2>1
<1>5. PICK w : WalkSteps(w, q, n, start, end)
  BY <1>0, <1>3, <1>4, WalkUnfolds
<1>6. \A k \in 1 .. n : w[k] = GapStep(w[k - 1], q[k], end)
  BY <1>5 DEF WalkSteps
<1>7. w[0] = [cursor |-> start, gap |-> NoGap]
  BY <1>5 DEF WalkSteps
<1> DEFINE T == {k \in Nat : k <= n => w[k] = w[0]}
<1>8. 0 \in T
  OBVIOUS
<1>9. ASSUME NEW k \in Nat, k \in T PROVE k + 1 \in T
  <2> SUFFICES ASSUME k + 1 <= n PROVE w[k + 1] = w[0]
    OBVIOUS
  <2>1. k + 1 \in 1 .. n /\ (k + 1) - 1 = k /\ k <= n
    BY <1>3
  <2>2. w[k + 1] = GapStep(w[0], q[k + 1], end)
    BY <1>6, <1>9, <2>1
  <2>3. w[0].cursor >= end
    BY <1>7
  <2> QED
    BY <2>2, <2>3 DEF GapStep
<1>10. Nat \subseteq T
  <2> HIDE DEF T
  <2> QED
    BY <1>8, <1>9, NatSetInduction
<1>11. w[n] = w[0]
  BY <1>3, <1>10
<1>12. Walked(Walk(iv, end), start, end).gap = NoGap
  BY <1>1, <1>5, <1>7, <1>11 DEF WalkSteps
<1>13. FirstGap(iv, start, end) = Walked(Walk(iv, end), start, end).gap
  <2>1. ~ (start < end)
    BY <1>0
  <2> QED
    BY <2>1 DEF FirstGap, Walked, Walk, Before
<1> QED
  BY <1>12, <1>13

\* Lookups are exact: has_range answers TRUE exactly where every byte is written, and
\* first_gap gives the first maximal run of bytes that are not (LookupsExact).
THEOREM LookupsAreExact == Spec => []LookupsExact
<1>1. ASSUME Exact PROVE LookupsExact
  <2>0. intervals \in SUBSET (Offset \X Offset) /\ Apart(intervals)
        /\ Covered(intervals) = written
    BY <1>1 DEF Exact, TypeOK, Separated, Apart, DenotesWritten
  <2> SUFFICES ASSUME NEW start \in Offset, NEW end \in Offset
               PROVE  LET missing == BytesOf(start, end) \ written
                          gap     == FirstGap(intervals, start, end)
                      IN  /\ ContainsRange(intervals, start, end) <=> missing = {}
                          /\ IF missing = {} THEN gap = NoGap
                             ELSE /\ gap # NoGap
                                  /\ gap[1] = Min(missing)
                                  /\ BytesOf(gap[1], gap[2]) \subseteq missing
                                  /\ gap[2] = end \/ gap[2] \in written
    BY DEF LookupsExact
  <2>1. PICK missing : missing = BytesOf(start, end) \ written
    OBVIOUS
  <2>2. PICK gap : gap = FirstGap(intervals, start, end)
    OBVIOUS
  <2>3. start \in Nat /\ end \in Nat
    BY FileSizeAssumption DEF Offset
  <2>4. \A b : b \in missing <=> b \in Int /\ start <= b /\ b < end /\ b \notin written
    BY <2>1, <2>3 DEF BytesOf
  <2>5. ContainsRange(intervals, start, end) <=> missing = {}
    <3>1. ContainsRange(intervals, start, end) <=> BytesOf(start, end) \subseteq written
      BY <2>0, ContainsRangeExact
    <3> QED
      BY <2>1, <3>1
  <2>6. CASE start >= end
    <3>1. missing = {}
      BY <2>3, <2>4, <2>6
    <3>2. gap = NoGap
      BY <2>0, <2>2, <2>3, <2>6, NothingToFind
    <3> QED
      BY <2>1, <2>2, <2>5, <3>1, <3>2
  <2>7. CASE start < end
    <3>1. \/ /\ gap = NoGap
             /\ \A b \in Int : start <= b /\ b < end => b \in written
          \/ /\ gap # NoGap
             /\ gap[1] \in Int /\ gap[2] \in Int
             /\ start <= gap[1] /\ gap[1] < gap[2] /\ gap[2] <= end
             /\ \A b \in Int : start <= b /\ b < gap[1] => b \in written
             /\ \A b \in Int : gap[1] <= b /\ b < gap[2] => b \notin written
             /\ gap[2] = end \/ gap[2] \in written
      BY <2>0, <2>2, <2>7, FirstGapFinds
    <3>2. CASE gap = NoGap
      <4>1. missing = {}
        BY <2>4, <3>1, <3>2
      <4> QED
        BY <2>1, <2>2, <2>5, <3>2, <4>1
    <3>3. CASE gap # NoGap
      <4>1. gap[1] \in missing
        BY <2>3, <2>4, <3>1, <3>3
      <4>2. \A b \in missing : gap[1] <= b
        BY <2>3, <2>4, <3>1, <3>3
      <4>3. missing \subseteq Nat
        BY <2>3, <2>4
      <4>4. Min(missing) = gap[1]
        <5>1. PICK least : least = Min(missing)
          OBVIOUS
        <5>2. least \in missing /\ least <= gap[1]
          BY <4>1, <4>3, <5>1, MinExists
        <5>3. least \in Int /\ gap[1] \in Int /\ gap[1] <= least
          BY <3>1, <3>3, <4>2, <4>3, <5>2
        <5>4. least = gap[1]
          BY <5>2, <5>3
        <5> QED
          BY <5>1, <5>4
      <4>5. BytesOf(gap[1], gap[2]) \subseteq missing
        BY <2>3, <2>4, <3>1, <3>3 DEF BytesOf
      <4> QED
        BY <2>1, <2>2, <2>5, <3>1, <3>3, <4>1, <4>4, <4>5
    <3> QED
      BY <3>2, <3>3
  <2> QED
    BY <2>3, <2>6, <2>7
<1> QED
  BY <1>1, AlwaysExact, PTL
==============================================================================
