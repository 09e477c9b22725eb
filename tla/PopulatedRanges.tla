--------------------------- MODULE PopulatedRanges ---------------------------
(***************************************************************************)
(* The populated-range bookkeeping of one cache file                       *)
(* (src-rust/streaming/ranges.rs): a BTreeMap from the start of a          *)
(* half-open interval [start, end) to its end.  The map is modelled as a   *)
(* set of pairs <<start, end>>; the starts of its pairs are distinct.      *)
(*                                                                         *)
(* The file promises a set of bytes.  `written' is that set, kept as a     *)
(* history variable: the properties below compare every answer of the      *)
(* interval arithmetic with the answer for the set.                        *)
(***************************************************************************)
EXTENDS StableSort, FiniteSetsExt

CONSTANT FileSize         \* total_size of the cache file, in bytes

ASSUME FileSizeAssumption == FileSize \in Nat \ {0}

VARIABLES
  intervals,   \* PopulatedRanges.intervals
  removed,     \* what the latest remove_range returned (0 after an insert)
  written      \* history: the bytes inserted and not removed since

vars == <<intervals, removed, written>>

Offset == 0 .. FileSize
BytesOf(start, end) == start .. end - 1
Covered(iv) == UNION {BytesOf(i[1], i[2]) : i \in iv}

NoGap == <<>>

-----------------------------------------------------------------------------
(* The operations, on a set iv of intervals. *)

\* Slip: adjacent intervals are not merged.
InsertOverlappingOnly(iv, start, end) ==
  LET merged == {i \in iv : i[1] < end /\ i[2] > start}
      joined == <<Min({start} \cup {i[1] : i \in merged}),
                  Max({end} \cup {i[2] : i \in merged})>>
  IN  IF start >= end THEN iv ELSE (iv \ merged) \cup {joined}

\* insert: every interval that touches [start, end) is merged into it.
InsertInto(iv, start, end) ==
  LET merged == {i \in iv : i[1] <= end /\ i[2] >= start}
      joined == <<Min({start} \cup {i[1] : i \in merged}),
                  Max({end} \cup {i[2] : i \in merged})>>
  IN  IF start >= end THEN iv ELSE (iv \ merged) \cup {joined}

\* contains_range looks at one interval only: the last that starts at or
\* before `start'.
ContainsRange(iv, start, end) ==
  \/ start >= end
  \/ LET below == {i \in iv : i[1] <= start}
     IN  \E i \in below : /\ \A j \in below : j[1] <= i[1]
                          /\ i[2] >= end

\* Slip: intervals that end before the cursor are not skipped.
GapStepUnskipped(walk, i, end) ==
  IF walk.gap # NoGap \/ walk.cursor >= end THEN walk
  ELSE IF i[1] > walk.cursor THEN [walk EXCEPT !.gap = <<walk.cursor, Min({i[1], end})>>]
       ELSE [walk EXCEPT !.cursor = i[2]]

\* first_gap walks the intervals that start before `end', in order.
GapStep(walk, i, end) ==
  IF walk.gap # NoGap \/ walk.cursor >= end \/ i[2] <= walk.cursor THEN walk
  ELSE IF i[1] > walk.cursor THEN [walk EXCEPT !.gap = <<walk.cursor, Min({i[1], end})>>]
       ELSE [walk EXCEPT !.cursor = i[2]]

FirstGap(iv, start, end) ==
  LET before == InOrder({i \in iv : i[1] < end}, LAMBDA i, j : i[1] < j[1])
      walked == FoldLeft(LAMBDA walk, i : GapStep(walk, i, end),
                         [cursor |-> start, gap |-> NoGap], before)
  IN  IF start < end /\ walked.gap = NoGap /\ walked.cursor < end
      THEN <<walked.cursor, end>>
      ELSE walked.gap

TotalBytes(iv) == MapThenSumSet(LAMBDA i : i[2] - i[1], iv)

\* remove_range: overlapping intervals are dropped and what they hold outside
\* [start, end) is put back.
Overlapping(iv, start, end) == {i \in iv : i[1] < end /\ i[2] > start}

\* Slip: what lies behind the removed range is lost with it.
RemoveWithTail(iv, start, end) ==
  LET hit == Overlapping(iv, start, end)
  IN  IF start >= end THEN iv
      ELSE (iv \ hit) \cup {<<i[1], start>> : i \in {j \in hit : j[1] < start}}

RemoveFrom(iv, start, end) ==
  LET hit == Overlapping(iv, start, end)
  IN  IF start >= end THEN iv
      ELSE (iv \ hit) \cup {<<i[1], start>> : i \in {j \in hit : j[1] < start}}
                      \cup {<<end, i[2]>> : i \in {j \in hit : j[2] > end}}

\* Slip: the head outside the range is counted as removed.
RemovedBytesUnclamped(iv, start, end) ==
  IF start >= end THEN 0
  ELSE MapThenSumSet(LAMBDA i : Min({i[2], end}) - i[1], Overlapping(iv, start, end))

RemovedBytes(iv, start, end) ==
  IF start >= end THEN 0
  ELSE MapThenSumSet(LAMBDA i : Min({i[2], end}) - Max({i[1], start}),
                     Overlapping(iv, start, end))

-----------------------------------------------------------------------------

Init ==
  /\ intervals = {}
  /\ removed = 0
  /\ written = {}

Insert(start, end) ==
  /\ intervals' = InsertInto(intervals, start, end)
  /\ removed' = 0
  /\ written' = written \cup BytesOf(start, end)

RemoveRange(start, end) ==
  /\ intervals' = RemoveFrom(intervals, start, end)
  /\ removed' = RemovedBytes(intervals, start, end)
  /\ written' = written \ BytesOf(start, end)

Next ==
  \E start, end \in Offset : Insert(start, end) \/ RemoveRange(start, end)

Spec == Init /\ [][Next]_vars

-----------------------------------------------------------------------------

TypeOK ==
  /\ intervals \subseteq Offset \X Offset
  /\ written \subseteq BytesOf(0, FileSize)

\* No interval is empty, and two intervals are separated by at least one
\* missing byte: contains_range is right to look at a single interval only
\* because insert merges neighbours and remove_range leaves none behind.
Separated ==
  /\ \A i \in intervals : i[1] < i[2]
  /\ \A i, j \in intervals : i # j => i[2] < j[1] \/ j[2] < i[1]

\* The intervals denote exactly the bytes inserted and not removed since.
DenotesWritten == Covered(intervals) = written

\* Whatever sequence of inserts and removals came before, has_range answers TRUE
\* exactly for the ranges whose every byte is written, and first_gap returns the
\* first maximal run of missing bytes of a range, nothing where none is missing.
LookupsExact ==
  \A start, end \in Offset :
    LET missing == BytesOf(start, end) \ written
        gap     == FirstGap(intervals, start, end)
    IN  /\ ContainsRange(intervals, start, end) <=> missing = {}
        /\ IF missing = {} THEN gap = NoGap
           ELSE /\ gap # NoGap
                /\ gap[1] = Min(missing)
                /\ BytesOf(gap[1], gap[2]) \subseteq missing
                /\ gap[2] = end \/ gap[2] \in written

\* The number of bytes remove_range reports is the number of bytes the
\* intervals stop covering, so populated_bytes before and after an eviction
\* differ by what maybe_evict_behind logs and returns.
AccountingExact ==
  [][/\ TotalBytes(intervals') = Cardinality(written')
     /\ written' \subseteq written =>
          removed' = TotalBytes(intervals) - TotalBytes(intervals')]_vars
=============================================================================
