--------------------------- MODULE MCServePipeline ---------------------------
(* A RAR release of two volumes, and a flat release. *)
EXTENDS ServePipeline, TLC

Seg(offset, bytes, decoded) == [offset |-> offset, bytes |-> bytes, decoded |-> decoded]
Volume(video, length, assembled) ==
  [video |-> video, length |-> length, assembled |-> assembled]

\* Five segments of two bytes; the volume headers are bytes 0 and 5, the video
\* has eight bytes.  The first article is a byte too long, the fourth a byte
\* short.
FiveSegments == <<Seg(0, 2, 3), Seg(2, 2, 2), Seg(4, 2, 2), Seg(6, 2, 1), Seg(8, 2, 2)>>
TwoVolumes == <<Volume(0, 4, 1), Volume(4, 4, 6)>>
\* The whole video, a seek to the middle, the index at its end.
Whole == <<0, 7>>
SomeRanges == {Whole, <<2, 5>>, <<6, 7>>}

\* A flat release of two segments of three bytes, the first article one byte
\* too long and the second one byte short.
TwoSegments == <<Seg(0, 3, 4), Seg(3, 3, 2)>>
FlatSix == <<Volume(0, 6, 0)>>
SixBytes == {<<0, 5>>}

Symmetry == Permutations(Requests)
=============================================================================
