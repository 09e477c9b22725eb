----------------------------- MODULE LayoutBuild -----------------------------
(***************************************************************************)
(* How a preflight derives the layout of a release                         *)
(* (src-rust/streaming/preflight.rs).  It knows what the NZB lists, the    *)
(* payload of the first article of each file, and what that payload says   *)
(* of its file: the yEnc header its size, the RAR header where the video   *)
(* lies.  Everything else it computes.                                     *)
(*                                                                         *)
(* A part listed by the NZB is [number, bytes, article]; a segment of the  *)
(* layout [offset, bytes, article]; a chunk [video, length, assembled].    *)
(***************************************************************************)
EXTENDS StableSort, Naturals, Sequences

NotGiven == 0   \* a yEnc header without size: None and Some(0) are treated alike

Saturating(a, b) == IF a >= b THEN a - b ELSE 0
Sum(numbers) == FoldSeq(LAMBDA x, y : x + y, 0, numbers)

ByNumber(parts) == StableSorted(parts, LAMBDA x, y : x.number < y.number)

\* Slip: a segment's offset is taken after its length is added.
LaidOutAfter(parts, lengths, offset) ==
  [i \in DOMAIN parts |->
     [offset  |-> offset + Sum(SubSeq(lengths, 1, i)),
      bytes   |-> lengths[i],
      article |-> parts[i].article]]

\* The segments of consecutive parts with these lengths, from an offset on.
LaidOut(parts, lengths, offset) ==
  [i \in DOMAIN parts |->
     [offset  |-> offset + Sum(SubSeq(lengths, 1, i - 1)),
      bytes   |-> lengths[i],
      article |-> parts[i].article]]

\* build_segment_refs: the parts by number, each as long as the NZB declares.
BuildSegmentRefs(parts) ==
  LET sorted == ByNumber(parts)
  IN  LaidOut(sorted, [i \in DOMAIN sorted |-> sorted[i].bytes], 0)

\* A size given for n parts is believed if it reaches beyond all but the last.
FileTotal(n, stride, size) ==
  IF size > 0 /\ size >= (n - 1) * stride THEN size ELSE n * stride

\* rebuild_for_decoded_stride: if the first payload has not the length the NZB
\* declares, every segment but the last has the length of the first payload
\* and the last has what remains.
Rebuild(segments, stride, size) ==
  LET n     == Len(segments)
      total == FileTotal(n, stride, size)
      tail  == Saturating(total, (n - 1) * stride)
  IN  IF segments[1].bytes = stride
      THEN [segments |-> segments, total |-> segments[n].offset + segments[n].bytes]
      ELSE [segments |-> LaidOut(segments,
                                 [i \in 1..n |-> IF i < n THEN stride
                                                 ELSE IF tail < stride THEN tail ELSE stride],
                                 0),
            total |-> total]

\* Slip: volumes are laid out with the lengths the NZB declares, which are encoded.
VolumeLengthsDeclared(v) == [i \in DOMAIN v.parts |-> v.parts[i].bytes]

\* A volume is [parts, stride, size, start, data]: its parts, the length of its
\* first payload, its size if given, where the video's data begins in it and
\* how much of it there is.
VolumeLengths(v) ==
  LET n == Len(v.parts)
  IN  [i \in 1..n |-> IF i < n THEN v.stride
                      ELSE Saturating(FileTotal(n, v.stride, v.size), (n - 1) * v.stride)]

\* Where each volume begins in the assembled stream, and its data in the video.
VolumeStart(volumes, k) == Sum([j \in 1..k - 1 |-> Sum(VolumeLengths(volumes[j]))])
VideoStart(volumes, k) == Sum([j \in 1..k - 1 |-> volumes[j].data])

\* build_rar_layout, for the volumes that carry the video (probe_rar_inner): each
\* with its parts by number, one after the other.
PartsSorted(listed) == [k \in DOMAIN listed |-> [listed[k] EXCEPT !.parts = ByNumber(@)]]

RarLayout(volumes) ==
  [segments |-> FlattenSeq([k \in DOMAIN volumes |->
                  LaidOut(volumes[k].parts, VolumeLengths(volumes[k]),
                          VolumeStart(volumes, k))]),
   chunks   |-> [k \in DOMAIN volumes |->
                  [video     |-> VideoStart(volumes, k),
                   length    |-> volumes[k].data,
                   assembled |-> VolumeStart(volumes, k) + volumes[k].start]]]

BuildRarLayout(listed) == RarLayout(PartsSorted(listed))

\* probe_candidate_inner, for a flat release: one chunk over the whole of it.
BuildFlatLayout(v) ==
  LET rebuilt == Rebuild(BuildSegmentRefs(v.parts), v.stride, v.size)
  IN  [segments |-> rebuilt.segments,
       chunks   |-> <<[video |-> 0, length |-> rebuilt.total, assembled |-> 0]>>]
===============================================================================
