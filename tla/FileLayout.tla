----------------------------- MODULE FileLayout -----------------------------
(***************************************************************************)
(* The layout an ActiveStream serves from (src-rust/streaming/session.rs): *)
(* the NZB segments laid end to end form the assembled stream, which the   *)
(* cache file mirrors; the data chunks say where the bytes of the video    *)
(* lie in it.  A flat release has one chunk; a RAR release has one per     *)
(* volume, and the volume headers between them belong to no chunk.         *)
(***************************************************************************)
EXTENDS Integers, Sequences, FiniteSets, FiniteSetsExt

CONSTANTS
  Segments,    \* sequence of SegmentRef: [offset, bytes, decoded]
  Chunks       \* sequence of DataChunk: [video, length, assembled]

(* `bytes' is the length the NZB declares for a segment and `decoded' the  *)
(* length of the payload its article really holds.                         *)
SegmentIdx == DOMAIN Segments
SegmentEnd(i) == Segments[i].offset + Segments[i].bytes

\* The bytes of the assembled stream a segment is declared to hold, and those
\* that a fetch of it writes: a longer payload is cut, a shorter is not padded.
SegmentBytes(i) == Segments[i].offset .. SegmentEnd(i) - 1
Payload(i) ==
  Segments[i].offset .. Segments[i].offset + Min({Segments[i].decoded, Segments[i].bytes}) - 1

AssembledSize == SegmentEnd(Len(Segments))
AssembledBytes == 0 .. AssembledSize - 1

\* total_size of the ActiveStream: the length of the video.
TotalSize == Chunks[Len(Chunks)].video + Chunks[Len(Chunks)].length

\* What build_segment_refs and build_rar_layout produce for a consistent
\* release: segments without gap or overlap, chunks that follow one another in
\* the video and in the assembled stream, all inside the assembled stream.
ASSUME LayoutAssumption ==
  /\ Segments \in Seq([offset : Nat, bytes : Nat \ {0}, decoded : Nat \ {0}])
  /\ Len(Segments) > 0
  /\ Segments[1].offset = 0
  /\ \A i \in 1 .. Len(Segments) - 1 : Segments[i + 1].offset = SegmentEnd(i)
  /\ Chunks \in Seq([video : Nat, length : Nat \ {0}, assembled : Nat])
  /\ Len(Chunks) > 0
  /\ Chunks[1].video = 0
  /\ \A k \in 1 .. Len(Chunks) - 1 :
       /\ Chunks[k + 1].video = Chunks[k].video + Chunks[k].length
       /\ Chunks[k + 1].assembled >= Chunks[k].assembled + Chunks[k].length
  /\ \A k \in DOMAIN Chunks : Chunks[k].assembled + Chunks[k].length <= AssembledSize

\* A segment is part of one file and a file has one chunk: a segment that
\* starts before the end of a chunk ends before the next chunk starts.
ASSUME OneChunkPerSegment ==
  \A k \in 1 .. Len(Chunks) - 1 : \A i \in SegmentIdx :
    Segments[i].offset < Chunks[k].assembled + Chunks[k].length =>
      SegmentEnd(i) <= Chunks[k + 1].assembled

-----------------------------------------------------------------------------

NoChunk == 0
NoSegment == 0

\* The first chunk that holds a video byte.
ChunkOf(v) ==
  LET holding == {k \in DOMAIN Chunks :
                    Chunks[k].video <= v /\ v < Chunks[k].video + Chunks[k].length}
  IN  IF holding = {} THEN NoChunk ELSE Min(holding)

\* How many video bytes follow contiguously from v; 0 past the last chunk.
ChunkRemaining(v) ==
  IF ChunkOf(v) = NoChunk THEN 0
  ELSE Chunks[ChunkOf(v)].video + Chunks[ChunkOf(v)].length - v

VideoToAssembled(v) == Chunks[ChunkOf(v)].assembled + (v - Chunks[ChunkOf(v)].video)

\* find_segment_for_byte: binary search for the last segment that starts at or
\* before b, which is the one that holds b or none does.
FindSegment(b) ==
  LET before == {i \in SegmentIdx : Segments[i].offset <= b}
  IN  IF before = {} \/ b >= SegmentEnd(Max(before)) THEN NoSegment ELSE Max(before)

\* Slip: the end of the inclusive range is taken for an exclusive one.
SegmentIndicesBeyond(first, last) ==
  UNION {LET from == Max({first, Chunks[k].video})
             upto == Min({last, Chunks[k].video + Chunks[k].length - 1})
             lo   == FindSegment(VideoToAssembled(from))
             hi   == FindSegment(VideoToAssembled(upto))
         IN  IF from > upto \/ lo = NoSegment \/ hi = NoSegment THEN {} ELSE lo .. hi + 1 :
         k \in DOMAIN Chunks}

\* segment_indices_in_range: for every chunk the video range touches, the
\* segments from the one that holds its first byte to the one that holds its
\* last; a chunk one of whose ends lies in no segment contributes none.
SegmentIndicesInRange(first, last) ==
  UNION {LET from == Max({first, Chunks[k].video})
             upto == Min({last, Chunks[k].video + Chunks[k].length - 1})
             lo   == FindSegment(VideoToAssembled(from))
             hi   == FindSegment(VideoToAssembled(upto))
         IN  IF from > upto \/ lo = NoSegment \/ hi = NoSegment THEN {} ELSE lo .. hi :
         k \in DOMAIN Chunks}
=============================================================================
