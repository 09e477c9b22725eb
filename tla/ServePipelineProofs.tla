------------------------ MODULE ServePipelineProofs ------------------------
(***************************************************************************)
(* What holds of the streams of a session for every layout, every set of   *)
(* requests and ranges, any read-ahead and any eviction policy:            *)
(*   - lemmas about the layout: segments, chunks, the search;              *)
(*   - type correctness;                                                   *)
(*   - what overlapping requests may do to the bytes that are served;      *)
(*   - what is delivered: the pipeline implements RangeDelivery;           *)
(*   - what a client that keeps one request open at a time can rely on;    *)
(*   - how much of the disk the first request of a session takes.          *)
(***************************************************************************)
EXTENDS ServePipeline, FiniteLemmas, SequenceTheorems, FiniteSetTheorems

-----------------------------------------------------------------------------
(* The layout: segments and chunks of the assembled stream.                *)

\* A segment starts at a natural and declares at least one byte.
LEMMA SegmentFields ==
  /\ Len(Segments) \in Nat \ {0}
  /\ SegmentIdx = 1 .. Len(Segments)
  /\ \A i \in SegmentIdx :
       /\ Segments[i].offset \in Nat
       /\ Segments[i].bytes \in Nat \ {0}
       /\ Segments[i].decoded \in Nat \ {0}
       /\ SegmentEnd(i) \in Nat
       /\ Segments[i].offset < SegmentEnd(i)
<1> DEFINE Ref == [offset : Nat, bytes : Nat \ {0}, decoded : Nat \ {0}]
<1>1. Segments \in Seq(Ref) /\ Len(Segments) > 0
  BY LayoutAssumption DEF LayoutAssumption
<1>2. Len(Segments) \in Nat \ {0} /\ SegmentIdx = 1 .. Len(Segments)
  <2> HIDE DEF Ref
  <2> QED BY <1>1 DEF SegmentIdx
<1>3. ASSUME NEW i \in SegmentIdx PROVE Segments[i] \in Ref
  <2> HIDE DEF Ref
  <2> QED BY <1>1, <1>2
<1>4. QED
  BY <1>2, <1>3 DEF SegmentEnd

\* Contiguity orders all segments, not only neighbours.
LEMMA SegmentsOrdered ==
  ASSUME NEW i \in SegmentIdx, NEW j \in SegmentIdx, i < j
  PROVE  SegmentEnd(i) <= Segments[j].offset
<1> DEFINE Bad == {k \in SegmentIdx : i < k /\ ~ (SegmentEnd(i) <= Segments[k].offset)}
<1>1. Bad \subseteq Nat
  BY SegmentFields
<1>2. SUFFICES ASSUME Bad # {} PROVE FALSE
  BY <1>2
<1>3. /\ Min(Bad) \in Bad
      /\ \A k \in Bad : Min(Bad) <= k
  <2> HIDE DEF Bad
  <2> QED BY <1>1, <1>2, MinExists
<1>4. PICK m \in SegmentIdx : /\ i < m
                              /\ ~ (SegmentEnd(i) <= Segments[m].offset)
                              /\ \A k \in Bad : m <= k
  BY <1>3
<1>5. m - 1 \in SegmentIdx /\ i <= m - 1 /\ m - 1 \in 1 .. Len(Segments) - 1
  BY <1>4, SegmentFields
<1>6. SegmentEnd(i) <= SegmentEnd(m - 1)
  <2>1. CASE i = m - 1
    BY <2>1, SegmentFields, <1>5
  <2>2. CASE i < m - 1
    <3>1. m - 1 \notin Bad
      BY <1>4, <1>5, SegmentFields
    <3>2. SegmentEnd(i) <= Segments[m - 1].offset
      BY <2>2, <3>1, <1>5
    <3>3. QED
      BY <3>2, <1>5, SegmentFields
  <2>3. QED
    BY <2>1, <2>2, <1>5, SegmentFields
<1>7. Segments[(m - 1) + 1].offset = SegmentEnd(m - 1)
  BY <1>5, LayoutAssumption DEF LayoutAssumption
<1>8. (m - 1) + 1 = m
  BY <1>4, SegmentFields
<1>9. QED
  BY <1>4, <1>6, <1>7, <1>8

\* Every segment lies inside the cache file.
LEMMA SegmentWithin ==
  ASSUME NEW i \in SegmentIdx
  PROVE  /\ SegmentEnd(i) <= AssembledSize
         /\ AssembledSize \in Nat
         /\ SegmentBytes(i) \subseteq AssembledBytes
<1>1. Len(Segments) \in SegmentIdx /\ AssembledSize \in Nat
  BY SegmentFields DEF AssembledSize
<1>2. SegmentEnd(i) <= AssembledSize
  <2>1. CASE i = Len(Segments)
    BY <2>1, <1>1 DEF AssembledSize
  <2>2. CASE i < Len(Segments)
    <3>1. SegmentEnd(i) <= Segments[Len(Segments)].offset
      BY <2>2, <1>1, SegmentsOrdered
    <3>2. QED
      BY <3>1, <1>1, SegmentFields DEF AssembledSize
  <2>3. QED
    BY <2>1, <2>2, SegmentFields
<1>3. QED
  BY <1>1, <1>2, SegmentFields DEF SegmentBytes, AssembledBytes

\* What an article writes stays inside its segment.
LEMMA PayloadInSegment ==
  ASSUME NEW i \in SegmentIdx
  PROVE  Payload(i) \subseteq SegmentBytes(i)
<1>1. Min({Segments[i].decoded, Segments[i].bytes}) \in Nat
      /\ Min({Segments[i].decoded, Segments[i].bytes}) <= Segments[i].bytes
  <2>1. /\ Segments[i].decoded \in Nat /\ Segments[i].decoded \in Int
        /\ Segments[i].bytes \in Nat /\ Segments[i].bytes \in Int
    BY SegmentFields
  <2>2. /\ Min({Segments[i].decoded, Segments[i].bytes})
             \in {Segments[i].decoded, Segments[i].bytes}
        /\ Min({Segments[i].decoded, Segments[i].bytes}) <= Segments[i].bytes
    BY <2>1, PairBounds
  <2>3. QED
    BY <2>1, <2>2
<1>2. QED
  BY <1>1, SegmentFields DEF Payload, SegmentBytes, SegmentEnd

\* No byte belongs to two segments.
LEMMA SegmentsDisjoint ==
  ASSUME NEW i \in SegmentIdx, NEW j \in SegmentIdx, NEW b,
         b \in SegmentBytes(i), b \in SegmentBytes(j)
  PROVE  i = j
<1>1. /\ b \in Int
      /\ Segments[i].offset <= b /\ b < SegmentEnd(i)
      /\ Segments[j].offset <= b /\ b < SegmentEnd(j)
  BY SegmentFields DEF SegmentBytes
<1>2. ~ (i < j)
  BY <1>1, SegmentFields, SegmentsOrdered
<1>3. ~ (j < i)
  BY <1>1, SegmentFields, SegmentsOrdered
<1>4. QED
  BY <1>2, <1>3, SegmentFields

\* The binary search returns the index of a segment or none.
LEMMA FindSegmentType ==
  ASSUME NEW b
  PROVE  /\ FindSegment(b) \in SegmentIdx \cup {NoSegment}
         /\ FindSegment(b) # NoSegment =>
              Segments[FindSegment(b)].offset <= b /\ ~ (b >= SegmentEnd(FindSegment(b)))
<1> DEFINE before == {i \in SegmentIdx : Segments[i].offset <= b}
<1>1. CASE before = {}
  BY <1>1 DEF FindSegment
<1>2. CASE before # {}
  <2>1. before \subseteq 0 .. Len(Segments)
    BY SegmentFields
  <2>2. Max(before) \in before
    <3> HIDE DEF before
    <3> QED BY <1>2, <2>1, SegmentFields, MaxExists
  <2>3. Max(before) \in SegmentIdx /\ Segments[Max(before)].offset <= b
    BY <2>2
  <2>4. FindSegment(b) = IF b >= SegmentEnd(Max(before)) THEN NoSegment ELSE Max(before)
    BY <1>2 DEF FindSegment
  <2>5. QED
    BY <2>3, <2>4 DEF NoSegment
<1>3. QED
  BY <1>1, <1>2

\* The segment it returns holds the byte.
LEMMA FindSegmentSound ==
  ASSUME NEW b \in Int, FindSegment(b) # NoSegment
  PROVE  /\ FindSegment(b) \in SegmentIdx
         /\ b \in SegmentBytes(FindSegment(b))
<1>1. /\ FindSegment(b) \in SegmentIdx
      /\ Segments[FindSegment(b)].offset <= b
      /\ ~ (b >= SegmentEnd(FindSegment(b)))
  BY FindSegmentType
<1>2. QED
  BY <1>1, SegmentFields DEF SegmentBytes

\* And it finds it wherever the byte lies.
LEMMA FindSegmentComplete ==
  ASSUME NEW i \in SegmentIdx, NEW b \in SegmentBytes(i)
  PROVE  FindSegment(b) = i
<1> DEFINE before == {j \in SegmentIdx : Segments[j].offset <= b}
<1>1. b \in Int /\ Segments[i].offset <= b /\ b < SegmentEnd(i)
  BY SegmentFields DEF SegmentBytes
<1>2. i \in before
  BY <1>1
<1>3. \A j \in before : j <= i
  <2>1. TAKE j \in before
  <2>2. ~ (i < j)
    BY <1>1, SegmentFields, SegmentsOrdered
  <2>3. QED
    BY <2>2, SegmentFields
<1>4. Max(before) = i
  <2>1. before \subseteq 0 .. Len(Segments)
    BY SegmentFields
  <2>2. Max(before) \in before /\ i <= Max(before)
    <3> HIDE DEF before
    <3> QED BY <1>2, <2>1, SegmentFields, MaxExists
  <2>3. Max(before) <= i
    BY <1>3, <2>2
  <2>4. QED
    BY <2>1, <2>2, <2>3, SegmentFields
<1>5. QED
  BY <1>1, <1>2, <1>4, SegmentFields DEF FindSegment

-----------------------------------------------------------------------------

\* A chunk maps video bytes to bytes of the cache file.
LEMMA ChunkFields ==
  /\ Len(Chunks) \in Nat \ {0}
  /\ DOMAIN Chunks = 1 .. Len(Chunks)
  /\ \A k \in DOMAIN Chunks :
       /\ Chunks[k].video \in Nat
       /\ Chunks[k].length \in Nat \ {0}
       /\ Chunks[k].assembled \in Nat
<1> DEFINE Ref == [video : Nat, length : Nat \ {0}, assembled : Nat]
<1>1. Chunks \in Seq(Ref) /\ Len(Chunks) > 0
  BY LayoutAssumption DEF LayoutAssumption
<1>2. Len(Chunks) \in Nat \ {0} /\ DOMAIN Chunks = 1 .. Len(Chunks)
  <2> HIDE DEF Ref
  <2> QED BY <1>1
<1>3. ASSUME NEW k \in DOMAIN Chunks PROVE Chunks[k] \in Ref
  <2> HIDE DEF Ref
  <2> QED BY <1>1, <1>2
<1>4. QED
  BY <1>2, <1>3

\* The chunk of a video byte holds it.
LEMMA ChunkOfSound ==
  ASSUME NEW v
  PROVE  ChunkOf(v) # NoChunk =>
           /\ ChunkOf(v) \in DOMAIN Chunks
           /\ Chunks[ChunkOf(v)].video <= v
           /\ v < Chunks[ChunkOf(v)].video + Chunks[ChunkOf(v)].length
<1> DEFINE holding == {k \in DOMAIN Chunks :
                         Chunks[k].video <= v /\ v < Chunks[k].video + Chunks[k].length}
<1>1. CASE holding = {}
  BY <1>1 DEF ChunkOf
<1>2. CASE holding # {}
  <2>1. holding \subseteq Nat
    BY ChunkFields
  <2>2. Min(holding) \in holding
    <3> HIDE DEF holding
    <3> QED BY <1>2, <2>1, MinExists
  <2>3. ChunkOf(v) = Min(holding)
    BY <1>2 DEF ChunkOf
  <2>4. QED
    BY <2>2, <2>3
<1>3. QED
  BY <1>1, <1>2

\* Where video bytes remain, the byte lies in a chunk and has a place in the
\* assembled stream.
LEMMA RemainingIsMapped ==
  ASSUME NEW v \in Nat, ChunkRemaining(v) # 0
  PROVE  /\ ChunkOf(v) # NoChunk
         /\ VideoToAssembled(v) \in Nat
         /\ ChunkRemaining(v) \in Nat \ {0}
<1>1. ChunkOf(v) # NoChunk
  BY DEF ChunkRemaining
<1>2. QED
  BY <1>1, ChunkOfSound, ChunkFields DEF ChunkRemaining, VideoToAssembled

\* A prefetcher is given indices of segments only.
LEMMA IndicesAreSegments ==
  ASSUME NEW first, NEW last
  PROVE  SegmentIndicesInRange(first, last) \subseteq SegmentIdx
<1> SUFFICES ASSUME NEW i, i \in SegmentIndicesInRange(first, last)
             PROVE  i \in SegmentIdx
  OBVIOUS
<1>1. \E lo, hi \in SegmentIdx : i \in lo .. hi
  <2>1. PICK k \in DOMAIN Chunks :
          LET lo == FindSegment(VideoToAssembled(Max({first, Chunks[k].video})))
              hi == FindSegment(VideoToAssembled(
                      Min({last, Chunks[k].video + Chunks[k].length - 1})))
          IN  lo # NoSegment /\ hi # NoSegment /\ i \in lo .. hi
    BY DEF SegmentIndicesInRange
  <2>2. QED
    BY <2>1, FindSegmentType
<1>2. QED
  BY <1>1, SegmentFields

-----------------------------------------------------------------------------
(* Type correctness.                                                       *)

(* That what is sent are bytes of the file depends on where a stream       *)
(* stands: an open one is in a chunk and not past its range, and one that  *)
(* fills or reads does so in a segment that holds its next byte.           *)

PositionsOK ==
  \A r \in Requests : pc[r] \notin Ended \cup {"idle"} =>
    /\ asked[r] \in Ranges
    /\ ChunkOf(cursor[r]) # NoChunk
    /\ cursor[r] <= asked[r][2]

SegmentsFound ==
  \A r \in Requests : pc[r] \in {"fill", "read"} => FindSegment(aPos[r]) # NoSegment

TypeInv == TypeOK /\ PositionsOK /\ SegmentsFound

\* A range asked for is a pair of naturals in order.
LEMMA RangeFields ==
  ASSUME NEW range \in Ranges
  PROVE  range[1] \in Nat /\ range[2] \in Nat /\ range[1] <= range[2]
BY PipelineAssumption DEF PipelineAssumption

\* Where an open stream's chunk ends.
LEMMA WalkTypes ==
  ASSUME TypeInv, NEW r \in Requests, pc[r] \notin Ended \cup {"idle"}
  PROVE  /\ VideoChunkEnd(r) \in Nat /\ VideoChunkEnd(r) <= asked[r][2]
         /\ AssembledChunkEnd(r) \in Nat
<1>1. /\ cursor[r] \in Nat /\ asked[r][2] \in Nat /\ cursor[r] <= asked[r][2]
      /\ ChunkOf(cursor[r]) # NoChunk
  BY RangeFields DEF TypeInv, TypeOK, PositionsOK
<1>2. /\ ChunkRemaining(cursor[r]) \in Nat \ {0}
      /\ VideoToAssembled(cursor[r]) \in Nat
  BY <1>1, ChunkOfSound, ChunkFields DEF ChunkRemaining, VideoToAssembled
<1>3. /\ VideoChunkEnd(r) \in {cursor[r] + ChunkRemaining(cursor[r]) - 1, asked[r][2]}
      /\ VideoChunkEnd(r) <= asked[r][2]
  <2>1. cursor[r] + ChunkRemaining(cursor[r]) - 1 \in Int /\ asked[r][2] \in Int
    BY <1>1, <1>2
  <2>2. QED
    BY <2>1, PairBounds DEF VideoChunkEnd
<1>4. VideoChunkEnd(r) \in Nat /\ VideoChunkEnd(r) >= cursor[r]
  BY <1>1, <1>2, <1>3
<1>5. QED
  BY <1>1, <1>2, <1>3, <1>4 DEF AssembledChunkEnd

\* What a stream reads next lies in its segment.
LEMMA ReadTypes ==
  ASSUME TypeInv, NEW r \in Requests, pc[r] = "read"
  PROVE  /\ FindSegment(aPos[r]) \in SegmentIdx
         /\ aPos[r] \in SegmentBytes(FindSegment(aPos[r]))
         /\ ReadEnd(r) \in Nat
         /\ ReadEnd(r) < SegmentEnd(FindSegment(aPos[r]))
<1>1. /\ FindSegment(aPos[r]) \in SegmentIdx
      /\ aPos[r] \in SegmentBytes(FindSegment(aPos[r]))
  BY FindSegmentSound DEF TypeInv, TypeOK, SegmentsFound
<1>2. SegmentEnd(FindSegment(aPos[r])) - 1 \in Nat
  BY <1>1, SegmentFields
<1>3. AssembledChunkEnd(r) \in Nat
  BY WalkTypes DEF Ended
<1>4. /\ ReadEnd(r) \in {SegmentEnd(FindSegment(aPos[r])) - 1, AssembledChunkEnd(r)}
      /\ ReadEnd(r) <= SegmentEnd(FindSegment(aPos[r])) - 1
  <2>1. SegmentEnd(FindSegment(aPos[r])) - 1 \in Int /\ AssembledChunkEnd(r) \in Int
    BY <1>2, <1>3
  <2>2. QED
    BY <2>1, PairBounds DEF ReadEnd
<1>5. QED
  BY <1>1, <1>2, <1>3, <1>4, SegmentFields

\* The bytes of one read are bytes of the segment, and unless the read ends
\* where the segment's part of the range does, so is the byte after them.
LEMMA ChunkTypes ==
  ASSUME TypeInv, NEW r \in Requests, pc[r] = "read",
         NEW upto, upto = Min({aPos[r] + ChunkSize - 1, ReadEnd(r)})
  PROVE  /\ upto \in Nat
         /\ aPos[r] .. upto \subseteq SegmentBytes(FindSegment(aPos[r]))
         /\ upto # ReadEnd(r) => upto + 1 \in SegmentBytes(FindSegment(aPos[r]))
<1>1. /\ FindSegment(aPos[r]) \in SegmentIdx
      /\ aPos[r] \in SegmentBytes(FindSegment(aPos[r]))
      /\ ReadEnd(r) \in Nat
      /\ ReadEnd(r) < SegmentEnd(FindSegment(aPos[r]))
  BY ReadTypes
<1>2. ChunkSize \in Nat \ {0} /\ aPos[r] \in Nat
  BY PipelineAssumption DEF PipelineAssumption, TypeInv, TypeOK
<1>3. /\ upto \in {aPos[r] + ChunkSize - 1, ReadEnd(r)}
      /\ upto <= ReadEnd(r)
  <2>1. aPos[r] + ChunkSize - 1 \in Int /\ ReadEnd(r) \in Int
    BY <1>1, <1>2
  <2>2. QED
    BY <2>1, PairBounds
<1>4. upto \in Nat
  BY <1>1, <1>2, <1>3
<1>5. /\ Segments[FindSegment(aPos[r])].offset \in Nat
      /\ SegmentEnd(FindSegment(aPos[r])) \in Nat
      /\ Segments[FindSegment(aPos[r])].offset <= aPos[r]
  BY <1>1, <1>2, SegmentFields DEF SegmentBytes
<1>6. aPos[r] .. upto \subseteq SegmentBytes(FindSegment(aPos[r]))
  BY <1>1, <1>2, <1>3, <1>4, <1>5 DEF SegmentBytes
<1>7. upto # ReadEnd(r) => upto + 1 \in SegmentBytes(FindSegment(aPos[r]))
  BY <1>1, <1>2, <1>3, <1>4, <1>5 DEF SegmentBytes
<1>8. QED
  BY <1>4, <1>6, <1>7

\* The window of an eviction starts at or behind the header pin.
LEMMA WindowTypes ==
  ASSUME TypeOK, NEW playhead \in Nat
  PROVE  /\ EvictWindow(playhead, HeaderPin, Backbuffer) \in Nat \X Nat
         /\ EvictWindow(playhead, HeaderPin, Backbuffer)[1] >= HeaderPin
<1>1. HeaderPin \in Nat /\ Backbuffer \in Nat /\ watermark \in Nat
  BY PipelineAssumption DEF PipelineAssumption, TypeOK
<1>2. Max({watermark, HeaderPin}) \in Nat /\ Max({watermark, HeaderPin}) >= HeaderPin
  <2>1. Max({watermark, HeaderPin}) \in {watermark, HeaderPin}
        /\ Max({watermark, HeaderPin}) >= HeaderPin
    BY <1>1, PairBounds
  <2>2. QED
    BY <1>1, <2>1
<1>3. Max({playhead - Backbuffer, 0, HeaderPin}) \in Nat
  <2> DEFINE floor == playhead - Backbuffer
  <2>1. floor \in Int
    BY <1>1
  <2> HIDE DEF floor
  <2>2. Max({floor, 0, HeaderPin}) \in {floor, 0, HeaderPin}
        /\ Max({floor, 0, HeaderPin}) >= 0
    BY <1>1, <2>1 DEF Max
  <2>3. Max({floor, 0, HeaderPin}) \in Nat
    BY <1>1, <2>1, <2>2
  <2>4. QED
    BY <2>3 DEF floor
<1>4. QED
  BY <1>2, <1>3 DEF EvictWindow

\* The steps at which a stream ends or moves on keep its locals typed.
LEMMA EndStreamTyped ==
  ASSUME TypeInv, NEW r \in Requests, NEW how \in Ended, EndStream(r, how)
  PROVE  /\ pc' \in [Requests -> Place] /\ cursor' \in [Requests -> Nat]
         /\ aPos' \in [Requests -> Nat] /\ window' \in [Requests -> Nat \X Nat]
         /\ todo' \in [Requests -> SUBSET SegmentIdx]
         /\ asked' = asked => PositionsOK' /\ SegmentsFound'
<1>1. how \in Place /\ NoWindow \in Nat \X Nat
  BY DEF Place, NoWindow
<1>2. /\ pc' \in [Requests -> Place] /\ cursor' \in [Requests -> Nat]
      /\ aPos' \in [Requests -> Nat] /\ window' \in [Requests -> Nat \X Nat]
      /\ todo' \in [Requests -> SUBSET SegmentIdx]
  BY <1>1 DEF TypeInv, TypeOK, EndStream
<1>3. ASSUME NEW q \in Requests
      PROVE  \/ q = r /\ pc'[q] \in Ended
             \/ /\ pc'[q] = pc[q] /\ cursor'[q] = cursor[q] /\ aPos'[q] = aPos[q]
  BY DEF TypeInv, TypeOK, EndStream
<1>4. asked' = asked => PositionsOK'
  BY <1>3 DEF TypeInv, PositionsOK
<1>5. SegmentsFound'
  BY <1>3 DEF TypeInv, SegmentsFound, Ended
<1>6. QED
  BY <1>2, <1>4, <1>5

\* So does entering a chunk,
LEMMA EnterChunkTyped ==
  ASSUME TypeInv, NEW r \in Requests, NEW v \in Nat, ChunkRemaining(v) # 0,
         EnterChunk(r, v), asked'[r] \in Ranges, v <= asked'[r][2],
         \A q \in Requests \ {r} : asked'[q] = asked[q]
  PROVE  /\ pc' \in [Requests -> Place] /\ cursor' \in [Requests -> Nat]
         /\ aPos' \in [Requests -> Nat] /\ window' \in [Requests -> Nat \X Nat]
         /\ PositionsOK' /\ SegmentsFound'
<1>1. NoWindow \in Nat \X Nat /\ VideoToAssembled(v) \in Nat /\ ChunkOf(v) # NoChunk
  BY RemainingIsMapped DEF NoWindow
<1>2. /\ pc' \in [Requests -> Place] /\ cursor' \in [Requests -> Nat]
      /\ aPos' \in [Requests -> Nat] /\ window' \in [Requests -> Nat \X Nat]
  BY <1>1 DEF TypeInv, TypeOK, EnterChunk, Place
<1>3. ASSUME NEW q \in Requests
      PROVE  \/ q = r /\ pc'[q] = "locate" /\ cursor'[q] = v
             \/ /\ q # r /\ pc'[q] = pc[q] /\ cursor'[q] = cursor[q] /\ aPos'[q] = aPos[q]
  BY DEF TypeInv, TypeOK, EnterChunk
<1>4. PositionsOK'
  BY <1>1, <1>3 DEF TypeInv, PositionsOK
<1>5. SegmentsFound'
  BY <1>3 DEF TypeInv, SegmentsFound
<1>6. QED
  BY <1>2, <1>4, <1>5

\* and so does whatever follows a segment: the next one, the next chunk, the end.
LEMMA NextSegmentTyped ==
  ASSUME TypeInv, NEW r \in Requests, pc[r] \notin Ended \cup {"idle"},
         NextSegment(r), asked' = asked
  PROVE  /\ pc' \in [Requests -> Place] /\ cursor' \in [Requests -> Nat]
         /\ aPos' \in [Requests -> Nat] /\ window' \in [Requests -> Nat \X Nat]
         /\ todo' \in [Requests -> SUBSET SegmentIdx]
         /\ PositionsOK' /\ SegmentsFound'
<1> DEFINE next == VideoChunkEnd(r) + 1
<1>1. next \in Nat
  BY WalkTypes
<1>2. CASE aPos[r] <= AssembledChunkEnd(r)
  <2>1. /\ pc' = [pc EXCEPT ![r] = "locate"]
        /\ window' = [window EXCEPT ![r] = NoWindow]
        /\ UNCHANGED <<todo, cursor, aPos>>
    BY <1>2 DEF NextSegment
  <2>2. NoWindow \in Nat \X Nat
    BY DEF NoWindow
  <2>3. /\ pc' \in [Requests -> Place] /\ window' \in [Requests -> Nat \X Nat]
        /\ cursor' \in [Requests -> Nat] /\ aPos' \in [Requests -> Nat]
        /\ todo' \in [Requests -> SUBSET SegmentIdx]
    BY <2>1, <2>2 DEF TypeInv, TypeOK, Place
  <2>4. ASSUME NEW q \in Requests
        PROVE  (q = r /\ pc'[q] = "locate") \/ pc'[q] = pc[q]
    BY <2>1 DEF TypeInv, TypeOK
  <2>5. PositionsOK' /\ SegmentsFound'
    BY <2>1, <2>4 DEF TypeInv, PositionsOK, SegmentsFound
  <2>6. QED
    BY <2>3, <2>5
<1>3. CASE /\ ~ (aPos[r] <= AssembledChunkEnd(r))
           /\ next > asked[r][2] \/ ChunkRemaining(next) = 0
  <2>1. EndStream(r, "done") \/ EndStream(r, "failed")
    BY <1>3 DEF NextSegment
  <2>2. "done" \in Ended /\ "failed" \in Ended
    BY DEF Ended
  <2>3. QED
    BY <2>1, <2>2, EndStreamTyped
<1>4. CASE /\ ~ (aPos[r] <= AssembledChunkEnd(r))
           /\ ~ (next > asked[r][2]) /\ ChunkRemaining(next) # 0
  <2>1. EnterChunk(r, next) /\ UNCHANGED todo
    BY <1>4 DEF NextSegment
  <2>2. asked'[r] \in Ranges /\ next <= asked'[r][2]
    BY <1>1, <1>4, RangeFields DEF TypeInv, PositionsOK
  <2>3. QED
    <3> HIDE DEF next
    <3> QED BY <1>1, <1>4, <2>1, <2>2, EnterChunkTyped DEF TypeInv, TypeOK
<1>5. QED
  BY <1>2, <1>3, <1>4

\* The invariant holds before the first request.
LEMMA TypeInit == Init => TypeInv
<1> SUFFICES ASSUME Init PROVE TypeInv
  OBVIOUS
<1>1. NoWindow \in Nat \X Nat /\ "idle" \in Place
  BY DEF NoWindow, Place
<1>2. [r \in Requests |-> <<>>] \in [Requests -> Seq(AssembledBytes)]
  OBVIOUS
<1>3. TypeOK
  BY <1>1, <1>2 DEF Init, CacheInit, TypeOK
<1>4. PositionsOK /\ SegmentsFound
  BY DEF Init, PositionsOK, SegmentsFound
<1>5. QED
  BY <1>3, <1>4 DEF TypeInv

\* The steps of the cache file, whoever takes them.
CacheTyped ==
  /\ data \subseteq AssembledBytes /\ populated \subseteq AssembledBytes
  /\ watermark \in Nat /\ punched \subseteq Nat

\* The steps on the cache file keep its state typed.
LEMMA CacheSteps ==
  ASSUME TypeOK, NEW bytes \in SUBSET AssembledBytes, NEW from \in Nat, NEW to \in Nat
  PROVE  /\ WriteFile(bytes) => CacheTyped'
         /\ MarkPopulated(bytes) => CacheTyped'
         /\ PunchHole(from, to) => CacheTyped'
         /\ ForgetRange(from, to) => CacheTyped'
         /\ StoreWatermark(to) => CacheTyped'
         /\ UNCHANGED cacheVars => CacheTyped'
<1>1. from .. to - 1 \subseteq Nat
  OBVIOUS
<1>2. QED
  BY <1>1 DEF TypeOK, CacheTyped, WriteFile, MarkPopulated, PunchHole, ForgetRange, StoreWatermark,
              cacheVars

\* Every step keeps the type invariant, one case for each action.
LEMMA TypeStep == TypeInv /\ [Next]_vars => TypeInv'
<1> SUFFICES ASSUME TypeInv, [Next]_vars PROVE TypeInv'
  OBVIOUS
<1>1. ASSUME NEW r \in Requests, NEW range \in Ranges, OpenRequest(r, range)
      PROVE  TypeInv'
  <2>1. /\ asked' = [asked EXCEPT ![r] = range]
        /\ UNCHANGED <<cacheVars, fills, sent, holes>>
    BY <1>1 DEF OpenRequest
  <2>2. asked' \in [Requests -> Ranges \cup {NoRange}]
    BY <2>1 DEF TypeInv, TypeOK
  <2>3. CASE ChunkRemaining(range[1]) = 0
    <3>1. EndStream(r, "failed") /\ "failed" \in Ended
      BY <1>1, <2>3 DEF OpenRequest, Ended
    <3>2. /\ pc' \in [Requests -> Place] /\ cursor' \in [Requests -> Nat]
          /\ aPos' \in [Requests -> Nat] /\ window' \in [Requests -> Nat \X Nat]
          /\ todo' \in [Requests -> SUBSET SegmentIdx]
      BY <3>1, EndStreamTyped
    <3>3. TypeOK'
      BY <2>1, <2>2, <3>2 DEF TypeInv, TypeOK, cacheVars
    <3>4. ASSUME NEW q \in Requests
          PROVE  \/ q = r /\ pc'[q] \in Ended
                 \/ /\ pc'[q] = pc[q] /\ cursor'[q] = cursor[q] /\ aPos'[q] = aPos[q]
                    /\ asked'[q] = asked[q]
      BY <2>1, <3>1 DEF EndStream, TypeInv, TypeOK
    <3>5. PositionsOK' /\ SegmentsFound'
      BY <3>4 DEF TypeInv, PositionsOK, SegmentsFound, Ended
    <3>6. QED
      BY <3>3, <3>5 DEF TypeInv
  <2>4. CASE ChunkRemaining(range[1]) # 0
    <3>1. /\ EnterChunk(r, range[1])
          /\ todo' = [todo EXCEPT ![r] =
               IF ReadAhead >= 2 THEN SegmentIndicesInRange(range[1], range[2]) ELSE {}]
      BY <1>1, <2>4 DEF OpenRequest
    <3>2. todo' \in [Requests -> SUBSET SegmentIdx]
      <4>1. SegmentIndicesInRange(range[1], range[2]) \subseteq SegmentIdx
        BY IndicesAreSegments
      <4>2. QED
        BY <3>1, <4>1 DEF TypeInv, TypeOK
    <3>3. /\ range[1] \in Nat /\ asked'[r] \in Ranges /\ range[1] <= asked'[r][2]
          /\ \A q \in Requests \ {r} : asked'[q] = asked[q]
      BY <2>1, RangeFields DEF TypeInv, TypeOK
    <3>4. /\ pc' \in [Requests -> Place] /\ cursor' \in [Requests -> Nat]
          /\ aPos' \in [Requests -> Nat] /\ window' \in [Requests -> Nat \X Nat]
          /\ PositionsOK' /\ SegmentsFound'
      BY <2>4, <3>1, <3>3, EnterChunkTyped
    <3>5. QED
      BY <2>1, <2>2, <3>2, <3>4 DEF TypeInv, TypeOK, cacheVars
  <2>5. QED
    BY <2>3, <2>4
<1>2. ASSUME NEW r \in Requests, Locate(r) PROVE TypeInv'
  <2> DEFINE seg == FindSegment(aPos[r])
  <2>1. pc[r] = "locate" /\ UNCHANGED <<cacheVars, asked, sent, holes>>
    BY <1>2 DEF Locate
  <2>2. CASE seg = NoSegment
    <3>1. EndStream(r, "failed") /\ UNCHANGED fills /\ "failed" \in Ended
      BY <1>2, <2>2 DEF Locate, Ended
    <3>2. QED
      BY <2>1, <3>1, EndStreamTyped DEF TypeInv, TypeOK, cacheVars
  <2>3. CASE seg # NoSegment
    <3>1. seg \in SegmentIdx
      BY <2>3, FindSegmentType
    <3>2. /\ pc' \in [Requests -> Place] /\ fills' \subseteq Fill
          /\ UNCHANGED <<walkVars, todo>>
      <4>1. [req |-> r, seg |-> seg, by |-> "stream", at |-> "fetching"] \in Fill
        BY <3>1 DEF Fill
      <4>2. /\ \E p \in {"read", "fill"} : pc' = [pc EXCEPT ![r] = p]
            /\ \/ fills' = fills
               \/ fills' = fills \cup
                    {[req |-> r, seg |-> seg, by |-> "stream", at |-> "fetching"]}
            /\ UNCHANGED <<walkVars, todo>>
        BY <1>2, <2>3 DEF Locate
      <4>3. QED
        BY <4>1, <4>2 DEF TypeInv, TypeOK, Place
    <3>3. ASSUME NEW q \in Requests PROVE q = r \/ pc'[q] = pc[q]
      BY <1>2, <2>3 DEF Locate, TypeInv, TypeOK
    <3>4. TypeOK'
      BY <2>1, <3>2 DEF TypeInv, TypeOK, cacheVars, walkVars
    <3>5. PositionsOK' /\ SegmentsFound'
      BY <2>1, <2>3, <3>2, <3>3 DEF TypeInv, PositionsOK, SegmentsFound, walkVars, Ended
    <3>6. QED
      BY <3>4, <3>5 DEF TypeInv
  <2>4. QED
    BY <2>2, <2>3
<1>3. ASSUME NEW r \in Requests, ReadChunk(r) PROVE TypeInv'
  <2> DEFINE upto == Min({aPos[r] + ChunkSize - 1, ReadEnd(r)})
  <2> DEFINE out == [i \in 1 .. upto - aPos[r] + 1 |-> aPos[r] + i - 1]
  <2>1. /\ pc[r] = "read"
        /\ sent' = [sent EXCEPT ![r] = @ \o out]
        /\ holes' = holes \cup ((aPos[r] .. upto) \ data)
        /\ aPos' = [aPos EXCEPT ![r] = upto + 1]
        /\ pc' = [pc EXCEPT ![r] = IF upto = ReadEnd(r) THEN "evict" ELSE "read"]
        /\ UNCHANGED <<cacheVars, asked, cursor, window, todo, fills>>
    BY <1>3 DEF ReadChunk
  <2>2. /\ upto \in Nat
        /\ aPos[r] .. upto \subseteq SegmentBytes(FindSegment(aPos[r]))
        /\ upto # ReadEnd(r) => upto + 1 \in SegmentBytes(FindSegment(aPos[r]))
    BY <2>1, ChunkTypes
  <2>3. FindSegment(aPos[r]) \in SegmentIdx
    BY <2>1, ReadTypes
  <2>4. aPos[r] .. upto \subseteq AssembledBytes
    BY <2>2, <2>3, SegmentWithin
  <2>5. aPos[r] \in Nat
    BY DEF TypeInv, TypeOK
  <2>6. out \in Seq(AssembledBytes)
    <3> DEFINE m == upto - aPos[r] + 1
    <3>1. out \in [1 .. m -> AssembledBytes]
      <4>1. \A i \in 1 .. m : aPos[r] + i - 1 \in aPos[r] .. upto
        BY <2>2, <2>5
      <4>2. QED
        BY <2>4, <4>1
    <3>2. PICK n \in Nat : 1 .. m = 1 .. n
      <4>1. m \in Nat \/ 1 .. m = 1 .. 0
        BY <2>2, <2>5
      <4>2. QED
        BY <4>1
    <3> HIDE DEF out, m
    <3>3. out \in [1 .. n -> AssembledBytes]
      BY <3>1, <3>2
    <3>4. QED
      BY <3>3, SeqDef
  <2>7. sent' \in [Requests -> Seq(AssembledBytes)]
    <3> HIDE DEF out
    <3> QED BY <2>1, <2>6 DEF TypeInv, TypeOK
  <2> HIDE DEF upto, out
  <2>8. TypeOK'
    BY <2>1, <2>2, <2>4, <2>7 DEF TypeInv, TypeOK, cacheVars, Place
  <2>9. PositionsOK'
    BY <2>1 DEF TypeInv, TypeOK, PositionsOK, Ended
  <2>10. SegmentsFound'
    <3>1. upto # ReadEnd(r) => FindSegment(upto + 1) = FindSegment(aPos[r])
      BY <2>2, <2>3, FindSegmentComplete
    <3>2. FindSegment(aPos[r]) # NoSegment
      BY <2>1 DEF TypeInv, SegmentsFound
    <3>3. ASSUME NEW q \in Requests, q # r PROVE pc'[q] = pc[q] /\ aPos'[q] = aPos[q]
      BY <2>1, <3>3 DEF TypeInv, TypeOK
    <3>4. /\ aPos'[r] = upto + 1
          /\ pc'[r] = IF upto = ReadEnd(r) THEN "evict" ELSE "read"
      BY <2>1 DEF TypeInv, TypeOK
    <3>5. QED
      BY <3>1, <3>2, <3>3, <3>4 DEF TypeInv, SegmentsFound
  <2>11. QED
    BY <2>8, <2>9, <2>10 DEF TypeInv
<1>4. ASSUME NEW r \in Requests, ReadFails(r) \/ Disconnect(r) PROVE TypeInv'
  <2>1. /\ EndStream(r, "failed") \/ EndStream(r, "closed")
        /\ UNCHANGED <<cacheVars, asked, fills, sent, holes>>
    BY <1>4 DEF ReadFails, Disconnect
  <2>2. "failed" \in Ended /\ "closed" \in Ended
    BY DEF Ended
  <2>3. QED
    BY <2>1, <2>2, EndStreamTyped DEF TypeInv, TypeOK, cacheVars
<1>5. ASSUME NEW r \in Requests, Prefetch(r) PROVE TypeInv'
  <2>1. /\ todo[r] # {}
        /\ todo' = [todo EXCEPT ![r] = @ \ {Min(todo[r])}]
        /\ \/ fills' = fills
           \/ fills' = fills \cup {[req |-> r, seg |-> Min(todo[r]), by |-> "prefetch",
                                   at |-> "fetching"]}
        /\ UNCHANGED <<cacheVars, pc, asked, walkVars, sent, holes>>
    BY <1>5 DEF Prefetch
  <2>2. Min(todo[r]) \in SegmentIdx
    <3>1. todo[r] \subseteq SegmentIdx /\ todo[r] \subseteq Nat
      BY SegmentFields DEF TypeInv, TypeOK
    <3>2. QED
      BY <2>1, <3>1, MinExists
  <2>3. TypeOK'
    BY <2>1, <2>2 DEF TypeInv, TypeOK, cacheVars, walkVars, Fill
  <2>4. QED
    BY <2>1, <2>3 DEF TypeInv, PositionsOK, SegmentsFound, walkVars
<1>6. ASSUME NEW r \in Requests, StartEvict(r) PROVE TypeInv'
  <2> DEFINE w == EvictWindow(aPos[r], HeaderPin, Backbuffer)
  <2>1. pc[r] = "evict" /\ UNCHANGED <<cacheVars, asked, fills, sent, holes>>
    BY <1>6 DEF StartEvict
  <2>2. w \in Nat \X Nat
    BY WindowTypes DEF TypeInv, TypeOK
  <2>3. CASE NextSegment(r)
    BY <2>1, <2>3, NextSegmentTyped DEF TypeInv, TypeOK, cacheVars, Ended
  <2>4. CASE /\ window' = [window EXCEPT ![r] = w]
             /\ pc' = [pc EXCEPT ![r] = "punch"]
             /\ UNCHANGED <<todo, cursor, aPos>>
    <3>1. TypeOK'
      BY <2>1, <2>2, <2>4 DEF TypeInv, TypeOK, cacheVars, Place
    <3>2. ASSUME NEW q \in Requests
          PROVE  (q = r /\ pc'[q] = "punch") \/ pc'[q] = pc[q]
      BY <2>4 DEF TypeInv, TypeOK
    <3>3. QED
      BY <2>1, <2>4, <3>1, <3>2 DEF TypeInv, PositionsOK, SegmentsFound, Ended
  <2>5. QED
    BY <1>6, <2>3, <2>4 DEF StartEvict
<1>7. ASSUME NEW r \in Requests, Punch(r) \/ Forget(r) PROVE TypeInv'
  <2>1. /\ PunchHole(window[r][1], window[r][2]) \/ ForgetRange(window[r][1], window[r][2])
        /\ pc[r] \in {"punch", "forget"}
        /\ \E p \in {"forget", "advance"} : pc' = [pc EXCEPT ![r] = p]
        /\ UNCHANGED <<asked, walkVars, todo, fills, sent, holes>>
    BY <1>7 DEF Punch, Forget
  <2>2. window[r][1] \in Nat /\ window[r][2] \in Nat
    BY DEF TypeInv, TypeOK
  <2>3. CacheTyped'
    BY <2>1, <2>2, CacheSteps DEF TypeInv
  <2>4. TypeOK'
    BY <2>1, <2>3 DEF TypeInv, TypeOK, CacheTyped, walkVars, Place
  <2>5. ASSUME NEW q \in Requests
        PROVE  (q = r /\ pc'[q] \in {"forget", "advance"}) \/ pc'[q] = pc[q]
    BY <2>1 DEF TypeInv, TypeOK
  <2>6. QED
    BY <2>1, <2>4, <2>5 DEF TypeInv, PositionsOK, SegmentsFound, walkVars, Ended
<1>8. ASSUME NEW r \in Requests, PunchFails(r) \/ Advance(r) PROVE TypeInv'
  <2>1. /\ UNCHANGED cacheVars \/ StoreWatermark(window[r][2])
        /\ pc[r] \in {"punch", "advance"} /\ NextSegment(r)
        /\ UNCHANGED <<asked, fills, sent, holes>>
    BY <1>8 DEF PunchFails, Advance
  <2>2. window[r][2] \in Nat
    BY DEF TypeInv, TypeOK
  <2>3. CacheTyped'
    BY <2>1, <2>2, CacheSteps DEF TypeInv
  <2>4. QED
    BY <2>1, <2>3, NextSegmentTyped DEF TypeInv, TypeOK, CacheTyped, Ended
<1>9. ASSUME NEW f \in fills, FillWrite(f) \/ FillInsert(f) PROVE TypeInv'
  <2>1. f \in Fill /\ f.req \in Requests /\ f.seg \in SegmentIdx
    BY DEF TypeInv, TypeOK, Fill
  <2>2. /\ WriteFile(Payload(f.seg)) \/ MarkPopulated(Payload(f.seg))
        /\ fills' \subseteq (fills \cup {[f EXCEPT !.at = "written"]})
        /\ pc' = pc \/ (f.by = "stream" /\ pc[f.req] = "fill"
                         /\ pc' = [pc EXCEPT ![f.req] = "read"])
        /\ UNCHANGED <<asked, walkVars, todo, sent, holes>>
    BY <1>9 DEF FillWrite, FillInsert
  <2>3. Payload(f.seg) \in SUBSET AssembledBytes
    BY <2>1, PayloadInSegment, SegmentWithin
  <2>4. CacheTyped'
    BY <2>2, <2>3, CacheSteps DEF TypeInv
  <2>5. fills' \subseteq Fill
    <3>1. [f EXCEPT !.at = "written"] \in Fill
      BY <2>1 DEF Fill
    <3>2. QED
      BY <2>2, <3>1 DEF TypeInv, TypeOK
  <2>6. pc' \in [Requests -> Place]
    BY <2>2 DEF TypeInv, TypeOK, Place
  <2>7. TypeOK'
    BY <2>2, <2>4, <2>5, <2>6 DEF TypeInv, TypeOK, CacheTyped, walkVars
  <2>8. ASSUME NEW q \in Requests
        PROVE  pc'[q] = pc[q] \/ (pc[q] = "fill" /\ pc'[q] = "read")
    BY <2>1, <2>2 DEF TypeInv, TypeOK
  <2>9. QED
    BY <2>2, <2>7, <2>8 DEF TypeInv, PositionsOK, SegmentsFound, walkVars, Ended
<1>10. ASSUME NEW f \in fills, FillFail(f) \/ FillDrop(f) PROVE TypeInv'
  <2>1. f.req \in Requests
    BY DEF TypeInv, TypeOK, Fill
  <2>2. /\ UNCHANGED <<cacheVars, asked, sent, holes>> /\ fills' \subseteq fills
        /\ EndStream(f.req, "failed") \/ UNCHANGED <<pc, walkVars, todo>>
    BY <1>10 DEF FillFail, FillDrop
  <2>3. CASE EndStream(f.req, "failed")
    <3>1. "failed" \in Ended
      BY DEF Ended
    <3>2. QED
      BY <2>1, <2>2, <2>3, <3>1, EndStreamTyped DEF TypeInv, TypeOK, cacheVars
  <2>4. CASE UNCHANGED <<pc, walkVars, todo>>
    BY <2>2, <2>4 DEF TypeInv, TypeOK, PositionsOK, SegmentsFound, cacheVars, walkVars
  <2>5. QED
    BY <2>2, <2>3, <2>4
<1>11. CASE UNCHANGED vars
  BY <1>11 DEF TypeInv, TypeOK, PositionsOK, SegmentsFound, vars, cacheVars, walkVars
<1>12. QED
  BY <1>1, <1>2, <1>3, <1>4, <1>5, <1>6, <1>7, <1>8, <1>9, <1>10, <1>11 DEF Next

(* Every state of the server is well typed; in particular what it sends are *)
(* bytes of the cache file and what it evicts and prefetches lies in it.     *)
THEOREM TypeCorrect == Spec => []TypeOK
<1>1. TypeInv => TypeOK
  BY DEF TypeInv
<1>2. QED
  BY TypeInit, TypeStep, <1>1, PTL DEF Spec
-----------------------------------------------------------------------------
(* Holes.                                                                  *)

(* HolesOnlyEvicted is not inductive: that a byte read is there, or was    *)
(* evicted, must follow from what the stream relied on before it read.     *)
(* HoleInv follows a byte from the fill that writes it through the         *)
(* bookkeeping to the read.  A byte is kept if it is in the file or was    *)
(* punched beyond the pin; every step preserves that, because a window     *)
(* never starts below the pin.                                             *)

PunchedOut(b) == HeaderPin <= b /\ b \in punched
Kept(b) == b \in data \/ PunchedOut(b)

BookkeepingKept == \A b \in populated : Kept(b)

WrittenKept ==
  \A f \in fills : f.at = "written" => \A b \in Payload(f.seg) : Kept(b)

\* A stream waits for one fill, that of the segment it stands in.
FillsOwned ==
  /\ \A f \in fills : f.by = "stream" =>
       /\ pc[f.req] \in Ended \cup {"fill"}
       /\ pc[f.req] = "fill" => f.seg = FindSegment(aPos[f.req])
  /\ \A f, g \in fills : f.by = "stream" /\ g.by = "stream" /\ f.req = g.req => f = g

ReadsKept ==
  \A r \in Requests : pc[r] = "read" =>
    \A b \in SegmentBytes(FindSegment(aPos[r])) : b \in ShortTails \/ Kept(b)

WindowsPinned ==
  \A r \in Requests : pc[r] \in {"punch", "forget", "advance"} => window[r][1] >= HeaderPin

HoleInv ==
  /\ BookkeepingKept /\ WrittenKept /\ FillsOwned /\ ReadsKept /\ WindowsPinned
  /\ HolesOnlyEvicted

\* The invariant holds of an empty cache file.
LEMMA HoleInit == Init => HoleInv
BY DEF Init, CacheInit, HoleInv, BookkeepingKept, WrittenKept, FillsOwned, ReadsKept,
       WindowsPinned, HolesOnlyEvicted

\* A byte a segment declares and its article lacks is in no article.
LEMMA TailIsShort ==
  ASSUME NEW i \in SegmentIdx, NEW b \in SegmentBytes(i), b \notin Payload(i)
  PROVE  b \in ShortTails
<1>1. b \in AssembledBytes
  BY SegmentWithin
<1>2. ASSUME NEW j \in SegmentIdx, b \in Payload(j) PROVE FALSE
  <2>1. b \in SegmentBytes(j)
    BY <1>2, PayloadInSegment
  <2>2. i = j
    BY <2>1, SegmentsDisjoint
  <2>3. QED
    BY <1>2, <2>2
<1>3. QED
  BY <1>1, <1>2 DEF ShortTails

\* What each cache step does to the bytes that are kept.
LEMMA CacheKeeps ==
  ASSUME TypeOK, NEW bytes \in SUBSET AssembledBytes,
         NEW from \in Nat, NEW to \in Nat, from >= HeaderPin,
         \/ WriteFile(bytes) \/ MarkPopulated(bytes) \/ PunchHole(from, to)
         \/ ForgetRange(from, to) \/ StoreWatermark(to) \/ UNCHANGED cacheVars
  PROVE  /\ punched \subseteq punched'
         /\ \A b \in AssembledBytes : Kept(b) => Kept(b)'
<1>1. HeaderPin \in Nat /\ AssembledBytes \subseteq Int
  BY PipelineAssumption DEF PipelineAssumption, AssembledBytes
<1>2. CASE UNCHANGED data /\ UNCHANGED punched
  BY <1>1, <1>2 DEF Kept, PunchedOut
<1>3. CASE WriteFile(bytes)
  BY <1>1, <1>3 DEF WriteFile, Kept, PunchedOut
<1>4. CASE PunchHole(from, to)
  <2>1. data' = data \ (from .. to - 1) /\ punched' = punched \cup (from .. to - 1)
    BY <1>4 DEF PunchHole
  <2>2. ASSUME NEW b \in AssembledBytes, Kept(b) PROVE Kept(b)'
    BY <1>1, <2>1, <2>2 DEF Kept, PunchedOut
  <2>3. QED
    BY <2>1, <2>2
<1>5. QED
  BY <1>2, <1>3, <1>4 DEF MarkPopulated, ForgetRange, StoreWatermark, cacheVars

\* A stream that moves on or ends waits for no fill, reads nothing and has no
\* window; all others are as they were.
LEMMA MoveOn ==
  ASSUME TypeInv, NEW r \in Requests,
         \/ NextSegment(r) \/ \E v : EnterChunk(r, v)
         \/ \E how \in Ended : EndStream(r, how)
  PROVE  /\ pc'[r] \in Ended \cup {"locate"}
         /\ (\E how \in Ended : EndStream(r, how)) => pc'[r] \in Ended
         /\ \A q \in Requests \ {r} :
              pc'[q] = pc[q] /\ aPos'[q] = aPos[q] /\ window'[q] = window[q]
<1>1. "done" \in Ended /\ "failed" \in Ended
  BY DEF Ended
<1>2. CASE \E how \in Ended : EndStream(r, how)
  BY <1>2 DEF EndStream, TypeInv, TypeOK
<1>3. CASE \E v : EnterChunk(r, v)
  BY <1>1, <1>3 DEF EnterChunk, EndStream, TypeInv, TypeOK, Ended
<1>4. CASE /\ pc' = [pc EXCEPT ![r] = "locate"]
           /\ window' = [window EXCEPT ![r] = NoWindow]
           /\ UNCHANGED <<todo, cursor, aPos>>
  BY <1>4 DEF TypeInv, TypeOK, EndStream, Ended
<1>5. QED
  BY <1>1, <1>2, <1>3, <1>4 DEF NextSegment

\* Steps that start no stream's fill and complete none keep what streams rely
\* on, if they keep the bytes.
LEMMA QuietStep ==
  ASSUME TypeInv, HoleInv,
         \A b \in AssembledBytes : Kept(b) => Kept(b)',
         \A f \in fills' : f \in fills \/ (f.by = "prefetch" /\ f.at = "fetching"),
         \A q \in Requests :
           \/ pc'[q] = pc[q] /\ aPos'[q] = aPos[q]
           \/ /\ pc'[q] \notin {"fill", "read"}
              /\ pc[q] \in Ended \cup {"fill"} => pc'[q] \in Ended
  PROVE  WrittenKept' /\ FillsOwned' /\ ReadsKept'
<1>1. ASSUME NEW f \in fills
      PROVE  f.req \in Requests /\ f.seg \in SegmentIdx /\ Payload(f.seg) \subseteq AssembledBytes
  BY PayloadInSegment, SegmentWithin DEF TypeInv, TypeOK, Fill
<1>2. WrittenKept'
  BY <1>1 DEF HoleInv, WrittenKept
<1>3. FillsOwned'
  <2>1. ASSUME NEW f \in fills', f.by = "stream"
        PROVE  /\ f \in fills /\ pc'[f.req] \in Ended \cup {"fill"}
               /\ pc'[f.req] = "fill" => f.seg = FindSegment(aPos'[f.req])
    <3>1. f \in fills
      BY <2>1
    <3>2. /\ pc[f.req] \in Ended \cup {"fill"}
          /\ pc[f.req] = "fill" => f.seg = FindSegment(aPos[f.req])
      BY <2>1, <3>1 DEF HoleInv, FillsOwned
    <3>3. QED
      BY <3>1, <3>2, <1>1 DEF Ended
  <2>2. QED
    BY <2>1 DEF HoleInv, FillsOwned
<1>4. ReadsKept'
  <2>1. ASSUME NEW q \in Requests, pc'[q] = "read",
               NEW b \in SegmentBytes(FindSegment(aPos'[q]))
        PROVE  b \in ShortTails \/ Kept(b)'
    <3>1. pc[q] = "read" /\ aPos'[q] = aPos[q]
      BY <2>1
    <3>2. b \in AssembledBytes
      BY <2>1, <3>1, ReadTypes, SegmentWithin
    <3>3. b \in ShortTails \/ Kept(b)
      BY <2>1, <3>1 DEF HoleInv, ReadsKept
    <3>4. QED
      BY <3>2, <3>3
  <2>2. QED
    BY <2>1 DEF ReadsKept
<1>5. QED
  BY <1>2, <1>3, <1>4

\* A stream that moves on without touching the cache keeps the invariant.
LEMMA MoveOnKeeps ==
  ASSUME TypeInv, HoleInv, NEW r \in Requests,
         \/ NextSegment(r) \/ \E v : EnterChunk(r, v)
         \/ \E how \in Ended : EndStream(r, how),
         pc[r] \in Ended \cup {"fill"} => \E how \in Ended : EndStream(r, how),
         UNCHANGED <<data, populated, punched, holes>>, fills' \subseteq fills
  PROVE  HoleInv'
<1>1. \A b : Kept(b)' <=> Kept(b)
  BY DEF Kept, PunchedOut
<1>2. /\ pc'[r] \in Ended \cup {"locate"}
      /\ (\E how \in Ended : EndStream(r, how)) => pc'[r] \in Ended
      /\ \A q \in Requests \ {r} :
           pc'[q] = pc[q] /\ aPos'[q] = aPos[q] /\ window'[q] = window[q]
  BY MoveOn
<1>3. WrittenKept' /\ FillsOwned' /\ ReadsKept'
  <2>1. ASSUME NEW q \in Requests
        PROVE  \/ pc'[q] = pc[q] /\ aPos'[q] = aPos[q]
               \/ /\ pc'[q] \notin {"fill", "read"}
                  /\ pc[q] \in Ended \cup {"fill"} => pc'[q] \in Ended
    BY <1>2 DEF Ended
  <2>2. QED
    BY <1>1, <2>1, QuietStep
<1>4. BookkeepingKept' /\ HolesOnlyEvicted'
  BY <1>1 DEF HoleInv, BookkeepingKept, HolesOnlyEvicted
<1>5. WindowsPinned'
  BY <1>2 DEF HoleInv, WindowsPinned, Ended
<1>6. QED
  BY <1>3, <1>4, <1>5 DEF HoleInv

\* Every step keeps the invariant, one case for each action.
LEMMA HoleStep == TypeInv /\ HoleInv /\ [Next]_vars => HoleInv'
<1> SUFFICES ASSUME TypeInv, HoleInv, [Next]_vars PROVE HoleInv'
  OBVIOUS
<1>1. ASSUME NEW r \in Requests, NEW range \in Ranges, OpenRequest(r, range)
      PROVE  HoleInv'
  <2>1. /\ pc[r] = "idle" /\ UNCHANGED <<cacheVars, fills, sent, holes>>
        /\ EndStream(r, "failed") \/ EnterChunk(r, range[1])
    BY <1>1 DEF OpenRequest
  <2>2. "failed" \in Ended /\ "idle" \notin Ended \cup {"fill"}
    BY DEF Ended
  <2>3. QED
    BY <2>1, <2>2, MoveOnKeeps DEF cacheVars
<1>2. ASSUME NEW r \in Requests, Locate(r) PROVE HoleInv'
  <2> DEFINE seg == FindSegment(aPos[r])
  <2> DEFINE new == [req |-> r, seg |-> seg, by |-> "stream", at |-> "fetching"]
  <2>1. pc[r] = "locate" /\ UNCHANGED <<cacheVars, asked, sent, holes>>
    BY <1>2 DEF Locate
  <2>2. CASE seg = NoSegment
    <3>1. EndStream(r, "failed") /\ UNCHANGED fills
      BY <1>2, <2>2 DEF Locate
    <3>2. "failed" \in Ended /\ "locate" \notin Ended \cup {"fill"}
      BY DEF Ended
    <3>3. QED
      BY <2>1, <3>1, <3>2, MoveOnKeeps DEF cacheVars
  <2>3. CASE seg # NoSegment
    <3>1. UNCHANGED <<walkVars, todo>>
      BY <1>2, <2>3 DEF Locate
    <3>2. \A b : Kept(b)' <=> Kept(b)
      BY <2>1 DEF cacheVars, Kept, PunchedOut
    <3>3. \/ /\ HasRange(SegmentBytes(seg)) /\ pc' = [pc EXCEPT ![r] = "read"]
             /\ fills' = fills
          \/ /\ pc' = [pc EXCEPT ![r] = "fill"] /\ fills' = fills \cup {new}
      BY <1>2, <2>3 DEF Locate
    <3>4. BookkeepingKept' /\ HolesOnlyEvicted'
      BY <2>1, <3>2 DEF HoleInv, BookkeepingKept, HolesOnlyEvicted, cacheVars
    <3>5. WindowsPinned'
      BY <3>1, <3>3 DEF HoleInv, WindowsPinned, walkVars, TypeInv, TypeOK
    <3>6. WrittenKept'
      BY <3>2, <3>3 DEF HoleInv, WrittenKept
    <3>7. \A f \in fills : f.by = "stream" => f.req # r
      BY <2>1 DEF HoleInv, FillsOwned, Ended
    <3>8. FillsOwned'
      <4>1. /\ new.req = r /\ new.seg = seg
            /\ pc'[r] \in {"read", "fill"} /\ (new \in fills' => pc'[r] = "fill" \/ new \in fills)
            /\ \A q \in Requests : q # r => pc'[q] = pc[q]
        BY <3>3 DEF TypeInv, TypeOK
      <4>2. aPos' = aPos /\ \A f \in fills' : f \in fills \/ f = new
        BY <3>1, <3>3 DEF walkVars
      <4>3. \A f \in fills : f.req \in Requests
        BY DEF TypeInv, TypeOK, Fill
      <4>4. ASSUME NEW f \in fills', f.by = "stream"
            PROVE  /\ pc'[f.req] \in Ended \cup {"fill"}
                   /\ pc'[f.req] = "fill" => f.seg = FindSegment(aPos'[f.req])
        <5>1. CASE f \in fills
          BY <3>7, <4>1, <4>2, <4>3, <4>4, <5>1 DEF HoleInv, FillsOwned
        <5>2. CASE f = new /\ f \notin fills
          BY <4>1, <4>2, <5>2
        <5>3. QED
          BY <4>2, <5>1, <5>2
      <4>5. ASSUME NEW f \in fills', NEW g \in fills',
                   f.by = "stream", g.by = "stream", f.req = g.req
            PROVE  f = g
        <5>1. CASE f \in fills /\ g \in fills
          BY <4>5, <5>1 DEF HoleInv, FillsOwned
        <5>2. CASE f = new \/ g = new
          BY <3>7, <4>1, <4>2, <4>5, <5>2
        <5>3. QED
          BY <4>2, <5>1, <5>2
      <4>6. QED
        BY <4>4, <4>5 DEF FillsOwned
    <3>9. ReadsKept'
      <4>1. ASSUME NEW q \in Requests, pc'[q] = "read"
            PROVE  \A b \in SegmentBytes(FindSegment(aPos'[q])) : b \in ShortTails \/ Kept(b)'
        <5>1. aPos' = aPos
          BY <3>1 DEF walkVars
        <5>2. CASE q # r
          <6>1. pc[q] = "read"
            BY <3>3, <4>1, <5>2 DEF TypeInv, TypeOK
          <6>2. QED
            BY <3>2, <5>1, <6>1 DEF HoleInv, ReadsKept
        <5>3. CASE q = r
          <6>1. HasRange(SegmentBytes(seg))
            BY <3>3, <4>1, <5>3 DEF TypeInv, TypeOK
          <6>2. QED
            BY <3>2, <5>1, <5>3, <6>1 DEF HasRange, HoleInv, BookkeepingKept
        <5>4. QED
          BY <5>2, <5>3
      <4>2. QED
        BY <4>1 DEF ReadsKept
    <3>10. QED
      BY <3>4, <3>5, <3>6, <3>8, <3>9 DEF HoleInv
  <2>4. QED
    BY <2>2, <2>3
<1>3. ASSUME NEW r \in Requests, ReadChunk(r) PROVE HoleInv'
  <2> DEFINE upto == Min({aPos[r] + ChunkSize - 1, ReadEnd(r)})
  <2>1. /\ pc[r] = "read"
        /\ holes' = holes \cup ((aPos[r] .. upto) \ data)
        /\ aPos' = [aPos EXCEPT ![r] = upto + 1]
        /\ pc' = [pc EXCEPT ![r] = IF upto = ReadEnd(r) THEN "evict" ELSE "read"]
        /\ UNCHANGED <<cacheVars, asked, cursor, window, todo, fills>>
    BY <1>3 DEF ReadChunk
  <2>2. /\ aPos[r] .. upto \subseteq SegmentBytes(FindSegment(aPos[r]))
        /\ upto # ReadEnd(r) => FindSegment(upto + 1) = FindSegment(aPos[r])
    BY <2>1, ChunkTypes, ReadTypes, FindSegmentComplete
  <2> HIDE DEF upto
  <2>3. \A b : Kept(b)' <=> Kept(b)
    BY <2>1 DEF cacheVars, Kept, PunchedOut
  <2>4. BookkeepingKept' /\ WrittenKept'
    BY <2>1, <2>3 DEF HoleInv, BookkeepingKept, WrittenKept, cacheVars
  <2>5. ASSUME NEW q \in Requests, q # r PROVE pc'[q] = pc[q] /\ aPos'[q] = aPos[q]
    BY <2>1, <2>5 DEF TypeInv, TypeOK
  <2>6. /\ aPos'[r] = upto + 1
        /\ pc'[r] = IF upto = ReadEnd(r) THEN "evict" ELSE "read"
    BY <2>1 DEF TypeInv, TypeOK
  <2>7. FillsOwned'
    <3>1. \A f \in fills : f.req \in Requests
      BY DEF TypeInv, TypeOK, Fill
    <3>2. \A f \in fills : f.by = "stream" => f.req # r
      BY <2>1 DEF HoleInv, FillsOwned, Ended
    <3>3. QED
      BY <2>1, <2>5, <3>1, <3>2 DEF HoleInv, FillsOwned
  <2>8. ReadsKept'
    <3>1. ASSUME NEW q \in Requests, pc'[q] = "read"
          PROVE  /\ pc[q] = "read"
                 /\ FindSegment(aPos'[q]) = FindSegment(aPos[q])
      BY <2>1, <2>2, <2>5, <2>6, <3>1
    <3>2. QED
      BY <2>3, <3>1 DEF HoleInv, ReadsKept
  <2>9. WindowsPinned'
    BY <2>1, <2>5, <2>6 DEF HoleInv, WindowsPinned
  <2>10. HolesOnlyEvicted'
    <3>1. \A b \in aPos[r] .. upto : b \notin data => b \in ShortTails \/ PunchedOut(b)
      BY <2>1, <2>2 DEF HoleInv, ReadsKept, Kept
    <3>2. QED
      BY <2>1, <3>1 DEF HoleInv, HolesOnlyEvicted, PunchedOut, cacheVars
  <2>11. QED
    BY <2>4, <2>7, <2>8, <2>9, <2>10 DEF HoleInv
<1>4. ASSUME NEW r \in Requests, ReadFails(r) \/ Disconnect(r) PROVE HoleInv'
  <2>1. /\ EndStream(r, "failed") \/ EndStream(r, "closed")
        /\ UNCHANGED <<cacheVars, asked, fills, sent, holes>>
    BY <1>4 DEF ReadFails, Disconnect
  <2>2. "failed" \in Ended /\ "closed" \in Ended
    BY DEF Ended
  <2>3. QED
    BY <2>1, <2>2, MoveOnKeeps DEF cacheVars
<1>5. ASSUME NEW r \in Requests, Prefetch(r) PROVE HoleInv'
  <2>1. /\ \A f \in fills' : f \in fills \/ (f.by = "prefetch" /\ f.at = "fetching")
        /\ UNCHANGED <<cacheVars, pc, asked, walkVars, sent, holes>>
    BY <1>5 DEF Prefetch
  <2>2. \A b : Kept(b)' <=> Kept(b)
    BY <2>1 DEF cacheVars, Kept, PunchedOut
  <2>3. WrittenKept' /\ FillsOwned' /\ ReadsKept'
    BY <2>1, <2>2, QuietStep DEF walkVars
  <2>4. QED
    BY <2>1, <2>2, <2>3
       DEF HoleInv, BookkeepingKept, HolesOnlyEvicted, WindowsPinned, cacheVars, walkVars
<1>6. ASSUME NEW r \in Requests, StartEvict(r) PROVE HoleInv'
  <2> DEFINE w == EvictWindow(aPos[r], HeaderPin, Backbuffer)
  <2>1. pc[r] = "evict" /\ UNCHANGED <<cacheVars, asked, fills, sent, holes>>
    BY <1>6 DEF StartEvict
  <2>2. w \in Nat \X Nat /\ w[1] >= HeaderPin
    BY WindowTypes DEF TypeInv, TypeOK
  <2>3. CASE NextSegment(r)
    BY <2>1, <2>3, MoveOnKeeps DEF cacheVars, Ended
  <2>4. CASE /\ window' = [window EXCEPT ![r] = w]
             /\ pc' = [pc EXCEPT ![r] = "punch"]
             /\ UNCHANGED <<todo, cursor, aPos>>
    <3>1. \A b : Kept(b)' <=> Kept(b)
      BY <2>1 DEF cacheVars, Kept, PunchedOut
    <3>2. /\ pc'[r] = "punch" /\ window'[r] = w
          /\ \A q \in Requests \ {r} : pc'[q] = pc[q] /\ window'[q] = window[q]
      BY <2>4 DEF TypeInv, TypeOK
    <3>3. WrittenKept' /\ FillsOwned' /\ ReadsKept'
      <4>1. ASSUME NEW q \in Requests
            PROVE  \/ pc'[q] = pc[q] /\ aPos'[q] = aPos[q]
                   \/ /\ pc'[q] \notin {"fill", "read"}
                      /\ pc[q] \in Ended \cup {"fill"} => pc'[q] \in Ended
        BY <2>1, <2>4, <3>2 DEF Ended
      <4>2. QED
        BY <2>1, <3>1, <4>1, QuietStep
    <3>4. WindowsPinned'
      BY <2>2, <3>2 DEF HoleInv, WindowsPinned
    <3>5. QED
      BY <2>1, <3>1, <3>3, <3>4 DEF HoleInv, BookkeepingKept, HolesOnlyEvicted, cacheVars
  <2>5. QED
    BY <1>6, <2>3, <2>4 DEF StartEvict
<1>7. ASSUME NEW r \in Requests, Punch(r) \/ Forget(r) PROVE HoleInv'
  <2>1. /\ PunchHole(window[r][1], window[r][2]) \/ ForgetRange(window[r][1], window[r][2])
        /\ pc[r] \in {"punch", "forget"}
        /\ \E p \in {"forget", "advance"} : pc' = [pc EXCEPT ![r] = p]
        /\ UNCHANGED <<asked, walkVars, todo, fills, sent, holes>>
    BY <1>7 DEF Punch, Forget
  <2>2. window[r][1] \in Nat /\ window[r][2] \in Nat /\ window[r][1] >= HeaderPin
    BY <2>1 DEF HoleInv, WindowsPinned, TypeInv, TypeOK
  <2>3. punched \subseteq punched' /\ \A b \in AssembledBytes : Kept(b) => Kept(b)'
    BY <2>1, <2>2, CacheKeeps DEF TypeInv
  <2>4. /\ pc'[r] \in {"forget", "advance"}
        /\ \A q \in Requests \ {r} : pc'[q] = pc[q]
        /\ aPos' = aPos /\ window' = window
    BY <2>1 DEF TypeInv, TypeOK, walkVars
  <2>5. WrittenKept' /\ FillsOwned' /\ ReadsKept'
    <3>1. ASSUME NEW q \in Requests
          PROVE  \/ pc'[q] = pc[q] /\ aPos'[q] = aPos[q]
                 \/ /\ pc'[q] \notin {"fill", "read"}
                    /\ pc[q] \in Ended \cup {"fill"} => pc'[q] \in Ended
      BY <2>1, <2>4 DEF Ended
    <3>2. QED
      BY <2>1, <2>3, <3>1, QuietStep
  <2>6. BookkeepingKept'
    <3>1. populated' \subseteq populated /\ populated \subseteq AssembledBytes
      BY <2>1 DEF PunchHole, ForgetRange, TypeInv, TypeOK
    <3>2. QED
      BY <2>3, <3>1 DEF HoleInv, BookkeepingKept
  <2>7. WindowsPinned'
    BY <2>1, <2>4 DEF HoleInv, WindowsPinned
  <2>8. HolesOnlyEvicted'
    <3>1. holes' = holes /\ holes \subseteq AssembledBytes /\ AssembledBytes \subseteq Int
      BY <2>1 DEF TypeInv, TypeOK, AssembledBytes
    <3>2. QED
      BY <2>3, <3>1 DEF HoleInv, HolesOnlyEvicted
  <2>9. QED
    BY <2>5, <2>6, <2>7, <2>8 DEF HoleInv
<1>8. ASSUME NEW r \in Requests, PunchFails(r) \/ Advance(r) PROVE HoleInv'
  <2>1. /\ UNCHANGED <<data, populated, punched, fills, holes>>
        /\ pc[r] \in {"punch", "advance"} /\ NextSegment(r)
    BY <1>8 DEF PunchFails, Advance, StoreWatermark, cacheVars
  <2>2. QED
    BY <2>1, MoveOnKeeps DEF Ended
<1>9. ASSUME NEW f \in fills, FillWrite(f) PROVE HoleInv'
  <2> DEFINE written == [f EXCEPT !.at = "written"]
  <2>1. /\ WriteFile(Payload(f.seg)) /\ fills' = (fills \ {f}) \cup {written}
        /\ UNCHANGED <<pc, asked, walkVars, todo, sent, holes>>
    BY <1>9 DEF FillWrite
  <2>2. f \in Fill /\ Payload(f.seg) \in SUBSET AssembledBytes
    BY PayloadInSegment, SegmentWithin DEF TypeInv, TypeOK, Fill
  <2>3. written.req = f.req /\ written.seg = f.seg /\ written.by = f.by
    BY <2>2 DEF Fill
  <2>4. \A b \in AssembledBytes : Kept(b) => Kept(b)'
    BY <2>1 DEF WriteFile, Kept, PunchedOut
  <2>5. \A b \in Payload(f.seg) : Kept(b)'
    BY <2>1 DEF WriteFile, Kept
  <2>6. UNCHANGED <<populated, punched, holes, pc, aPos, window>>
    BY <2>1 DEF WriteFile, walkVars
  <2>7. BookkeepingKept' /\ HolesOnlyEvicted' /\ WindowsPinned'
    BY <2>4, <2>6 DEF HoleInv, BookkeepingKept, HolesOnlyEvicted, WindowsPinned,
                      TypeInv, TypeOK
  <2> HIDE DEF written
  <2>8. WrittenKept'
    <3>1. ASSUME NEW g \in fills', g.at = "written" PROVE \A b \in Payload(g.seg) : Kept(b)'
      <4>1. CASE g = written
        BY <2>3, <2>5, <4>1
      <4>2. CASE g \in fills
        <5>1. Payload(g.seg) \subseteq AssembledBytes
          BY <4>2, PayloadInSegment, SegmentWithin DEF TypeInv, TypeOK, Fill
        <5>2. QED
          BY <2>4, <3>1, <4>2, <5>1 DEF HoleInv, WrittenKept
      <4>3. QED
        BY <2>1, <4>1, <4>2
    <3>2. QED
      BY <3>1 DEF WrittenKept
  <2>9. FillsOwned'
    <3>1. ASSUME NEW g \in fills'
          PROVE  \E h \in fills : /\ h.req = g.req /\ h.seg = g.seg /\ h.by = g.by
                                  /\ h = f <=> g = written
      BY <2>1, <2>3, <3>1
    <3>2. ASSUME NEW g \in fills', g.by = "stream"
          PROVE  /\ pc'[g.req] \in Ended \cup {"fill"}
                 /\ pc'[g.req] = "fill" => g.seg = FindSegment(aPos'[g.req])
      BY <2>6, <3>1, <3>2 DEF HoleInv, FillsOwned
    <3>3. ASSUME NEW g \in fills', NEW k \in fills',
                 g.by = "stream", k.by = "stream", g.req = k.req
          PROVE  g = k
      BY <2>1, <2>3, <3>3 DEF HoleInv, FillsOwned
    <3>4. QED
      BY <3>2, <3>3 DEF FillsOwned
  <2>10. ReadsKept'
    <3>1. ASSUME NEW q \in Requests, pc[q] = "read",
                 NEW b \in SegmentBytes(FindSegment(aPos[q]))
          PROVE  b \in ShortTails \/ Kept(b)'
      <4>1. b \in AssembledBytes
        BY <3>1, ReadTypes, SegmentWithin
      <4>2. QED
        BY <2>4, <3>1, <4>1 DEF HoleInv, ReadsKept
    <3>2. QED
      BY <2>6, <3>1 DEF ReadsKept
  <2>11. QED
    BY <2>7, <2>8, <2>9, <2>10 DEF HoleInv
<1>10. ASSUME NEW f \in fills, FillInsert(f) PROVE HoleInv'
  <2>1. /\ f.at = "written" /\ (f.by = "stream" => pc[f.req] = "fill")
        /\ MarkPopulated(Payload(f.seg)) /\ fills' = fills \ {f}
        /\ pc' = IF f.by = "stream" THEN [pc EXCEPT ![f.req] = "read"] ELSE pc
        /\ UNCHANGED <<asked, walkVars, todo, sent, holes>>
    BY <1>10 DEF FillInsert
  <2>2. f.req \in Requests /\ f.seg \in SegmentIdx
    BY DEF TypeInv, TypeOK, Fill
  <2>3. /\ populated' = populated \cup Payload(f.seg)
        /\ UNCHANGED <<data, punched, aPos, window>>
    BY <2>1 DEF MarkPopulated, walkVars
  <2>4. \A b : Kept(b)' <=> Kept(b)
    BY <2>3 DEF Kept, PunchedOut
  <2>5. BookkeepingKept' /\ HolesOnlyEvicted' /\ WrittenKept'
    BY <2>1, <2>3, <2>4 DEF HoleInv, BookkeepingKept, WrittenKept, HolesOnlyEvicted
  <2>6. ASSUME NEW q \in Requests
        PROVE  \/ pc'[q] = pc[q]
               \/ q = f.req /\ f.by = "stream" /\ pc[q] = "fill" /\ pc'[q] = "read"
    BY <2>1, <2>2 DEF TypeInv, TypeOK
  <2>7. WindowsPinned'
    BY <2>3, <2>6 DEF HoleInv, WindowsPinned
  <2>8. FillsOwned'
    <3>1. \A g \in fills : g.req \in Requests
      BY DEF TypeInv, TypeOK, Fill
    <3>2. ASSUME NEW g \in fills', g.by = "stream"
          PROVE  pc'[g.req] = pc[g.req]
      <4>1. g \in fills /\ g # f
        BY <2>1
      <4>2. f.by = "stream" => g.req # f.req
        BY <3>2, <4>1 DEF HoleInv, FillsOwned
      <4>3. QED
        BY <2>6, <3>1, <4>1, <4>2
    <3>3. QED
      BY <2>1, <2>3, <3>2 DEF HoleInv, FillsOwned
  <2>9. ReadsKept'
    <3>1. ASSUME NEW q \in Requests, pc'[q] = "read",
                 NEW b \in SegmentBytes(FindSegment(aPos[q]))
          PROVE  b \in ShortTails \/ Kept(b)
      <4>1. CASE pc[q] = "read"
        BY <3>1, <4>1 DEF HoleInv, ReadsKept
      <4>2. CASE q = f.req /\ f.by = "stream" /\ pc[q] = "fill"
        <5>1. f.seg = FindSegment(aPos[q])
          BY <4>2 DEF HoleInv, FillsOwned
        <5>2. CASE b \in Payload(f.seg)
          BY <2>1, <5>2 DEF HoleInv, WrittenKept
        <5>3. CASE b \notin Payload(f.seg)
          BY <2>2, <3>1, <5>1, <5>3, TailIsShort
        <5>4. QED
          BY <5>2, <5>3
      <4>3. QED
        BY <2>6, <3>1, <4>1, <4>2
    <3>2. QED
      BY <2>3, <2>4, <3>1 DEF ReadsKept
  <2>10. QED
    BY <2>5, <2>7, <2>8, <2>9 DEF HoleInv
<1>11. ASSUME NEW f \in fills, FillFail(f) \/ FillDrop(f) PROVE HoleInv'
  <2>1. /\ UNCHANGED <<cacheVars, asked, sent, holes>> /\ fills' \subseteq fills
        /\ EndStream(f.req, "failed") \/ UNCHANGED <<pc, walkVars, todo>>
    BY <1>11 DEF FillFail, FillDrop
  <2>2. f.req \in Requests /\ "failed" \in Ended
    BY DEF TypeInv, TypeOK, Fill, Ended
  <2>3. CASE EndStream(f.req, "failed")
    BY <2>1, <2>2, <2>3, MoveOnKeeps DEF cacheVars
  <2>4. CASE UNCHANGED <<pc, walkVars, todo>>
    <3>1. \A b : Kept(b)' <=> Kept(b)
      BY <2>1 DEF cacheVars, Kept, PunchedOut
    <3>2. WrittenKept' /\ FillsOwned' /\ ReadsKept'
      BY <2>1, <2>4, <3>1, QuietStep DEF walkVars
    <3>3. QED
      BY <2>1, <2>4, <3>1, <3>2
         DEF HoleInv, BookkeepingKept, HolesOnlyEvicted, WindowsPinned, cacheVars, walkVars
  <2>5. QED
    BY <2>1, <2>3, <2>4
<1>12. CASE UNCHANGED vars
  BY <1>12 DEF HoleInv, BookkeepingKept, WrittenKept, FillsOwned, ReadsKept, WindowsPinned,
               HolesOnlyEvicted, Kept, PunchedOut, vars, cacheVars, walkVars
<1>13. QED
  BY <1>1, <1>2, <1>3, <1>4, <1>5, <1>6, <1>7, <1>8, <1>9, <1>10, <1>11, <1>12 DEF Next

\* Both invariants together hold in every behaviour.
LEMMA HoleInvariant == Spec => [](TypeInv /\ HoleInv)
<1>1. Init => TypeInv /\ HoleInv
  BY TypeInit, HoleInit
<1>2. TypeInv /\ HoleInv /\ [Next]_vars => (TypeInv /\ HoleInv)'
  BY TypeStep, HoleStep
<1>3. QED
  BY <1>1, <1>2, PTL DEF Spec

(* However many requests, prefetchers and evictions overlap on the file, a  *)
(* zero is served in place of a byte only if no article holds the byte or   *)
(* a hole was punched over it: the pinned header is never served torn.      *)
THEOREM HolesOnlyBehindEviction == Spec => []HolesOnlyEvicted
<1>1. HoleInv => HolesOnlyEvicted
  BY DEF HoleInv
<1>2. QED
  BY HoleInvariant, <1>1, PTL

-----------------------------------------------------------------------------
(* The watermark.                                                          *)

(* NothingSkipped is not inductive: a window is computed from the watermark *)
(* of that moment and stored, possibly after others have moved it, several  *)
(* steps later.  So it goes with every window in use: below it everything   *)
(* was punched, and once it is punched, within it as well.                  *)
WindowsFollow ==
  \A r \in Requests :
    /\ pc[r] \in {"punch", "forget", "advance"} => HeaderPin .. window[r][1] - 1 \subseteq punched
    /\ pc[r] \in {"forget", "advance"} => window[r][1] .. window[r][2] - 1 \subseteq punched

WatermarkInv == NothingSkipped /\ WindowsFollow

LEMMA WatermarkInit == Init => WatermarkInv
<1> SUFFICES ASSUME Init PROVE WatermarkInv
  OBVIOUS
<1>1. NothingSkipped
  BY PipelineAssumption DEF PipelineAssumption, Init, CacheInit, NothingSkipped
<1>2. WindowsFollow
  BY DEF Init, WindowsFollow
<1>3. QED
  BY <1>1, <1>2 DEF WatermarkInv

\* A step that gives no request a window keeps what the windows follow.
LEMMA WindowsQuiet ==
  ASSUME WindowsFollow, punched \subseteq punched',
         \A q \in Requests : \/ pc'[q] \notin {"punch", "forget", "advance"}
                             \/ pc'[q] = pc[q] /\ window'[q] = window[q]
  PROVE  WindowsFollow'
<1> SUFFICES ASSUME NEW q \in Requests
             PROVE  /\ pc'[q] \in {"punch", "forget", "advance"} =>
                         HeaderPin .. window'[q][1] - 1 \subseteq punched'
                    /\ pc'[q] \in {"forget", "advance"} =>
                         window'[q][1] .. window'[q][2] - 1 \subseteq punched'
  BY DEF WindowsFollow
<1>1. CASE pc'[q] \notin {"punch", "forget", "advance"}
  BY <1>1
<1>2. CASE pc'[q] = pc[q] /\ window'[q] = window[q]
  <2>1. /\ pc[q] \in {"punch", "forget", "advance"} => HeaderPin .. window[q][1] - 1 \subseteq punched
        /\ pc[q] \in {"forget", "advance"} => window[q][1] .. window[q][2] - 1 \subseteq punched
    BY DEF WindowsFollow
  <2>2. QED
    BY <1>2, <2>1
<1>3. QED
  BY <1>1, <1>2

\* Every step keeps the invariant, one case for each kind of action.
LEMMA WatermarkStep == TypeInv /\ WatermarkInv /\ [Next]_vars => WatermarkInv'
<1> SUFFICES ASSUME TypeInv, WatermarkInv, [Next]_vars PROVE WatermarkInv'
  OBVIOUS
<1>1. /\ HeaderPin \in Nat /\ watermark \in Nat
      /\ \A r \in Requests : window[r] \in Nat \X Nat
  BY PipelineAssumption DEF PipelineAssumption, TypeInv, TypeOK
<1>2. ASSUME punched \subseteq punched', UNCHANGED watermark PROVE NothingSkipped'
  BY <1>2 DEF WatermarkInv, NothingSkipped
<1>3. ASSUME NEW r \in Requests, StartEvict(r) PROVE WatermarkInv'
  <2> DEFINE w == EvictWindow(aPos[r], HeaderPin, Backbuffer)
  <2>1. UNCHANGED cacheVars
    BY <1>3 DEF StartEvict
  <2>2. NothingSkipped'
    BY <1>2, <2>1 DEF cacheVars
  <2>3. CASE NextSegment(r)
    <3>1. pc'[r] \in Ended \cup {"locate"}
          /\ \A q \in Requests \ {r} : pc'[q] = pc[q] /\ window'[q] = window[q]
      BY <2>3, MoveOn
    <3>2. \A q \in Requests : \/ pc'[q] \notin {"punch", "forget", "advance"}
                              \/ pc'[q] = pc[q] /\ window'[q] = window[q]
      BY <3>1 DEF Ended
    <3>3. QED
      BY <2>1, <2>2, <3>2, WindowsQuiet DEF WatermarkInv, cacheVars
  <2>4. CASE /\ window' = [window EXCEPT ![r] = w]
             /\ pc' = [pc EXCEPT ![r] = "punch"]
    <3>1. /\ pc'[r] = "punch" /\ window'[r] = w
          /\ \A q \in Requests \ {r} : pc'[q] = pc[q] /\ window'[q] = window[q]
      BY <2>4 DEF TypeInv, TypeOK
    <3>2. w[1] \in {watermark, HeaderPin}
      BY <1>1, PairBounds DEF EvictWindow
    <3>3. HeaderPin .. w[1] - 1 \subseteq punched
      <4>1. HeaderPin .. HeaderPin - 1 = {}
        BY <1>1
      <4>2. HeaderPin .. watermark - 1 \subseteq punched
        BY DEF WatermarkInv, NothingSkipped
      <4> HIDE DEF w
      <4>3. QED
        BY <3>2, <4>1, <4>2
    <3> HIDE DEF w
    <3>4. WindowsFollow'
      BY <2>1, <3>1, <3>3 DEF WatermarkInv, WindowsFollow, cacheVars
    <3>5. QED
      BY <2>2, <3>4 DEF WatermarkInv
  <2>5. QED
    BY <1>3, <2>3, <2>4 DEF StartEvict
<1>4. ASSUME NEW r \in Requests, Punch(r) PROVE WatermarkInv'
  <2>1. /\ pc[r] = "punch" /\ pc' = [pc EXCEPT ![r] = "forget"] /\ window' = window
        /\ punched' = punched \cup (window[r][1] .. window[r][2] - 1) /\ UNCHANGED watermark
    BY <1>4 DEF Punch, PunchHole, walkVars
  <2>2. pc'[r] = "forget" /\ \A q \in Requests \ {r} : pc'[q] = pc[q]
    BY <2>1 DEF TypeInv, TypeOK
  <2>3. WindowsFollow'
    <3> SUFFICES ASSUME NEW q \in Requests
                 PROVE  /\ pc'[q] \in {"punch", "forget", "advance"} =>
                             HeaderPin .. window[q][1] - 1 \subseteq punched'
                        /\ pc'[q] \in {"forget", "advance"} =>
                             window[q][1] .. window[q][2] - 1 \subseteq punched'
      BY <2>1 DEF WindowsFollow
    <3>1. /\ pc[q] \in {"punch", "forget", "advance"} => HeaderPin .. window[q][1] - 1 \subseteq punched
          /\ pc[q] \in {"forget", "advance"} => window[q][1] .. window[q][2] - 1 \subseteq punched
      BY DEF WatermarkInv, WindowsFollow
    <3>2. punched \subseteq punched' /\ window[r][1] .. window[r][2] - 1 \subseteq punched'
      BY <2>1
    <3>3. CASE q = r
      BY <2>1, <3>1, <3>2, <3>3
    <3>4. CASE q # r
      BY <2>2, <3>1, <3>2, <3>4
    <3>5. QED
      BY <3>3, <3>4
  <2>4. QED
    BY <1>2, <2>1, <2>3 DEF WatermarkInv
<1>5. ASSUME NEW r \in Requests, Forget(r) PROVE WatermarkInv'
  <2>1. /\ pc[r] = "forget" /\ pc' = [pc EXCEPT ![r] = "advance"] /\ window' = window
        /\ UNCHANGED <<punched, watermark>>
    BY <1>5 DEF Forget, ForgetRange, walkVars
  <2>2. pc'[r] = "advance" /\ \A q \in Requests \ {r} : pc'[q] = pc[q]
    BY <2>1 DEF TypeInv, TypeOK
  <2>3. WindowsFollow'
    BY <2>1, <2>2 DEF WatermarkInv, WindowsFollow
  <2>4. QED
    BY <1>2, <2>1, <2>3 DEF WatermarkInv
<1>6. ASSUME NEW r \in Requests, Advance(r) PROVE WatermarkInv'
  <2>1. /\ pc[r] = "advance" /\ watermark' = window[r][2] /\ UNCHANGED punched /\ NextSegment(r)
    BY <1>6 DEF Advance, StoreWatermark
  <2>2. /\ HeaderPin .. window[r][1] - 1 \subseteq punched
        /\ window[r][1] .. window[r][2] - 1 \subseteq punched
    BY <2>1 DEF WatermarkInv, WindowsFollow
  <2>3. ASSUME NEW b \in HeaderPin .. window[r][2] - 1 PROVE b \in punched
    <3>1. window[r][1] \in Nat /\ window[r][2] \in Nat
      BY <1>1
    <3>2. b \in HeaderPin .. window[r][1] - 1 \/ b \in window[r][1] .. window[r][2] - 1
      BY <1>1, <2>3, <3>1
    <3>3. QED
      BY <2>2, <3>2
  <2>4. NothingSkipped'
    BY <2>1, <2>3 DEF NothingSkipped
  <2>5. pc'[r] \in Ended \cup {"locate"}
        /\ \A q \in Requests \ {r} : pc'[q] = pc[q] /\ window'[q] = window[q]
    BY <2>1, MoveOn
  <2>6. \A q \in Requests : \/ pc'[q] \notin {"punch", "forget", "advance"}
                            \/ pc'[q] = pc[q] /\ window'[q] = window[q]
    BY <2>5 DEF Ended
  <2>7. QED
    BY <2>1, <2>4, <2>6, WindowsQuiet DEF WatermarkInv
<1>7. ASSUME NEW r \in Requests,
             \/ \E range \in Ranges : OpenRequest(r, range)
             \/ Locate(r) \/ ReadChunk(r) \/ ReadFails(r) \/ PunchFails(r) \/ Disconnect(r)
      PROVE  WatermarkInv'
  <2>1. UNCHANGED cacheVars
    BY <1>7 DEF OpenRequest, Locate, ReadChunk, ReadFails, PunchFails, Disconnect
  <2>2. /\ pc'[r] \notin {"punch", "forget", "advance"}
        /\ \A q \in Requests \ {r} : pc'[q] = pc[q] /\ window'[q] = window[q]
    <3>1. CASE \/ NextSegment(r) \/ \E v : EnterChunk(r, v)
               \/ \E how \in Ended : EndStream(r, how)
      BY <3>1, MoveOn DEF Ended
    <3>2. CASE /\ \E p \in {"read", "fill", "evict"} : pc' = [pc EXCEPT ![r] = p]
               /\ UNCHANGED window
      BY <3>2 DEF TypeInv, TypeOK
    <3>3. "failed" \in Ended /\ "closed" \in Ended
      BY DEF Ended
    <3>4. QED
      BY <1>7, <3>1, <3>2, <3>3
         DEF OpenRequest, Locate, ReadChunk, ReadFails, PunchFails, Disconnect, walkVars
  <2>3. \A q \in Requests : \/ pc'[q] \notin {"punch", "forget", "advance"}
                            \/ pc'[q] = pc[q] /\ window'[q] = window[q]
    BY <2>2
  <2>4. QED
    BY <1>2, <2>1, <2>3, WindowsQuiet DEF WatermarkInv, cacheVars
<1>8. ASSUME NEW f \in fills, FillWrite(f) \/ FillInsert(f) \/ FillFail(f) \/ FillDrop(f)
      PROVE  WatermarkInv'
  <2>1. UNCHANGED <<punched, watermark>>
    BY <1>8 DEF FillWrite, FillInsert, FillFail, FillDrop, WriteFile, MarkPopulated, cacheVars
  <2>2. f.req \in Requests /\ "failed" \in Ended
    BY DEF TypeInv, TypeOK, Fill, Ended
  <2>3. \A q \in Requests : \/ pc'[q] \notin {"punch", "forget", "advance"}
                            \/ pc'[q] = pc[q] /\ window'[q] = window[q]
    <3>1. CASE EndStream(f.req, "failed")
      <4>1. pc'[f.req] \in Ended \cup {"locate"}
            /\ \A q \in Requests \ {f.req} : pc'[q] = pc[q] /\ window'[q] = window[q]
        BY <2>2, <3>1, MoveOn
      <4>2. QED
        BY <4>1 DEF Ended
    <3>2. CASE /\ pc' = pc \/ pc' = [pc EXCEPT ![f.req] = "read"]
               /\ UNCHANGED window
      BY <2>2, <3>2 DEF TypeInv, TypeOK
    <3>3. QED
      BY <1>8, <3>1, <3>2 DEF FillWrite, FillInsert, FillFail, FillDrop, walkVars
  <2>4. QED
    BY <1>2, <2>1, <2>3, WindowsQuiet DEF WatermarkInv
<1>9. ASSUME NEW r \in Requests, Prefetch(r) PROVE WatermarkInv'
  <2>1. UNCHANGED <<punched, watermark, pc, window>>
    BY <1>9 DEF Prefetch, cacheVars, walkVars
  <2>2. QED
    BY <1>2, <2>1, WindowsQuiet DEF WatermarkInv
<1>10. CASE UNCHANGED vars
  BY <1>2, <1>10, WindowsQuiet DEF WatermarkInv, vars, cacheVars, walkVars
<1>11. QED
  BY <1>3, <1>4, <1>5, <1>6, <1>7, <1>8, <1>9, <1>10 DEF Next

(* The watermark of the file, whichever request stores it and in whatever   *)
(* order, passes no byte that was never punched (maybe_evict_behind).       *)
THEOREM WatermarkSkipsNothing == Spec => []NothingSkipped
<1>1. Init => TypeInv /\ WatermarkInv
  BY TypeInit, WatermarkInit
<1>2. TypeInv /\ WatermarkInv /\ [Next]_vars => (TypeInv /\ WatermarkInv)'
  BY TypeStep, WatermarkStep
<1>3. WatermarkInv => NothingSkipped
  BY DEF WatermarkInv
<1>4. QED
  BY <1>1, <1>2, <1>3, PTL DEF Spec
-----------------------------------------------------------------------------
(* The header.                                                             *)

\* Only a punch takes bytes from the file.
LEMMA OnlyPunchesTake ==
  ASSUME [Next]_vars, ~ \E r \in Requests : Punch(r)
  PROVE  data \subseteq data'
BY DEF Next, OpenRequest, Locate, ReadChunk, ReadFails, Prefetch, StartEvict, PunchFails, Forget,
       Advance, Disconnect, FillWrite, FillInsert, FillFail, FillDrop, WriteFile, MarkPopulated,
       ForgetRange, StoreWatermark, vars, cacheVars

(* No step of any request ever takes a byte of the pinned header out of the *)
(* file.                                                                    *)
THEOREM HeaderStaysPinned == Spec => PinnedBytesStay
<1>1. TypeInv /\ HoleInv /\ [Next]_vars => [\A b \in data : b < HeaderPin => b \in data']_vars
  <2> SUFFICES ASSUME TypeInv, HoleInv, Next, NEW b \in data, b < HeaderPin
               PROVE  b \in data'
    BY DEF vars
  <2>1. b \in Int /\ HeaderPin \in Nat
    BY PipelineAssumption DEF PipelineAssumption, TypeInv, TypeOK, AssembledBytes
  <2>2. CASE \E r \in Requests : Punch(r)
    <3>1. PICK r \in Requests : Punch(r)
      BY <2>2
    <3>2. /\ data' = data \ (window[r][1] .. window[r][2] - 1)
          /\ window[r][1] >= HeaderPin /\ window[r][1] \in Nat /\ window[r][2] \in Nat
      BY <3>1 DEF Punch, PunchHole, HoleInv, WindowsPinned, TypeInv, TypeOK
    <3>3. QED
      BY <2>1, <3>2
  <2>3. CASE ~ \E r \in Requests : Punch(r)
    <3>1. data \subseteq data'
      BY <2>3, OnlyPunchesTake
    <3>2. QED
      BY <3>1
  <2>4. QED
    BY <2>2, <2>3
<1>2. QED
  BY HoleInvariant, <1>1, PTL DEF Spec, PinnedBytesStay

-----------------------------------------------------------------------------
(* What is delivered: the pipeline implements RangeDelivery.               *)

(* The bytes an open stream has sent are the first of its range, as many   *)
(* as its position in the assembled stream says: the walk over chunks and  *)
(* segments and the position in the range never come apart.                *)

Delivered(r) == (cursor[r] - asked[r][1]) + (aPos[r] - VideoToAssembled(cursor[r]))

Prefix(range, n) == [i \in 1 .. n |-> VideoToAssembled(range[1] + i - 1)]

InPlace(r) ==
  /\ asked[r][1] <= cursor[r]
  /\ VideoToAssembled(cursor[r]) <= aPos[r]
  /\ aPos[r] <= AssembledChunkEnd(r) + 1
  /\ pc[r] \in {"locate", "fill", "read"} => aPos[r] <= AssembledChunkEnd(r)

DeliveryInv ==
  \A r \in Requests :
    /\ pc[r] = "idle" => sent[r] = <<>>
    /\ pc[r] \notin Ended \cup {"idle"} =>
         InPlace(r) /\ sent[r] = Prefix(asked[r], Delivered(r))

\* The chunks follow one another in the video.
LEMMA ChunksOrdered ==
  ASSUME NEW i \in DOMAIN Chunks, NEW j \in DOMAIN Chunks, i < j
  PROVE  Chunks[i].video + Chunks[i].length <= Chunks[j].video
<1> DEFINE Bad == {k \in DOMAIN Chunks :
                     i < k /\ ~ (Chunks[i].video + Chunks[i].length <= Chunks[k].video)}
<1>1. Bad \subseteq Nat
  BY ChunkFields
<1>2. SUFFICES ASSUME Bad # {} PROVE FALSE
  BY <1>2
<1>3. /\ Min(Bad) \in Bad
      /\ \A k \in Bad : Min(Bad) <= k
  <2> HIDE DEF Bad
  <2> QED BY <1>1, <1>2, MinExists
<1>4. PICK m \in DOMAIN Chunks :
        /\ i < m
        /\ ~ (Chunks[i].video + Chunks[i].length <= Chunks[m].video)
        /\ \A k \in Bad : m <= k
  BY <1>3
<1>5. m - 1 \in DOMAIN Chunks /\ i <= m - 1 /\ m - 1 \in 1 .. Len(Chunks) - 1
  BY <1>4, ChunkFields
<1>6. Chunks[(m - 1) + 1].video = Chunks[m - 1].video + Chunks[m - 1].length
  BY <1>5, LayoutAssumption DEF LayoutAssumption
<1>7. (m - 1) + 1 = m
  BY <1>4, ChunkFields
<1>8. Chunks[i].video + Chunks[i].length <= Chunks[m - 1].video + Chunks[m - 1].length
  <2>1. CASE i = m - 1
    BY <2>1, <1>5, ChunkFields
  <2>2. CASE i < m - 1
    <3>1. m - 1 \notin Bad
      BY <1>4, <1>5, ChunkFields
    <3>2. Chunks[i].video + Chunks[i].length <= Chunks[m - 1].video
      BY <2>2, <3>1, <1>5
    <3>3. QED
      BY <3>2, <1>5, ChunkFields
  <2>3. QED
    BY <2>1, <2>2, <1>5, ChunkFields
<1>9. QED
  BY <1>4, <1>6, <1>7, <1>8

\* Within a chunk, video bytes and assembled bytes advance together.
LEMMA SameChunk ==
  ASSUME NEW c \in Nat, ChunkOf(c) # NoChunk,
         NEW v \in Nat, c <= v, v <= c + ChunkRemaining(c) - 1
  PROVE  VideoToAssembled(v) = VideoToAssembled(c) + (v - c)
<1> DEFINE k == ChunkOf(c)
           Holds(j, x) == Chunks[j].video <= x /\ x < Chunks[j].video + Chunks[j].length
           holding == {j \in DOMAIN Chunks : Holds(j, v)}
<1>1. k \in DOMAIN Chunks /\ Holds(k, c)
  BY ChunkOfSound
<1>2. Holds(k, v)
  BY <1>1, ChunkFields DEF ChunkRemaining
<1>3. ASSUME NEW j \in DOMAIN Chunks, Holds(j, v) PROVE j = k
  <2>1. ~ (j < k) /\ ~ (k < j)
    BY <1>1, <1>2, <1>3, ChunksOrdered, ChunkFields
  <2>2. QED
    BY <1>1, <2>1, ChunkFields
<1>4. holding # {} /\ holding \subseteq Nat
  BY <1>1, <1>2, ChunkFields
<1>5. Min(holding) \in holding
  <2> HIDE DEF holding
  <2> QED BY <1>4, MinExists
<1>6. ChunkOf(v) = k
  <2>1. ChunkOf(v) = Min(holding)
    BY <1>4 DEF ChunkOf
  <2>2. QED
    BY <1>3, <1>5, <2>1
<1>7. QED
  BY <1>1, <1>6, ChunkFields DEF VideoToAssembled

\* Where an open stream stands, in numbers.
LEMMA PlaceTypes ==
  ASSUME TypeInv, DeliveryInv, NEW r \in Requests, pc[r] \notin Ended \cup {"idle"}
  PROVE  /\ asked[r] \in Ranges /\ asked[r][1] \in Nat /\ asked[r][2] \in Nat
         /\ cursor[r] \in Nat /\ asked[r][1] <= cursor[r] /\ cursor[r] <= asked[r][2]
         /\ ChunkOf(cursor[r]) # NoChunk
         /\ VideoToAssembled(cursor[r]) \in Nat /\ aPos[r] \in Nat
         /\ VideoToAssembled(cursor[r]) <= aPos[r]
         /\ VideoChunkEnd(r) \in Nat /\ cursor[r] <= VideoChunkEnd(r)
         /\ VideoChunkEnd(r) <= asked[r][2]
         /\ VideoChunkEnd(r) <= cursor[r] + ChunkRemaining(cursor[r]) - 1
         /\ AssembledChunkEnd(r) = VideoToAssembled(cursor[r]) + (VideoChunkEnd(r) - cursor[r])
         /\ aPos[r] <= AssembledChunkEnd(r) + 1
<1>1. /\ asked[r] \in Ranges /\ cursor[r] \in Nat /\ aPos[r] \in Nat
      /\ ChunkOf(cursor[r]) # NoChunk /\ cursor[r] <= asked[r][2]
      /\ asked[r][1] \in Nat /\ asked[r][2] \in Nat
  BY RangeFields DEF TypeInv, TypeOK, PositionsOK
<1>2. /\ ChunkRemaining(cursor[r]) \in Nat \ {0}
      /\ VideoToAssembled(cursor[r]) \in Nat
  BY <1>1, ChunkOfSound, ChunkFields DEF ChunkRemaining, VideoToAssembled
<1>3. /\ VideoChunkEnd(r) \in {cursor[r] + ChunkRemaining(cursor[r]) - 1, asked[r][2]}
      /\ VideoChunkEnd(r) <= asked[r][2]
      /\ VideoChunkEnd(r) <= cursor[r] + ChunkRemaining(cursor[r]) - 1
  <2>1. cursor[r] + ChunkRemaining(cursor[r]) - 1 \in Int /\ asked[r][2] \in Int
    BY <1>1, <1>2
  <2>2. QED
    BY <2>1, PairBounds DEF VideoChunkEnd
<1>4. VideoChunkEnd(r) \in Nat /\ cursor[r] <= VideoChunkEnd(r)
  BY <1>1, <1>2, <1>3
<1>5. QED
  BY <1>1, <1>2, <1>3, <1>4 DEF AssembledChunkEnd, DeliveryInv, InPlace

\* What an open stream has sent is no more than its body.
LEMMA SentSoFar ==
  ASSUME TypeInv, DeliveryInv, NEW r \in Requests, pc[r] \notin Ended \cup {"idle"}
  PROVE  /\ Delivered(r) \in Nat
         /\ Delivered(r) <= (VideoChunkEnd(r) + 1) - asked[r][1]
         /\ Len(sent[r]) = Delivered(r)
<1>1. /\ Delivered(r) \in Nat /\ Delivered(r) <= (VideoChunkEnd(r) + 1) - asked[r][1]
  BY PlaceTypes DEF Delivered
<1>2. sent[r] = Prefix(asked[r], Delivered(r))
  BY DEF DeliveryInv
<1>3. QED
  BY <1>1, <1>2 DEF Prefix

-----------------------------------------------------------------------------

StatusOf == [r \in Requests |-> IF pc[r] \in Ended \cup {"idle"} THEN pc[r] ELSE "open"]

\* A stream that ends before its range does breaks off; one that ends at the
\* end of its range has sent the body.
LEMMA EndDelivers ==
  ASSUME TypeInv, DeliveryInv, NEW r \in Requests, pc[r] \notin Ended \cup {"idle"},
         NEW how \in Ended, EndStream(r, how), UNCHANGED <<asked, sent>>,
         how = "done" => sent[r] = Delivery!Body(asked[r])
  PROVE  DeliveryInv' /\ Delivery!Next
<1>1. /\ pc'[r] = how
      /\ \A q \in Requests \ {r} : pc'[q] = pc[q] /\ cursor'[q] = cursor[q] /\ aPos'[q] = aPos[q]
  BY DEF EndStream, TypeInv, TypeOK
<1>2. DeliveryInv'
  <2>1. ASSUME NEW q \in Requests, pc'[q] \notin Ended
        PROVE  /\ pc'[q] = pc[q] /\ cursor'[q] = cursor[q] /\ aPos'[q] = aPos[q]
               /\ asked'[q] = asked[q] /\ sent'[q] = sent[q]
    BY <1>1, <2>1
  <2>2. "idle" \notin Ended
    BY DEF Ended
  <2>3. QED
    BY <2>1, <2>2 DEF DeliveryInv, InPlace, Delivered, AssembledChunkEnd, VideoChunkEnd
<1>3. StatusOf' = [StatusOf EXCEPT ![r] = how] /\ StatusOf[r] = "open"
  BY <1>1 DEF StatusOf
<1>4. Delivery!Finish(r) \/ Delivery!Break(r)
  BY <1>3 DEF Delivery!Finish, Delivery!Break, StatusOf, Ended
<1>5. QED
  BY <1>2, <1>4 DEF Delivery!Next

\* A stream that stays open and neither moves nor sends stutters.
LEMMA StayDelivers ==
  ASSUME TypeInv, DeliveryInv, NEW r \in Requests, pc[r] \notin Ended \cup {"idle"},
         pc' \in [Requests -> Place],
         pc'[r] \notin Ended \cup {"idle"},
         pc'[r] \in {"locate", "fill", "read"} => aPos[r] <= AssembledChunkEnd(r),
         \A q \in Requests \ {r} : pc'[q] = pc[q],
         UNCHANGED <<cursor, aPos, asked, sent>>
  PROVE  DeliveryInv' /\ UNCHANGED Delivery!vars
<1>1. DeliveryInv'
  <2>1. ASSUME NEW q \in Requests
        PROVE  /\ pc'[q] = "idle" => pc[q] = "idle"
               /\ pc'[q] \notin Ended \cup {"idle"} => pc[q] \notin Ended \cup {"idle"}
               /\ pc'[q] \in {"locate", "fill", "read"} =>
                    \/ pc[q] \in {"locate", "fill", "read"}
                    \/ q = r /\ aPos[r] <= AssembledChunkEnd(r)
    BY <2>1
  <2>2. QED
    BY <2>1 DEF DeliveryInv, InPlace, Delivered, AssembledChunkEnd, VideoChunkEnd, Ended
<1>2. StatusOf' = StatusOf
  BY DEF StatusOf
<1>3. QED
  BY <1>1, <1>2 DEF Delivery!vars, StatusOf

\* Entering a chunk leaves the position in the range where it is.
LEMMA EnterDelivers ==
  ASSUME TypeInv, DeliveryInv, NEW r \in Requests, NEW v \in Nat, ChunkRemaining(v) # 0,
         EnterChunk(r, v), asked'[r] \in Ranges, asked'[r][1] <= v, v <= asked'[r][2],
         sent[r] = Prefix(asked'[r], v - asked'[r][1]),
         \A q \in Requests \ {r} : asked'[q] = asked[q],
         sent' = sent
  PROVE  DeliveryInv'
<1>1. /\ pc'[r] = "locate" /\ cursor'[r] = v /\ aPos'[r] = VideoToAssembled(v)
      /\ \A q \in Requests \ {r} : pc'[q] = pc[q] /\ cursor'[q] = cursor[q] /\ aPos'[q] = aPos[q]
  BY DEF EnterChunk, TypeInv, TypeOK
<1>2. ASSUME NEW q \in Requests, q # r
      PROVE  /\ pc'[q] = "idle" => sent'[q] = <<>>
             /\ pc'[q] \notin Ended \cup {"idle"} =>
                  InPlace(q)' /\ sent'[q] = Prefix(asked'[q], Delivered(q)')
  BY <1>1, <1>2 DEF DeliveryInv, InPlace, Delivered, AssembledChunkEnd, VideoChunkEnd
<1>3. InPlace(r)' /\ Delivered(r)' = v - asked'[r][1]
  <2>1. ChunkRemaining(v) \in Nat \ {0} /\ VideoToAssembled(v) \in Nat
    BY RemainingIsMapped
  <2>2. asked'[r][1] \in Nat /\ asked'[r][2] \in Nat
    BY RangeFields
  <2>3. /\ Min({v + ChunkRemaining(v) - 1, asked'[r][2]})
             \in {v + ChunkRemaining(v) - 1, asked'[r][2]}
    <3>1. v + ChunkRemaining(v) - 1 \in Int /\ asked'[r][2] \in Int
      BY <2>1, <2>2
    <3>2. QED
      BY <3>1, PairBounds
  <2>4. Min({v + ChunkRemaining(v) - 1, asked'[r][2]}) >= v
        /\ Min({v + ChunkRemaining(v) - 1, asked'[r][2]}) \in Int
    BY <2>1, <2>2, <2>3
  <2>5. AssembledChunkEnd(r)' = VideoToAssembled(v)
                                  + (Min({v + ChunkRemaining(v) - 1, asked'[r][2]}) - v)
    BY <1>1 DEF AssembledChunkEnd, VideoChunkEnd
  <2>6. VideoToAssembled(v) <= AssembledChunkEnd(r)' /\ AssembledChunkEnd(r)' \in Int
    BY <2>1, <2>4, <2>5
  <2>7. QED
    BY <1>1, <2>1, <2>2, <2>6 DEF InPlace, Delivered
<1>4. QED
  BY <1>1, <1>2, <1>3 DEF DeliveryInv, Ended

\* After a segment the stream goes on in its range, or ends having sent all of it.
LEMMA NextSegmentDelivers ==
  ASSUME TypeInv, DeliveryInv, NEW r \in Requests, pc[r] \notin Ended \cup {"idle"},
         NextSegment(r), UNCHANGED <<asked, sent>>
  PROVE  DeliveryInv' /\ [Delivery!Next]_(Delivery!vars)
<1> DEFINE next == VideoChunkEnd(r) + 1
<1>1. next \in Nat /\ asked[r] \in Ranges /\ asked[r][1] <= next
  BY PlaceTypes
<1>2. sent[r] = Prefix(asked[r], Delivered(r))
  BY DEF DeliveryInv
<1>3. ~ (aPos[r] <= AssembledChunkEnd(r)) => Delivered(r) = next - asked[r][1]
  BY PlaceTypes DEF Delivered
<1>4. CASE aPos[r] <= AssembledChunkEnd(r)
  <2>1. /\ pc' = [pc EXCEPT ![r] = "locate"] /\ UNCHANGED <<todo, cursor, aPos>>
    BY <1>4 DEF NextSegment
  <2>2. /\ pc' \in [Requests -> Place] /\ pc'[r] = "locate"
        /\ \A q \in Requests \ {r} : pc'[q] = pc[q]
    BY <2>1 DEF TypeInv, TypeOK, Place
  <2>3. pc'[r] \notin Ended \cup {"idle"}
    BY <2>2 DEF Ended
  <2>4. QED
    BY <1>4, <2>1, <2>2, <2>3, StayDelivers
<1>5. CASE ~ (aPos[r] <= AssembledChunkEnd(r)) /\ next > asked[r][2]
  <2>1. EndStream(r, "done") /\ "done" \in Ended
    BY <1>5 DEF NextSegment, Ended
  <2>2. next = asked[r][2] + 1
    BY <1>5, PlaceTypes
  <2>3. sent[r] = Delivery!Body(asked[r])
    <3>1. Delivered(r) = asked[r][2] - asked[r][1] + 1
      BY <1>3, <1>5, <2>2, PlaceTypes
    <3>2. QED
      BY <1>2, <3>1 DEF Prefix, Delivery!Body
  <2>4. QED
    BY <2>1, <2>3, EndDelivers
<1>6. CASE ~ (aPos[r] <= AssembledChunkEnd(r)) /\ ~ (next > asked[r][2])
           /\ ChunkRemaining(next) = 0
  <2>1. EndStream(r, "failed") /\ "failed" \in Ended /\ "failed" # "done"
    BY <1>6 DEF NextSegment, Ended
  <2>2. QED
    BY <2>1, EndDelivers
<1>7. CASE ~ (aPos[r] <= AssembledChunkEnd(r)) /\ ~ (next > asked[r][2])
           /\ ChunkRemaining(next) # 0
  <2>1. EnterChunk(r, next) /\ UNCHANGED todo
    BY <1>7 DEF NextSegment
  <2>2. next <= asked[r][2]
    BY <1>1, <1>7, RangeFields
  <2>3. sent[r] = Prefix(asked[r], next - asked[r][1])
    BY <1>2, <1>3, <1>7
  <2>4. DeliveryInv'
    <3> HIDE DEF next
    <3> QED BY <1>1, <1>7, <2>1, <2>2, <2>3, EnterDelivers
  <2>5. StatusOf' = StatusOf
    <3>1. pc' = [pc EXCEPT ![r] = "locate"]
      BY <2>1 DEF EnterChunk
    <3>2. QED
      BY <3>1 DEF StatusOf, Ended, TypeInv, TypeOK
  <2>6. QED
    BY <2>4, <2>5 DEF Delivery!vars, StatusOf
<1>8. QED
  BY <1>4, <1>5, <1>6, <1>7

\* A prefix grows by the assembled bytes that follow it.
LEMMA PrefixGrows ==
  ASSUME NEW range, NEW d \in Nat, NEW p \in Int, NEW m \in Nat,
         Prefix(range, d) \in Seq(Int),
         \A i \in d + 1 .. d + m : VideoToAssembled(range[1] + i - 1) = p + (i - d) - 1
  PROVE  Prefix(range, d) \o [i \in 1 .. m |-> p + i - 1] = Prefix(range, d + m)
<1> DEFINE s == Prefix(range, d)
           t == [i \in 1 .. m |-> p + i - 1]
           u == s \o t
<1>1. s \in Seq(Int) /\ Len(s) = d
  BY DEF Prefix
<1>2. t \in Seq(Int) /\ Len(t) = m
  OBVIOUS
<1>3. \A i \in 1 .. d : s[i] = VideoToAssembled(range[1] + i - 1)
  BY DEF Prefix
<1>4. \A i \in 1 .. m : t[i] = p + i - 1
  OBVIOUS
<1> HIDE DEF s, t
<1>5. /\ u \in Seq(Int) /\ Len(u) = d + m
      /\ \A i \in 1 .. d + m : u[i] = IF i <= d THEN s[i] ELSE t[i - d]
  BY <1>1, <1>2, ConcatProperties
<1>6. \A i \in 1 .. d + m : u[i] = VideoToAssembled(range[1] + i - 1)
  <2>1. TAKE i \in 1 .. d + m
  <2>2. CASE i <= d
    BY <1>3, <1>5, <2>2
  <2>3. CASE ~ (i <= d)
    <3>1. u[i] = p + (i - d) - 1
      BY <1>4, <1>5, <2>3
    <3>2. QED
      BY <2>3, <3>1
  <2>4. QED
    BY <2>2, <2>3
<1> HIDE DEF u
<1>7. u = Prefix(range, d + m)
  BY <1>5, <1>6 DEF Prefix
<1>8. QED
  BY <1>7 DEF s, t, u

\* One read sends what follows in the range.
LEMMA ReadDelivers ==
  ASSUME TypeInv, DeliveryInv, NEW r \in Requests, ReadChunk(r)
  PROVE  DeliveryInv' /\ Delivery!Next
<1> DEFINE upto == Min({aPos[r] + ChunkSize - 1, ReadEnd(r)})
           n == Delivered(r) + (upto - aPos[r] + 1)
<1>1. /\ pc[r] = "read"
      /\ sent' = [sent EXCEPT ![r] = @ \o [i \in 1 .. upto - aPos[r] + 1 |-> aPos[r] + i - 1]]
      /\ aPos' = [aPos EXCEPT ![r] = upto + 1]
      /\ pc' = [pc EXCEPT ![r] = IF upto = ReadEnd(r) THEN "evict" ELSE "read"]
      /\ UNCHANGED <<cacheVars, asked, cursor, window, todo, fills>>
  BY DEF ReadChunk
<1>2. pc[r] \notin Ended \cup {"idle"}
  BY <1>1 DEF Ended
<1>3. /\ upto \in Nat /\ aPos[r] \in Nat /\ aPos[r] <= upto
      /\ upto <= AssembledChunkEnd(r) /\ AssembledChunkEnd(r) \in Nat
      /\ upto # ReadEnd(r) => upto + 1 <= AssembledChunkEnd(r)
  <2>1. /\ FindSegment(aPos[r]) \in SegmentIdx
        /\ aPos[r] \in SegmentBytes(FindSegment(aPos[r]))
        /\ ReadEnd(r) \in Nat
    BY <1>1, ReadTypes
  <2>2. AssembledChunkEnd(r) \in Nat /\ aPos[r] <= AssembledChunkEnd(r) /\ aPos[r] \in Nat
    BY <1>1, <1>2, WalkTypes DEF DeliveryInv, InPlace, TypeInv, TypeOK
  <2>3. /\ SegmentEnd(FindSegment(aPos[r])) - 1 \in Int
        /\ aPos[r] <= SegmentEnd(FindSegment(aPos[r])) - 1
    BY <2>1, <2>2, SegmentFields DEF SegmentBytes
  <2>4. /\ ReadEnd(r) \in {SegmentEnd(FindSegment(aPos[r])) - 1, AssembledChunkEnd(r)}
        /\ ReadEnd(r) <= AssembledChunkEnd(r)
    <3>1. SegmentEnd(FindSegment(aPos[r])) - 1 \in Int /\ AssembledChunkEnd(r) \in Int
      BY <2>2, <2>3
    <3>2. QED
      BY <3>1, PairBounds DEF ReadEnd
  <2>5. ChunkSize \in Nat \ {0}
    BY PipelineAssumption DEF PipelineAssumption
  <2>6. upto \in {aPos[r] + ChunkSize - 1, ReadEnd(r)} /\ upto <= ReadEnd(r)
    <3>1. aPos[r] + ChunkSize - 1 \in Int /\ ReadEnd(r) \in Int
      BY <2>1, <2>2, <2>5
    <3>2. QED
      BY <3>1, PairBounds
  <2> HIDE DEF upto
  <2>7. QED
    BY <2>1, <2>2, <2>3, <2>4, <2>5, <2>6
<1> HIDE DEF upto
<1>4. /\ n \in Nat /\ Delivered(r) \in Nat /\ Delivered(r) < n
      /\ n <= asked[r][2] - asked[r][1] + 1
      /\ Delivered(r) = (cursor[r] - asked[r][1]) + (aPos[r] - VideoToAssembled(cursor[r]))
  <2>1. /\ Delivered(r) \in Nat
        /\ Delivered(r) = (cursor[r] - asked[r][1]) + (aPos[r] - VideoToAssembled(cursor[r]))
    BY <1>2, SentSoFar DEF Delivered
  <2>2. QED
    BY <1>2, <1>3, <2>1, PlaceTypes
<1>5. sent'[r] = Prefix(asked[r], n)
  <2> DEFINE m == upto - aPos[r] + 1
             d == Delivered(r)
  <2>1. d \in Nat /\ m \in Nat /\ aPos[r] \in Int /\ n = d + m
    BY <1>3, <1>4
  <2>2. sent[r] = Prefix(asked[r], d)
    BY <1>2 DEF DeliveryInv
  <2>3. Prefix(asked[r], d) \in Seq(Int)
    <3>1. sent[r] \in Seq(AssembledBytes) /\ AssembledBytes \subseteq Int
      BY SegmentWithin, SegmentFields DEF AssembledBytes, TypeInv, TypeOK
    <3>2. \A i \in 1 .. Len(sent[r]) : sent[r][i] \in Int
      BY <3>1, ElementOfSeq
    <3>3. \A i \in 1 .. d : Prefix(asked[r], d)[i] \in Int
      <4> HIDE DEF d
      <4>1. Len(Prefix(asked[r], d)) = d
        BY <2>1 DEF Prefix
      <4>2. QED
        BY <2>2, <3>2, <4>1
    <3> HIDE DEF d
    <3>4. QED
      BY <2>1, <3>3 DEF Prefix
  <2>4. ASSUME NEW i \in d + 1 .. d + m
        PROVE  VideoToAssembled(asked[r][1] + i - 1) = aPos[r] + (i - d) - 1
    <3> DEFINE v == asked[r][1] + i - 1
    <3>1. /\ v \in Nat /\ cursor[r] <= v /\ v <= VideoChunkEnd(r)
          /\ v - cursor[r] = (aPos[r] - VideoToAssembled(cursor[r])) + (i - d) - 1
      BY <1>2, <1>3, <1>4, PlaceTypes
    <3>2. v <= cursor[r] + ChunkRemaining(cursor[r]) - 1
      <4>1. ChunkRemaining(cursor[r]) \in Nat
        BY <1>2, PlaceTypes, ChunkOfSound, ChunkFields DEF ChunkRemaining
      <4>2. QED
        BY <1>2, <3>1, <4>1, PlaceTypes
    <3>3. VideoToAssembled(v) = VideoToAssembled(cursor[r]) + (v - cursor[r])
      <4> HIDE DEF v
      <4> QED BY <1>2, <3>1, <3>2, PlaceTypes, SameChunk
    <3>4. VideoToAssembled(cursor[r]) + (v - cursor[r]) = aPos[r] + (i - d) - 1
      BY <1>2, <1>4, <3>1, PlaceTypes
    <3>5. QED
      BY <3>3, <3>4
  <2>5. sent'[r] = sent[r] \o [i \in 1 .. m |-> aPos[r] + i - 1]
    BY <1>1 DEF TypeInv, TypeOK
  <2>6. Prefix(asked[r], d) \o [i \in 1 .. m |-> aPos[r] + i - 1] = Prefix(asked[r], d + m)
    <3> HIDE DEF d, m
    <3> QED BY <2>1, <2>3, <2>4, PrefixGrows
  <2>7. QED
    <3> HIDE DEF d, m, n
    <3> QED BY <2>1, <2>2, <2>5, <2>6
<1>6. DeliveryInv'
  <2>1. ASSUME NEW q \in Requests, q # r
        PROVE  /\ pc'[q] = pc[q] /\ cursor'[q] = cursor[q] /\ aPos'[q] = aPos[q]
               /\ asked'[q] = asked[q] /\ sent'[q] = sent[q]
    BY <1>1, <2>1 DEF TypeInv, TypeOK
  <2>2. ASSUME NEW q \in Requests, q # r
        PROVE  /\ pc'[q] = "idle" => sent'[q] = <<>>
               /\ pc'[q] \notin Ended \cup {"idle"} =>
                    InPlace(q)' /\ sent'[q] = Prefix(asked'[q], Delivered(q)')
    BY <2>1, <2>2 DEF DeliveryInv, InPlace, Delivered, AssembledChunkEnd, VideoChunkEnd
  <2>3. /\ pc'[r] = IF upto = ReadEnd(r) THEN "evict" ELSE "read"
        /\ aPos'[r] = upto + 1 /\ cursor' = cursor /\ asked' = asked
    BY <1>1 DEF TypeInv, TypeOK
  <2>4. AssembledChunkEnd(r)' = AssembledChunkEnd(r)
    BY <2>3 DEF AssembledChunkEnd, VideoChunkEnd
  <2>5. InPlace(r)'
    BY <1>2, <1>3, <2>3, <2>4, PlaceTypes DEF InPlace
  <2>6. Delivered(r)' = n
    BY <1>2, <1>3, <1>4, <2>3, PlaceTypes DEF Delivered
  <2>7. sent'[r] = Prefix(asked'[r], Delivered(r)')
    BY <1>5, <2>3, <2>6
  <2>8. pc'[r] # "idle"
    BY <2>3
  <2>9. QED
    BY <2>2, <2>5, <2>7, <2>8 DEF DeliveryInv
<1>7. Delivery!Send(r)
  <2>1. StatusOf[r] = "open" /\ StatusOf' = StatusOf /\ UNCHANGED asked
    BY <1>1, <1>2 DEF StatusOf, Ended, TypeInv, TypeOK
  <2>2. Len(sent[r]) = Delivered(r) /\ asked[r] \in Ranges
    BY <1>2, SentSoFar, PlaceTypes
  <2>3. /\ Len(Delivery!Body(asked[r])) = asked[r][2] - asked[r][1] + 1
        /\ SubSeq(Delivery!Body(asked[r]), 1, n) = Prefix(asked[r], n)
    <3>1. asked[r][1] \in Nat /\ asked[r][2] \in Nat
      BY <2>2, RangeFields
    <3> HIDE DEF n
    <3>2. QED
      BY <1>4, <3>1 DEF Delivery!Body, Prefix
  <2>4. n \in Len(sent[r]) + 1 .. Len(Delivery!Body(asked[r]))
    BY <1>4, <2>2, <2>3, <1>2, PlaceTypes
  <2>5. sent' = [sent EXCEPT ![r] = SubSeq(Delivery!Body(asked[r]), 1, n)]
    BY <1>1, <1>5, <2>3 DEF TypeInv, TypeOK
  <2>6. QED
    BY <2>1, <2>4, <2>5 DEF Delivery!Send, StatusOf
<1>8. QED
  BY <1>6, <1>7 DEF Delivery!Next

\* Nothing is sent before the first request.
LEMMA DeliveryInit == Init => DeliveryInv /\ Delivery!Init
BY DEF Init, DeliveryInv, Ended, Delivery!Init, Delivery!NoRange, NoRange

\* Every step keeps the invariant and is a step of RangeDelivery or a stutter.
LEMMA DeliveryStep ==
  TypeInv /\ DeliveryInv /\ [Next]_vars =>
    DeliveryInv' /\ [Delivery!Next]_(Delivery!vars)
<1> SUFFICES ASSUME TypeInv, DeliveryInv, [Next]_vars
             PROVE  DeliveryInv' /\ [Delivery!Next]_(Delivery!vars)
  OBVIOUS
<1> DEFINE Goal == DeliveryInv' /\ [Delivery!Next]_(Delivery!vars)
<1>1. ASSUME UNCHANGED <<pc, asked, cursor, aPos, sent>> PROVE Goal
  <2>1. DeliveryInv'
    BY <1>1 DEF DeliveryInv, InPlace, Delivered, AssembledChunkEnd, VideoChunkEnd
  <2>2. StatusOf' = StatusOf
    BY <1>1 DEF StatusOf
  <2>3. QED
    BY <1>1, <2>1, <2>2 DEF Delivery!vars, StatusOf
<1>2. ASSUME NEW r \in Requests, NEW range \in Ranges, OpenRequest(r, range) PROVE Goal
  <2>1. /\ pc[r] = "idle" /\ asked' = [asked EXCEPT ![r] = range]
        /\ sent' = sent
    BY <1>2 DEF OpenRequest
  <2>2. /\ sent[r] = <<>> /\ asked'[r] = range
        /\ \A q \in Requests \ {r} : asked'[q] = asked[q]
    BY <2>1 DEF DeliveryInv, TypeInv, TypeOK
  <2>3. CASE ChunkRemaining(range[1]) = 0
    <3>1. EndStream(r, "failed")
      BY <1>2, <2>3 DEF OpenRequest
    <3>2. /\ pc'[r] = "failed"
          /\ \A q \in Requests \ {r} :
               pc'[q] = pc[q] /\ cursor'[q] = cursor[q] /\ aPos'[q] = aPos[q]
      BY <3>1 DEF EndStream, TypeInv, TypeOK
    <3>3. ASSUME NEW q \in Requests, pc'[q] \notin Ended
          PROVE  /\ pc'[q] = pc[q] /\ cursor'[q] = cursor[q] /\ aPos'[q] = aPos[q]
                 /\ asked'[q] = asked[q] /\ sent'[q] = sent[q]
      BY <2>1, <2>2, <3>2, <3>3 DEF Ended
    <3>4. "idle" \notin Ended
      BY DEF Ended
    <3>5. DeliveryInv'
      BY <3>3, <3>4 DEF DeliveryInv, InPlace, Delivered, AssembledChunkEnd, VideoChunkEnd
    <3>6. StatusOf' = [StatusOf EXCEPT ![r] = "failed"] /\ StatusOf[r] = "idle"
      BY <2>1, <3>2 DEF StatusOf, Ended
    <3>7. Delivery!Open(r)
      BY <2>1, <3>6 DEF Delivery!Open, StatusOf
    <3>8. QED
      BY <3>5, <3>7 DEF Delivery!Next
  <2>4. CASE ChunkRemaining(range[1]) # 0
    <3>1. EnterChunk(r, range[1])
      BY <1>2, <2>4 DEF OpenRequest
    <3>2. range[1] \in Nat /\ range[1] <= range[2] /\ range[1] - range[1] = 0
      BY RangeFields
    <3>3. sent[r] = Prefix(range, 0)
      BY <2>2 DEF Prefix
    <3>4. DeliveryInv'
      BY <2>1, <2>2, <2>4, <3>1, <3>2, <3>3, EnterDelivers
    <3>5. StatusOf' = [StatusOf EXCEPT ![r] = "open"] /\ StatusOf[r] = "idle"
      BY <2>1, <3>1 DEF StatusOf, Ended, EnterChunk, TypeInv, TypeOK
    <3>6. Delivery!Open(r)
      BY <2>1, <3>5 DEF Delivery!Open, StatusOf
    <3>7. QED
      BY <3>4, <3>6 DEF Delivery!Next
  <2>5. QED
    BY <2>3, <2>4
<1>3. ASSUME NEW r \in Requests, NEW how \in Ended, EndStream(r, how), how # "done",
             pc[r] \notin Ended \cup {"idle"}, UNCHANGED <<asked, sent>>
      PROVE  Goal
  BY <1>3, EndDelivers
<1>4. ASSUME NEW r \in Requests, NEW p \in {"locate", "fill", "read", "punch", "forget", "advance"},
             pc' = [pc EXCEPT ![r] = p], pc[r] \notin Ended \cup {"idle"},
             p \in {"locate", "fill", "read"} => pc[r] \in {"locate", "fill", "read"},
             UNCHANGED <<cursor, aPos, asked, sent>>
      PROVE  Goal
  <2>1. /\ pc' \in [Requests -> Place] /\ pc'[r] = p
        /\ \A q \in Requests \ {r} : pc'[q] = pc[q]
    BY <1>4 DEF TypeInv, TypeOK, Place
  <2>2. p \notin Ended \cup {"idle"}
    BY DEF Ended
  <2>3. p \in {"locate", "fill", "read"} => aPos[r] <= AssembledChunkEnd(r)
    BY <1>4 DEF DeliveryInv, InPlace
  <2>4. QED
    BY <1>4, <2>1, <2>2, <2>3, StayDelivers
<1>5. ASSUME NEW r \in Requests, Locate(r) PROVE Goal
  <2>1. pc[r] = "locate" /\ UNCHANGED <<asked, sent>>
    BY <1>5 DEF Locate
  <2>2. \/ EndStream(r, "failed")
        \/ \E p \in {"fill", "read"} : pc' = [pc EXCEPT ![r] = p] /\ UNCHANGED <<cursor, aPos>>
    BY <1>5 DEF Locate, walkVars
  <2>3. "failed" \in Ended /\ pc[r] \notin Ended \cup {"idle"}
    BY <2>1 DEF Ended
  <2>4. QED
    BY <1>3, <1>4, <2>1, <2>2, <2>3
<1>6. ASSUME NEW r \in Requests, ReadChunk(r) PROVE Goal
  BY <1>6, ReadDelivers
<1>7. ASSUME NEW r \in Requests, ReadFails(r) \/ Disconnect(r) PROVE Goal
  <2>1. /\ pc[r] \notin Ended \cup {"idle"} /\ UNCHANGED <<asked, sent>>
        /\ \E how \in Ended : how # "done" /\ EndStream(r, how)
    BY <1>7 DEF ReadFails, Disconnect, Ended
  <2>2. QED
    BY <1>3, <2>1
<1>8. ASSUME NEW r \in Requests,
             StartEvict(r) \/ Punch(r) \/ PunchFails(r) \/ Forget(r) \/ Advance(r)
      PROVE  Goal
  <2>1. /\ pc[r] \notin Ended \cup {"idle"} /\ UNCHANGED <<asked, sent>>
        /\ \/ NextSegment(r)
           \/ \E p \in {"punch", "forget", "advance"} :
                pc' = [pc EXCEPT ![r] = p] /\ UNCHANGED <<cursor, aPos>>
    BY <1>8 DEF StartEvict, Punch, PunchFails, Forget, Advance, Ended, walkVars
  <2>2. QED
    BY <1>4, <2>1, NextSegmentDelivers
<1>9. ASSUME NEW r \in Requests, Prefetch(r) PROVE Goal
  BY <1>1, <1>9 DEF Prefetch, walkVars
<1>10. ASSUME NEW f \in fills, FillWrite(f) \/ FillDrop(f) PROVE Goal
  BY <1>1, <1>10 DEF FillWrite, FillDrop, walkVars
<1>11. ASSUME NEW f \in fills, FillInsert(f) PROVE Goal
  <2>1. f.req \in Requests
    BY DEF TypeInv, TypeOK, Fill
  <2>2. /\ UNCHANGED <<cursor, aPos, asked, sent>>
        /\ \/ UNCHANGED pc
           \/ pc[f.req] = "fill" /\ pc' = [pc EXCEPT ![f.req] = "read"]
    BY <1>11 DEF FillInsert, walkVars
  <2>3. "fill" \notin Ended \cup {"idle"}
    BY DEF Ended
  <2>4. QED
    BY <1>1, <1>4, <2>1, <2>2, <2>3
<1>12. ASSUME NEW f \in fills, FillFail(f) PROVE Goal
  <2>1. f.req \in Requests
    BY DEF TypeInv, TypeOK, Fill
  <2>2. /\ UNCHANGED <<asked, sent>>
        /\ \/ pc[f.req] = "fill" /\ EndStream(f.req, "failed")
           \/ UNCHANGED <<pc, cursor, aPos>>
    BY <1>12 DEF FillFail, walkVars
  <2>3. "fill" \notin Ended \cup {"idle"} /\ "failed" \in Ended
    BY DEF Ended
  <2>4. QED
    BY <1>1, <1>3, <2>1, <2>2, <2>3
<1>13. CASE UNCHANGED vars
  BY <1>1, <1>13 DEF vars, walkVars
<1>14. QED
  BY <1>2, <1>5, <1>6, <1>7, <1>8, <1>9, <1>10, <1>11, <1>12, <1>13 DEF Next

(* The streams, however they overlap on the cache file and whatever it      *)
(* evicts, implement RangeDelivery: a body is the prefix of its range and a *)
(* body that ends normally is all of it.                                    *)
THEOREM StreamsDeliver == Spec => DeliverySpec
<1>1. Init => TypeInv /\ DeliveryInv /\ Delivery!Init
  BY TypeInit, DeliveryInit
<1>2. TypeInv /\ DeliveryInv /\ [Next]_vars =>
        (TypeInv /\ DeliveryInv)' /\ [Delivery!Next]_(Delivery!vars)
  BY TypeStep, DeliveryStep
<1>3. QED
  BY <1>1, <1>2, PTL DEF Spec, DeliverySpec, Delivery!Spec

-----------------------------------------------------------------------------
(* A client that keeps one request open at a time.                         *)

IsOpen(r) == pc[r] \notin Ended \cup {"idle"}

OneOpen == \A p, q \in Requests : IsOpen(p) /\ IsOpen(q) => p = q

\* While one request is open no other opens.
LEMMA OpenAlone ==
  ASSUME MaxOpen = 1, OneOpen, Cardinality(Open) < MaxOpen
  PROVE  \A q \in Requests : ~ IsOpen(q)
<1> SUFFICES ASSUME NEW q \in Requests, IsOpen(q) PROVE FALSE
  OBVIOUS
<1>1. Open = {q}
  BY DEF OneOpen, IsOpen, Open
<1>2. Cardinality(Open) = 1
  BY <1>1, FS_Singleton
<1>3. QED
  BY <1>2

\* A step of an open stream's own, which leaves the others where they are.
Moves(r) ==
  IsOpen(r) /\ pc'[r] # "idle" /\ \A p \in Requests \ {r} : pc'[p] = pc[p]

\* A step that does not open a request moves at most one, which is open.
LEMMA MoverIsOpen ==
  ASSUME TypeInv, [Next]_vars
  PROVE  \/ \E r \in Requests, range \in Ranges : OpenRequest(r, range)
         \/ pc' = pc
         \/ \E r \in Requests : Moves(r)
<1>1. ASSUME NEW r \in Requests, Locate(r) PROVE Moves(r)
  BY <1>1 DEF Locate, Moves, IsOpen, Ended, EndStream, TypeInv, TypeOK
<1>2. ASSUME NEW r \in Requests, ReadChunk(r) \/ ReadFails(r) \/ Disconnect(r)
      PROVE  Moves(r)
  BY <1>2 DEF ReadChunk, ReadFails, Disconnect, Moves, IsOpen, Ended, EndStream, TypeInv, TypeOK
<1>3. ASSUME NEW r \in Requests,
             StartEvict(r) \/ Punch(r) \/ PunchFails(r) \/ Forget(r) \/ Advance(r)
      PROVE  Moves(r)
  <2>1. IsOpen(r)
    BY <1>3 DEF StartEvict, Punch, PunchFails, Forget, Advance, IsOpen, Ended
  <2>2. \/ NextSegment(r)
        \/ \E p \in {"punch", "forget", "advance"} : pc' = [pc EXCEPT ![r] = p]
    BY <1>3 DEF StartEvict, Punch, PunchFails, Forget, Advance
  <2>3. QED
    BY <2>1, <2>2, MoveOn DEF Moves, TypeInv, TypeOK, Ended
<1>4. ASSUME NEW f \in fills, FillInsert(f) \/ FillFail(f) \/ FillWrite(f) \/ FillDrop(f)
      PROVE  pc' = pc \/ \E r \in Requests : Moves(r)
  <2>1. f.req \in Requests
    BY DEF TypeInv, TypeOK, Fill
  <2>2. \/ pc' = pc
        \/ pc[f.req] = "fill" /\ pc' = [pc EXCEPT ![f.req] = "read"]
        \/ pc[f.req] = "fill" /\ EndStream(f.req, "failed")
    BY <1>4 DEF FillInsert, FillFail, FillWrite, FillDrop
  <2>3. QED
    BY <2>1, <2>2 DEF Moves, IsOpen, Ended, EndStream, TypeInv, TypeOK
<1>5. ASSUME NEW r \in Requests, Prefetch(r) PROVE pc' = pc
  BY <1>5 DEF Prefetch
<1>6. QED
  BY <1>1, <1>2, <1>3, <1>4, <1>5 DEF Next, vars

\* A step opens at most the request it is of.
LEMMA OpensOnlyOne ==
  ASSUME TypeInv, [Next]_vars, NEW q \in Requests, ~ IsOpen(q), IsOpen(q)'
  PROVE  /\ Cardinality(Open) < MaxOpen
         /\ \A p \in Requests \ {q} : IsOpen(p)' => IsOpen(p)
<1>1. \/ \E r \in Requests, range \in Ranges : OpenRequest(r, range)
      \/ pc' = pc
      \/ \E r \in Requests : Moves(r)
  BY MoverIsOpen
<1>2. CASE pc' = pc
  BY <1>2 DEF IsOpen
<1>3. CASE \E r \in Requests : Moves(r)
  BY <1>3 DEF Moves, IsOpen
<1>4. CASE \E r \in Requests, range \in Ranges : OpenRequest(r, range)
  <2>1. PICK r \in Requests, range \in Ranges : OpenRequest(r, range)
    BY <1>4
  <2>2. Cardinality(Open) < MaxOpen /\ \A p \in Requests \ {r} : pc'[p] = pc[p]
    BY <2>1, MoveOn DEF OpenRequest, EndStream, EnterChunk, TypeInv, TypeOK
  <2>3. QED
    BY <2>2 DEF IsOpen
<1>5. QED
  BY <1>1, <1>2, <1>3, <1>4

\* So at most one request is open, ever.
LEMMA OneOpenStep ==
  ASSUME MaxOpen = 1, TypeInv, OneOpen, [Next]_vars
  PROVE  OneOpen'
<1> SUFFICES ASSUME NEW p \in Requests, NEW q \in Requests, IsOpen(p)', IsOpen(q)', p # q
             PROVE  FALSE
  BY DEF OneOpen
<1>1. ~ (IsOpen(p) /\ IsOpen(q))
  BY DEF OneOpen
<1>2. QED
  BY <1>1, OpensOnlyOne, OpenAlone

\* What an eviction is about to take ends a backbuffer behind its stream.
WindowsBehind ==
  \A r \in Requests : pc[r] = "punch" => window[r][2] <= aPos[r] - Backbuffer

\* A window that is not empty ends a backbuffer behind the playhead.
LEMMA WindowEnd ==
  ASSUME TypeOK, NEW playhead \in Nat,
         NEW w, w = EvictWindow(playhead, HeaderPin, Backbuffer)
  PROVE  /\ w[1] \in Nat /\ w[2] \in Nat
         /\ w[1] \in {watermark, HeaderPin} /\ w[1] >= watermark /\ w[1] >= HeaderPin
         /\ w[2] >= playhead - Backbuffer
         /\ w[2] > w[1] => w[2] = playhead - Backbuffer
<1> DEFINE floor == playhead - Backbuffer
<1>1. HeaderPin \in Nat /\ Backbuffer \in Nat /\ watermark \in Nat /\ floor \in Int
  BY PipelineAssumption DEF PipelineAssumption, TypeOK
<1>2. w = <<Max({watermark, HeaderPin}), Max({floor, 0, HeaderPin})>>
  BY DEF EvictWindow
<1> HIDE DEF floor
<1>3. /\ Max({watermark, HeaderPin}) \in {watermark, HeaderPin}
      /\ Max({watermark, HeaderPin}) >= watermark /\ Max({watermark, HeaderPin}) >= HeaderPin
  BY <1>1, PairBounds
<1>4. /\ Max({floor, 0, HeaderPin}) \in {floor, 0, HeaderPin}
      /\ Max({floor, 0, HeaderPin}) >= 0 /\ Max({floor, 0, HeaderPin}) >= floor
  BY <1>1 DEF Max
<1>5. QED
  BY <1>1, <1>2, <1>3, <1>4 DEF floor

\* Every step keeps windows behind.
LEMMA WindowsBehindStep ==
  ASSUME TypeInv, WindowsBehind, [Next]_vars
  PROVE  WindowsBehind'
<1>1. ASSUME NEW r \in Requests, pc'[r] = "punch", ~ StartEvict(r)
      PROVE  pc[r] = "punch" /\ aPos'[r] = aPos[r] /\ window'[r] = window[r]
  <2>1. ASSUME NEW q \in Requests, NEW range \in Ranges, OpenRequest(q, range)
        PROVE  /\ q # r /\ pc'[r] = pc[r] /\ aPos'[r] = aPos[r] /\ window'[r] = window[r]
    BY <1>1, <2>1 DEF OpenRequest, EndStream, EnterChunk, TypeInv, TypeOK
  <2>2. ASSUME NEW q \in Requests, q # r,
               \/ Locate(q) \/ ReadChunk(q) \/ ReadFails(q) \/ Disconnect(q) \/ StartEvict(q)
               \/ Punch(q) \/ PunchFails(q) \/ Forget(q) \/ Advance(q)
        PROVE  pc'[r] = pc[r] /\ aPos'[r] = aPos[r] /\ window'[r] = window[r]
    <3>1. CASE NextSegment(q)
      BY <2>2, <3>1, MoveOn
    <3>2. CASE ~ NextSegment(q)
      BY <2>2, <3>2 DEF Locate, ReadChunk, ReadFails, Disconnect, StartEvict, Punch, PunchFails,
                        Forget, Advance, EndStream, walkVars, TypeInv, TypeOK
    <3>3. QED
      BY <3>1, <3>2
  <2>3. ASSUME \/ Locate(r) \/ ReadChunk(r) \/ ReadFails(r) \/ Disconnect(r)
               \/ Punch(r) \/ PunchFails(r) \/ Forget(r) \/ Advance(r)
        PROVE  FALSE
    <3>1. CASE NextSegment(r)
      BY <1>1, <3>1, MoveOn DEF Ended
    <3>2. CASE ~ NextSegment(r)
      BY <1>1, <2>3, <3>2 DEF Locate, ReadChunk, ReadFails, Disconnect, Punch, PunchFails,
                              Forget, Advance, EndStream, walkVars, TypeInv, TypeOK
    <3>3. QED
      BY <3>1, <3>2
  <2>4. ASSUME NEW f \in fills, FillInsert(f) \/ FillFail(f) \/ FillWrite(f) \/ FillDrop(f)
        PROVE  pc'[r] = pc[r] /\ aPos'[r] = aPos[r] /\ window'[r] = window[r]
    <3>1. f.req \in Requests
      BY DEF TypeInv, TypeOK, Fill
    <3>2. QED
      BY <1>1, <2>4, <3>1
         DEF FillInsert, FillFail, FillWrite, FillDrop, EndStream, walkVars, TypeInv, TypeOK
  <2>5. ASSUME NEW q \in Requests, Prefetch(q)
        PROVE  pc'[r] = pc[r] /\ aPos'[r] = aPos[r] /\ window'[r] = window[r]
    BY <2>5 DEF Prefetch, walkVars
  <2>6. CASE UNCHANGED vars
    BY <1>1, <2>6 DEF vars, walkVars
  <2>7. QED
    BY <1>1, <2>1, <2>2, <2>3, <2>4, <2>5, <2>6 DEF Next
<1>2. ASSUME NEW r \in Requests, pc'[r] = "punch", StartEvict(r)
      PROVE  window'[r][2] <= aPos'[r] - Backbuffer
  <2> DEFINE w == EvictWindow(aPos[r], HeaderPin, Backbuffer)
  <2>1. ~ NextSegment(r)
    BY <1>2, MoveOn DEF Ended
  <2>2. w[2] > w[1] /\ window'[r] = w /\ aPos' = aPos
    BY <1>2, <2>1 DEF StartEvict, TypeInv, TypeOK
  <2>3. aPos[r] \in Nat /\ Backbuffer \in Nat
    BY PipelineAssumption DEF PipelineAssumption, TypeInv, TypeOK
  <2>4. w[2] = aPos[r] - Backbuffer
    <3> HIDE DEF w
    <3>1. w = EvictWindow(aPos[r], HeaderPin, Backbuffer)
      BY DEF w
    <3>2. QED
      BY <2>2, <2>3, <3>1, WindowEnd DEF TypeInv
  <2>5. QED
    BY <2>2, <2>3, <2>4
<1>3. QED
  BY <1>1, <1>2 DEF WindowsBehind

(* With one request open at a time, with or without read-ahead, no eviction *)
(* takes a byte less than a backbuffer behind the stream that is playing.   *)
THEOREM BackbufferStays == ASSUME MaxOpen = 1 PROVE Spec => BackbufferKept
<1>1. Init => TypeInv /\ OneOpen /\ WindowsBehind
  BY TypeInit DEF Init, OneOpen, IsOpen, WindowsBehind
<1>2. TypeInv /\ OneOpen /\ WindowsBehind /\ [Next]_vars =>
        (TypeInv /\ OneOpen /\ WindowsBehind)'
  BY TypeStep, OneOpenStep, WindowsBehindStep
<1>3. TypeInv /\ OneOpen /\ WindowsBehind /\ [Next]_vars =>
        [\A b \in data \ data' : \A r \in Open : b < aPos[r] - Backbuffer]_vars
  <2> SUFFICES ASSUME TypeInv, OneOpen, WindowsBehind, Next,
                      NEW b \in data \ data', NEW r \in Open
               PROVE  b < aPos[r] - Backbuffer
    OBVIOUS
  <2>1. r \in Requests /\ IsOpen(r)
    BY DEF Open, IsOpen
  <2>2. CASE \E q \in Requests : Punch(q)
    <3>1. PICK q \in Requests : Punch(q)
      BY <2>2
    <3>2. pc[q] = "punch" /\ b \in window[q][1] .. window[q][2] - 1
      BY <3>1 DEF Punch, PunchHole
    <3>3. q = r
      BY <2>1, <3>2 DEF OneOpen, IsOpen, Ended
    <3>4. /\ window[r][1] \in Nat /\ window[r][2] \in Nat /\ aPos[r] \in Nat /\ Backbuffer \in Nat
      BY <2>1, PipelineAssumption DEF PipelineAssumption, TypeInv, TypeOK
    <3>5. window[r][2] <= aPos[r] - Backbuffer
      BY <2>1, <3>2, <3>3 DEF WindowsBehind
    <3>6. QED
      BY <3>2, <3>3, <3>4, <3>5
  <2>3. CASE ~ \E q \in Requests : Punch(q)
    <3>1. data \subseteq data'
      BY <2>3, OnlyPunchesTake
    <3>2. QED
      BY <3>1
  <2>4. QED
    BY <2>2, <2>3
<1>4. QED
  BY <1>1, <1>2, <1>3, PTL DEF Spec, BackbufferKept

-----------------------------------------------------------------------------
(* Without read-ahead as well, a stream is alone on the file; what a         *)
(* disconnected one left under way can only add bytes to the file.           *)

NoPrefetch == (\A r \in Requests : todo[r] = {}) /\ (\A f \in fills : f.by = "stream")

\* What a waiting stream's fill has written is in the file still,
WrittenHonest ==
  \A f \in fills : f.at = "written" /\ pc[f.req] = "fill" => Payload(f.seg) \subseteq data

\* and so is what a stream is reading.
ReadsHonest ==
  \A r \in Requests : pc[r] = "read" =>
    SegmentBytes(FindSegment(aPos[r])) \subseteq data \cup ShortTails

AloneInv ==
  /\ OneOpen /\ NoPrefetch
  /\ BookkeepingHonest /\ WrittenHonest /\ ReadsHonest /\ NoHoleServed

\* The invariant holds of an empty file.
LEMMA AloneInit == Init => AloneInv
BY DEF Init, CacheInit, AloneInv, OneOpen, IsOpen, NoPrefetch, BookkeepingHonest, WrittenHonest,
       ReadsHonest, NoHoleServed

\* A read-ahead of one spawns no prefetcher.
LEMMA NoPrefetchStep ==
  ASSUME ReadAhead < 2, TypeInv, NoPrefetch, [Next]_vars
  PROVE  NoPrefetch'
<1>1. ASSUME NEW r \in Requests, NextSegment(r) \/ \E how : EndStream(r, how)
      PROVE  \A q \in Requests : todo'[q] = {}
  BY <1>1 DEF NextSegment, EndStream, NoPrefetch, TypeInv, TypeOK
<1>2. ASSUME NEW r \in Requests, NEW range \in Ranges, OpenRequest(r, range) PROVE NoPrefetch'
  <2>1. ReadAhead \in Nat
    BY PipelineAssumption DEF PipelineAssumption
  <2>2. \/ EndStream(r, "failed")
        \/ todo' = [todo EXCEPT ![r] = {}]
    BY <1>2, <2>1 DEF OpenRequest
  <2>3. fills' = fills
    BY <1>2 DEF OpenRequest
  <2>4. QED
    BY <1>1, <2>2, <2>3 DEF NoPrefetch, TypeInv, TypeOK
<1>3. ASSUME NEW r \in Requests, Locate(r) PROVE NoPrefetch'
  <2>1. \A f \in fills' : f.by = "stream"
    BY <1>3 DEF Locate, NoPrefetch
  <2>2. \A q \in Requests : todo'[q] = {}
    BY <1>1, <1>3 DEF Locate, NoPrefetch
  <2>3. QED
    BY <2>1, <2>2 DEF NoPrefetch
<1>4. ASSUME NEW r \in Requests,
             \/ ReadChunk(r) \/ ReadFails(r) \/ Disconnect(r) \/ StartEvict(r)
             \/ Punch(r) \/ PunchFails(r) \/ Forget(r) \/ Advance(r)
      PROVE  NoPrefetch'
  <2>1. fills' = fills
    BY <1>4 DEF ReadChunk, ReadFails, Disconnect, StartEvict, Punch, PunchFails, Forget, Advance
  <2>2. todo' = todo \/ NextSegment(r) \/ \E how : EndStream(r, how)
    BY <1>4 DEF ReadChunk, ReadFails, Disconnect, StartEvict, Punch, PunchFails, Forget, Advance
  <2>3. QED
    BY <1>1, <2>1, <2>2 DEF NoPrefetch
<1>5. ASSUME NEW r \in Requests, Prefetch(r) PROVE NoPrefetch'
  BY <1>5 DEF Prefetch, NoPrefetch
<1>6. ASSUME NEW f \in fills, FillInsert(f) \/ FillFail(f) \/ FillWrite(f) \/ FillDrop(f)
      PROVE  NoPrefetch'
  <2>1. f \in Fill /\ f.req \in Requests
    BY DEF TypeInv, TypeOK, Fill
  <2>2. [f EXCEPT !.at = "written"].by = f.by
    BY <2>1 DEF Fill
  <2>3. \A g \in fills' : g.by = "stream"
    BY <1>6, <2>2 DEF FillInsert, FillFail, FillWrite, FillDrop, NoPrefetch
  <2>4. todo' = todo \/ EndStream(f.req, "failed")
    BY <1>6 DEF FillInsert, FillFail, FillWrite, FillDrop
  <2>5. QED
    BY <1>1, <2>1, <2>3, <2>4 DEF NoPrefetch
<1>7. CASE UNCHANGED vars
  BY <1>7 DEF vars, NoPrefetch
<1>8. QED
  BY <1>2, <1>3, <1>4, <1>5, <1>6, <1>7 DEF Next

\* While no eviction is at work, what is claimed is in the file.
LEMMA ClaimsTrue ==
  ASSUME AloneInv, NEW r \in Requests, IsOpen(r), pc[r] # "forget"
  PROVE  populated \subseteq data
BY DEF AloneInv, BookkeepingHonest, OneOpen, IsOpen, Ended

\* A segment whose payload is in the file lacks only bytes of no article.
LEMMA SegmentServed ==
  ASSUME NEW i \in SegmentIdx, Payload(i) \subseteq data
  PROVE  SegmentBytes(i) \subseteq data \cup ShortTails
BY TailIsShort

\* A stream that moves on or ends where it holds no window keeps the invariant.
LEMMA AloneMoves ==
  ASSUME TypeInv, AloneInv, OneOpen', NoPrefetch', NEW r \in Requests,
         \/ NextSegment(r) \/ \E v : EnterChunk(r, v)
         \/ \E how \in Ended : EndStream(r, how),
         pc[r] # "forget",
         UNCHANGED <<data, populated, holes>>, fills' \subseteq fills
  PROVE  AloneInv'
<1>1. /\ pc'[r] \in Ended \cup {"locate"}
      /\ \A q \in Requests \ {r} :
           pc'[q] = pc[q] /\ aPos'[q] = aPos[q] /\ window'[q] = window[q]
  BY MoveOn
<1>2. \A q \in Requests : pc'[q] \in {"fill", "read"} => pc'[q] = pc[q] /\ aPos'[q] = aPos[q]
  BY <1>1 DEF Ended
<1>3. \A q \in Requests : pc[q] = "forget" => pc'[q] = "forget" /\ window'[q] = window[q]
  BY <1>1
<1>4. \A f \in fills : f.req \in Requests
  BY DEF TypeInv, TypeOK, Fill
<1>5. BookkeepingHonest' /\ NoHoleServed'
  BY <1>3 DEF AloneInv, BookkeepingHonest, NoHoleServed
<1>6. WrittenHonest'
  BY <1>2, <1>4 DEF AloneInv, WrittenHonest
<1>7. ReadsHonest'
  BY <1>2 DEF AloneInv, ReadsHonest
<1>8. QED
  BY <1>5, <1>6, <1>7 DEF AloneInv

\* Every step keeps the invariant.
LEMMA AloneStep ==
  ASSUME MaxOpen = 1, ReadAhead < 2, TypeInv, HoleInv, AloneInv, [Next]_vars
  PROVE  AloneInv'
<1>0. OneOpen' /\ NoPrefetch'
  BY OneOpenStep, NoPrefetchStep DEF AloneInv
<1>1. ASSUME NEW r \in Requests, NEW range \in Ranges, OpenRequest(r, range) PROVE AloneInv'
  <2>1. /\ EndStream(r, "failed") \/ EnterChunk(r, range[1])
        /\ pc[r] # "forget" /\ UNCHANGED <<data, populated, holes, fills>>
    BY <1>1 DEF OpenRequest, cacheVars
  <2>2. QED
    BY <1>0, <2>1, AloneMoves DEF Ended
<1>2. ASSUME NEW r \in Requests, Locate(r) PROVE AloneInv'
  <2> DEFINE seg == FindSegment(aPos[r])
             new == [req |-> r, seg |-> seg, by |-> "stream", at |-> "fetching"]
  <2>1. pc[r] = "locate" /\ UNCHANGED <<data, populated, holes>> /\ IsOpen(r)
    BY <1>2 DEF Locate, cacheVars, IsOpen, Ended
  <2>2. CASE seg = NoSegment
    <3>1. EndStream(r, "failed") /\ UNCHANGED fills
      BY <1>2, <2>2 DEF Locate
    <3>2. QED
      BY <1>0, <2>1, <3>1, AloneMoves DEF Ended
  <2>3. CASE seg # NoSegment
    <3>1. /\ UNCHANGED <<aPos, window>>
          /\ \/ /\ SegmentBytes(seg) \subseteq populated
                /\ pc' = [pc EXCEPT ![r] = "read"] /\ fills' = fills
             \/ pc' = [pc EXCEPT ![r] = "fill"] /\ fills' = fills \cup {new}
      BY <1>2, <2>3 DEF Locate, walkVars, HasRange
    <3>2. /\ \A q \in Requests \ {r} : pc'[q] = pc[q]
          /\ pc'[r] = "fill" \/ (pc'[r] = "read" /\ SegmentBytes(seg) \subseteq populated)
      BY <3>1 DEF TypeInv, TypeOK
    <3>3. populated \subseteq data
      BY <2>1, ClaimsTrue
    <3>4. BookkeepingHonest' /\ NoHoleServed'
      BY <2>1, <3>3 DEF AloneInv, BookkeepingHonest, NoHoleServed
    <3>5. WrittenHonest'
      <4>1. \A f \in fills : f.req \in Requests /\ f.by = "stream"
        BY DEF TypeInv, TypeOK, Fill, AloneInv, NoPrefetch
      <4>2. \A f \in fills : f.req # r
        BY <2>1, <4>1 DEF HoleInv, FillsOwned, Ended
      <4>3. \A f \in fills' : f.at = "written" => f \in fills
        BY <3>1
      <4>4. QED
        BY <2>1, <3>2, <4>1, <4>2, <4>3 DEF AloneInv, WrittenHonest
    <3>6. ReadsHonest'
      BY <2>1, <3>1, <3>2, <3>3 DEF AloneInv, ReadsHonest
    <3>7. QED
      BY <1>0, <3>4, <3>5, <3>6 DEF AloneInv
  <2>4. QED
    BY <2>2, <2>3
<1>3. ASSUME NEW r \in Requests, ReadChunk(r) PROVE AloneInv'
  <2> DEFINE upto == Min({aPos[r] + ChunkSize - 1, ReadEnd(r)})
  <2>1. /\ pc[r] = "read"
        /\ holes' = holes \cup ((aPos[r] .. upto) \ data)
        /\ aPos' = [aPos EXCEPT ![r] = upto + 1]
        /\ pc' = [pc EXCEPT ![r] = IF upto = ReadEnd(r) THEN "evict" ELSE "read"]
        /\ UNCHANGED <<data, populated, window, fills>>
    BY <1>3 DEF ReadChunk, cacheVars
  <2>2. /\ aPos[r] .. upto \subseteq SegmentBytes(FindSegment(aPos[r]))
        /\ upto # ReadEnd(r) => FindSegment(upto + 1) = FindSegment(aPos[r])
    BY <2>1, ChunkTypes, ReadTypes, FindSegmentComplete
  <2> HIDE DEF upto
  <2>3. /\ \A q \in Requests \ {r} : pc'[q] = pc[q] /\ aPos'[q] = aPos[q]
        /\ aPos'[r] = upto + 1
        /\ pc'[r] = IF upto = ReadEnd(r) THEN "evict" ELSE "read"
    BY <2>1 DEF TypeInv, TypeOK
  <2>4. BookkeepingHonest'
    BY <2>1, <2>3 DEF AloneInv, BookkeepingHonest
  <2>5. WrittenHonest'
    <3>1. \A f \in fills : f.req \in Requests
      BY DEF TypeInv, TypeOK, Fill
    <3>2. QED
      BY <2>1, <2>3, <3>1 DEF AloneInv, WrittenHonest
  <2>6. ReadsHonest'
    <3>1. ASSUME NEW q \in Requests, pc'[q] = "read"
          PROVE  pc[q] = "read" /\ FindSegment(aPos'[q]) = FindSegment(aPos[q])
      BY <2>1, <2>2, <2>3, <3>1
    <3>2. QED
      BY <2>1, <3>1 DEF AloneInv, ReadsHonest
  <2>7. NoHoleServed'
    BY <2>1, <2>2 DEF AloneInv, ReadsHonest, NoHoleServed
  <2>8. QED
    BY <1>0, <2>4, <2>5, <2>6, <2>7 DEF AloneInv
<1>4. ASSUME NEW r \in Requests, ReadFails(r) \/ Disconnect(r) PROVE AloneInv'
  <2>1. /\ EndStream(r, "failed") \/ EndStream(r, "closed")
        /\ pc[r] # "forget" /\ UNCHANGED <<data, populated, holes, fills>>
    BY <1>4 DEF ReadFails, Disconnect, cacheVars
  <2>2. QED
    BY <1>0, <2>1, AloneMoves DEF Ended
<1>5. ASSUME NEW r \in Requests, Prefetch(r) PROVE AloneInv'
  BY <1>5 DEF Prefetch, AloneInv, NoPrefetch
<1>6. ASSUME NEW r \in Requests, StartEvict(r) PROVE AloneInv'
  <2>1. pc[r] = "evict" /\ UNCHANGED <<data, populated, fills, holes>>
    BY <1>6 DEF StartEvict, cacheVars
  <2>2. CASE NextSegment(r)
    BY <1>0, <2>1, <2>2, AloneMoves
  <2>3. CASE ~ NextSegment(r)
    <3>1. /\ pc'[r] = "punch" /\ aPos' = aPos
          /\ \A q \in Requests \ {r} : pc'[q] = pc[q] /\ window'[q] = window[q]
      BY <1>6, <2>3 DEF StartEvict, TypeInv, TypeOK
    <3>2. \A f \in fills : f.req \in Requests
      BY DEF TypeInv, TypeOK, Fill
    <3>3. BookkeepingHonest' /\ NoHoleServed'
      BY <2>1, <3>1 DEF AloneInv, BookkeepingHonest, NoHoleServed
    <3>4. WrittenHonest' /\ ReadsHonest'
      BY <2>1, <3>1, <3>2 DEF AloneInv, WrittenHonest, ReadsHonest
    <3>5. QED
      BY <1>0, <3>3, <3>4 DEF AloneInv
  <2>4. QED
    BY <2>2, <2>3
<1>7. ASSUME NEW r \in Requests, Punch(r) PROVE AloneInv'
  <2>1. /\ pc[r] = "punch" /\ IsOpen(r)
        /\ data' = data \ (window[r][1] .. window[r][2] - 1)
        /\ UNCHANGED <<populated, holes, fills, aPos, window>>
        /\ pc' = [pc EXCEPT ![r] = "forget"]
    BY <1>7 DEF Punch, PunchHole, walkVars, IsOpen, Ended
  <2>2. pc'[r] = "forget" /\ \A q \in Requests \ {r} : pc'[q] = pc[q]
    BY <2>1 DEF TypeInv, TypeOK
  <2>3. \A q \in Requests : pc[q] \notin {"fill", "read"}
    BY <2>1 DEF AloneInv, OneOpen, IsOpen, Ended
  <2>4. BookkeepingHonest' /\ NoHoleServed'
    <3>1. populated \subseteq data
      BY <2>1, ClaimsTrue
    <3>2. QED
      BY <2>1, <2>2, <3>1 DEF AloneInv, BookkeepingHonest, NoHoleServed
  <2>5. WrittenHonest' /\ ReadsHonest'
    <3>1. \A f \in fills : f.req \in Requests
      BY DEF TypeInv, TypeOK, Fill
    <3>2. QED
      BY <2>1, <2>2, <2>3, <3>1 DEF WrittenHonest, ReadsHonest
  <2>6. QED
    BY <1>0, <2>4, <2>5 DEF AloneInv
<1>8. ASSUME NEW r \in Requests, PunchFails(r) \/ Advance(r) PROVE AloneInv'
  <2>1. /\ UNCHANGED <<data, populated, fills, holes>>
        /\ pc[r] # "forget" /\ NextSegment(r)
    BY <1>8 DEF PunchFails, Advance, StoreWatermark, cacheVars
  <2>2. QED
    BY <1>0, <2>1, AloneMoves
<1>9. ASSUME NEW r \in Requests, Forget(r) PROVE AloneInv'
  <2>1. /\ pc[r] = "forget" /\ IsOpen(r)
        /\ populated' = populated \ (window[r][1] .. window[r][2] - 1)
        /\ UNCHANGED <<data, holes, fills, aPos, window>>
        /\ pc' = [pc EXCEPT ![r] = "advance"]
    BY <1>9 DEF Forget, ForgetRange, walkVars, IsOpen, Ended
  <2>2. pc'[r] = "advance" /\ \A q \in Requests \ {r} : pc'[q] = pc[q]
    BY <2>1 DEF TypeInv, TypeOK
  <2>3. \A q \in Requests \ {r} : pc[q] # "forget"
    BY <2>1 DEF AloneInv, OneOpen, IsOpen, Ended
  <2>4. BookkeepingHonest' /\ NoHoleServed'
    BY <2>1, <2>2, <2>3 DEF AloneInv, BookkeepingHonest, NoHoleServed
  <2>5. WrittenHonest' /\ ReadsHonest'
    <3>1. \A f \in fills : f.req \in Requests
      BY DEF TypeInv, TypeOK, Fill
    <3>2. QED
      BY <2>1, <2>2, <3>1 DEF AloneInv, WrittenHonest, ReadsHonest
  <2>6. QED
    BY <1>0, <2>4, <2>5 DEF AloneInv
<1>10. ASSUME NEW f \in fills, FillWrite(f) PROVE AloneInv'
  <2> DEFINE written == [f EXCEPT !.at = "written"]
  <2>1. /\ data' = data \cup Payload(f.seg)
        /\ fills' = (fills \ {f}) \cup {written}
        /\ UNCHANGED <<populated, pc, aPos, window, holes>>
    BY <1>10 DEF FillWrite, WriteFile, walkVars
  <2>2. written.seg = f.seg /\ written.req = f.req
    BY DEF TypeInv, TypeOK, Fill
  <2> HIDE DEF written
  <2>3. BookkeepingHonest' /\ NoHoleServed' /\ ReadsHonest'
    BY <2>1 DEF AloneInv, BookkeepingHonest, NoHoleServed, ReadsHonest
  <2>4. WrittenHonest'
    BY <2>1, <2>2 DEF AloneInv, WrittenHonest
  <2>5. QED
    BY <1>0, <2>3, <2>4 DEF AloneInv
<1>11. ASSUME NEW f \in fills, FillInsert(f) PROVE AloneInv'
  <2>1. /\ f.at = "written" /\ f.by = "stream" /\ f.req \in Requests /\ f.seg \in SegmentIdx
    BY <1>11 DEF FillInsert, AloneInv, NoPrefetch, TypeInv, TypeOK, Fill
  <2>2. /\ pc[f.req] = "fill" /\ populated' = populated \cup Payload(f.seg)
        /\ fills' = fills \ {f} /\ pc' = [pc EXCEPT ![f.req] = "read"]
        /\ UNCHANGED <<data, aPos, window, holes>>
    BY <1>11, <2>1 DEF FillInsert, MarkPopulated, walkVars
  <2>3. pc'[f.req] = "read" /\ \A q \in Requests \ {f.req} : pc'[q] = pc[q]
    BY <2>1, <2>2 DEF TypeInv, TypeOK
  <2>4. Payload(f.seg) \subseteq data /\ f.seg = FindSegment(aPos[f.req])
    BY <2>1, <2>2 DEF AloneInv, WrittenHonest, HoleInv, FillsOwned
  <2>5. BookkeepingHonest' /\ NoHoleServed'
    BY <2>2, <2>3, <2>4 DEF AloneInv, BookkeepingHonest, NoHoleServed
  <2>6. WrittenHonest'
    <3>1. \A g \in fills : g.req \in Requests
      BY DEF TypeInv, TypeOK, Fill
    <3>2. QED
      BY <2>2, <2>3, <3>1 DEF AloneInv, WrittenHonest
  <2>7. ReadsHonest'
    <3>1. SegmentBytes(f.seg) \subseteq data \cup ShortTails
      BY <2>1, <2>4, SegmentServed
    <3>2. QED
      BY <2>2, <2>3, <2>4, <3>1 DEF AloneInv, ReadsHonest
  <2>8. QED
    BY <1>0, <2>5, <2>6, <2>7 DEF AloneInv
<1>12. ASSUME NEW f \in fills, FillFail(f) \/ FillDrop(f) PROVE AloneInv'
  <2>1. /\ UNCHANGED <<data, populated, holes>> /\ fills' \subseteq fills
        /\ \/ pc[f.req] = "fill" /\ EndStream(f.req, "failed")
           \/ UNCHANGED <<pc, aPos, window>>
    BY <1>12 DEF FillFail, FillDrop, cacheVars, walkVars
  <2>2. f.req \in Requests
    BY DEF TypeInv, TypeOK, Fill
  <2>3. CASE pc[f.req] = "fill" /\ EndStream(f.req, "failed")
    BY <1>0, <2>1, <2>2, <2>3, AloneMoves DEF Ended
  <2>4. CASE UNCHANGED <<pc, aPos, window>>
    BY <1>0, <2>1, <2>4
       DEF AloneInv, BookkeepingHonest, NoHoleServed, WrittenHonest, ReadsHonest
  <2>5. QED
    BY <2>1, <2>3, <2>4
<1>13. CASE UNCHANGED vars
  BY <1>0, <1>13 DEF AloneInv, BookkeepingHonest, NoHoleServed, WrittenHonest, ReadsHonest,
                     vars, cacheVars, walkVars
<1>14. QED
  BY <1>1, <1>2, <1>3, <1>4, <1>5, <1>6, <1>7, <1>8, <1>9, <1>10, <1>11, <1>12, <1>13 DEF Next

\* A stream that is alone on the file, in every behaviour.
LEMMA AloneInvariant ==
  ASSUME MaxOpen = 1, ReadAhead < 2
  PROVE  Spec => [](TypeInv /\ HoleInv /\ AloneInv)
<1>1. Init => TypeInv /\ HoleInv /\ AloneInv
  BY TypeInit, HoleInit, AloneInit
<1>2. TypeInv /\ HoleInv /\ AloneInv /\ [Next]_vars => (TypeInv /\ HoleInv /\ AloneInv)'
  BY TypeStep, HoleStep, AloneStep
<1>3. QED
  BY <1>1, <1>2, PTL DEF Spec

(* One request at a time and no read-ahead: every byte that some article     *)
(* holds is served as it is, however often the client comes back into what   *)
(* was evicted and whatever a dropped stream left under way.                 *)
THEOREM AloneServesNoHole ==
  ASSUME MaxOpen = 1, ReadAhead < 2 PROVE Spec => []NoHoleServed
<1>1. AloneInv => NoHoleServed
  BY DEF AloneInv
<1>2. QED
  BY AloneInvariant, <1>1, PTL

(* Nor does the bookkeeping ever claim a byte the file lacks, but for the    *)
(* bytes an eviction has just punched and is about to forget.                *)
THEOREM AloneBookkeepingHonest ==
  ASSUME MaxOpen = 1, ReadAhead < 2 PROVE Spec => []BookkeepingHonest
<1>1. AloneInv => BookkeepingHonest
  BY DEF AloneInv
<1>2. QED
  BY AloneInvariant, <1>1, PTL

-----------------------------------------------------------------------------
(* The disk, during the first request of a session.                        *)

(* Behind a stream the file holds the pinned header and a stretch that      *)
(* starts where the last eviction ended.  Everything else it holds is in    *)
(* the segment the stream has in hand, which it never comes back to.        *)

Floor == Max({watermark, HeaderPin})
Reach == Backbuffer + Max({Step, 1}) + LargestSegment - 2
Within(b, from) == b < HeaderPin \/ (from <= b /\ b < from + Reach)

Holding(from, seg) == \A b \in data : Within(b, from) \/ b \in SegmentBytes(seg)

\* The segment a stream reads next, or has just read.
Hand(r) == FindSegment(IF pc[r] \in {"locate", "fill", "read"} THEN aPos[r] ELSE aPos[r] - 1)

Alone(r) == \A q \in Requests \ {r} : pc[q] = "idle"

FirstPass(r) ==
  /\ pc[r] = "locate" =>
       /\ \A b \in data : Within(b, Floor)
       /\ Hand(r) # NoSegment => watermark <= Segments[Hand(r)].offset
  /\ pc[r] \in {"fill", "read", "evict", "punch"} =>
       /\ Hand(r) # NoSegment
       /\ watermark <= Segments[Hand(r)].offset
       /\ Holding(Floor, Hand(r))
  /\ pc[r] \in {"evict", "punch", "forget", "advance"} =>
       /\ Hand(r) # NoSegment
       /\ aPos[r] <= AssembledChunkEnd(r) => aPos[r] = SegmentEnd(Hand(r))
  /\ pc[r] = "punch" =>
       window[r][1] = Floor /\ window[r][2] > Floor /\ window[r][2] = aPos[r] - Backbuffer
  /\ pc[r] \in {"forget", "advance"} =>
       /\ window[r][2] > HeaderPin /\ window[r][2] = aPos[r] - Backbuffer
       /\ \A b \in data : Within(b, window[r][2])
  /\ pc[r] \in Ended =>
       \E seg \in SegmentIdx : Holding(Floor, seg) /\ \A f \in fills : f.seg = seg

FirstInv ==
  /\ (\A r \in Requests : pc[r] = "idle") => data = {} /\ watermark = 0
  /\ \A r \in Requests : pc[r] # "idle" /\ Alone(r) => FirstPass(r)

\* No segment is larger than the largest.
LEMMA LargestBounds ==
  /\ LargestSegment \in Nat \ {0}
  /\ \A i \in SegmentIdx : Segments[i].bytes <= LargestSegment
<1> DEFINE lengths == {Segments[i].bytes : i \in SegmentIdx}
<1>1. \A i \in SegmentIdx : Segments[i].bytes \in Nat \ {0} /\ Segments[i].bytes <= AssembledSize
  BY SegmentFields, SegmentWithin DEF SegmentEnd
<1>2. 1 \in SegmentIdx /\ AssembledSize \in Nat
  BY SegmentFields, SegmentWithin
<1>3. lengths \subseteq 0 .. AssembledSize /\ lengths # {}
  BY <1>1, <1>2
<1>4. Max(lengths) \in lengths /\ \A x \in lengths : x <= Max(lengths)
  <2> HIDE DEF lengths
  <2> QED BY <1>2, <1>3, MaxExists
<1>5. QED
  BY <1>1, <1>4 DEF LargestSegment

\* Two bytes of a segment are less than its length apart.
LEMMA SegmentSpan ==
  ASSUME NEW i \in SegmentIdx, NEW b \in SegmentBytes(i), NEW c \in SegmentBytes(i)
  PROVE  b \in Int /\ c \in Int /\ b <= c + LargestSegment - 1
BY SegmentFields, LargestBounds DEF SegmentBytes, SegmentEnd

\* The numbers of the bound.
LEMMA ReachTypes ==
  ASSUME TypeOK
  PROVE  /\ HeaderPin \in Nat /\ Backbuffer \in Nat /\ Step \in Nat /\ watermark \in Nat
         /\ Max({Step, 1}) \in Nat /\ Max({Step, 1}) >= 1 /\ Max({Step, 1}) >= Step
         /\ Max({Step, 1}) \in {Step, 1}
         /\ LargestSegment \in Nat \ {0} /\ Reach \in Nat
         /\ Reach = Backbuffer + Max({Step, 1}) + LargestSegment - 2
         /\ Floor \in Nat /\ Floor \in {watermark, HeaderPin}
         /\ Floor >= watermark /\ Floor >= HeaderPin
<1>1. HeaderPin \in Nat /\ Backbuffer \in Nat /\ Step \in Nat /\ watermark \in Nat
  BY PipelineAssumption DEF PipelineAssumption, TypeOK
<1>2. /\ Max({Step, 1}) \in {Step, 1} /\ Max({Step, 1}) >= 1 /\ Max({Step, 1}) >= Step
  BY <1>1, PairBounds
<1>3. /\ Floor \in {watermark, HeaderPin} /\ Floor >= watermark /\ Floor >= HeaderPin
  BY <1>1, PairBounds DEF Floor
<1>4. LargestSegment \in Nat \ {0}
  BY LargestBounds
<1> DEFINE s == Max({Step, 1})
<1>5. s \in {Step, 1} /\ s >= 1 /\ s >= Step /\ Reach = Backbuffer + s + LargestSegment - 2
  BY <1>2 DEF Reach
<1> HIDE DEF s
<1>6. s \in Nat /\ Reach \in Nat
  BY <1>1, <1>4, <1>5
<1>7. QED
  BY <1>1, <1>2, <1>3, <1>4, <1>5, <1>6 DEF s

\* After a segment a stream ends or goes on in a later one.
LEMMA NextIsLater ==
  ASSUME TypeInv, DeliveryInv, NEW r \in Requests, IsOpen(r),
         NEW s \in SegmentIdx, aPos[r] - 1 \in SegmentBytes(s),
         aPos[r] <= AssembledChunkEnd(r) => aPos[r] = SegmentEnd(s),
         NextSegment(r)
  PROVE  \/ pc'[r] \in Ended
         \/ /\ pc'[r] = "locate"
            /\ FindSegment(aPos'[r]) # NoSegment =>
                 SegmentEnd(s) <= Segments[FindSegment(aPos'[r])].offset
<1> DEFINE next == VideoChunkEnd(r) + 1
<1>1. ASSUME NEW b \in Nat, SegmentEnd(s) <= b, FindSegment(b) # NoSegment
      PROVE  SegmentEnd(s) <= Segments[FindSegment(b)].offset
  <2> DEFINE t == FindSegment(b)
  <2>1. t \in SegmentIdx /\ Segments[t].offset <= b /\ b < SegmentEnd(t)
    BY <1>1, FindSegmentSound, SegmentFields DEF SegmentBytes
  <2>2. ~ (t < s) /\ t # s
    BY <1>1, <2>1, SegmentsOrdered, SegmentFields
  <2>3. QED
    BY <2>1, <2>2, SegmentsOrdered, SegmentFields
<1>2. IsOpen(r) /\ pc[r] \notin Ended \cup {"idle"} /\ aPos[r] \in Nat
  BY DEF IsOpen, TypeInv, TypeOK
<1>3. CASE aPos[r] <= AssembledChunkEnd(r)
  <2>1. pc' = [pc EXCEPT ![r] = "locate"] /\ aPos' = aPos
    BY <1>3 DEF NextSegment
  <2>2. SegmentEnd(s) <= aPos[r]
    BY <1>2, <1>3, SegmentFields
  <2>3. QED
    BY <1>1, <1>2, <2>1, <2>2 DEF TypeInv, TypeOK
<1>4. CASE ~ (aPos[r] <= AssembledChunkEnd(r))
           /\ ~ (next > asked[r][2]) /\ ChunkRemaining(next) # 0
  <2> DEFINE k == ChunkOf(cursor[r])
             j == ChunkOf(next)
  <2>1. EnterChunk(r, next)
    BY <1>4 DEF NextSegment
  <2>2. pc'[r] = "locate" /\ aPos'[r] = VideoToAssembled(next)
    BY <2>1 DEF EnterChunk, TypeInv, TypeOK
  <2>3. /\ next \in Nat /\ next <= asked[r][2] /\ aPos[r] - 1 = AssembledChunkEnd(r)
        /\ cursor[r] \in Nat /\ k # NoChunk
        /\ AssembledChunkEnd(r) = VideoToAssembled(cursor[r]) + (next - 1 - cursor[r])
    BY <1>2, <1>4, PlaceTypes
  <2>4. next = cursor[r] + ChunkRemaining(cursor[r])
    <3>0. ChunkRemaining(cursor[r]) \in Nat
      BY <2>3, ChunkOfSound, ChunkFields DEF ChunkRemaining
    <3>1. VideoChunkEnd(r) = next - 1 /\ VideoChunkEnd(r) # asked[r][2]
      BY <1>2, <2>3, PlaceTypes
    <3>2. cursor[r] + ChunkRemaining(cursor[r]) - 1 \in Int /\ asked[r][2] \in Int
      BY <1>2, <3>0, PlaceTypes
    <3>3. VideoChunkEnd(r) \in {cursor[r] + ChunkRemaining(cursor[r]) - 1, asked[r][2]}
      BY <3>2, PairBounds DEF VideoChunkEnd
    <3>4. cursor[r] + ChunkRemaining(cursor[r]) - 1 = VideoChunkEnd(r)
      BY <3>1, <3>3
    <3>5. VideoChunkEnd(r) \in Nat
      BY <1>2, PlaceTypes
    <3>6. QED
      BY <2>3, <3>0, <3>4, <3>5
  <2> HIDE DEF next
  <2>5. /\ k \in DOMAIN Chunks /\ j \in DOMAIN Chunks
        /\ next = Chunks[k].video + Chunks[k].length
        /\ Chunks[j].video <= next /\ next < Chunks[j].video + Chunks[j].length
    <3>1. j # NoChunk
      BY <1>4, <2>3, RemainingIsMapped
    <3>2. /\ j \in DOMAIN Chunks
          /\ Chunks[j].video <= next /\ next < Chunks[j].video + Chunks[j].length
      BY <3>1, ChunkOfSound
    <3>3. k \in DOMAIN Chunks
      BY <2>3, ChunkOfSound
    <3>4. next = Chunks[k].video + Chunks[k].length
      BY <2>3, <2>4, <3>3, ChunkFields DEF ChunkRemaining
    <3>5. QED
      BY <3>2, <3>3, <3>4
  <2>6. j = k + 1
    <3>1. ~ (j < k) /\ j # k
      BY <2>5, ChunksOrdered, ChunkFields
    <3>2. k + 1 \in DOMAIN Chunks
      BY <2>5, <3>1, ChunkFields
    <3>3. ~ (k + 1 < j)
      <4>1. CASE k + 1 < j
        <5>1. Chunks[k].video + Chunks[k].length <= Chunks[k + 1].video
          BY <2>5, <3>2, ChunksOrdered, ChunkFields
        <5>2. Chunks[k + 1].video + Chunks[k + 1].length <= Chunks[j].video
          BY <2>5, <3>2, <4>1, ChunksOrdered
        <5>3. QED
          BY <2>5, <3>2, <5>1, <5>2, ChunkFields
      <4>2. QED
        BY <4>1
    <3>4. QED
      BY <2>5, <3>1, <3>3, ChunkFields
  <2>7. k \in 1 .. Len(Chunks) - 1 /\ Chunks[k + 1].video = next
    <3>1. k \in 1 .. Len(Chunks) - 1
      BY <2>5, <2>6, ChunkFields
    <3>2. QED
      BY <2>5, <3>1, LayoutAssumption DEF LayoutAssumption
  <2>8. aPos'[r] = Chunks[k + 1].assembled
    <3>1. VideoToAssembled(next) = Chunks[j].assembled + (next - Chunks[j].video)
      BY DEF VideoToAssembled
    <3>2. QED
      BY <2>2, <2>5, <2>6, <2>7, <3>1, ChunkFields
  <2>9. Segments[s].offset < Chunks[k].assembled + Chunks[k].length
    <3>1. AssembledChunkEnd(r) = Chunks[k].assembled + Chunks[k].length - 1
      <4>1. VideoToAssembled(cursor[r]) = Chunks[k].assembled + (cursor[r] - Chunks[k].video)
        BY DEF VideoToAssembled
      <4>2. /\ Chunks[k].assembled \in Nat /\ Chunks[k].video \in Nat /\ Chunks[k].length \in Nat
        BY <2>5, ChunkFields
      <4> HIDE DEF k
      <4>3. QED
        BY <2>3, <2>5, <4>1, <4>2
    <3>2. Segments[s].offset <= aPos[r] - 1
      BY <1>2, SegmentFields DEF SegmentBytes
    <3>3. QED
      <4>1. /\ Chunks[k].assembled \in Nat /\ Chunks[k].length \in Nat
            /\ Segments[s].offset \in Nat
        BY <2>5, SegmentFields, ChunkFields
      <4> HIDE DEF k
      <4>2. QED
        BY <2>3, <3>1, <3>2, <4>1
  <2>10. SegmentEnd(s) <= aPos'[r] /\ aPos'[r] \in Nat
    BY <2>5, <2>6, <2>7, <2>8, <2>9, OneChunkPerSegment, ChunkFields
  <2>11. QED
    BY <1>1, <2>2, <2>10
<1>5. CASE ~ (aPos[r] <= AssembledChunkEnd(r))
           /\ (next > asked[r][2] \/ ChunkRemaining(next) = 0)
  <2>1. EndStream(r, "done") \/ EndStream(r, "failed")
    BY <1>5 DEF NextSegment
  <2>2. QED
    BY <2>1 DEF EndStream, Ended, TypeInv, TypeOK
<1>6. QED
  BY <1>3, <1>4, <1>5

\* The segment a stream has in hand.
LEMMA HandBytes ==
  ASSUME TypeInv, NEW r \in Requests, Hand(r) # NoSegment
  PROVE  /\ Hand(r) \in SegmentIdx
         /\ pc[r] \in {"locate", "fill", "read"} => aPos[r] \in SegmentBytes(Hand(r))
         /\ pc[r] \in {"evict", "punch", "forget", "advance"} =>
              aPos[r] - 1 \in SegmentBytes(Hand(r)) /\ aPos[r] <= SegmentEnd(Hand(r))
<1>1. aPos[r] \in Int
  BY DEF TypeInv, TypeOK
<1>2. CASE pc[r] \in {"locate", "fill", "read"}
  BY <1>1, <1>2, FindSegmentSound DEF Hand
<1>3. CASE pc[r] \notin {"locate", "fill", "read"}
  <2>1. Hand(r) = FindSegment(aPos[r] - 1) /\ aPos[r] - 1 \in Int
    BY <1>1, <1>3 DEF Hand
  <2>2. Hand(r) \in SegmentIdx /\ aPos[r] - 1 \in SegmentBytes(Hand(r))
    BY <2>1, FindSegmentSound
  <2>3. aPos[r] <= SegmentEnd(Hand(r))
    BY <1>1, <2>2, SegmentFields DEF SegmentBytes
  <2>4. QED
    BY <1>3, <2>2, <2>3
<1>4. QED
  BY <1>2, <1>3

\* The fill under way, if there is one, is for that segment.
LEMMA LoneFill ==
  ASSUME TypeInv, HoleInv, NoPrefetch, NEW r \in Requests, Alone(r)
  PROVE  /\ \A f \in fills :
              /\ f.req = r /\ f.by = "stream" /\ f.seg \in SegmentIdx
              /\ Payload(f.seg) \subseteq SegmentBytes(f.seg)
              /\ pc[r] \in Ended \cup {"fill"}
              /\ pc[r] = "fill" => f.seg = Hand(r)
         /\ \A f, g \in fills : f = g
<1>1. ASSUME NEW f \in fills
      PROVE  /\ f.req = r /\ f.by = "stream" /\ f.seg \in SegmentIdx
             /\ Payload(f.seg) \subseteq SegmentBytes(f.seg)
             /\ pc[r] \in Ended \cup {"fill"}
             /\ pc[r] = "fill" => f.seg = Hand(r)
  <2>1. f.req \in Requests /\ f.seg \in SegmentIdx /\ f.by = "stream"
    BY DEF TypeInv, TypeOK, Fill, NoPrefetch
  <2>2. /\ pc[f.req] \in Ended \cup {"fill"}
        /\ pc[f.req] = "fill" => f.seg = FindSegment(aPos[f.req])
    BY <2>1 DEF HoleInv, FillsOwned
  <2>3. f.req = r
    BY <2>1, <2>2 DEF Alone, Ended
  <2>4. QED
    BY <2>1, <2>2, <2>3, PayloadInSegment DEF Hand
<1>2. QED
  BY <1>1 DEF HoleInv, FillsOwned

\* Before the first request, and where a stream that is alone has no fill.
LEMMA NoFill ==
  ASSUME TypeInv, HoleInv, NoPrefetch, NEW r \in Requests, Alone(r),
         pc[r] \notin Ended \cup {"fill"}
  PROVE  fills = {}
BY LoneFill

\* No request goes back to idle.
LEMMA StaysStarted ==
  ASSUME TypeInv, [Next]_vars, NEW q \in Requests, pc'[q] = "idle"
  PROVE  pc[q] = "idle"
<1>1. ASSUME NEW r \in Requests, NEW range \in Ranges, OpenRequest(r, range)
      PROVE  pc[q] = "idle"
  <2>1. EndStream(r, "failed") \/ EnterChunk(r, range[1])
    BY <1>1 DEF OpenRequest
  <2>2. /\ pc'[r] \in Ended \cup {"locate"}
        /\ \A p \in Requests \ {r} : pc'[p] = pc[p]
    BY <2>1, MoveOn DEF Ended
  <2>3. QED
    BY <2>2 DEF Ended
<1>2. QED
  BY <1>1, MoverIsOpen DEF Moves

\* A stream that moves on after an eviction, or where none was due.
LEMMA FirstMoveOn ==
  ASSUME TypeInv, DeliveryInv, NEW r \in Requests, pc[r] \in {"evict", "punch", "advance"},
         FirstPass(r), NextSegment(r), fills' = {}, data' = data,
         watermark' \in Nat, watermark' <= SegmentEnd(Hand(r)),
         \A b \in data : Within(b, Floor')
  PROVE  FirstPass(r)'
<1> DEFINE s == Hand(r)
<1>1. /\ s \in SegmentIdx /\ aPos[r] - 1 \in SegmentBytes(s)
      /\ aPos[r] <= AssembledChunkEnd(r) => aPos[r] = SegmentEnd(s)
  BY HandBytes DEF FirstPass
<1> HIDE DEF s
<1>2. \/ pc'[r] \in Ended
      \/ /\ pc'[r] = "locate"
         /\ FindSegment(aPos'[r]) # NoSegment =>
              SegmentEnd(s) <= Segments[FindSegment(aPos'[r])].offset
  BY <1>1, NextIsLater DEF IsOpen, Ended
<1>3. CASE pc'[r] \in Ended
  <2>1. 1 \in SegmentIdx /\ Holding(Floor, 1)'
    BY SegmentFields DEF Holding, Within
  <2>2. QED
    BY <1>3, <2>1 DEF FirstPass, Ended
<1>4. CASE /\ pc'[r] = "locate"
           /\ FindSegment(aPos'[r]) # NoSegment =>
                SegmentEnd(s) <= Segments[FindSegment(aPos'[r])].offset
  <2>1. \A b \in data' : Within(b, Floor)'
    BY DEF Within
  <2>2. Hand(r)' = FindSegment(aPos'[r])
    BY <1>4 DEF Hand
  <2>3. Hand(r)' # NoSegment => watermark' <= Segments[Hand(r)'].offset
    <3>1. ASSUME Hand(r)' # NoSegment PROVE watermark' <= Segments[Hand(r)'].offset
      <4>1. Hand(r)' \in SegmentIdx
        BY <2>2, <3>1, FindSegmentType
      <4>2. SegmentEnd(s) <= Segments[Hand(r)'].offset /\ watermark' <= SegmentEnd(s)
        BY <1>4, <2>2, <3>1 DEF s
      <4>3. QED
        BY <1>1, <4>1, <4>2, SegmentFields
    <3>2. QED
      BY <3>1
  <2>4. QED
    BY <1>4, <2>1, <2>3 DEF FirstPass, Ended
<1>5. QED
  BY <1>2, <1>3, <1>4

\* What a stream does, alone on the file since the session began.
LEMMA FirstWalk ==
  ASSUME ~ PunchMayFail, Evicting, TypeInv, HoleInv, DeliveryInv, NoPrefetch,
         NEW r \in Requests, pc[r] # "idle", Alone(r), FirstPass(r),
         \/ Locate(r) \/ ReadChunk(r) \/ ReadFails(r) \/ StartEvict(r) \/ Punch(r)
         \/ PunchFails(r) \/ Forget(r) \/ Advance(r) \/ Disconnect(r)
  PROVE  FirstPass(r)'
<1>0. /\ pc \in [Requests -> Place] /\ aPos \in [Requests -> Nat]
      /\ window \in [Requests -> Nat \X Nat] /\ aPos[r] \in Nat
      /\ window[r][1] \in Nat /\ window[r][2] \in Nat /\ watermark \in Nat
      /\ data \subseteq Int
  BY DEF TypeInv, TypeOK, AssembledBytes
<1>1. CASE Locate(r)
  <2>1. pc[r] = "locate" /\ UNCHANGED <<data, watermark>>
    BY <1>1 DEF Locate, cacheVars
  <2>2. Hand(r) = FindSegment(aPos[r]) /\ fills = {}
    BY <2>1, NoFill DEF Hand, Ended
  <2>3. \A b \in data' : Within(b, Floor)'
    BY <2>1 DEF FirstPass, Within, Floor
  <2>4. CASE Hand(r) = NoSegment
    <3>1. EndStream(r, "failed") /\ UNCHANGED fills
      BY <1>1, <2>2, <2>4 DEF Locate
    <3>2. pc'[r] = "failed" /\ fills' = {}
      BY <1>0, <2>2, <3>1 DEF EndStream
    <3>3. 1 \in SegmentIdx /\ Holding(Floor, 1)'
      BY <2>3, SegmentFields DEF Holding
    <3>4. QED
      BY <3>2, <3>3 DEF FirstPass
  <2>5. CASE Hand(r) # NoSegment
    <3>1. /\ \E p \in {"read", "fill"} : pc' = [pc EXCEPT ![r] = p]
          /\ UNCHANGED walkVars
      BY <1>1, <2>2, <2>5 DEF Locate
    <3>2. pc'[r] \in {"read", "fill"} /\ aPos' = aPos
      BY <1>0, <3>1 DEF walkVars
    <3>3. Hand(r)' = Hand(r)
      BY <2>1, <3>2 DEF Hand
    <3>4. watermark' <= Segments[Hand(r)'].offset /\ Holding(Floor, Hand(r))'
      BY <2>1, <2>3, <2>5, <3>3 DEF FirstPass, Holding
    <3>5. QED
      BY <2>5, <3>2, <3>3, <3>4 DEF FirstPass, Ended
  <2>6. QED
    BY <2>4, <2>5
<1>2. CASE ReadChunk(r)
  <2> DEFINE upto == Min({aPos[r] + ChunkSize - 1, ReadEnd(r)})
  <2>1. /\ pc[r] = "read" /\ UNCHANGED <<data, watermark, cursor, asked>>
        /\ aPos'[r] = upto + 1
        /\ pc'[r] = IF upto = ReadEnd(r) THEN "evict" ELSE "read"
    BY <1>0, <1>2 DEF ReadChunk, cacheVars
  <2>2. /\ upto \in Nat
        /\ aPos[r] .. upto \subseteq SegmentBytes(FindSegment(aPos[r]))
        /\ upto # ReadEnd(r) => upto + 1 \in SegmentBytes(FindSegment(aPos[r]))
    BY <2>1, ChunkTypes
  <2>3. FindSegment(aPos[r]) \in SegmentIdx /\ Hand(r) = FindSegment(aPos[r])
    BY <2>1, ReadTypes DEF Hand
  <2>4. aPos[r] <= ReadEnd(r) /\ aPos[r] <= upto /\ ReadEnd(r) \in Nat
    <3>1. /\ aPos[r] <= AssembledChunkEnd(r) /\ AssembledChunkEnd(r) \in Nat
          /\ ReadEnd(r) \in Nat /\ ChunkSize \in Nat \ {0}
      BY <2>1, ReadTypes, WalkTypes, PipelineAssumption
         DEF DeliveryInv, InPlace, Ended, PipelineAssumption
    <3>2. aPos[r] <= SegmentEnd(FindSegment(aPos[r])) - 1
          /\ SegmentEnd(FindSegment(aPos[r])) - 1 \in Int
      BY <1>0, <2>1, ReadTypes, SegmentFields DEF SegmentBytes
    <3>3. ReadEnd(r) \in {SegmentEnd(FindSegment(aPos[r])) - 1, AssembledChunkEnd(r)}
      BY <3>1, <3>2, PairBounds DEF ReadEnd
    <3>4. upto \in {aPos[r] + ChunkSize - 1, ReadEnd(r)}
      <4>1. aPos[r] + ChunkSize - 1 \in Int /\ ReadEnd(r) \in Int
        BY <1>0, <3>1
      <4>2. QED
        BY <4>1, PairBounds
    <3> HIDE DEF upto
    <3>5. QED
      BY <1>0, <3>1, <3>2, <3>3, <3>4
  <2> HIDE DEF upto
  <2>5. Hand(r)' = Hand(r)
    <3>1. CASE upto = ReadEnd(r)
      <4>1. upto \in SegmentBytes(FindSegment(aPos[r]))
        BY <1>0, <2>2, <2>4
      <4>2. FindSegment(upto) = FindSegment(aPos[r])
        BY <2>3, <4>1, FindSegmentComplete
      <4>3. Hand(r)' = FindSegment((upto + 1) - 1) /\ (upto + 1) - 1 = upto
        BY <2>1, <2>2, <3>1 DEF Hand
      <4>4. QED
        BY <2>3, <4>2, <4>3
    <3>2. CASE upto # ReadEnd(r)
      <4>1. FindSegment(upto + 1) = FindSegment(aPos[r])
        BY <2>2, <2>3, <3>2, FindSegmentComplete
      <4>2. QED
        BY <2>1, <2>3, <3>2, <4>1 DEF Hand
    <3>3. QED
      BY <3>1, <3>2
  <2>6. /\ Hand(r)' # NoSegment /\ watermark' <= Segments[Hand(r)'].offset
        /\ Holding(Floor, Hand(r))'
    BY <2>1, <2>5 DEF FirstPass, Holding, Within, Floor
  <2>7. CASE upto # ReadEnd(r)
    BY <2>1, <2>6, <2>7 DEF FirstPass, Ended
  <2>8. CASE upto = ReadEnd(r)
    <3>1. AssembledChunkEnd(r)' = AssembledChunkEnd(r)
      BY <2>1 DEF AssembledChunkEnd, VideoChunkEnd
    <3>2. aPos'[r] <= AssembledChunkEnd(r) => aPos'[r] = SegmentEnd(Hand(r))
      <4>1. /\ AssembledChunkEnd(r) \in Int /\ SegmentEnd(Hand(r)) - 1 \in Int
            /\ SegmentEnd(Hand(r)) \in Int
        BY <2>1, <2>3, WalkTypes, SegmentFields DEF Ended
      <4>2. ReadEnd(r) \in {SegmentEnd(Hand(r)) - 1, AssembledChunkEnd(r)}
        BY <2>3, <4>1, PairBounds DEF ReadEnd
      <4>3. QED
        BY <2>1, <2>2, <2>8, <4>1, <4>2
    <3>3. QED
      BY <2>1, <2>5, <2>6, <2>8, <3>1, <3>2 DEF FirstPass, Ended
  <2>9. QED
    BY <2>7, <2>8
<1>3. CASE ReadFails(r) \/ Disconnect(r)
  <2>1. /\ pc[r] \in {"fill", "read", "punch"} /\ UNCHANGED <<data, watermark, fills>>
        /\ EndStream(r, "failed") \/ EndStream(r, "closed")
    BY <1>3 DEF ReadFails, Disconnect, cacheVars
  <2>2. pc'[r] \in Ended
    BY <1>0, <2>1 DEF EndStream, Ended
  <2>3. Hand(r) \in SegmentIdx /\ Holding(Floor, Hand(r))
    BY <2>1, HandBytes DEF FirstPass
  <2>4. PICK s \in SegmentIdx : s = Hand(r) /\ Holding(Floor, s)
    BY <2>3
  <2>5. Holding(Floor, s)'
    BY <2>1, <2>4 DEF Holding, Within, Floor
  <2>6. \A f \in fills' : f.seg = s
    BY <2>1, <2>4, LoneFill DEF Ended
  <2>7. QED
    BY <2>2, <2>5, <2>6 DEF FirstPass, Ended
<1>4. CASE StartEvict(r)
  <2> DEFINE w == EvictWindow(aPos[r], HeaderPin, Backbuffer)
  <2>1. /\ pc[r] = "evict" /\ UNCHANGED <<data, watermark, fills, asked>> /\ fills = {}
    BY <1>4, NoFill DEF StartEvict, cacheVars, Ended
  <2>2. /\ w[1] = Floor /\ w[2] \in Nat /\ w[2] >= aPos[r] - Backbuffer
        /\ w[2] > w[1] => w[2] = aPos[r] - Backbuffer
    BY <1>0, WindowEnd DEF TypeInv, EvictWindow, Floor
  <2>3. CASE w[2] > w[1] /\ w[2] - w[1] >= Step
    <3>1. /\ window'[r] = w /\ pc'[r] = "punch" /\ UNCHANGED <<cursor, aPos>>
      BY <1>0, <1>4, <2>3 DEF StartEvict
    <3> HIDE DEF w
    <3>2. Hand(r)' = Hand(r) /\ AssembledChunkEnd(r)' = AssembledChunkEnd(r)
      BY <2>1, <3>1 DEF Hand, AssembledChunkEnd, VideoChunkEnd
    <3>3. window'[r][1] = Floor' /\ window'[r][2] > Floor'
          /\ window'[r][2] = aPos'[r] - Backbuffer
      BY <2>1, <2>2, <2>3, <3>1 DEF Floor
    <3>4. Holding(Floor, Hand(r))'
      BY <2>1, <3>2 DEF FirstPass, Holding, Within, Floor
    <3>5. QED
      BY <2>1, <3>1, <3>2, <3>3, <3>4 DEF FirstPass, Ended
  <2>4. CASE ~ (w[2] > w[1] /\ w[2] - w[1] >= Step)
    <3>1. NextSegment(r)
      BY <1>4, <2>4 DEF StartEvict
    <3> HIDE DEF w
    <3>2. aPos[r] - Backbuffer <= Floor + Max({Step, 1}) - 1
      <4> DEFINE m == Max({Step, 1})
      <4>1. m \in Nat /\ m >= 1 /\ m >= Step /\ Step \in Nat /\ Floor \in Nat /\ Backbuffer \in Nat
        BY ReachTypes DEF TypeInv
      <4> HIDE DEF m
      <4>2. aPos[r] - Backbuffer <= Floor + m - 1
        BY <1>0, <2>2, <2>4, <4>1
      <4>3. QED
        BY <4>2 DEF m
    <3>3. Hand(r) \in SegmentIdx /\ aPos[r] - 1 \in SegmentBytes(Hand(r))
      BY <2>1, HandBytes DEF FirstPass
    <3>4. \A b \in data : Within(b, Floor)
      <4>1. ASSUME NEW b \in SegmentBytes(Hand(r)) PROVE Within(b, Floor)
        <5>1. b \in Int /\ b <= aPos[r] - 1 + LargestSegment - 1
          BY <3>3, SegmentSpan
        <5>2. Segments[Hand(r)].offset <= b /\ watermark <= Segments[Hand(r)].offset
              /\ Segments[Hand(r)].offset \in Nat
          BY <2>1, <3>3, SegmentFields DEF FirstPass, SegmentBytes
        <5> DEFINE m == Max({Step, 1})
        <5>3. /\ m \in Nat /\ HeaderPin \in Nat /\ Floor \in {watermark, HeaderPin}
              /\ LargestSegment \in Nat /\ Backbuffer \in Nat
              /\ Reach = Backbuffer + m + LargestSegment - 2
          BY ReachTypes DEF TypeInv
        <5>4. aPos[r] - Backbuffer <= Floor + m - 1
          BY <3>2
        <5> HIDE DEF m
        <5>5. b < HeaderPin \/ Floor <= b
          BY <1>0, <5>1, <5>2, <5>3
        <5>6. b < Floor + Reach
          BY <1>0, <5>1, <5>3, <5>4
        <5>7. QED
          BY <5>5, <5>6 DEF Within
      <4>2. QED
        BY <2>1, <4>1 DEF FirstPass, Holding
    <3>5. Floor' = Floor /\ watermark' \in Nat
      BY <1>0, <2>1 DEF Floor
    <3>6. watermark' <= SegmentEnd(Hand(r))
      BY <1>0, <2>1, <3>3, SegmentFields DEF FirstPass
    <3>7. QED
      BY <2>1, <3>1, <3>4, <3>5, <3>6, FirstMoveOn
  <2>5. QED
    BY <2>3, <2>4
<1>5. CASE Punch(r)
  <2>1. /\ pc[r] = "punch" /\ data' = data \ (window[r][1] .. window[r][2] - 1)
        /\ pc'[r] = "forget" /\ UNCHANGED <<watermark, aPos, cursor, window, asked>>
    BY <1>0, <1>5 DEF Punch, PunchHole, walkVars
  <2>2. Hand(r)' = Hand(r) /\ AssembledChunkEnd(r)' = AssembledChunkEnd(r)
    BY <2>1 DEF Hand, AssembledChunkEnd, VideoChunkEnd
  <2>3. /\ window[r][1] = Floor /\ window[r][2] > Floor /\ window[r][2] = aPos[r] - Backbuffer
        /\ Holding(Floor, Hand(r)) /\ Hand(r) # NoSegment
    BY <2>1 DEF FirstPass
  <2>4. ASSUME NEW b \in data' PROVE Within(b, window[r][2])
    <3> DEFINE m == Max({Step, 1})
    <3>1. /\ m \in Nat /\ m >= 1 /\ HeaderPin \in Nat /\ Floor \in Nat
          /\ Floor >= watermark /\ Floor >= HeaderPin /\ Floor \in {watermark, HeaderPin}
          /\ LargestSegment \in Nat /\ Backbuffer \in Nat
          /\ Reach = Backbuffer + m + LargestSegment - 2 /\ Reach \in Nat
      BY ReachTypes DEF TypeInv
    <3>2. /\ b \in data /\ b \in Int /\ ~ (window[r][1] <= b /\ b < window[r][2])
      BY <1>0, <2>1, <2>4
    <3> HIDE DEF m
    <3>3. CASE Within(b, Floor)
      BY <1>0, <2>3, <3>1, <3>2, <3>3 DEF Within
    <3>4. CASE b \in SegmentBytes(Hand(r))
      <4>1. aPos[r] - 1 \in SegmentBytes(Hand(r)) /\ Hand(r) \in SegmentIdx
        BY <2>1, <2>3, HandBytes
      <4>2. b <= aPos[r] - 1 + LargestSegment - 1
        BY <3>4, <4>1, SegmentSpan
      <4>3. Segments[Hand(r)].offset <= b /\ watermark <= Segments[Hand(r)].offset
            /\ Segments[Hand(r)].offset \in Nat
        BY <2>1, <3>4, <4>1, SegmentFields DEF FirstPass, SegmentBytes
      <4>4. b < HeaderPin \/ Floor <= b
        BY <1>0, <3>1, <3>2, <4>3
      <4>5. b < HeaderPin \/ window[r][2] <= b
        BY <1>0, <2>3, <3>2, <4>4
      <4>6. b < window[r][2] + Reach
        BY <1>0, <2>3, <3>1, <3>2, <4>2
      <4>7. QED
        BY <4>5, <4>6 DEF Within
    <3>5. QED
      BY <2>3, <3>2, <3>3, <3>4 DEF Holding
  <2>5. window[r][2] > HeaderPin
    BY <1>0, <2>3, ReachTypes DEF TypeInv
  <2>6. \A b \in data' : Within(b, window[r][2])'
    BY <2>1, <2>4 DEF Within
  <2>7. QED
    BY <2>1, <2>2, <2>3, <2>5, <2>6 DEF FirstPass, Ended
<1>6. CASE Forget(r)
  <2>1. /\ pc[r] = "forget" /\ pc'[r] = "advance"
        /\ UNCHANGED <<data, watermark, aPos, cursor, window, asked>>
    BY <1>0, <1>6 DEF Forget, ForgetRange, walkVars
  <2>2. Hand(r)' = Hand(r) /\ AssembledChunkEnd(r)' = AssembledChunkEnd(r)
    BY <2>1 DEF Hand, AssembledChunkEnd, VideoChunkEnd
  <2>3. \A b \in data' : Within(b, window[r][2])'
    BY <2>1 DEF FirstPass, Within
  <2>4. QED
    BY <2>1, <2>2, <2>3 DEF FirstPass, Ended
<1>7. CASE Advance(r)
  <2>1. /\ pc[r] = "advance" /\ NextSegment(r) /\ watermark' = window[r][2]
        /\ UNCHANGED <<data, fills>> /\ fills = {}
    BY <1>7, NoFill DEF Advance, StoreWatermark, Ended
  <2>2. /\ window[r][2] > HeaderPin /\ window[r][2] = aPos[r] - Backbuffer
        /\ \A b \in data : Within(b, window[r][2])
    BY <2>1 DEF FirstPass
  <2>3. Floor' = window[r][2]
    <3>1. HeaderPin \in Int /\ window[r][2] \in Int
      BY <1>0, ReachTypes DEF TypeInv
    <3>2. Floor' \in {window[r][2], HeaderPin} /\ Floor' >= window[r][2]
      BY <2>1, <3>1, PairBounds DEF Floor
    <3>3. QED
      BY <2>2, <3>1, <3>2
  <2>4. watermark' <= SegmentEnd(Hand(r))
    <3>1. aPos[r] <= SegmentEnd(Hand(r)) /\ Hand(r) \in SegmentIdx
      BY <2>1, HandBytes DEF FirstPass
    <3>2. Backbuffer \in Nat /\ SegmentEnd(Hand(r)) \in Nat
      BY <3>1, ReachTypes, SegmentFields DEF TypeInv
    <3>3. QED
      BY <1>0, <2>1, <2>2, <3>1, <3>2
  <2>5. QED
    BY <1>0, <2>1, <2>2, <2>3, <2>4, FirstMoveOn
<1>8. ~ PunchFails(r)
  BY DEF PunchFails
<1>9. QED
  BY <1>1, <1>2, <1>3, <1>4, <1>5, <1>6, <1>7, <1>8

\* What its fill does meanwhile, or after it has ended.
LEMMA FirstFill ==
  ASSUME TypeInv, HoleInv, NoPrefetch, NEW r \in Requests, Alone(r), FirstPass(r),
         NEW f \in fills, FillWrite(f) \/ FillInsert(f) \/ FillFail(f) \/ FillDrop(f)
  PROVE  FirstPass(r)'
<1>0. /\ pc \in [Requests -> Place] /\ aPos \in [Requests -> Nat]
      /\ f.req = r /\ f.by = "stream" /\ f.seg \in SegmentIdx
      /\ Payload(f.seg) \subseteq SegmentBytes(f.seg)
      /\ pc[r] \in Ended \cup {"fill"}
      /\ pc[r] = "fill" => f.seg = Hand(r)
      /\ \A g \in fills : g = f
  BY LoneFill DEF TypeInv, TypeOK
<1>1. Holding(Floor, f.seg) /\ watermark' = watermark /\ Floor' = Floor
  <2>1. Holding(Floor, f.seg)
    BY <1>0 DEF FirstPass
  <2>2. watermark' = watermark
    BY DEF FillWrite, FillInsert, FillFail, FillDrop, WriteFile, MarkPopulated, cacheVars
  <2>3. QED
    BY <2>1, <2>2 DEF Floor
<1>2. data' = data \/ data' = data \cup Payload(f.seg)
  BY DEF FillWrite, FillInsert, FillFail, FillDrop, WriteFile, MarkPopulated, cacheVars
<1>3. PICK s \in SegmentIdx : s = f.seg
  BY <1>0
<1>4. Holding(Floor, s)'
  BY <1>0, <1>1, <1>2, <1>3 DEF Holding, Within
<1>5. \A g \in fills' : g.seg = s
  <2>1. [f EXCEPT !.at = "written"].seg = f.seg
    BY DEF TypeInv, TypeOK, Fill
  <2>2. QED
    BY <1>0, <1>3, <2>1 DEF FillWrite, FillInsert, FillFail, FillDrop
<1>6. CASE pc'[r] \in Ended
  BY <1>4, <1>5, <1>6 DEF FirstPass, Ended
<1>7. CASE pc'[r] \notin Ended
  <2>1. pc'[r] \in {"fill", "read"} /\ aPos'[r] = aPos[r] /\ pc[r] = "fill"
    BY <1>0, <1>7 DEF FillWrite, FillInsert, FillFail, FillDrop, EndStream, walkVars, Ended
  <2>2. Hand(r)' = s /\ Hand(r) = s
    BY <1>0, <1>3, <2>1 DEF Hand
  <2>3. watermark' <= Segments[s].offset /\ s # NoSegment
    BY <1>1, <2>1, <2>2 DEF FirstPass
  <2>4. QED
    BY <1>4, <2>1, <2>2, <2>3 DEF FirstPass, Ended
<1>8. QED
  BY <1>6, <1>7

\* Every step keeps the invariant.
LEMMA FirstStep ==
  ASSUME ~ PunchMayFail, Evicting, ReadAhead < 2, TypeInv, HoleInv, DeliveryInv, NoPrefetch,
         FirstInv, [Next]_vars
  PROVE  FirstInv'
<1>1. ASSUME NEW q \in Requests, pc'[q] = "idle" PROVE pc[q] = "idle"
  BY <1>1, StaysStarted
<1>2. ASSUME \A q \in Requests : pc[q] = "idle"
      PROVE  /\ data = {} /\ watermark = 0 /\ fills = {}
             /\ UNCHANGED vars \/ \E r \in Requests, range \in Ranges : OpenRequest(r, range)
  <2>1. data = {} /\ watermark = 0
    BY <1>2 DEF FirstInv
  <2>2. fills = {}
    <3>1. \A f \in fills : f.req \in Requests /\ f.by = "stream"
      BY DEF TypeInv, TypeOK, Fill, NoPrefetch
    <3>2. QED
      BY <1>2, <3>1 DEF HoleInv, FillsOwned, Ended
  <2>3. QED
    BY <1>2, <2>1, <2>2 DEF Next, Locate, ReadChunk, ReadFails, Prefetch, StartEvict, Punch,
                            PunchFails, Forget, Advance, Disconnect, NoPrefetch
<1>3. ASSUME \A q \in Requests : pc'[q] = "idle" PROVE data' = {} /\ watermark' = 0
  <2>1. \A q \in Requests : pc[q] = "idle"
    BY <1>1, <1>3
  <2>2. QED
    BY <1>2, <2>1 DEF vars, cacheVars, OpenRequest
<1>4. ASSUME NEW r \in Requests, pc'[r] # "idle", Alone(r)' PROVE FirstPass(r)'
  <2>1. \A q \in Requests \ {r} : pc[q] = "idle"
    BY <1>1, <1>4 DEF Alone
  <2>2. CASE pc[r] = "idle"
    <3>1. \A q \in Requests : pc[q] = "idle"
      BY <2>1, <2>2
    <3>2. PICK p \in Requests, range \in Ranges : OpenRequest(p, range)
      BY <1>2, <1>4, <2>2, <3>1 DEF vars
    <3>3. /\ UNCHANGED <<data, watermark, fills>>
          /\ EndStream(p, "failed") \/ EnterChunk(p, range[1])
      BY <3>2 DEF OpenRequest, cacheVars
    <3>4. /\ pc'[p] \in Ended \cup {"locate"}
          /\ \A q \in Requests \ {p} : pc'[q] = pc[q]
      BY <3>3, MoveOn DEF Ended
    <3>5. p = r
      BY <1>4, <2>2, <3>4
    <3>6. pc'[r] \in Ended \cup {"locate"}
      BY <3>4, <3>5
    <3>7. data' = {} /\ watermark' = 0 /\ fills' = {}
      BY <1>2, <3>1, <3>3
    <3>8. CASE pc'[r] \in Ended
      BY <3>7, <3>8, SegmentFields DEF FirstPass, Holding, Ended
    <3>9. CASE pc'[r] = "locate"
      <4>1. Hand(r)' = FindSegment(aPos'[r])
        BY <3>9 DEF Hand
      <4>2. Hand(r)' # NoSegment => watermark' <= Segments[Hand(r)'].offset
        BY <3>7, <4>1, FindSegmentType, SegmentFields
      <4>3. QED
        BY <3>7, <3>9, <4>2 DEF FirstPass, Ended
    <3>10. QED
      BY <3>6, <3>8, <3>9
  <2>3. CASE pc[r] # "idle"
    <3>1. Alone(r) /\ FirstPass(r)
      BY <2>1, <2>3 DEF Alone, FirstInv
    <3>2. \A f \in fills : f.req = r
      BY <3>1, LoneFill
    <3>3. CASE UNCHANGED vars
      BY <3>1, <3>3 DEF vars, cacheVars, walkVars, FirstPass, Hand, Holding, Within, Floor,
                        AssembledChunkEnd, VideoChunkEnd
    <3>4. CASE \E f \in fills : FillWrite(f) \/ FillInsert(f) \/ FillFail(f) \/ FillDrop(f)
      BY <3>1, <3>4, FirstFill
    <3>5. ASSUME NEW q \in Requests, NEW range \in Ranges, OpenRequest(q, range) PROVE FALSE
      <4>1. EndStream(q, "failed") \/ EnterChunk(q, range[1])
        BY <3>5 DEF OpenRequest
      <4>2. pc'[q] # "idle" /\ q # r
        BY <2>3, <3>5, <4>1, MoveOn DEF OpenRequest, Ended
      <4>3. QED
        BY <1>4, <4>2 DEF Alone
    <3>6. ASSUME NEW q \in Requests,
                 \/ Locate(q) \/ ReadChunk(q) \/ ReadFails(q) \/ StartEvict(q) \/ Punch(q)
                 \/ PunchFails(q) \/ Forget(q) \/ Advance(q) \/ Disconnect(q)
          PROVE  FirstPass(r)'
      <4>1. pc[q] # "idle"
        BY <3>6 DEF Locate, ReadChunk, ReadFails, StartEvict, Punch, PunchFails, Forget, Advance,
                    Disconnect
      <4>2. q = r
        BY <2>1, <4>1
      <4>3. QED
        BY <2>3, <3>1, <3>6, <4>2, FirstWalk
    <3>7. ASSUME NEW q \in Requests, Prefetch(q) PROVE FALSE
      BY <3>7 DEF Prefetch, NoPrefetch
    <3>8. QED
      BY <3>3, <3>4, <3>5, <3>6, <3>7 DEF Next
  <2>4. QED
    BY <2>2, <2>3
<1>5. QED
  BY <1>3, <1>4 DEF FirstInv

\* So few bytes are on the disk then.
LEMMA FewBytes ==
  ASSUME TypeInv, NEW from \in Nat, NEW seg \in SegmentIdx, Holding(from, seg)
  PROVE  DiskBounded
<1> DEFINE pinned == 0 .. HeaderPin - 1
           stretch == from .. from + Reach - 1
           span == Segments[seg].offset .. SegmentEnd(seg) - 1
           m == Max({Step, 1})
<1>1. /\ HeaderPin \in Nat /\ Backbuffer \in Nat /\ m \in Nat /\ Reach \in Nat
      /\ LargestSegment \in Nat /\ Reach = Backbuffer + m + LargestSegment - 2
  BY ReachTypes DEF TypeInv
<1>2. /\ Segments[seg].offset \in Nat /\ SegmentEnd(seg) \in Nat
      /\ SegmentEnd(seg) - Segments[seg].offset <= LargestSegment
      /\ SegmentEnd(seg) > Segments[seg].offset
  BY SegmentFields, LargestBounds DEF SegmentEnd
<1> HIDE DEF m
<1>3. IsFiniteSet(pinned) /\ Cardinality(pinned) = HeaderPin
  BY <1>1, FS_Interval
<1>4. IsFiniteSet(stretch) /\ Cardinality(stretch) = Reach
  BY <1>1, FS_Interval
<1>5. IsFiniteSet(span) /\ Cardinality(span) <= LargestSegment /\ Cardinality(span) \in Nat
  <2>1. /\ IsFiniteSet(span)
        /\ Cardinality(span) =
             IF Segments[seg].offset > SegmentEnd(seg) - 1 THEN 0
             ELSE SegmentEnd(seg) - 1 - Segments[seg].offset + 1
    <3>1. Segments[seg].offset \in Int /\ SegmentEnd(seg) - 1 \in Int
      BY <1>2
    <3>2. QED
      BY <3>1, FS_Interval
  <2> HIDE DEF span
  <2>2. QED
    BY <1>1, <1>2, <2>1
<1>6. data \subseteq (pinned \cup stretch) \cup span
  BY <1>1 DEF Holding, Within, SegmentBytes, TypeInv, TypeOK, AssembledBytes
<1> HIDE DEF pinned, stretch, span
<1>7. /\ IsFiniteSet(pinned \cup stretch)
      /\ Cardinality(pinned \cup stretch) \in Nat
      /\ Cardinality(pinned \cup stretch) <= HeaderPin + Reach
  <2>1. /\ IsFiniteSet(pinned \cup stretch)
        /\ Cardinality(pinned \cup stretch) =
             Cardinality(pinned) + Cardinality(stretch) - Cardinality(pinned \cap stretch)
    BY <1>3, <1>4, FS_Union
  <2>2. /\ Cardinality(pinned \cap stretch) \in Nat
        /\ Cardinality(pinned \cup stretch) \in Nat
    BY <1>3, <2>1, FS_Intersection, FS_CardinalityType
  <2>3. QED
    BY <1>1, <1>3, <1>4, <2>1, <2>2
<1> DEFINE both == pinned \cup stretch
<1> HIDE DEF both
<1>8. /\ IsFiniteSet(both \cup span)
      /\ Cardinality(both \cup span) \in Nat
      /\ Cardinality(both \cup span) <= HeaderPin + Reach + LargestSegment
  <2>1. IsFiniteSet(both) /\ Cardinality(both) \in Nat /\ Cardinality(both) <= HeaderPin + Reach
    BY <1>7 DEF both
  <2>2. /\ IsFiniteSet(both \cup span)
        /\ Cardinality(both \cup span) =
             Cardinality(both) + Cardinality(span) - Cardinality(both \cap span)
    BY <1>5, <2>1, FS_Union
  <2>3. Cardinality(both \cap span) \in Nat /\ Cardinality(both \cup span) \in Nat
    BY <2>1, <2>2, FS_Intersection, FS_CardinalityType
  <2>4. QED
    BY <1>1, <1>5, <2>1, <2>2, <2>3
<1>9. Cardinality(data) <= Cardinality(both \cup span) /\ Cardinality(data) \in Nat
  BY <1>6, <1>8, FS_Subset, FS_CardinalityType DEF both
<1>10. Cardinality(data) <= HeaderPin + Backbuffer + m + 2 * (LargestSegment - 1)
  BY <1>1, <1>8, <1>9
<1>11. QED
  BY <1>10 DEF DiskBounded, m

Started == {r \in Requests : pc[r] # "idle"}

\* At any time finitely many requests have arrived.
LEMMA FinitelyMany ==
  ASSUME TypeInv, IsFiniteSet(Started), [Next]_vars
  PROVE  IsFiniteSet(Started')
<1>1. ASSUME NEW r \in Requests, \A p \in Requests \ {r} : pc'[p] = pc[p]
      PROVE  IsFiniteSet(Started')
  <2>1. Started' \subseteq Started \cup {r}
    BY <1>1 DEF Started
  <2>2. QED
    BY <2>1, FS_AddElement, FS_Subset
<1>2. CASE pc' = pc
  BY <1>2 DEF Started
<1>3. ASSUME NEW r \in Requests, NEW range \in Ranges, OpenRequest(r, range)
      PROVE  IsFiniteSet(Started')
  <2>1. EndStream(r, "failed") \/ EnterChunk(r, range[1])
    BY <1>3 DEF OpenRequest
  <2>2. \A p \in Requests \ {r} : pc'[p] = pc[p]
    BY <2>1, MoveOn DEF Ended
  <2>3. QED
    BY <1>1, <2>2
<1>4. QED
  BY <1>1, <1>2, <1>3, MoverIsOpen DEF Moves

\* While one request at most has arrived, the disk holds no more than that.
LEMMA FirstBounds ==
  ASSUME TypeInv, FirstInv, IsFiniteSet(Started)
  PROVE  FirstPassBounded
<1> SUFFICES ASSUME Cardinality(Started) <= 1 PROVE DiskBounded
  BY DEF FirstPassBounded, Started
<1>1. 1 \in SegmentIdx /\ Floor \in Nat
  BY SegmentFields, ReachTypes DEF TypeInv
<1>2. CASE Started = {}
  <2>1. Holding(0, 1)
    BY <1>2 DEF Started, FirstInv, Holding
  <2>2. QED
    BY <1>1, <2>1, FewBytes
<1>3. CASE Started # {}
  <2>1. PICK r \in Requests : pc[r] # "idle"
    BY <1>3 DEF Started
  <2>2. ASSUME NEW q \in Requests \ {r}, pc[q] # "idle" PROVE FALSE
    <3>1. {q, r} \subseteq Started
      BY <2>1, <2>2 DEF Started
    <3>2. Cardinality({q, r}) = 2
      <4>1. Cardinality({r} \cup {q}) = Cardinality({r}) + 1
        BY FS_AddElement, FS_Singleton
      <4>2. {r} \cup {q} = {q, r} /\ Cardinality({r}) = 1
        BY FS_Singleton
      <4>3. QED
        BY <4>1, <4>2
    <3>3. Cardinality({q, r}) <= Cardinality(Started) /\ Cardinality(Started) \in Nat
      BY <3>1, FS_Subset, FS_CardinalityType
    <3>4. QED
      BY <3>2, <3>3
  <2>3. FirstPass(r)
    BY <2>1, <2>2 DEF FirstInv, Alone
  <2>4. \E from \in Nat, seg \in SegmentIdx : Holding(from, seg)
    <3>1. pc[r] \in Place /\ window[r][2] \in Nat
      BY DEF TypeInv, TypeOK
    <3>2. CASE pc[r] = "locate"
      BY <1>1, <2>3, <3>2 DEF FirstPass, Holding
    <3>3. CASE pc[r] \in {"fill", "read", "evict", "punch"}
      <4>1. Hand(r) \in SegmentIdx /\ Holding(Floor, Hand(r))
        BY <2>3, <3>3, HandBytes DEF FirstPass
      <4>2. QED
        BY <1>1, <4>1
    <3>4. CASE pc[r] \in {"forget", "advance"}
      BY <1>1, <2>3, <3>1, <3>4 DEF FirstPass, Holding
    <3>5. CASE pc[r] \in Ended
      BY <1>1, <2>3, <3>5 DEF FirstPass
    <3>6. QED
      BY <2>1, <3>1, <3>2, <3>3, <3>4, <3>5 DEF Place
  <2>5. QED
    BY <2>4, FewBytes
<1>4. QED
  BY <1>2, <1>3

(* During the first request of a session, wherever it starts and however it *)
(* ends, the cache file holds at most as many bytes as the pinned header,    *)
(* the backbuffer, a step and what of a segment stands out at either end.    *)
THEOREM FirstPassStaysBounded == Spec => []FirstPassBounded
<1>1. ASSUME ~ PunchMayFail, Evicting, ReadAhead < 2 PROVE Spec => []FirstPassBounded
  <2> DEFINE Inv == /\ TypeInv /\ HoleInv /\ DeliveryInv /\ NoPrefetch /\ FirstInv
                    /\ IsFiniteSet(Started)
  <2>1. Init => Inv
    <3>1. Init => NoPrefetch /\ FirstInv /\ Started = {}
      BY DEF Init, CacheInit, NoPrefetch, FirstInv, Started
    <3>2. QED
      BY <3>1, TypeInit, HoleInit, DeliveryInit, FS_EmptySet
  <2>2. Inv /\ [Next]_vars => Inv'
    <3> SUFFICES ASSUME Inv, [Next]_vars PROVE Inv'
      OBVIOUS
    <3>1. TypeInv' /\ HoleInv' /\ DeliveryInv'
      BY TypeStep, HoleStep, DeliveryStep
    <3>2. NoPrefetch' /\ FirstInv' /\ IsFiniteSet(Started')
      BY <1>1, NoPrefetchStep, FirstStep, FinitelyMany
    <3>3. QED
      BY <3>1, <3>2
  <2>3. Inv => FirstPassBounded
    BY FirstBounds
  <2>4. QED
    BY <2>1, <2>2, <2>3, PTL DEF Spec
<1>2. ASSUME ~ (~ PunchMayFail /\ Evicting /\ ReadAhead < 2) PROVE Spec => []FirstPassBounded
  <2>1. FirstPassBounded
    BY <1>2 DEF FirstPassBounded
  <2>2. QED
    BY <2>1, PTL
<1>3. QED
  BY <1>1, <1>2
=============================================================================
