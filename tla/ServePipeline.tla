---------------------------- MODULE ServePipeline ----------------------------
(***************************************************************************)
(* Serving HTTP byte ranges of one session                                 *)
(* (src-rust/streaming/pipeline.rs over disk_cache.rs).                    *)
(*                                                                         *)
(* Every request runs serve_range_stream: it walks its range segment by    *)
(* segment, fetches a segment the cache lacks, yields the bytes it reads   *)
(* from the cache file, and evicts behind itself.  With read-ahead, every  *)
(* request also owns a prefetch task that fills the cache for the whole    *)
(* range.  All of them share the one CachedFile of the session.            *)
(*                                                                         *)
(* A step of the model is what happens between two points at which another *)
(* task can observe or change the shared file or bookkeeping.              *)
(***************************************************************************)
EXTENDS FileLayout, CachedFile

CONSTANTS
  Requests,      \* request identifiers; each is used once
  Ranges,        \* the ranges <<first, last>> clients ask for
  MaxOpen,       \* how many requests a client keeps open at a time
  ReadAhead,     \* READ_AHEAD_SEGMENTS
  HeaderPin,     \* EvictPolicy.header_pin
  Backbuffer,    \* EvictPolicy.backbuffer
  Step,          \* EvictPolicy.step
  PunchMayFail,  \* whether the file system may refuse to punch a hole
  ChunkSize      \* CHUNK_SIZE

ASSUME PipelineAssumption ==
  /\ Ranges \subseteq Nat \X Nat
  /\ \A range \in Ranges : range[1] <= range[2]      \* http_range.rs, and Full
  /\ MaxOpen \in Nat \ {0}
  /\ ReadAhead \in Nat
  /\ PunchMayFail \in BOOLEAN
  /\ HeaderPin \in Nat /\ Backbuffer \in Nat /\ Step \in Nat
  /\ ChunkSize \in Nat \ {0}

VARIABLES
  pc,        \* where each request's stream is
  asked,     \* its range, in video bytes
  cursor,    \* the video byte its current chunk was entered at
  aPos,      \* the next assembled byte it reads (a_pos, read_pos within a segment)
  window,    \* the eviction window it computed
  todo,      \* the segments its prefetcher has not looked at yet
  fills,     \* ensure_segment_cached calls under way, of streams and prefetchers
  sent,      \* history: the assembled bytes it yielded, in order
  holes      \* history: the bytes some request yielded as zeros

walkVars == <<cursor, aPos, window>>
vars == <<cacheVars, pc, asked, walkVars, todo, fills, sent, holes>>

\* Without a backbuffer there is no EvictPolicy (main.rs).
Evicting == Backbuffer > 0

NoWindow == <<0, 0>>
NoRange == <<>>

\* A call of ensure_segment_cached: by the stream itself ("stream") or by its
\* prefetcher ("prefetch"); first it fetches, then its bytes are in the file
\* and not yet in the bookkeeping ("written").
Fill == [req : Requests, seg : SegmentIdx, by : {"stream", "prefetch"},
         at : {"fetching", "written"}]

Ended == {"done", "failed", "closed"}
Place == {"idle", "locate", "fill", "read", "evict", "punch", "forget", "advance"}
           \cup Ended
Open == {r \in Requests : pc[r] \notin Ended \cup {"idle"}}
Prefetching(r) == {f \in fills : f.req = r /\ f.by = "prefetch"}

Init ==
  /\ CacheInit
  /\ pc = [r \in Requests |-> "idle"]
  /\ asked = [r \in Requests |-> NoRange]
  /\ cursor = [r \in Requests |-> 0]
  /\ aPos = [r \in Requests |-> 0]
  /\ window = [r \in Requests |-> NoWindow]
  /\ todo = [r \in Requests |-> {}]
  /\ fills = {}
  /\ sent = [r \in Requests |-> <<>>]
  /\ holes = {}

-----------------------------------------------------------------------------
(* The walk over the range. *)

\* The last video byte, and the last assembled byte, of the current chunk.
VideoChunkEnd(r) == Min({cursor[r] + ChunkRemaining(cursor[r]) - 1, asked[r][2]})
AssembledChunkEnd(r) == VideoToAssembled(cursor[r]) + (VideoChunkEnd(r) - cursor[r])

\* Slip: a segment is read to its end even where the chunk ends inside it.
ReadEndOfSegment(r) == SegmentEnd(FindSegment(aPos[r])) - 1

\* The last byte read from the segment that holds aPos[r].
ReadEnd(r) == Min({SegmentEnd(FindSegment(aPos[r])) - 1, AssembledChunkEnd(r)})

\* The stream ends, its locals with it, and its guard aborts the prefetcher.
EndStream(r, how) ==
  /\ pc' = [pc EXCEPT ![r] = how]
  /\ todo' = [todo EXCEPT ![r] = {}]
  /\ cursor' = [cursor EXCEPT ![r] = 0]
  /\ aPos' = [aPos EXCEPT ![r] = 0]
  /\ window' = [window EXCEPT ![r] = NoWindow]

\* The outer loop takes up the chunk of video byte v.
EnterChunk(r, v) ==
  /\ pc' = [pc EXCEPT ![r] = "locate"]
  /\ cursor' = [cursor EXCEPT ![r] = v]
  /\ aPos' = [aPos EXCEPT ![r] = VideoToAssembled(v)]
  /\ window' = [window EXCEPT ![r] = NoWindow]

\* The segment is served: on to the next segment, the next chunk, or the end.
NextSegment(r) ==
  LET next == VideoChunkEnd(r) + 1
  IN  IF aPos[r] <= AssembledChunkEnd(r)
      THEN /\ pc' = [pc EXCEPT ![r] = "locate"]
           /\ window' = [window EXCEPT ![r] = NoWindow]
           /\ UNCHANGED <<todo, cursor, aPos>>
      ELSE IF next > asked[r][2] THEN EndStream(r, "done")
      ELSE IF ChunkRemaining(next) = 0 THEN EndStream(r, "failed")
      ELSE EnterChunk(r, next) /\ UNCHANGED todo

\* A request arrives: its prefetcher is spawned over the segments of the whole
\* range and its stream enters the first chunk.
OpenRequest(r, range) ==
  /\ pc[r] = "idle"
  /\ Cardinality(Open) < MaxOpen
  /\ asked' = [asked EXCEPT ![r] = range]
  /\ IF ChunkRemaining(range[1]) = 0
     THEN EndStream(r, "failed")
     ELSE /\ EnterChunk(r, range[1])
          /\ todo' = [todo EXCEPT ![r] =
               IF ReadAhead >= 2 THEN SegmentIndicesInRange(range[1], range[2]) ELSE {}]
  /\ UNCHANGED <<cacheVars, fills, sent, holes>>

\* has_range for the segment of aPos: read it, or fetch it first.
Locate(r) ==
  LET seg == FindSegment(aPos[r])
  IN  /\ pc[r] = "locate"
      /\ IF seg = NoSegment THEN EndStream(r, "failed") /\ UNCHANGED fills
         ELSE IF HasRange(SegmentBytes(seg))
         THEN /\ pc' = [pc EXCEPT ![r] = "read"]
              /\ UNCHANGED <<walkVars, todo, fills>>
         ELSE /\ pc' = [pc EXCEPT ![r] = "fill"]
              /\ fills' = fills \cup
                   {[req |-> r, seg |-> seg, by |-> "stream", at |-> "fetching"]}
              /\ UNCHANGED <<walkVars, todo>>
      /\ UNCHANGED <<cacheVars, asked, sent, holes>>

\* One read_at and the yield of what it returned.  The populated bookkeeping
\* is not consulted again.
ReadChunk(r) ==
  LET upto == Min({aPos[r] + ChunkSize - 1, ReadEnd(r)})
  IN  /\ pc[r] = "read"
      /\ sent' = [sent EXCEPT ![r] = @ \o [i \in 1 .. upto - aPos[r] + 1 |-> aPos[r] + i - 1]]
      /\ holes' = holes \cup ((aPos[r] .. upto) \ data)
      /\ aPos' = [aPos EXCEPT ![r] = upto + 1]
      /\ pc' = [pc EXCEPT ![r] = IF upto = ReadEnd(r) THEN "evict" ELSE "read"]
      /\ UNCHANGED <<cacheVars, asked, cursor, window, todo, fills>>

ReadFails(r) ==
  /\ pc[r] = "read"
  /\ EndStream(r, "failed")
  /\ UNCHANGED <<cacheVars, asked, fills, sent, holes>>

-----------------------------------------------------------------------------
(* ensure_segment_cached, by a stream or by its prefetcher. *)

\* Some server delivers the article and write_at puts its payload in the file.
FillWrite(f) ==
  /\ f.at = "fetching"
  /\ WriteFile(Payload(f.seg))
  /\ fills' = (fills \ {f}) \cup {[f EXCEPT !.at = "written"]}
  /\ UNCHANGED <<pc, asked, walkVars, todo, sent, holes>>

\* write_at records what it wrote; a stream waiting for the segment reads it,
\* whatever the length of the payload was.  A stream that was dropped records
\* nothing; a prefetcher runs on until its next await.
FillInsert(f) ==
  /\ f.at = "written"
  /\ f.by = "stream" => pc[f.req] = "fill"
  /\ MarkPopulated(Payload(f.seg))
  /\ fills' = fills \ {f}
  /\ IF f.by = "stream"
     THEN pc' = [pc EXCEPT ![f.req] = "read"]
     ELSE UNCHANGED pc
  /\ UNCHANGED <<asked, walkVars, todo, sent, holes>>

\* Slip: the error is logged and swallowed for the stream as well.
FillFailSwallowed(f) ==
  /\ f.at = "fetching"
  /\ fills' = fills \ {f}
  /\ UNCHANGED <<cacheVars, pc, asked, walkVars, todo, sent, holes>>

\* Every server failed, or the write did: the error ends a stream, and a
\* prefetcher logs it and goes on.
FillFail(f) ==
  /\ f.at = "fetching"
  /\ fills' = fills \ {f}
  /\ IF f.by = "stream" /\ pc[f.req] = "fill"
     THEN EndStream(f.req, "failed")
     ELSE UNCHANGED <<pc, walkVars, todo>>
  /\ UNCHANGED <<cacheVars, asked, sent, holes>>

\* The task was cancelled at an await; a write it had handed over may still
\* have reached the file, unrecorded.
FillDrop(f) ==
  /\ pc[f.req] \in Ended
  /\ fills' = fills \ {f}
  /\ UNCHANGED <<cacheVars, pc, asked, walkVars, todo, sent, holes>>

\* buffer_unordered starts the next segment while fewer than ReadAhead are in
\* flight; a segment already cached needs no fetch.
Prefetch(r) ==
  /\ todo[r] # {}
  /\ Cardinality(Prefetching(r)) < ReadAhead
  /\ LET seg == Min(todo[r])
     IN  /\ todo' = [todo EXCEPT ![r] = @ \ {seg}]
         /\ fills' = IF HasRange(SegmentBytes(seg)) THEN fills
                     ELSE fills \cup {[req |-> r, seg |-> seg, by |-> "prefetch",
                                       at |-> "fetching"]}
  /\ UNCHANGED <<cacheVars, pc, asked, walkVars, sent, holes>>

-----------------------------------------------------------------------------
(* maybe_evict_behind, after each segment. *)

StartEvict(r) ==
  LET w == EvictWindow(aPos[r], HeaderPin, Backbuffer)
  IN  /\ pc[r] = "evict"
      /\ IF Evicting /\ w[2] > w[1] /\ w[2] - w[1] >= Step
         THEN /\ window' = [window EXCEPT ![r] = w]
              /\ pc' = [pc EXCEPT ![r] = "punch"]
              /\ UNCHANGED <<todo, cursor, aPos>>
         ELSE NextSegment(r)
      /\ UNCHANGED <<cacheVars, asked, fills, sent, holes>>

Punch(r) ==
  /\ pc[r] = "punch"
  /\ PunchHole(window[r][1], window[r][2])
  /\ pc' = [pc EXCEPT ![r] = "forget"]
  /\ UNCHANGED <<asked, walkVars, todo, fills, sent, holes>>

\* Slip: the watermark advances over a hole that could not be punched.
PunchFailsAdvancing(r) ==
  /\ PunchMayFail
  /\ pc[r] = "punch"
  /\ StoreWatermark(window[r][2])
  /\ NextSegment(r)
  /\ UNCHANGED <<asked, fills, sent, holes>>

\* fallocate failed: logged, the watermark stays, the stream goes on.
PunchFails(r) ==
  /\ PunchMayFail
  /\ pc[r] = "punch"
  /\ NextSegment(r)
  /\ UNCHANGED <<cacheVars, asked, fills, sent, holes>>

Forget(r) ==
  /\ pc[r] = "forget"
  /\ ForgetRange(window[r][1], window[r][2])
  /\ pc' = [pc EXCEPT ![r] = "advance"]
  /\ UNCHANGED <<asked, walkVars, todo, fills, sent, holes>>

Advance(r) ==
  /\ pc[r] = "advance"
  /\ StoreWatermark(window[r][2])
  /\ NextSegment(r)
  /\ UNCHANGED <<asked, fills, sent, holes>>

-----------------------------------------------------------------------------

\* The client goes away: the stream is dropped at an await or at a yield.
Disconnect(r) ==
  /\ pc[r] \in {"fill", "read", "punch"}
  /\ EndStream(r, "closed")
  /\ UNCHANGED <<cacheVars, asked, fills, sent, holes>>

Next ==
  \/ \E r \in Requests :
       \/ \E range \in Ranges : OpenRequest(r, range)
       \/ Locate(r) \/ ReadChunk(r) \/ ReadFails(r) \/ Prefetch(r)
       \/ StartEvict(r) \/ Punch(r) \/ PunchFails(r) \/ Forget(r) \/ Advance(r)
       \/ Disconnect(r)
  \/ \E f \in fills : FillWrite(f) \/ FillInsert(f) \/ FillFail(f) \/ FillDrop(f)

Spec == Init /\ [][Next]_vars

(* What a stream does by itself: its task is run whenever it can be, its    *)
(* client keeps reading, and a fetch ends (every NNTP wait has a timeout).  *)
StreamStep(r) ==
  \/ Locate(r) \/ ReadChunk(r)
  \/ StartEvict(r) \/ Punch(r) \/ Forget(r) \/ Advance(r)
  \/ \E f \in fills : /\ f.req = r /\ f.by = "stream"
                      /\ FillWrite(f) \/ FillInsert(f) \/ FillFail(f)

\* Nothing is assumed of prefetchers.
FairSpec == Spec /\ \A r \in Requests : WF_vars(StreamStep(r))

-----------------------------------------------------------------------------
(* Properties. *)

TypeOK ==
  /\ data \subseteq AssembledBytes
  /\ populated \subseteq AssembledBytes
  /\ watermark \in Nat
  /\ punched \subseteq Nat
  /\ pc \in [Requests -> Place]
  /\ asked \in [Requests -> Ranges \cup {NoRange}]
  /\ cursor \in [Requests -> Nat]
  /\ aPos \in [Requests -> Nat]
  /\ window \in [Requests -> Nat \X Nat]
  /\ todo \in [Requests -> SUBSET SegmentIdx]
  /\ fills \subseteq Fill
  /\ sent \in [Requests -> Seq(AssembledBytes)]
  /\ holes \subseteq AssembledBytes

\* The bytes no article holds: the tails of segments that decode short.
ShortTails == AssembledBytes \ UNION {Payload(i) : i \in SegmentIdx}

\* However many requests overlap, a byte is served as a zero only if no article
\* holds it or if a hole was punched over this very byte: never a byte of the
\* pinned header, never one that was written and not evicted.
HolesOnlyEvicted ==
  \A b \in holes : b \in ShortTails \/ (HeaderPin <= b /\ b \in punched)

\* The watermark tells the next window where to begin, so it passes no byte that
\* was never punched: whichever of the requests that race for it stores it last,
\* even backwards, and whichever of their punches failed or were abandoned.
NothingSkipped == HeaderPin .. watermark - 1 \subseteq punched

\* A byte of the pinned header that reached the file stays in the file.
PinnedBytesStay == [][\A b \in data : b < HeaderPin => b \in data']_vars

\* Every byte yielded is the one the range asked for, in order.
Delivery ==
  INSTANCE RangeDelivery WITH
    status <- [r \in Requests |-> IF pc[r] \in Ended \cup {"idle"} THEN pc[r] ELSE "open"],
    Content <- VideoToAssembled
DeliverySpec == Delivery!Spec

\* No request is ever served a zero in place of a byte some article holds.
NoHoleServed == holes \subseteq ShortTails

\* The bookkeeping claims a byte the file lacks only while the eviction that
\* punched it is about to forget it.
BookkeepingHonest ==
  \A b \in populated \ data :
    \E r \in Requests : pc[r] = "forget" /\ b \in window[r][1] .. window[r][2] - 1

\* What an eviction takes lies more than a backbuffer behind every stream.
BackbufferKept ==
  [][\A b \in data \ data' : \A r \in Open : b < aPos[r] - Backbuffer]_vars

\* The file settles at the pinned header, the backbuffer and a step of bytes
\* that wait for the next punch; at either end of these a segment may stand out:
\* the one read last, whose tail lies ahead of the playhead, and the one read
\* next, beyond the header of the next volume.
LargestSegment == Max({Segments[i].bytes : i \in SegmentIdx})
DiskBounded ==
  Cardinality(data) <= HeaderPin + Backbuffer + Max({Step, 1}) + 2 * (LargestSegment - 1)

\* So it is during the first request of a session, wherever that starts, while
\* no prefetcher runs ahead of the stream and holes can be punched.
FirstPassBounded ==
  (/\ Evicting /\ ReadAhead < 2 /\ ~ PunchMayFail
   /\ Cardinality({r \in Requests : pc[r] # "idle"}) <= 1) => DiskBounded

\* Every request ends: it is served in full, it fails or its client leaves.
EveryRequestEnds == \A r \in Requests : (r \in Open) ~> (pc[r] \in Ended)
=============================================================================
