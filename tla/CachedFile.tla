----------------------------- MODULE CachedFile -----------------------------
(***************************************************************************)
(* The sparse cache file of one session (src-rust/streaming/disk_cache.rs) *)
(* as the steps its methods are made of.  The file and the bookkeeping of  *)
(* what it holds are behind two different locks, so write_at and           *)
(* evict_range each change them in two steps that other tasks may          *)
(* come between.  PopulatedRanges is represented by the set of bytes it    *)
(* covers, which module PopulatedRanges shows to be what its operations    *)
(* compute with.                                                           *)
(***************************************************************************)
EXTENDS Integers, FiniteSetsExt

VARIABLES
  data,        \* the bytes of the file that hold payload; the others read as 0
  populated,   \* the bytes the bookkeeping says the file holds
  watermark,   \* last_evicted_to
  punched      \* history: the bytes in some hole punched so far

cacheVars == <<data, populated, watermark, punched>>

\* open_or_create: a file of the right length, nothing in it.
CacheInit ==
  /\ data = {}
  /\ populated = {}
  /\ watermark = 0
  /\ punched = {}

\* Slip: has_range finds a range whose first byte is populated good enough.
HasRangeStart(bytes) == bytes = {} \/ Min(bytes) \in populated

HasRange(bytes) == bytes \subseteq populated

\* write_at, under the file lock.
WriteFile(bytes) ==
  /\ data' = data \cup bytes
  /\ UNCHANGED <<populated, watermark, punched>>

\* write_at, after the file lock is dropped.
MarkPopulated(bytes) ==
  /\ populated' = populated \cup bytes
  /\ UNCHANGED <<data, watermark, punched>>

\* Slip: the window starts at the watermark even where that is in the header.
EvictWindowUnpinned(playhead, headerPin, backbuffer) ==
  <<watermark, Max({playhead - backbuffer, 0, headerPin})>>

\* Slip: the backbuffer is not subtracted from the playhead.
EvictWindowNoBackbuffer(playhead, headerPin, backbuffer) ==
  <<Max({watermark, headerPin}), Max({playhead, headerPin})>>

\* The window maybe_evict_behind computes: from the watermark to the byte that
\* lies a backbuffer behind the playhead (saturating_sub), both ends lifted to
\* the header pin.
EvictWindow(playhead, headerPin, backbuffer) ==
  <<Max({watermark, headerPin}), Max({playhead - backbuffer, 0, headerPin})>>

\* Slip: the length of the hole is taken for its end.
PunchHoleLengthAsEnd(from, to) ==
  /\ data' = data \ (from .. (to - from) - 1)
  /\ punched' = punched \cup (from .. to - 1)
  /\ UNCHANGED <<populated, watermark>>

\* punch_hole, under the file lock.
PunchHole(from, to) ==
  /\ data' = data \ (from .. to - 1)
  /\ punched' = punched \cup (from .. to - 1)
  /\ UNCHANGED <<populated, watermark>>

\* Slip: the last byte of the hole stays in the bookkeeping.
ForgetRangeShort(from, to) ==
  /\ populated' = populated \ (from .. to - 2)
  /\ UNCHANGED <<data, watermark, punched>>

\* evict_range, after the hole is punched.
ForgetRange(from, to) ==
  /\ populated' = populated \ (from .. to - 1)
  /\ UNCHANGED <<data, watermark, punched>>

\* The plain store at the end of maybe_evict_behind.
StoreWatermark(to) ==
  /\ watermark' = to
  /\ UNCHANGED <<data, populated, punched>>
=============================================================================
