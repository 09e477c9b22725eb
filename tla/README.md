# Verification of stremio-nzb-addon

The addon turns NZB search results into Stremio streams. Its core is the code
under `src-rust/streaming/`: a video is a sequence of Usenet articles, and an
HTTP range request for it is answered by fetching the articles the range needs
into a sparse cache file and reading the bytes back, while earlier parts of the
file are evicted by punching holes. This directory holds TLA+ models of that
program, the TLC configurations that check them and proofs for TLAPS.

Paths below are relative to the repository; `rust/` abbreviates `src-rust/`.

## 1. Inventory

| Component | State | Operations | Called by |
|---|---|---|---|
| **Range bookkeeping** `rust/streaming/ranges.rs` | a map from interval starts to ends | `insert`, `remove_range`, `contains_range`, `first_gap`, `total_bytes` | cache file |
| **Cache file** `rust/streaming/disk_cache.rs` | a sparse file (async mutex), the ranges it holds (sync mutex), `last_evicted_to` (atomic) | `write_at`, `read_at`, `has_range`, `evict_range`, `maybe_evict_behind` | pipeline |
| **File layout** `rust/streaming/session.rs`, `pipeline.rs` | immutable: the segments of the assembled stream, the chunks that map the video into it | `find_segment`, `segment_indices_in_range`, chunk lookup | pipeline |
| **Pipeline** `rust/streaming/pipeline.rs` | per request: position, eviction window; per request with read-ahead: a prefetch task | `serve_range_stream`, `prefetch_segments`, `ensure_segment_cached` | `video_route` |
| **Session registry** `rust/streaming/session.rs` | token → session; per session a `OnceCell` with the preflight's result, `last_access` | `register_group`, `touch` | stream list, `video_route`, GC |
| **Garbage collector** `rust/streaming/gc.rs` | none; a timer task | `run_once` (idle eviction, then eviction to the disk cap), `clear_cache_dir` at boot | timer |
| **Preflight** `rust/streaming/preflight.rs` | none | pick the main file or the volumes of an archive, read their headers, derive the layout from decoded sizes | `video_route`, once per session |
| **NNTP pool** `rust/streaming/nntp.rs` | connections and a semaphore per server | `fetch_article`, `fetch_with_failover` | pipeline, preflight, availability |
| **NZB fetch** `rust/nzb_fetch.rs` | per-indexer throttle deadlines | `fetch_nzb_xml`: throttle, retry, arm the throttle | sanity, availability, preflight |
| **Sanity check** `rust/nzb_sanity.rs`, `cache.rs` | caches of verdicts | `check_nzb_sanity`, `filter` | stream list |
| **Availability check** `rust/nzb_availability.rs` | cache of verdicts; per probe a connection of its own | `check`, `invalidate`, `select_canaries`, `run_body_probe` | stream list, `video_route` |
| **Search** `rust/nzb_api.rs`, `cinemeta.rs`, `tvdb.rs` | caches of replies | `cached_call`, fan-out over indexers | stream list |
| **Stream list** `rust/stream.rs`, `quality.rs`, `content_filter.rs`, `streaming/candidate.rs` | none | filter, rank, group into candidate lists, truncate | HTTP |
| **HTTP ranges** `rust/streaming/http_range.rs` | none | `parse_range`, content length | `video_route` |
| **Authentication and bans** `rust/auth.rs`, `ip_ban.rs` | per address: recent failures, ban deadline | `is_banned`, `record_failure`, `currently_banned` | middleware |
| **Configuration** `rust/config.rs` | the shared configuration | `merged_with`, `normalize`, `validate`, `resolve` | everything |
| **HTTP surface** `rust/main.rs`, `manifest.rs`, `stremio.rs`, `healthcheck.rs`, `util.rs` | the shared application state | routes | Stremio |

### How they interact

`video_route` looks the session up by its token, touches it, runs the preflight
once (concurrent requests wait for the same `OnceCell`), parses the range and
returns a body whose bytes `serve_range_stream` yields. All requests of a
session share one cache file. With read-ahead every request also spawns a
prefetch task; the guard in the stream aborts it when the stream is dropped.
Each fetch goes to the NNTP servers in order. The collector removes sessions,
their file and their bookkeeping, from the side. The runtime is
multi-threaded: everything not under one lock interleaves.

### What is hard here, and what makes it correct

- *Pipeline and cache file.* A read is guarded by a check that is not repeated;
  a write is recorded after its lock is dropped; an eviction punches first and
  forgets second, and stores its watermark last. Any other request of the
  session may come between; a client may drop the stream at any await; an
  article may decode to another length than its segment declares; a server may
  fail, the file system may refuse to punch. Correct means: the bytes served
  are those the range names, in order, and are not zeros of a hole; the
  bookkeeping does not claim bytes the file lacks; the header stays; the disk
  stays bounded; every request ends.
- *Range bookkeeping.* `contains_range` asks one interval, so intervals must
  never touch; correct means it answers as the set of bytes would.
- *Sessions and collector.* `run_once` decides on a list it read before its
  awaits. Correct means: it does not take a file from under an active stream
  and leaves no file without a session.
- *Preflight.* The offsets of all segments follow from one decoded size and a
  claimed total; correct means contiguous segments that cover the video.
- *NNTP pool and probes.* A connection is returned or discarded on every path,
  timeouts and cancellation included, never with a reply still to come, and
  failover tries each server. A probe reacts to codes alone, yet its verdict
  must be true.
- *Fetch and verdict caches.* A transient failure must not become a lasting
  verdict; an invalidation must win over a probe under way.
- *Stream list.* Indexers fail on their own; several caches are filled by
  whoever comes first; items are sorted, grouped, capped, validated and grouped
  again. Correct means: no answer is taken for another's, a cap before the
  validation costs no result after it, and a list of fallbacks is complete.
- *Bans, tokens, configuration.* The edges of the window and of the ban, whom a
  failure is counted against behind a proxy, what is left of a file after it is
  normalised, and whose settings a token opens.
- *HTTP ranges.* Suffixes, open ranges, inclusive ends, empty files.

PROJECT.json lists each hazard at its line.

## 2. Plan

Done, in this order:

1. `PopulatedRanges`: the interval algorithm against the set of bytes.
2. `FileLayout`, `CachedFile`, `ServePipeline`: the serving of ranges, the core
   of the system, with its abstract specification `RangeDelivery`.
3. `VideoSessions`, `SessionGC`: sessions, the shared preflight and the
   collector.
4. `NzbFetch`, `NzbVerdicts`: the shared fetcher and the two caches of verdicts.
5. `ReleaseFiles`, `LayoutBuild`, `HttpRange`, `ProbedLayout`: what a preflight
   chooses and derives, and what a range is answered.
6. `BodyProbe`, `NntpServers`: pooled connections and the dialogue of a probe.
7. `IpBan`, `Config`, `Gateway`: the way of a request into the addon; the ban
   list is also an abstract specification that `Gateway` implements.
8. `StreamRank`, `StreamSearch`: from a search to the list of streams.
9. Theorems about every component with a specification (section 5): first type
   correctness and what is local to one step, then the refinement of
   `RangeDelivery`, the service of one request at a time, the accounting of
   `PopulatedRanges`, what a search hears, filters and lists, and last what a
   preflight derives from a release and a request is answered.

Left, most important first:

10. The availability check inside the stream list: `StreamSearch` has one
    verdict per item, `NzbVerdicts` one task per document.
11. Two lists of servers, the user's and the pool's, in `NzbVerdicts`.

## 3. Modules and the code

`PROJECT.json` maps every definition to its lines. What the models leave out of
each part, and how state and steps correspond:

**PopulatedRanges** (`ranges.rs`). The map is a set of `<<start, end>>` pairs;
one action per mutating method, and every query as an operator. `written` is the
history the queries are compared with. Because it shows that the map always
denotes exactly the bytes written, the other modules keep that set instead.

**FileLayout** (`session.rs`, `pipeline.rs`). Constant: the segments and chunks
of one release and the lookups in them. The binary search is modelled by what it
finds, the last segment that starts at or before the byte (`FindSegment`). A
segment is part of one file and a file has one chunk (`OneChunkPerSegment`), so
no segment has bytes of two. `decoded` is the length an article really
has, which the code only learns by decoding it: `Payload` cuts an article that
is too long and leaves the tail of one that is too short unwritten, as
`ensure_segment_cached` does.

**CachedFile** (`disk_cache.rs`). `data` is what the file holds, `populated`
what the bookkeeping says, `watermark` is `last_evicted_to`. The file is behind
an async mutex, the bookkeeping behind another: `write_at` and `evict_range`
are two steps each, in the order of the code, and `maybe_evict_behind` is a
load, a punch, a forget and a store. `punched` remembers every byte over which a
hole was punched.

**ServePipeline** (`pipeline.rs`). One stream per request and its prefetch
task. A step is what happens between two points at which another task can
observe the file or the bookkeeping. `Locate` asks `has_range`, `ReadChunk`
reads at most `CHUNK_SIZE` bytes, `FillWrite` and `FillInsert` are the two
halves of `write_at`, `StartEvict` to `Advance` the eviction. A client may
disconnect at any step; a fill already handed to the file may still land
(`FillDrop` and late `FillWrite`), and the aborted prefetcher's fills end when
they please. The servers a fetch tries are one outcome here; `NntpServers` has
them.

**RangeDelivery** is what a client may rely on: the bytes of its range, each
once, in order, then the end; or a failure, or a disconnect. `ServePipeline`
implements it with `status` read off `pc` and `Content` the mapping of video to
assembled bytes.

**VideoSessions** (`session.rs`, `video_route` of `main.rs`). A session is
unborn, registered or dropped; requests hold it by reference after it left the
registry. The `OnceCell` is a token: one request probes the candidates in order,
the rest wait, and the turn passes on if it fails or leaves. A file is a number
of blocks; `dir` is the directory listing, so an unlinked file still open is not
in it.

**SessionGC** (`gc.rs`). Every await of `run_once` ends a step; the walk over
the registry and the one over the directory are one step each. `unseen` counts
the blocks written after the pass took its total, for `CapReached`.

**NzbFetch** (`nzb_fetch.rs`). A task is one candidate of a search, or one
preflight. The lookup in the byte cache, the look at the throttle, each request
and its answer are separate steps. Time is not counted: a cooldown ends, and a
cache drops an entry, whenever it pleases. `early` records who was asking a host
when its cooldown began.

**NzbVerdicts** (`nzb_sanity.rs`, `nzb_availability.rs`, `cache.rs`, the fetch
and first article of `preflight.rs`). Looking up a verdict, reaching it and
inserting it are separate steps, so that an invalidation may come between. A
server holds all articles of a release or none, so one question per server
stands for its canaries; a question may fail for any other reason too. Servers
lose releases and never regain them.

**ReleaseFiles**, **StableSort** (`preflight.rs`, `nzb_availability.rs`). Which
file or volumes a preflight plays, what the headers of an archive make it
refuse, and which articles the availability check asks for. A name is its style
(`.partNN.rar`, `.rNN`, video, ...) and its number: that is what the code reads
from it. `StableSort` has the filter, the sort and the extremes of the standard
library, which decide ties: `Keep` and `Filter` are folds, `SortedBy` inserts
each element behind all that it does not precede, for an order given as a set of
pairs, and `StableSorted` takes the order as an operator. The library's
`SelectSeq` and `SortSeq` would do for TLC; a prover cannot look into them.
`InOrder` walks a finite set as the ordered map of `ranges.rs` is walked.

**LayoutBuild**, **HttpRange**, **ProbedLayout** (`preflight.rs`,
`http_range.rs`, `video_route`). Operators over what a preflight sees: the
parts the NZB lists, the decoded length of the first article, the sizes given.
`ProbedLayout` also knows what was really posted, instantiates `FileLayout`
with the derived layout and compares. `ReleaseAssumption` says which releases it
is about: those that are complete and whose articles but the last have one
length, as posting tools make them; the data of a video lies inside its file, a
yEnc header gives the true size, none, or one that the articles before the last
exceed already, and no sample has the name of a video where no other name is
known. A size claimed beyond what the articles hold is believed by the code and
excluded here. A flat release has one more condition: if the NZB
gives the length of the first payload as its own, it does so for the others,
since the code then keeps all of its lengths (`preflight.rs:160-188`).
`LayoutSound` says of the derived layout what `LayoutAssumption` and
`OneChunkPerSegment` ask for, from which the proofs about `FileLayout` start.

**BodyProbe** (`run_body_probe`). The probe and its server exchange codes over
two queues. The server is external: to each command it may answer as asked
(281 to USER included), refuse the login (481, 482), demand it (480), refuse with
any code of `Refusals` and keep the session open, or close; `RefusalsAssumption`
lets those be any codes from 400 on but the two that speak of the article.
`authenticated` is the flag of the code, `heard` the last line the probe has
read. The probe passes over most of the 4xx codes and sends nothing more; `body_probe`'s
5 s timeout, which then ends it, may strike at any time.

**NntpServers** (`nntp.rs`). A pooled connection is the sequence of articles
asked for whose replies are still to come, so that a connection given back too
early is visible to the next fetch. `lent` counts the permits of each server's
semaphore, apart from who holds a connection, so that a permit may be lost. A
fetch waits for a connection, asks, and
then gives it back, discards it, or is aborted; the walk over the servers is
the list `fetch_with_failover` makes by its swap. One probe connects beside the
pools, through `BodyProbe`, to the server's limit of connections. The same walk
in `ensure_segment_cached` (`pipeline.rs:301-398`) has the same steps.

**IpBan** (`ip_ban.rs`). The clock ticks; a request is checked when it arrives
and its failure, if any, is recorded later, after others had their turn. Both
calls are synchronous and take no time. A failure is named after the request
that caused it. The window always reaches back to a moment the clock knows: the
fallback for one it does not (`ip_ban.rs:112`) is left out. Whether a ban was
earned is read off the requests and their times; `lastEnd` remembers the end of the latest ban.

**Config** (`config.rs`). What `normalize` makes of a file, when `validate`
refuses it, and `resolve` for a user. Texts are only trimmed, lowered and
compared, so they are values with these two functions as parameters.

**Gateway** (`main.rs`, `auth.rs`). `Boot` is `main` up to serving or exit.
A request passes the ban middleware, the token, the limiter (one choice), and
runs with its user's settings. The users are a map walked in no order, so
`user_for_key` is a choice among those it may find.

**StreamRank** (`quality.rs`, `content_filter.rs`, `candidate.rs`, the sorting
and capping of `stream.rs`). Operators on sequences of items. An item is what
the title parser, a library, reads from a title.

**StreamSearch** (`stream.rs`, `nzb_api.rs`, `cache.rs`, `tvdb.rs`,
`cinemeta.rs`). A search asks TheTVDB for a show's number, then every indexer at
once, then Cinemeta for the languages of the title; each question looks a cache
up, asks and inserts in separate steps. Then the items are filtered, ranked and
capped, the two checks refuse any of them, and what is left is grouped and
registered as sessions. `SearchAssumption` says that the settings and answers are
lists, that the languages of an item are among those the code has patterns for,
and that a user's limit per resolution is at most 2^30: the code doubles it in 32
bits (`stream.rs:374`). The signature of a release stands for its `bingeGroup`, a
text joined from its parts, and only tells releases apart.

## 4. Runs

| Run | Configuration | Shows |
|---|---|---|
| `populated_ranges` | `MCPopulatedRanges.cfg` | every sequence of inserts and removals over 7 bytes: enough for two intervals with a gap, overlapped, joined or split in every way |
| `stream_single` | `StreamSingle.cfg` | one request at a time, two in a row, over two volumes in five segments; ranges: the whole, the middle, the end. Delivery, no holes, honest bookkeeping, the backbuffer, the first-pass bound, every request ends |
| `stream_overlap` | `StreamOverlap.cfg` | two requests at once with prefetchers over two segments, holes that cannot be punched, disconnects: what a torn read may and may not reach, and what the watermark may pass |
| `session_gc` | `SessionGC.cfg` | two sessions, two requests, four ticks, a cap of one block; restarts and failing unlinks |
| `shared_preflight` | `SharedPreflight.cfg` | three requests on one preflight of two candidates: each is answered |
| `nzb_verdicts` | `NzbVerdicts.cfg` | three tasks, two documents of one indexer, two servers, two attempts |
| `probed_layout` | `ProbedLayout.cfg` | all flat releases of up to 3 articles of up to 3 bytes and all RAR sets of up to 2 volumes of up to 2 articles, their sizes true, missing or too small, in order or in reverse, under names of every style, beside a sample or alone, stored or compressed, with a password or without; headers with bounds 0, 2 and 5 |
| `nntp_pool` | `NntpServers.cfg` | two fetches and a probe, two servers: the first is full with its pool's one connection, the second admits one more; refusals 403 (passed over) and 503 |
| `gateway` | `Gateway.cfg` | three requests of three clients, two of them behind a proxy, against ten files; two failures within one tick ban for two |
| `stream_list` | `StreamSearch.cfg` | two searches, two indexers; a movie and a show that has the movie's number; one result per resolution |
| `stream_torn`, `gc_playing` | `StreamTorn.cfg`, `GCPlaying.cfg` | the two findings of section 6 |

*Bounds and why they suffice.* `StreamSingle` has every boundary the walk
crosses: a chunk that starts inside a segment, one that ends inside it, two
volumes, a segment that decodes long and one that decodes short, and reads of
one byte so that every segment takes several. `HeaderPin`, `Backbuffer` and
`Step` of one or two bytes let the window pass the pin and wait for a step
within eight bytes. Two overlapping requests suffice for a torn read; a third
adds no new pair of neighbours, and `HolesOnlyEvicted` and `NothingSkipped` are
proved for any number.
`FirstPassBounded` asks for a first request, no read-ahead and no failing punch,
which is how `StreamSingle` runs and all that is proved too: where any of the
three is missing (a later request, read-ahead, a punch that fails) the file does
grow past the bound.
In `SessionGC`, `MaxClock` lets a session age past the protect window and reach
the idle timeout. Three tasks let a search probe, a preflight invalidate and
another search fetch at once. Two attempts instead of the code's three keep the
retries short: the first, the ones between and the last behave alike. `MCInit`
of `MCNzbVerdicts` starts with one release that the last server holds, beside an
upload without video on no server; `MCInit` of `MCNntpServers` fixes which
server holds what, so that either fetch needs one of them and the probe asks for
an article that exists, and lets a server accept a login only where there are
both a name and a password; the servers may fail at any step, and the invariants of
this run are proved for any number of fetches, servers and connections. In
`Gateway`, `MaxTime` of five ticks lets a ban begin on failures at both edges of
the window, end, and a failure come after it; a second ban would take a fourth
request, and is covered by `BansAreExact` and `GatewayBans` alone. In `stream_list` four uploads compete
for one bucket, with one result per resolution and `MinBuffer` of two instead
of four. `MaxUnseen`, `MaxFile`, `MaxClock`, `MaxOpen`, `MaxTime` and
`MaxVolumes` are bounds of the models, not of the code. `PunchMayFail` and
`UnlinkMayFail` switch a failure of the file system.

*Deadlock* is not checked where a model ends once its finitely many requests,
tasks or headers are used up, which is everywhere but in `PopulatedRanges`.

*Fairness.* `stream_single` assumes weak fairness of `StreamStep(r)`: the
runtime runs a task that can run, the client reads on, and every NNTP wait ends
by its 30 s timeouts. Nothing is assumed of prefetchers, the collector or
arrivals. `shared_preflight` assumes weak fairness of `RequestStep(r)`: the
fetch of a document ends (5 s, three attempts), every question to a server ends
(30 s), and the lists walked are finite. Nothing is assumed of clients leaving,
the clock or the collector. `nntp_pool` assumes weak fairness of `Waits(t)`,
that a fetch begins and that its waits, for a connection or a reply, end by
their timeouts. Nothing is assumed of the servers, of probes or of aborts.

## 5. Proofs

For every value of the constants that satisfies the named assumptions
(`LayoutAssumption`, `OneChunkPerSegment`, `PipelineAssumption`,
`FetchAssumption`, `VerdictsAssumption`, `ServersAssumption`, `BanAssumption`,
`FileSizeAssumption`, `SessionsAssumption`, `GCAssumption`, `RankAssumption`,
`SearchAssumption`, `ReleaseAssumption`, `RefusalsAssumption`; that the layouts a preflight derives are
such as the first two ask for is `LayoutsAreSound`):

- `FiniteLemmas` has what the others share. The library's induction theorems
  take an operator, which no prover here can instantiate, so each induction is
  stated for a set: the set of numbers, of subsets or of sequences for which a
  claim holds contains the least and is closed, hence is everything
  (`NatSetInduction`, `SubsetInduction`, `SeqSetInduction`). A fold is dealt with
  by showing that a function with its recursion exists, after which its
  definition can be expanded; from `KeepAppend`, `SortedAppend` and `FlattenRuns`
  on, a fold is a run of values and the rest is induction on it: what is kept
  is in order, a sort is stable, a flattening is its pieces. Of elements with
  keys of their own a sort has one outcome (`SortedUnique`), and the first least
  and the last greatest of a list exist (`LeastExists`, `GreatestExists`).
- `ServePipelineProofs`, first on `FileLayout`: the segment search is sound and
  complete over segments laid end to end (`FindSegmentComplete`), segments are
  disjoint, chunks stay inside the file. Then `TypeCorrect`. `TypeOK` is not
  inductive, since that an index stays in range depends on where the stream
  stands: `TypeInv` adds the positions of open streams (`PositionsOK`) and that
  a segment once located is found again (`SegmentsFound`).
  - For any number of overlapping requests: `HolesOnlyBehindEviction` and
    `HeaderStaysPinned` from `HoleInv`, which follows a byte from the fill that
    writes it through the bookkeeping to the read: what is claimed, about to be
    claimed, or about to be read is in the file or was punched above the pin;
    windows never start below the pin. That no step removes a byte of the pinned
    header is a theorem that no run checks.
  - `WatermarkSkipsNothing` from `WatermarkInv`. A window is computed from the
    watermark of one moment and stored at a later one, when others have moved it:
    `WindowsFollow` says that below every window in use all is punched from the
    pin on, and within it once its punch succeeded. A watermark stored backwards
    only makes the next window cover what is punched already.
  - `StreamsDeliver`: every step implements a step of `RangeDelivery` or none.
    `DeliveryInv` says that a body sent so far is the prefix of its range that
    ends where the stream stands, in the chunk it walks.
  - For one request at a time (`MaxOpen = 1`): `BackbufferStays` from
    `WindowsBehind`, a window ends a backbuffer behind the playhead, prefetched
    bytes or not. Without read-ahead as well, `AloneServesNoHole` and
    `AloneBookkeepingHonest` from `AloneInv`: the one stream's eviction cannot
    come between its look and its read, and a fill that a dropped stream left
    under way claims only what it has written. `HoleInv` is part of the
    argument, since an eviction of an earlier request may be unfinished.
  - `FirstPassStaysBounded` from `FirstInv`. `DiskBounded` says nothing of where
    the bytes are, so it is not inductive: `FirstPass` says that all bytes above
    the pin lie within `Reach` of where the next eviction starts, or in the
    segment in the stream's hand, as far as the eviction under way has come.
- `PopulatedRangesProofs`: `RangesDenoteWritten`, whose three parts are
  inductive only together: `insert` merges with one neighbour to the left
  because intervals are apart, and they stay apart because it does. From it
  `HasRangeExact`, a look at one interval decides whether a range is cached;
  `AccountsBalance`, the lengths of intervals that are apart add up to the
  number of bytes (`DisjointSum`); and `LookupsAreExact`, whose invariant
  follows the walk of `first_gap` along the ordered map: no byte before the
  cursor is missing.
- `ReleaseProofs`, on `NzbVerdicts`: `TypeCorrect`, and four results, each with
  the strengthening its comment explains: `CooldownIsQuiet` (`EarlyAsk`: who asks a
  host in cooldown was asking when it began), `ListedStaysFetched`
  (`FetchedIsKept`: what a task holds was cached), `AvailabilityIsStrict`
  (`ProbedHolders`: every server a probe is past has held the release),
  `DeadIsForgotten` (`BuriedForGood`: a buried release is held nowhere and no
  probe carries a good verdict of it).
  On `ProbedLayout`, for releases of any files, listed first to last or last to
  first with their parts in any order, under
  names of any style: `LayoutsAreSound`, `BytesAreLocated`, `AnswersAreExact` and
  `CanariesAreCovered`. None of the four is inductive. What a request is answered
  follows from the layout, which was made when the release was probed, so
  `ReleaseInv` remembers of it all that an answer needs: the layout delivers
  every byte (`Delivers`), the canaries cover it and the total is the video's
  (`ReadyToServe`), and an answer is what `parse_range` made of that total
  (`Answered`). The work is to show that a probe establishes this, in four parts:
  - *Offsets.* A layout is seen as that of carriers, files laid end to end that
    each hold a stretch of the video. Offsets are sums over prefixes; a running
    total (`Totals`) has the recursion that the fold hides, from which segments
    are without gap and chunks without overlap. A carrier's data is found in its
    own segments because those of the others end before it or begin after it.
  - *Order.* The numbers of the parts of a complete file are 1 to n, so that by
    `SortedUnique` the parts by number are the articles as they were posted,
    however they are listed; likewise for the volumes, whose numbers are read
    from the names.
  - *Choice.* `VolumesFound`: whatever else is listed, an archive is played from
    the volumes that were posted, in their order. The main entry is the video,
    since it is larger than what lies beside it, so the carriers are the volumes
    with data of it (`MainEntryIs`, `PerVolumeIs`). A flat release is one carrier,
    whose total is less than a stride too large if the yEnc header has no size.
  - *Ranges.* `RangeExact`: what `parse_range` makes of any header is the set of
    bytes it asks for, as an interval.
- `SessionGCProofs`: `FilesHaveSessions` (a file without a session belongs to a
  probe that came late, or to an unlink that failed) and `RecentlyUsedStay`
  (`Listed`: whoever is still on the collector's list has been silent since the
  pass began, or was touched since). `PassesReachTheCap` from `Capping`: the
  excess left covers what the disk holds over the cap, apart from the blocks
  that came or stayed since the total was taken; while a session is being
  evicted it still does with that session's file gone and what was measured of it
  taken off, which is why a file that shrinks or grows in between does no harm;
  and every session is on the list, being evicted, or protected. A session that
  comes during the pass counts as protected even with `PROTECT_WINDOW_SECS=0`,
  which the code accepts: without that the proof fails, and the bound too.
- `NntpServersProofs`: `FetchesGetTheirArticles` from `Fetching`, which says
  who may be owed a reply on a connection (nothing is under way on one that has
  been given back, and an asker is alone on its own), that the servers tried
  and those left are all servers, and that the permits lent are the connections
  held; `PoolsKeepTheirLimits` and `FailuresAreFinal`
  are parts of it. `ProbesSpeakTrue` and `StandoffsAreExplained` from `Dialogue`:
  at most one line or command is under way, so a code answers the command it
  seems to, and where none is, the last line was one the probe passed over.
- `GatewayProofs`: `BansAreExact` about `IpBan` alone; `GatewayImplementsBans`
  shows each step of `Gateway` to be one of `IpBan` or none, so that
  `GatewayBans` carries the theorem over. `RoutesAreGuarded` and `SettingsAreOwn`
  for every configuration and every way the map of users may be walked.
  `InnocentsPass` assumes that the address a request is seen under is its
  client's, which is what a trusted proxy is for.
- `StreamSearchProofs`, for any searches, users, questions, posts and pages:
  - `SearchesHearAnswers` from `Hearing`. What a search hears may come from a
    cache that another filled, so the invariant says of every cached answer
    that the indexer in its key gave it to the query in its key, and of every
    cached number that it is TheTVDB's; the key of an answer names its query.
  - `ListsRespectLanguages` from `Selecting`, which adds that a search that has
    passed the filters holds in `wanted` what they make of all it heard. The
    lemmas say what each filter makes of any sequence.
  - `ListsComplete` and `ListsFull` from `Ranking`: the items left are those of
    the buffer that were not refused (`Survivors`), and an answered search has its
    groups registered. `SortSound`, `GroupsSound`, `LimitSound` and `CapSound`
    follow one release through the sort, the grouping, the flattening, the
    checks and the second grouping: the uploads of a release stay together and
    in order at every stage (`Class`, `WellGrouped`). `ListsFull` then counts the
    signatures of one bucket (`BufferCounts`).

Only model-checked: liveness (`EveryRequestEnds`, `RequestsAnswered`,
`EveryFetchEnds`), which like ENABLED is beyond the prover used. Every invariant
and every action property that a passing run checks is proved.

## 6. Where the code and its documentation disagree

With a run:

- `stream_torn`: `disk_cache.rs:5-6` says holes are never read. With two
  requests open one may punch what the other has just found cached
  (`pipeline.rs:154`, `:161`): it serves zeros. In the same way one may punch and
  forget what the other has written and not yet recorded
  (`disk_cache.rs:139-146`): the bookkeeping then claims bytes the file lacks.
  `HolesOnlyEvicted` says that nothing but punched bytes is affected.
- `gc_playing`: `gc.rs:8-9` says the protect window keeps the collector from a
  session that is being played. It counts from the last request's arrival.

Met while modelling, and modelled as the code has it:

- *Disk bound.* `RESOURCE_PROFILE.md:37-45` bounds the disk use of a stream.
  The prefetcher fills the file any distance ahead of the playhead
  (`pipeline.rs:259`), and after a request near the end of the file the
  watermark does not come back, so that what is fetched below it stays
  (`disk_cache.rs:239`). There is one watermark for all requests of a session,
  and the window of one request may hold what another, further behind, is about
  to play: it is fetched again. `FirstPassBounded` states
  what is left of the bound: pin, backbuffer, one step, and at either end of them
  what stands out of a segment, which the table does not count.
- *Collector.* The sessions are listed once per pass and not looked at again: one
  that is touched after the pass began is evicted all the same (`gc.rs:57-111`). A
  preflight that is running when its session is evicted creates the file
  afterwards, and that file stays until the next boot (`gc.rs:124`).
- *Cooldowns and verdicts.* A fetch that has passed the throttle goes on asking
  when another begins the cooldown, and may renew it (`nzb_fetch.rs:121`). Only
  the last error counts: one that calls for a cooldown, followed by a lost
  connection, begins none (`:143`). The verdict of a probe that was under way
  during an invalidation is inserted after it (`nzb_availability.rs:139`).
- *Canaries* of a flat release are the first and last segment as listed
  (`nzb_availability.rs:227`); a preflight sorts them by number, so that out of
  order others are checked than it needs first.
- *Structure verdicts.* `cache.rs:21-22` says a cached one can only stay
  correct. A fetch that failed, or found its indexer in cooldown, is cached as
  such a verdict for seven days (`nzb_sanity.rs:53`).
- *Bans.* `ip_ban.rs:4` says "exceeds"; the code bans on reaching the
  threshold. A failure recorded between the end of a ban and the next
  `is_banned` is wiped with it. Entries of addresses are never removed. Without
  `TRUST_PROXY_HEADERS`, which is off by default, all clients of a proxy have one
  address, and one that guesses tokens gets all of them banned.
- *Gateway.* The rate limit lies behind the token, so it does not slow guesses;
  the ban list does. Wrong tokens of video URLs are not counted. User names
  that are equal after trimming collapse, in the order of a hash map, and blank
  ones are dropped. `main.rs:107-109` says the addon will start without a
  file; `validate` of the empty configuration makes it exit (`:122-125`).
- *Failover.* The documentation of `fetch_with_failover` says the rest is
  walked in index order; the swap makes it 2, 1, 0 for the last of three. Waiting
  30 s for a pooled connection counts as a failed fetch and invalidates the
  verdict on availability.
- *Probes* connect beyond the pool's limit: the refusal of a full server is
  cached as unavailable. Without credentials a probe counts as authenticated
  before the greeting, never sends BODY, times out, and is cached as unavailable
  for a day (`nzb_availability.rs:387`). With credentials the same happens after
  a refusal that is neither of the login nor of the article nor of the 5xx: after
  a 403, say, which RFC 3977 has for an internal fault, the probe passes over the
  line and waits for another (`:402-432`). `StandoffsExplained` says that these
  are the only two ways to that timeout among servers that answer, and
  `ProbeTrue` that a verdict on the article is true.
- *Stream list.* `stream.rs:127-131` says the cap keeps the highest quality;
  with a quality filter it keeps the lowest bandwidth. `stream.rs:141-143` says
  the order is preserved; the flattening puts uploads of one release side by
  side. Without a limit per resolution the list is still capped at four
  groups a bucket before the validation. `wants_original` is documented as a
  check before Cinemeta is asked; it is always asked.
- *Caches of searches.* The key has no API key, so the users of one indexer share
  answers, links included. The status of an answer is not looked at: an error
  document is an answer without items for twelve hours. Concurrent misses are
  not joined. A page without country is cached as one without language for good.
- *Archives.* A single compressed or encrypted entry, were it a text, refuses a
  whole archive. The volumes of two sets in one NZB are not told apart by name.

## 7. Not modelled

Parsing that libraries do (RAR headers, yEnc, NZB, TOML, JSON, titles) and the
building of URLs; the text of descriptions, the manifest, the logo, the health
page and the redaction of logs; the buckets of the rate limiter (one choice);
TLS; the inside of the connection pool (external, by its use); `shutdown` and
`currently_banned`, which nothing but tests calls; incomplete releases, whose
claimed size is believed beyond what their articles hold (`preflight.rs:172`).
The probe downloads the document itself, past the byte cache and the throttle
(`nzb_availability.rs:148`); `NzbVerdicts` has this fetch and no property about
it. A user's own list of NNTP servers, under which a verdict is cached but not
invalidated (`preflight.rs:286`), is one list with the pool's in `NzbVerdicts`.
