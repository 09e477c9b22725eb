----------------------------- MODULE ProbedLayout -----------------------------
(***************************************************************************)
(* From a release to the range a stream serves: the preflight chooses what *)
(* to play (ReleaseFiles) and derives its layout (LayoutBuild),            *)
(* video_route parses the range against its total (HttpRange), and the     *)
(* pipeline finds the bytes through it (FileLayout).                       *)
(*                                                                         *)
(* A release is a sequence of files.  File k is posted as articles         *)
(* <<k, 1>>, <<k, 2>>, ..., all of one stride but the last, and the video  *)
(* is what its files carry of it, one after the other; `tail' is the       *)
(* length of the last article, which a preflight does not see.  An NZB     *)
(* lists the files in some order, with others, under names of some style:  *)
(* that is the dressing of a release.                                      *)
(***************************************************************************)
EXTENDS ReleaseFiles, HttpRange

CONSTANTS
  FlatFiles,  \* the files a flat release may consist of
  Volumes,    \* the volumes a RAR set may consist of, numbered from 1 by Posted
  MaxVolumes, \* bound: the volumes of a set
  Dressings,  \* [style, reversed, sample, method, password, passwords]
  Headers     \* Range headers

\* A file of n articles: all have the stride, and the last its own length.
FileLength(v) == (Len(v.parts) - 1) * v.stride + v.tail
ArticleLength(v, j) == IF j < Len(v.parts) THEN v.stride ELSE v.tail

\* The yEnc header gives the size of a file; or it gives none, or one that the
\* articles before the last exceed already.
SizeTrue(v) == v.size = FileLength(v)
SizeUseless(v) == v.size = NotGiven \/ v.size < (Len(v.parts) - 1) * v.stride

\* All of a file is posted and listed, in some order; its size is true or useless,
\* and the data of the video lies inside it.
Complete(v) ==
  LET n == Len(v.parts)
  IN  /\ n > 0
      /\ {v.parts[i].number : i \in 1..n} = 1..n
      /\ v.tail <= v.stride /\ (n = 1 => v.tail = v.stride)
      /\ SizeTrue(v) \/ SizeUseless(v)
      /\ v.start + v.data <= FileLength(v)

\* A flat file is the video, and either the NZB lists the lengths of its payloads
\* or that of the first is none.
FlatFile(v) ==
  /\ v.start = 0 /\ v.data = FileLength(v)
  /\ \A i \in DOMAIN v.parts :
       v.parts[i].number = 1 /\ v.parts[i].bytes = v.stride =>
         \A j \in DOMAIN v.parts : v.parts[j].bytes = ArticleLength(v, v.parts[j].number)

PostedFiles ==
  [parts : Seq([number : Nat, bytes : Nat]), stride : Nat \ {0}, tail : Nat \ {0},
   size : Nat, start : Nat, data : Nat]

\* No release with a file of unknown style has a sample with the name of a video:
\* that would be what is played.
ASSUME ReleaseAssumption ==
  /\ FlatFiles \subseteq PostedFiles /\ \A v \in FlatFiles : Complete(v) /\ FlatFile(v)
  /\ Volumes \subseteq PostedFiles /\ \A v \in Volumes : Complete(v)
  /\ MaxVolumes \in Nat
  /\ \A d \in Dressings :
       /\ d.style \in {"part", "old", "video", "other"}
       /\ d.reversed \in BOOLEAN /\ d.sample \in BOOLEAN
       /\ d.style = "other" => ~ d.sample
  /\ Headers \subseteq {<<"none">>, <<"malformed">>, <<"several">>}
                    \cup ({"from", "last"} \X Nat) \cup ({"between"} \X Nat \X Nat)

VARIABLES
  release,   \* what was posted: [kind, files, nzb]
  layout,    \* the FileLayout of the preflight: [segments, chunks]
  total,     \* total_size
  answer     \* the header of the last request and what it was answered

probeVars == <<release, layout, total, answer>>

Layout(segs, chks) == INSTANCE FileLayout WITH Segments <- segs, Chunks <- chks

NoRelease == [kind |-> "none", files |-> <<>>, nzb |-> <<>>]
NoAnswer == [header |-> <<>>, range |-> [status |-> "none"]]

\* File k of a release: its articles get their names.
Posted(v, k) ==
  [v EXCEPT !.parts = [i \in DOMAIN @ |->
     [number |-> @[i].number, bytes |-> @[i].bytes, article |-> <<k, @[i].number>>]]]

\* A small file beside the video, and the recovery files, which are large.
Extra(style, bytes) ==
  [name  |-> [style |-> style, number |-> 0],
   parts |-> <<[number |-> 1, bytes |-> bytes, article |-> <<style, 1>>]>>]
Par2 == Extra("par2", 1000)

\* The name of file k of n: .part02.rar and .part04.rar, or .rar and .r00.
Name(style, k) ==
  CASE style = "part" -> [style |-> "part", number |-> 2 * k]
    [] style = "old" -> [style |-> IF k = 1 THEN "rar" ELSE "r", number |-> k - 2]
    [] OTHER -> [style |-> style, number |-> 0]

Entry(file, unpacked, start, data, method) ==
  [file |-> file, unpacked |-> unpacked, start |-> start, data |-> data,
   encrypted |-> FALSE, method |-> method]

\* The files as the NZB lists them, each with what its headers say: in every
\* volume perhaps a directory and a sample, and the video where it has data.
Dressed(files, unpacked, d) ==
  LET Beside == IF d.sample THEN <<Entry("dir", 0, 0, 0, 0), Entry("sample", 1, 0, 1, d.method)>>
                ELSE <<>>
      Video(v) == IF v.data = 0 THEN <<>> ELSE <<Entry("video", unpacked, v.start, v.data, 0)>>
      listed == [k \in DOMAIN files |->
                   [name     |-> Name(d.style, k),    parts   |-> files[k].parts,
                    stride   |-> files[k].stride,     size    |-> files[k].size,
                    password |-> d.password,
                    entries  |-> Beside \o Video(files[k])]] \o <<Par2>>
  IN  IF d.reversed THEN Reverse(listed) ELSE listed

ProbeInit ==
  /\ release = NoRelease /\ answer = NoAnswer
  /\ layout = [segments |-> <<>>, chunks |-> <<>>]
  /\ total = 0

\* A flat release is probed, whose video is larger than what is listed with it.
ProbeFlat(v, d) ==
  LET dressed == Dressed(<<Posted(v, 1)>>, 0, d)
      sample  == Extra("video", 1)
      nzb     == IF d.sample THEN Append(dressed, sample) ELSE dressed
      chosen  == PickMainFile(nzb)
  IN  /\ release = NoRelease
      /\ d.sample => ListedSize(v) > ListedSize(sample)
      /\ chosen.kind = "flat"
      /\ release' = [kind |-> "flat", files |-> <<Posted(v, 1)>>, nzb |-> nzb]
      /\ layout' = BuildFlatLayout(chosen.file)
      /\ total' = layout'.chunks[1].length
      /\ UNCHANGED answer

\* A RAR set is probed, and refused or not: the volumes that carry nothing of
\* the video are left out, and the total is the size of the file in the archive.
ProbeRar(volumes, d) ==
  LET files == [k \in DOMAIN volumes |-> Posted(volumes[k], k)]
      whole == Sum([k \in DOMAIN volumes |-> volumes[k].data])
      nzb   == Dressed(files, whole, d)
      found == FindRarVolumes(nzb)
  IN  /\ release = NoRelease
      /\ whole > IF d.sample THEN 1 ELSE 0
      /\ PickMainFile(nzb).kind = "rar"
      /\ IF Playable(found, d.passwords)
         THEN /\ release' = [kind |-> "rar", files |-> files, nzb |-> nzb]
              /\ layout' = BuildRarLayout(PerVolume(found))
              /\ total' = MainEntry(found).unpacked
         ELSE /\ release' = [kind |-> "refused", files |-> files, nzb |-> nzb]
              /\ UNCHANGED <<layout, total>>
      /\ UNCHANGED answer

\* A request for the video comes in.
Ask(header) ==
  /\ release.kind \in {"flat", "rar"} /\ answer = NoAnswer
  /\ answer' = [header |-> header, range |-> ParseRange(header, total)]
  /\ UNCHANGED <<release, layout, total>>

ProbeNext ==
  \/ \E v \in FlatFiles, d \in Dressings : ProbeFlat(v, d)
  \/ \E volumes \in BoundedSeq(Volumes, MaxVolumes), d \in Dressings : ProbeRar(volumes, d)
  \/ \E header \in Headers : Ask(header)

ProbeSpec == ProbeInit /\ [][ProbeNext]_probeVars

-----------------------------------------------------------------------------
\* What was really posted.
Files == release.files
DataLength(files) == Sum([k \in DOMAIN files |-> files[k].data])
DataBefore(files, k) == Sum([j \in 1..k - 1 |-> files[j].data])
Probed == release.kind \in {"flat", "rar"} /\ answer = NoAnswer

\* Where the pipeline finds byte b of the video: its place in the assembled
\* stream, and the segment there.
PlaceOf(lay, b) == Layout(lay.segments, lay.chunks)!VideoToAssembled(b)
SegmentAt(lay, at) == Layout(lay.segments, lay.chunks)!FindSegment(at)

\* The byte of the release a stream sends for it: the file it is read from and
\* its place there.
SentFrom(files, lay, b) ==
  LET at      == PlaceOf(lay, b)
      segment == lay.segments[SegmentAt(lay, at)]
      file    == segment.article[1]
  IN  <<file, (segment.article[2] - 1) * files[file].stride + (at - segment.offset)>>

Sound(segs, chks) ==
  /\ segs[1].offset = 0
  /\ \A i \in DOMAIN segs : segs[i].bytes > 0
  /\ \A i \in 1..Len(segs) - 1 : segs[i + 1].offset = segs[i].offset + segs[i].bytes
  /\ chks[1].video = 0
  /\ \A k \in DOMAIN chks :
       /\ chks[k].length > 0
       /\ chks[k].assembled + chks[k].length <= Layout(segs, chks)!AssembledSize
  /\ \A k \in 1..Len(chks) - 1 :
       /\ chks[k + 1].video = chks[k].video + chks[k].length
       /\ chks[k + 1].assembled >= chks[k].assembled + chks[k].length
       /\ \A i \in DOMAIN segs :
            segs[i].offset < chks[k].assembled + chks[k].length =>
              segs[i].offset + segs[i].bytes <= chks[k + 1].assembled

\* The layout of a complete release is one the pipeline can serve from: no gap
\* and no overlap between segments, chunks in order and inside, no segment with
\* bytes of two chunks (the assumptions LayoutAssumption and OneChunkPerSegment
\* of FileLayout).
LayoutSound == Probed => Sound(layout.segments, layout.chunks)

Located(files, lay) ==
  \A k \in DOMAIN files : \A i \in 0..files[k].data - 1 :
    SentFrom(files, lay, DataBefore(files, k) + i) = <<k, files[k].start + i>>

\* Every byte of the video is read from the article that holds it, at its place
\* there, whether or not the NZB declares decoded lengths and lists the parts in
\* order, and whether the yEnc headers give true sizes, none or impossible ones.
BytesLocated == Probed => Located(Files, layout)

Covered(kind, nzb) ==
  LET files == IF kind = "rar" THEN FindRarVolumes(nzb) ELSE <<PickMainFile(nzb).file>>
      inOrder == \A i \in DOMAIN files[1].parts : files[1].parts[i].number = i
  IN  files[1].name.style = "part" \/ (kind = "flat" /\ inOrder) =>
        /\ ByNumber(files[1].parts)[1].article \in PickCanaries(nzb)
        /\ Last(ByNumber(Last(files).parts)).article \in PickCanaries(nzb)

\* The first article a preflight fetches, and the last one it lays out, are asked
\* of every server before: of a set of parts, and of a flat release that lists its
\* parts in order and no larger file beside the video.
CanariesCover == Probed => Covered(release.kind, release.nzb)

\* The bytes a header asks for, of a video of this length.
Wanted(header, length) ==
  {b \in 0..length - 1 :
     CASE header[1] = "none" -> TRUE
       [] header[1] = "from" -> header[2] <= b
       [] header[1] = "between" -> header[2] <= b /\ b <= header[3]
       [] header[1] = "last" -> length - b <= header[2]
       [] OTHER -> FALSE}

\* The total is that of the video, but for a flat release whose lengths have to
\* be rebuilt without its size: then it is less than a stride too large.
ExactLength(kind, files, length) ==
  \/ length = DataLength(files)
  \/ /\ kind = "flat" /\ ~ SizeTrue(files[1])
     /\ DataLength(files) < length /\ length < DataLength(files) + files[1].stride

\* A request is answered with exactly those bytes of the video it asks for,
\* each in some segment, and its Content-Length is their number; it is not
\* satisfiable only if there are none.  The total it is told is the video's.
AnswersExact ==
  answer # NoAnswer =>
    /\ ExactLength(release.kind, Files, total)
    /\ LET wanted == Wanted(answer.header, total)
           range  == answer.range
       IN  /\ Served(range) =>
                /\ wanted = range.first..range.last
                /\ ContentLength(range) = Cardinality(wanted)
                /\ \A b \in wanted : SegmentAt(layout, PlaceOf(layout, b)) # 0
           /\ range.status = "not satisfiable" <=>
                wanted = {} /\ answer.header[1] \notin {"malformed", "several"}
===============================================================================
