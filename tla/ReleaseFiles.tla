----------------------------- MODULE ReleaseFiles -----------------------------
(***************************************************************************)
(* Which of the files an NZB lists a preflight plays                       *)
(* (src-rust/streaming/preflight.rs), and which of their articles the      *)
(* availability check asks for (src-rust/nzb_availability.rs).             *)
(*                                                                         *)
(* A file is listed as a record of its name, [style, number], and its      *)
(* parts, [number, bytes, article].  The style is what the name tells:     *)
(* "part" for .partNN.rar, "rar" and "r" for .rar and .rNN, "par2",        *)
(* "video" for a known extension, or "other".  A volume of an archive also *)
(* has the password that opens its headers, or none, and the entries its   *)
(* headers list: [file, unpacked, start, data, encrypted, method].         *)
(***************************************************************************)
EXTENDS LayoutBuild

Named(files, styles) == Filter(files, LAMBDA f : f.name.style \in styles)

\* nzb_rs::File::is_rar and is_par2, by the extension.
RarStyles == {"part", "rar", "r"}
NotPar2(files) == Filter(files, LAMBDA f : f.name.style # "par2")

ListedSize(f) == Sum([i \in DOMAIN f.parts |-> f.parts[i].bytes])
Largest(files) == LastGreatest(files, ListedSize)

NoFile == [name |-> [style |-> "none", number |-> 0], parts |-> <<>>]

\* pick_main_file: an archive if any file is of one; else the largest file with
\* the name of a video, else the largest there is.
PickMainFile(files) ==
  IF Named(files, RarStyles) # <<>> THEN [kind |-> "rar", file |-> NoFile]
  ELSE IF Named(files, {"video"}) # <<>>
  THEN [kind |-> "flat", file |-> Largest(Named(files, {"video"}))]
  ELSE IF NotPar2(files) # <<>>
  THEN [kind |-> "flat", file |-> Largest(NotPar2(files))]
  ELSE [kind |-> "none", file |-> NoFile]

VolumeNumber(f) == IF f.name.style = "rar" THEN 1
                   ELSE IF f.name.style = "r" THEN f.name.number + 2 ELSE f.name.number

\* find_rar_volumes: the parts by number, or the old style volumes if there are
\* none; nothing asks whether the names belong together.
FindRarVolumes(files) ==
  LET modern == Named(files, {"part"})
      volumes == IF modern # <<>> THEN modern ELSE Named(files, {"rar", "r"})
  IN  StableSorted(volumes, LAMBDA f, g : VolumeNumber(f) < VolumeNumber(g))
-----------------------------------------------------------------------------
(* What the headers say.                                                   *)

\* parse_volume_headers: without a password, else with one of the document's.
Opens(v, passwords) == v.password = "none" \/ v.password \in passwords

\* The entries of all volumes with data, each with the place of its volume.
Entries(volumes) ==
  FlattenSeq([k \in DOMAIN volumes |->
    LET sized == Filter(volumes[k].entries, LAMBDA e : e.unpacked > 0)
    IN  [i \in DOMAIN sized |-> [volume |-> k, entry |-> sized[i]]]])

\* Any entry that is encrypted or compressed makes the release unplayable, as do
\* headers that cannot be read and an archive without data.
Playable(volumes, passwords) ==
  /\ \A k \in DOMAIN volumes :
       /\ volumes[k].parts # <<>> /\ Opens(volumes[k], passwords)
       /\ \A i \in DOMAIN volumes[k].entries :
            ~ volumes[k].entries[i].encrypted /\ volumes[k].entries[i].method = 0
  /\ Entries(volumes) # <<>>

\* The largest entry is the video.
MainEntry(volumes) ==
  LastGreatest(Entries(volumes), LAMBDA e : e.entry.unpacked).entry

\* The volumes that carry it, each with the place of its data there: the first
\* entry of its name.
PerVolume(volumes) ==
  LET Mine(k) == Filter(volumes[k].entries,
                           LAMBDA e : e.unpacked > 0 /\ e.file = MainEntry(volumes).file)
      At(k) == IF Mine(k) = <<>> THEN [start |-> 0, data |-> 0] ELSE Head(Mine(k))
      carriers == Filter([k \in DOMAIN volumes |-> k], LAMBDA k : Mine(k) # <<>>)
  IN  [c \in DOMAIN carriers |->
         LET v == volumes[carriers[c]]
         IN  [parts |-> v.parts, stride |-> v.stride, size |-> v.size,
              start |-> At(carriers[c]).start, data |-> At(carriers[c]).data]]
-----------------------------------------------------------------------------
(* The canaries.                                                           *)

Articles(parts) == [i \in DOMAIN parts |-> parts[i].article]
Ends(articles) == IF articles = <<>> THEN {} ELSE {Head(articles), Last(articles)}

\* Slip: the parts of a file are taken as they are listed.
PickCanariesUnsorted(files) ==
  LET parts   == Named(files, {"part"})
      part01  == Articles(FirstLeast(parts, VolumeNumber).parts)
      highest == Articles(LastGreatest(parts, VolumeNumber).parts)
  IN  IF parts # <<>> THEN Ends(part01) \cup {Last(highest)}
      ELSE IF NotPar2(files) # <<>> THEN Ends(Articles(Largest(NotPar2(files)).parts))
      ELSE {}

\* pick_canaries: the first and the last article of the first part and the last
\* one of the last part.  Without parts, probe: the first and the last article
\* listed of the largest file.
PickCanaries(files) ==
  LET parts   == Named(files, {"part"})
      part01  == Articles(ByNumber(FirstLeast(parts, VolumeNumber).parts))
      highest == Articles(ByNumber(LastGreatest(parts, VolumeNumber).parts))
  IN  IF parts # <<>> THEN Ends(part01) \cup {Last(highest)}
      ELSE IF NotPar2(files) # <<>> THEN Ends(Articles(Largest(NotPar2(files)).parts))
      ELSE {}
===============================================================================
