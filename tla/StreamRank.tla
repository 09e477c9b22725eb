------------------------------ MODULE StreamRank ------------------------------
(***************************************************************************)
(* Which items of a search are listed, and in what order: the filters and  *)
(* the grouping of src-rust/quality.rs, content_filter.rs, cinemeta.rs,    *)
(* streaming/candidate.rs and stream.rs, as operators on sequences.        *)
(*                                                                         *)
(* An item is what the addon reads out of an indexer's entry: the words of *)
(* its title that a regular expression may match, the languages the title  *)
(* names, the resolution and the encoding (source, codec and group) that   *)
(* the title parser finds, its size, and its length in minutes, 0 where an *)
(* attribute is missing.  A user is the record of the settings its         *)
(* requests run with.                                                      *)
(***************************************************************************)
EXTENDS StableSort

CONSTANTS
  LanguageOf(_),  \* of a country, its language, or NoLanguage
  MinBuffer       \* the fewest groups a bucket keeps until they are validated

ASSUME RankAssumption == MinBuffer \in Nat \ {0}

NotGiven == -1
NoLanguage == "none"

\* The elements of s without repetitions, each where it comes first.
FirstOccurrences(s) ==
  LET AppendNew(seen, x) == IF Contains(seen, x) THEN seen ELSE Append(seen, x)
  IN  FoldLeft(AppendNew, <<>>, s)
-----------------------------------------------------------------------------
(* What a title says.                                                      *)

LanguagePatterns ==
  <<"multi", "spanish", "french", "german", "italian", "japanese", "korean", "russian",
    "portuguese", "chinese", "hindi", "arabic", "turkish", "polish", "dutch", "swedish",
    "norwegian", "danish", "finnish", "czech", "slovak", "hungarian", "romanian", "greek",
    "ukrainian", "vietnamese", "thai", "indonesian", "hebrew", "english">>

\* Slip: a pack is taken for a release in the first language it names.
DetectLanguagePackLast(item) ==
  LET at == SelectInSeq(Tail(LanguagePatterns), LAMBDA l : l \in item.languages)
  IN  IF at # 0 THEN Tail(LanguagePatterns)[at]
      ELSE IF "multi" \in item.languages THEN "multi" ELSE NoLanguage

\* The first pattern that matches, and so a pack before any single language.
DetectLanguage(item) ==
  LET at == SelectInSeq(LanguagePatterns, LAMBDA l : l \in item.languages)
  IN  IF at = 0 THEN NoLanguage ELSE LanguagePatterns[at]

MultiLanguageTags == {"multi", "multi.sub", "multisub", "dual", "multilingual"}

\* Items with the same signature are uploads of one release.
Signature(item) ==
  [resolution |-> item.resolution, encoding |-> item.encoding, language |-> DetectLanguage(item)]

ResolutionOrder ==
  <<{"2160p", "4k"}, {"1440p"}, {"1080p"}, {"720p"}, {"480p"}, {"360p"}>>

ResolutionIndex(resolution) ==
  LET at == SelectInSeq(ResolutionOrder, LAMBDA names : resolution \in names)
  IN  IF at = 0 THEN Len(ResolutionOrder) + 1 ELSE at

\* Groups compete for places within a resolution and a language.
Bucket(item) == <<ResolutionIndex(item.resolution), DetectLanguage(item)>>
-----------------------------------------------------------------------------
(* Filters.                                                                *)

Minutes(item, kind) ==
  IF item.runtime > 0 THEN item.runtime
  ELSE IF item.duration > 0 THEN item.duration
  ELSE IF kind = "movie" THEN 120 ELSE 45

\* Gbit per hour, as a fraction; sizes are counted in Gbit.
Bandwidth(item, kind) == <<60 * item.size, Minutes(item, kind)>>
Slower(a, b) == a[1] * b[2] < b[1] * a[2]

\* Items of unknown size are dropped; the slowest comes first.
FilterByQuality(items, user, kind) ==
  LET In(item) ==
        LET b == Bandwidth(item, kind)
        IN  /\ b[1] > 0
            /\ user.min # NotGiven => ~ Slower(b, <<user.min, 1>>)
            /\ user.max # NotGiven => ~ Slower(<<user.max, 1>>, b)
      SlowerItem(x, y) == Slower(Bandwidth(x, kind), Bandwidth(y, kind))
  IN  IF user.min = NotGiven /\ user.max = NotGiven
      THEN items
      ELSE StableSorted(Filter(items, In), SlowerItem)

\* A regular expression stands for the word it matches; a blank or an invalid
\* one for none.
FilterByTitleRegex(items, exclude) ==
  Filter(items, LAMBDA item : exclude \notin item.words)

CountriesToLanguages(countries) ==
  FirstOccurrences(Filter([i \in DOMAIN countries |-> LanguageOf(countries[i])],
                             LAMBDA l : l # NoLanguage))

WantsOriginal(preferred) == Contains(preferred, "original")

\* The languages of the title take the place of "original".
ExpandOriginal(preferred, originals) ==
  FirstOccurrences(FlattenSeq(
    [i \in DOMAIN preferred |->
       IF preferred[i] = "original" THEN originals ELSE <<preferred[i]>>]))

EffectiveLanguages(user, originals) ==
  IF WantsOriginal(user.languages) THEN ExpandOriginal(user.languages, originals)
  ELSE user.languages

FilterByLanguage(items, preferred) ==
  LET Kept(item) ==
        DetectLanguage(item) \in MultiLanguageTags \cup {NoLanguage} \cup Range(preferred)
  IN  IF preferred = <<>> THEN items ELSE Filter(items, Kept)
-----------------------------------------------------------------------------
(* Order and groups.                                                       *)

SortByResolution(items) ==
  StableSorted(items, LAMBDA x, y :
                 ResolutionIndex(x.resolution) < ResolutionIndex(y.resolution))

\* Slip: only uploads that follow each other are put together.
GroupAdjacent(items) ==
  LET Add(groups, item) ==
        IF groups # <<>> /\ Signature(Last(groups)[1]) = Signature(item)
        THEN Append(Front(groups), Append(Last(groups), item))
        ELSE Append(groups, <<item>>)
  IN  FoldLeft(Add, <<>>, items)

\* The uploads of each release, releases and uploads in the order of the items.
GroupCandidates(items) ==
  LET signatures == FirstOccurrences([i \in DOMAIN items |-> Signature(items[i])])
  IN  [g \in DOMAIN signatures |->
         Filter(items, LAMBDA item : Signature(item) = signatures[g])]

\* The first perRes groups of every bucket; all of them if it is 0.
LimitGroups(groups, perRes) ==
  LET Ahead(g) == {h \in 1..g - 1 : Bucket(groups[h][1]) = Bucket(groups[g][1])}
      first == {g \in DOMAIN groups : Cardinality(Ahead(g)) < perRes}
  IN  IF perRes = 0 THEN groups ELSE Keep(groups, {groups[g] : g \in first})

BufferCap(perRes) == IF 2 * perRes > MinBuffer THEN 2 * perRes ELSE MinBuffer

\* Slip: single items are counted against the cap.
CapItemsSingly(items, cap) ==
  LET sorted == SortByResolution(items)
      Ahead(i) == {j \in 1..i - 1 : Bucket(sorted[j]) = Bucket(sorted[i])}
  IN  Keep(sorted, {sorted[i] : i \in {j \in DOMAIN sorted : Cardinality(Ahead(j)) < cap}})

\* What is validated: the items of the first cap groups of every bucket.
CapItems(items, cap) ==
  FlattenSeq(LimitGroups(GroupCandidates(SortByResolution(items)), cap))

\* The groups a list shows.
ListedGroups(items, perRes) ==
  LimitGroups(GroupCandidates(SortByResolution(items)), perRes)
===============================================================================
