---------------------------- MODULE MCStreamSearch ----------------------------
(* Two searches, two indexers; one movie, and a show whose number at TheTVDB is  *)
(* that of the movie.                                                            *)
EXTENDS StreamSearch

CONSTANTS s1, s2

Item(url, resolution, encoding, langs, size) ==
  [url |-> url, words |-> {encoding}, languages |-> langs, resolution |-> resolution,
   encoding |-> encoding, size |-> size, runtime |-> 60, duration |-> 0]

One == [host |-> "one", account |-> "k"]
Two == [host |-> "two", account |-> "k"]

\* Three releases compete for one bucket, one of them uploaded twice; a pack, a
\* release in another language, one of unknown size, one under another name of
\* its resolution.
MCPosts(indexer, q) ==
  CASE q.kind = "movie" /\ indexer.host = "one" ->
         <<Item("m1", "1080p", "A", {}, 3), Item("m2", "2160p", "A", {"multi", "french"}, 9),
           Item("m3", "1080p", "B", {}, 2), Item("m4", "1080p", "C", {}, 4)>>
    [] q.kind = "movie" /\ indexer.host = "two" ->
         <<Item("m5", "1080p", "A", {}, 1), Item("m6", "1080p", "D", {"french"}, 3)>>
    [] q.kind = "series" /\ indexer.host = "one" ->
         <<Item("e" \o q.episode, "4k", "E", {"korean"}, 5),
           Item("f" \o q.episode, "odd", "E", {}, 0)>>
    [] OTHER -> <<Item("g" \o q.episode, "2160p", "E", {"korean"}, 5)>>

MCShows(imdb) == IF imdb = "2" THEN "1" ELSE NoShow
MCPages(imdb) == IF imdb = "2" THEN <<"South Korea", "Wakanda">> ELSE <<"France", "Belgium", "Japan">>
MCLanguageOf(country) ==
  CASE country = "South Korea" -> "korean" [] country \in {"France", "Belgium"} -> "french"
    [] country = "Japan" -> "japanese" [] OTHER -> NoLanguage

Settings(indexers, langs, exclude, min, max, structure, availability) ==
  [indexers |-> indexers, languages |-> langs, exclude |-> exclude, min |-> min,
   max |-> max, perRes |-> 1, structure |-> structure, availability |-> availability]

MCUserOf(s) ==
  IF s = s1 THEN Settings(<<One, Two>>, <<"english", "original">>, "none", NotGiven, NotGiven, TRUE, FALSE)
  ELSE Settings(<<One>>, <<"original">>, "C", 1, 8, FALSE, TRUE)

MCQuestions ==
  {[kind |-> "movie", imdb |-> "1", episode |-> ""],
   [kind |-> "series", imdb |-> "2", episode |-> "1"],
   [kind |-> "channel", imdb |-> "", episode |-> ""]}
===============================================================================
