----------------------------- MODULE StreamSearch -----------------------------
(***************************************************************************)
(* The stream list (build_streams of src-rust/stream.rs): a search asks    *)
(* every indexer of its user at once, ranks and filters what they answer,  *)
(* validates what is left, and registers a session for each release it     *)
(* lists (src-rust/nzb_api.rs, cache.rs, tvdb.rs, cinemeta.rs, StreamRank).*)
(*                                                                         *)
(* Searches run concurrently and share three caches: the answers of the    *)
(* indexers, which expire, the show numbers of TheTVDB and the languages   *)
(* of Cinemeta, which do not.  A cache is looked up and filled in separate *)
(* steps, with the request between them.                                   *)
(*                                                                         *)
(* Indexers, TheTVDB and Cinemeta are external.  An indexer answers a      *)
(* query with the items it has for it, or with an error document, which    *)
(* reads as an answer without items; or the call fails or times out.       *)
(***************************************************************************)
EXTENDS StreamRank, Functions

CONSTANTS
  Searches,      \* searches, each made at most once
  UserOf(_),     \* the settings each is made with
  Questions,     \* what is searched for: [kind, imdb, episode]
  Posts(_, _),   \* the items an indexer has for a query
  Shows(_),      \* TheTVDB: of a show's IMDb id, its number there, or NoShow
  Pages(_)       \* Cinemeta: of a title's IMDb id, the countries it names

VARIABLES
  rss,        \* RSS_CACHE
  tvdb,       \* the cache of tvdb.rs
  languages,  \* the cache of cinemeta.rs
  pc,         \* where each search is
  asked,      \* its question
  query,      \* what it asks the indexers
  reply,      \* of each of its indexers, the answer, or how far the call is
  originals,  \* the languages of the title, as far as it knows
  items,      \* its items
  list,       \* the streams it answers
  sessions,   \* the sessions registered: token |-> candidates
  replied,    \* history: the answers of indexers, [indexer, query, items]
  wanted,     \* history: of each search, its items before they are capped
  refused     \* history: of each search, its items that were refused

caches == <<rss, tvdb, languages>>
history == <<replied, wanted, refused>>
vars == <<caches, pc, asked, query, reply, originals, items, list, sessions, history>>

MovieQuery(q) == [kind |-> "movie", id |-> q.imdb, episode |-> ""]
SeriesQuery(q, show) == [kind |-> "series", id |-> show, episode |-> q.episode]
QueryOf(q) == IF q.kind = "movie" THEN MovieQuery(q) ELSE SeriesQuery(q, Shows(q.imdb))

IsSequence(s) == s \in Seq(Range(s))

\* Settings and answers are lists, and the languages of an item are those whose
\* patterns its title matches.  Twice a user's limit fits in its 32 bits.
ASSUME SearchAssumption ==
  /\ \A s \in Searches :
       /\ UserOf(s).perRes \in Nat /\ UserOf(s).perRes <= 2^30
       /\ IsSequence(UserOf(s).indexers) /\ IsSequence(UserOf(s).languages)
  /\ \A s \in Searches, q \in Questions : \A i \in DOMAIN UserOf(s).indexers :
       LET posts == Posts(UserOf(s).indexers[i], QueryOf(q))
       IN  /\ IsSequence(posts)
           /\ \A item \in Range(posts) : item.languages \subseteq Range(LanguagePatterns)
  /\ \A q \in Questions : IsSequence(Pages(q.imdb))

NoShow == "no show"
NoQuestion == [kind |-> "none", imdb |-> "", episode |-> ""]
NoQuery == [kind |-> "none", id |-> "", episode |-> ""]

Nothing == [t \in {} |-> <<>>]

\* How far the call of an indexer is.
Call(status) == [status |-> status, items |-> <<>>]
Answer(content) == [status |-> "answered", items |-> content]

Init ==
  /\ rss = Nothing /\ tvdb = Nothing /\ languages = Nothing /\ sessions = Nothing
  /\ pc = [s \in Searches |-> "idle"]
  /\ asked = [s \in Searches |-> NoQuestion]
  /\ query = [s \in Searches |-> NoQuery]
  /\ reply = [s \in Searches |-> <<>>]
  /\ originals = [s \in Searches |-> <<>>]
  /\ items = [s \in Searches |-> <<>>]
  /\ list = [s \in Searches |-> <<>>]
  /\ replied = {}
  /\ wanted = [s \in Searches |-> <<>>]
  /\ refused = [s \in Searches |-> {}]

Goto(s, label) == pc' = [pc EXCEPT ![s] = label]
Remember(cache, key, value) ==
  [k \in DOMAIN cache \cup {key} |-> IF k = key THEN value ELSE cache[k]]

-----------------------------------------------------------------------------
(* The question.                                                           *)

\* The key of an answer: the address without scheme and slashes, and the query;
\* not the account.
BuildCacheKey(indexer, q) == <<indexer.host, q.kind, q.id, q.episode>>


\* All indexers of the user are asked at once.
FanOut(s, q) ==
  /\ query' = [query EXCEPT ![s] = q]
  /\ reply' = [reply EXCEPT ![s] = [i \in DOMAIN UserOf(s).indexers |-> Call("ready")]]
  /\ Goto(s, "searching")

\* A search without a query goes on without items.
NoItems(s) == Goto(s, "joined") /\ UNCHANGED <<query, reply>>

\* A search begins: for a movie its own id is asked for, for a series the
\* number of the show, looked up first; any other kind has no items.
Begin(s, q) ==
  /\ pc[s] = "idle"
  /\ asked' = [asked EXCEPT ![s] = q]
  /\ \/ q.kind = "movie" /\ FanOut(s, MovieQuery(q))
     \/ /\ q.kind = "series" /\ q.imdb \in DOMAIN tvdb
        /\ FanOut(s, SeriesQuery(q, tvdb[q.imdb]))
     \/ /\ q.kind = "series" /\ q.imdb \notin DOMAIN tvdb
        /\ Goto(s, "numbering")
        /\ UNCHANGED <<query, reply>>
     \/ q.kind \notin {"movie", "series"} /\ NoItems(s)
  /\ UNCHANGED <<caches, originals, items, list, sessions, history>>

\* imdb_to_tvdb: TheTVDB knows the show, or does not, or does not answer.
Number(s) ==
  LET q == asked[s]
      show == Shows(q.imdb)
  IN  /\ pc[s] = "numbering"
      /\ \/ /\ show # NoShow
            /\ tvdb' = Remember(tvdb, q.imdb, show)
            /\ FanOut(s, SeriesQuery(q, show))
         \/ NoItems(s) /\ UNCHANGED tvdb
      /\ UNCHANGED <<rss, languages, asked, originals, items, list, sessions, history>>

-----------------------------------------------------------------------------
(* The indexers.                                                           *)

Key(s, i) == BuildCacheKey(UserOf(s).indexers[i], query[s])
SetReply(s, i, r) == reply' = [reply EXCEPT ![s][i] = r]

\* cached_call: a remembered answer is taken, otherwise the indexer is called.
Look(s, i) ==
  /\ pc[s] = "searching" /\ reply[s][i] = Call("ready")
  /\ SetReply(s, i, IF Key(s, i) \in DOMAIN rss THEN Answer(rss[Key(s, i)]) ELSE Call("calling"))
  /\ UNCHANGED <<caches, pc, asked, query, originals, items, list, sessions, history>>

\* The indexer answers: with its items or with an error document.  Either is
\* remembered.
Reply(s, i) ==
  /\ pc[s] = "searching" /\ reply[s][i] = Call("calling")
  /\ \E content \in {Posts(UserOf(s).indexers[i], query[s]), <<>>} :
       /\ rss' = Remember(rss, Key(s, i), content)
       /\ SetReply(s, i, Answer(content))
       /\ replied' = replied \cup
            {[indexer |-> UserOf(s).indexers[i].host, query |-> query[s], items |-> content]}
  /\ UNCHANGED <<tvdb, languages, pc, asked, query, originals, items, list, sessions,
                 wanted, refused>>

\* Slip: a call that failed is remembered as an answer without items.
FailRemembered(s, i) ==
  /\ pc[s] = "searching" /\ reply[s][i] = Call("calling")
  /\ rss' = Remember(rss, Key(s, i), <<>>)
  /\ SetReply(s, i, Call("failed"))
  /\ UNCHANGED <<tvdb, languages, pc, asked, query, originals, items, list, sessions, history>>

\* The call fails, or times out: nothing is remembered, and the others' items
\* are used.
Fail(s, i) ==
  /\ pc[s] = "searching" /\ reply[s][i] = Call("calling")
  /\ SetReply(s, i, Call("failed"))
  /\ UNCHANGED <<caches, pc, asked, query, originals, items, list, sessions, history>>

\* The answer of an indexer leaves the cache, by age or for want of room.
Expire ==
  /\ \E key \in DOMAIN rss : rss' = Restrict(rss, DOMAIN rss \ {key})
  /\ UNCHANGED <<tvdb, languages, pc, asked, query, reply, originals, items, list,
                 sessions, history>>

\* A call that failed adds no items.
Collected(s) == FlattenSeq([i \in DOMAIN reply[s] |-> reply[s][i].items])

\* All calls are over: the items of all indexers, in the indexers' order.
Join(s) ==
  /\ pc[s] = "searching" /\ \A i \in DOMAIN reply[s] : reply[s][i].status \in {"answered", "failed"}
  /\ items' = [items EXCEPT ![s] = Collected(s)]
  /\ Goto(s, "joined")
  /\ UNCHANGED <<caches, asked, query, reply, originals, list, sessions, history>>
-----------------------------------------------------------------------------
(* Filters and validation.                                                 *)

Filtered(s) ==
  FilterByTitleRegex(FilterByQuality(items[s], UserOf(s), asked[s].kind), UserOf(s).exclude)

\* With the languages of the title known, the items are filtered and capped.
Narrow(s, originalLanguages) ==
  LET left == FilterByLanguage(Filtered(s), EffectiveLanguages(UserOf(s), originalLanguages))
  IN  /\ originals' = [originals EXCEPT ![s] = originalLanguages]
      /\ wanted' = [wanted EXCEPT ![s] = left]
      /\ items' = [items EXCEPT ![s] = CapItems(left, BufferCap(UserOf(s).perRes))]
      /\ Goto(s, "structure")

\* A title of another kind, and a series without an id, have no page.  The id of
\* a movie is never empty: "tt" is put before it.
HasPage(q) == q.kind = "movie" \/ (q.kind = "series" /\ q.imdb # "")

\* original_languages finds them in its cache, or there is nothing to ask for.
Recall(s) ==
  LET q == asked[s]
  IN  /\ pc[s] = "joined"
      /\ \/ /\ HasPage(q) /\ <<q.kind, q.imdb>> \in DOMAIN languages
            /\ Narrow(s, languages[<<q.kind, q.imdb>>])
         \/ ~ HasPage(q) /\ Narrow(s, <<>>)
      /\ UNCHANGED <<caches, asked, query, reply, list, sessions, replied, refused>>

Inquire(s) ==
  /\ pc[s] = "joined" /\ HasPage(asked[s])
  /\ <<asked[s].kind, asked[s].imdb>> \notin DOMAIN languages
  /\ Goto(s, "inquiring")
  /\ UNCHANGED <<caches, asked, query, reply, originals, items, list, sessions, history>>

\* Cinemeta's page names countries, or none, which is remembered too.
Learn(s) ==
  LET q == asked[s]
  IN  /\ pc[s] = "inquiring"
      /\ \E countries \in {Pages(q.imdb), <<>>} :
           /\ languages' = Remember(languages, <<q.kind, q.imdb>>, CountriesToLanguages(countries))
           /\ Narrow(s, CountriesToLanguages(countries))
      /\ UNCHANGED <<rss, tvdb, asked, query, reply, list, sessions, replied, refused>>

\* Cinemeta cannot be read: nothing is remembered, and no language is known.
LearnNothing(s) ==
  /\ pc[s] = "inquiring"
  /\ Narrow(s, <<>>)
  /\ UNCHANGED <<caches, asked, query, reply, list, sessions, replied, refused>>

\* A check that is on, of the structure of the documents or of the availability
\* of their articles, refuses some items and leaves the rest in order.
Check(s, on) ==
  \E bad \in IF on THEN SUBSET Range(items[s]) ELSE {{}} :
    /\ items' = [items EXCEPT ![s] = Keep(@, Range(@) \ bad)]
    /\ refused' = [refused EXCEPT ![s] = @ \cup bad]

\* filter_by_nzb_sanity, then filter_by_nzb_availability.
Validate(s) ==
  /\ \/ pc[s] = "structure" /\ Check(s, UserOf(s).structure) /\ Goto(s, "availability")
     \/ pc[s] = "availability" /\ Check(s, UserOf(s).availability) /\ Goto(s, "ranking")
  /\ UNCHANGED <<caches, asked, query, reply, originals, list, sessions, replied, wanted>>
-----------------------------------------------------------------------------
(* The list.                                                               *)

\* item_to_stream: what a client is shown of a release.  The signature stands for
\* the bingeGroup, which is joined from the parts of it the title has: here it
\* only tells the releases apart.
StreamOf(item, token, originalLanguages) ==
  [token     |-> token,
   name      |-> item.resolution,
   languages |-> IF DetectLanguage(item) = NoLanguage THEN originalLanguages
                 ELSE <<DetectLanguage(item)>>,
   size      |-> item.size,
   binge     |-> Signature(item)]

\* A session is registered for each group that is listed, and shown as its
\* first candidate.
Publish(s) ==
  LET groups == ListedGroups(items[s], UserOf(s).perRes)
      Token(g) == <<s, g>>
      new == {Token(g) : g \in DOMAIN groups}
  IN  /\ pc[s] = "ranking"
      /\ sessions' = [t \in DOMAIN sessions \cup new |->
                        IF t \in new THEN groups[t[2]] ELSE sessions[t]]
      /\ list' = [list EXCEPT ![s] =
                    [g \in DOMAIN groups |-> StreamOf(groups[g][1], Token(g), originals[s])]]
      /\ Goto(s, "answered")
      /\ UNCHANGED <<caches, asked, query, reply, originals, items, history>>

Next ==
  \/ \E s \in Searches :
       \/ \E q \in Questions : Begin(s, q)
       \/ \E i \in DOMAIN reply[s] : Look(s, i) \/ Reply(s, i) \/ Fail(s, i)
       \/ Number(s) \/ Join(s) \/ Recall(s) \/ Inquire(s) \/ Learn(s) \/ LearnNothing(s)
       \/ Validate(s) \/ Publish(s)
  \/ Expire

Spec == Init /\ [][Next]_vars

-----------------------------------------------------------------------------
Listed(s) == {list[s][k].binge : k \in DOMAIN list[s]}
Groups(bucket, candidates) == {Signature(c) : c \in {d \in candidates : Bucket(d) = bucket}}

\* What a search hears from an indexer is what that indexer has answered to the
\* very question, of this search or of another: a failed call, or the answer to
\* another question, is never taken for it.
HeardRight ==
  \A s \in Searches : \A i \in DOMAIN reply[s] :
    reply[s][i].status = "answered" =>
      [indexer |-> UserOf(s).indexers[i].host,
       query   |-> QueryOf(asked[s]),
       items   |-> reply[s][i].items] \in replied

\* Of the items that pass the other filters, those are left whose title names no
\* language, or several as a pack, or one the user wants, where "original"
\* stands for the languages the title is known to have.  When nothing is wanted
\* but an original language that is not known, all are left.
LanguagesRespected ==
  \A s \in Searches :
    pc[s] \in {"structure", "availability", "ranking", "answered"} =>
      LET want == UNION {IF l = "original" THEN Range(originals[s]) ELSE {l} :
                           l \in Range(UserOf(s).languages)}
          heard == FilterByTitleRegex(
                     FilterByQuality(Collected(s), UserOf(s), asked[s].kind), UserOf(s).exclude)
      IN  Range(wanted[s]) =
            {item \in Range(heard) :
               \/ want = {} \/ item.languages = {} \/ "multi" \in item.languages
               \/ DetectLanguage(item) \in want}

\* No bucket shows more releases than the user allows; and although only some
\* are validated, it shows that many, or all that were not refused, unless more
\* of them were refused than the buffer has to spare.
BufferSuffices ==
  \A s \in Searches :
    pc[s] = "answered" /\ UserOf(s).perRes > 0 =>
      \A bucket \in {Bucket(item) : item \in Range(wanted[s])} :
        LET all   == Groups(bucket, Range(wanted[s]))
            lost  == all \ Groups(bucket, Range(wanted[s]) \ refused[s])
            shown == Listed(s) \cap all
            spare == BufferCap(UserOf(s).perRes) - UserOf(s).perRes
            left  == Cardinality(all \ lost)
        IN  /\ Cardinality(shown) <= UserOf(s).perRes
            /\ Cardinality(lost) <= spare =>
                 Cardinality(shown) >= IF left < UserOf(s).perRes THEN left ELSE UserOf(s).perRes

\* The streams of a list come by resolution, each of another release, and each
\* session holds every upload of its release that was not refused, in the order
\* the search ranked them.
FallbacksComplete ==
  \A s \in Searches :
    pc[s] = "answered" =>
      LET streams == list[s]
      IN  /\ \A g, h \in DOMAIN streams :
               g < h => /\ streams[g].binge # streams[h].binge
                        /\ ResolutionIndex(streams[g].name) <= ResolutionIndex(streams[h].name)
          /\ \A g \in DOMAIN streams :
               sessions[streams[g].token] =
                 Filter(wanted[s], LAMBDA item : /\ item \notin refused[s]
                                                   /\ Signature(item) = streams[g].binge)
===============================================================================
