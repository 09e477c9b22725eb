-------------------------- MODULE StreamSearchProofs --------------------------
(***************************************************************************)
(* What a search hears and what it lists, for any users, questions, posts  *)
(* and pages, however the searches interleave and whenever answers leave   *)
(* the cache.  An answer may come from a cache another search filled,      *)
(* under a key that leaves out the account, so what the caches hold is     *)
(* part of the invariant (Hearing).  What is left of the items at each     *)
(* stage is a function of what was heard and refused (Selecting, Ranking); *)
(* the lemmas say what the operators of StreamRank make of any sequence.   *)
(***************************************************************************)
EXTENDS StreamSearch, FiniteLemmas

IsMap(f, S) == f = [x \in S |-> f[x]]

\* An answer of an indexer.
Said(host, q, content) == [indexer |-> host, query |-> q, items |-> content]

Shaped ==
  /\ IsMap(pc, Searches) /\ IsMap(asked, Searches)
  /\ IsMap(query, Searches) /\ IsMap(reply, Searches)
  /\ \A s \in Searches : IsMap(reply[s], DOMAIN reply[s])

\* The calls of a search that has a query are for its question.
QueriesRight ==
  \A s \in Searches :
    /\ pc[s] \in {"idle", "numbering"} => DOMAIN reply[s] = {}
    /\ pc[s] = "numbering" => asked[s].kind = "series"
    /\ DOMAIN reply[s] # {} => query[s] = QueryOf(asked[s])

\* The numbers remembered are TheTVDB's,
NumbersRight == \A id \in DOMAIN tvdb : tvdb[id] = Shows(id)

\* and the answers remembered are the indexers', to the queries of their keys.
AnswersRight ==
  \A key \in DOMAIN rss :
    Said(key[1], [kind |-> key[2], id |-> key[3], episode |-> key[4]], rss[key]) \in replied

Hearing ==
  Shaped /\ QueriesRight /\ NumbersRight /\ AnswersRight /\ HeardRight

\* What a search has heard is an answer, in the words of the invariant.
LEMMA HeardIs ==
  HeardRight <=>
    \A s \in Searches : \A i \in DOMAIN reply[s] :
      reply[s][i].status = "answered" =>
        Said(UserOf(s).indexers[i].host, QueryOf(asked[s]), reply[s][i].items) \in replied
BY DEF HeardRight, Said

\* The key of an answer names its query.
LEMMA KeyNamesQuery ==
  ASSUME Hearing, NEW s \in Searches, NEW i \in DOMAIN reply[s]
  PROVE  /\ query[s] = QueryOf(asked[s])
         /\ Key(s, i)[1] = UserOf(s).indexers[i].host
         /\ [kind |-> Key(s, i)[2], id |-> Key(s, i)[3], episode |-> Key(s, i)[4]] = query[s]
<1>1. query[s] = QueryOf(asked[s])
  BY DEF Hearing, QueriesRight
<1>2. query[s] = [kind |-> query[s].kind, id |-> query[s].id, episode |-> query[s].episode]
  <2>1. query[s] = MovieQuery(asked[s]) \/ query[s] = SeriesQuery(asked[s], Shows(asked[s].imdb))
    BY <1>1 DEF QueryOf
  <2>2. QED
    BY <2>1 DEF MovieQuery, SeriesQuery
<1>3. QED
  BY <1>1, <1>2 DEF Key, BuildCacheKey

\* Before any search nothing is heard or remembered.
LEMMA HearingInit == Init => Hearing
<1> SUFFICES ASSUME Init PROVE Hearing
  OBVIOUS
<1>1. Shaped
  BY DEF Init, Shaped, IsMap
<1>2. QueriesRight
  BY DEF Init, QueriesRight
<1>3. NumbersRight /\ AnswersRight /\ HeardRight
  BY DEF Init, Nothing, NumbersRight, AnswersRight, HeardRight
<1>4. QED
  BY <1>1, <1>2, <1>3 DEF Hearing

\* Steps that leave the calls and the caches as they are.
LEMMA HearingStays ==
  ASSUME Hearing, UNCHANGED <<rss, tvdb, asked, query, reply>>, replied \subseteq replied',
         NEW s \in Searches, NEW label, label \notin {"idle", "numbering"}, Goto(s, label)
  PROVE  Hearing'
<1>1. /\ IsMap(pc', Searches)
      /\ \A t \in Searches : pc'[t] \in {"idle", "numbering"} => pc'[t] = pc[t]
  BY DEF Goto, Hearing, Shaped, IsMap
<1>2. Shaped' /\ QueriesRight' /\ NumbersRight'
  BY <1>1 DEF Hearing, Shaped, QueriesRight, NumbersRight, IsMap
<1>3. AnswersRight' /\ HeardRight'
  BY DEF Hearing, AnswersRight, HeardRight
<1>4. QED
  BY <1>2, <1>3 DEF Hearing

\* All indexers are asked what the question comes to.
LEMMA FanOutHears ==
  ASSUME Hearing, NEW s \in Searches, pc[s] \in {"idle", "numbering"},
         NEW q, IsMap(asked', Searches), \A t \in Searches \ {s} : asked'[t] = asked[t],
         q = QueryOf(asked'[s]), FanOut(s, q),
         NumbersRight', UNCHANGED <<rss, replied>>
  PROVE  Hearing'
<1>1. /\ IsMap(pc', Searches) /\ IsMap(query', Searches) /\ IsMap(reply', Searches)
      /\ pc'[s] = "searching" /\ query'[s] = q
      /\ reply'[s] = [i \in DOMAIN UserOf(s).indexers |-> Call("ready")]
      /\ \A t \in Searches \ {s} :
           pc'[t] = pc[t] /\ query'[t] = query[t] /\ reply'[t] = reply[t]
  BY DEF FanOut, Goto, Hearing, Shaped, IsMap
<1>2. Shaped'
  BY <1>1 DEF Hearing, Shaped, IsMap
<1>3. QueriesRight'
  BY <1>1 DEF Hearing, QueriesRight
<1>4. AnswersRight'
  BY DEF Hearing, AnswersRight
<1>5. HeardRight'
  <2>1. \A i \in DOMAIN reply'[s] : reply'[s][i].status # "answered"
    BY <1>1 DEF Call
  <2>2. ASSUME NEW t \in Searches, NEW i \in DOMAIN reply'[t], reply'[t][i].status = "answered"
        PROVE  Said(UserOf(t).indexers[i].host, QueryOf(asked'[t]), reply'[t][i].items)
                 \in replied'
    <3>1. t # s
      BY <2>1, <2>2
    <3>2. reply'[t] = reply[t] /\ asked'[t] = asked[t]
      BY <1>1, <3>1
    <3>3. QED
      BY <2>2, <3>2, HeardIs DEF Hearing
  <2>3. QED
    BY <2>2 DEF HeardRight, Said, QueryOf
<1>6. QED
  BY <1>2, <1>3, <1>4, <1>5 DEF Hearing

\* One call gets on; what it has heard then, if anything, is the indexer's answer.
LEMMA CallHears ==
  ASSUME Hearing, NEW s \in Searches, NEW i \in DOMAIN reply[s], NEW r, SetReply(s, i, r),
         r.status = "answered" =>
           Said(UserOf(s).indexers[i].host, QueryOf(asked[s]), r.items) \in replied',
         UNCHANGED <<pc, asked, query, tvdb>>, replied \subseteq replied', AnswersRight'
  PROVE  Hearing'
<1>1. /\ IsMap(reply', Searches)
      /\ \A t \in Searches \ {s} : reply'[t] = reply[t]
      /\ DOMAIN reply'[s] = DOMAIN reply[s] /\ IsMap(reply'[s], DOMAIN reply'[s])
      /\ reply'[s][i] = r
      /\ \A j \in DOMAIN reply[s] \ {i} : reply'[s][j] = reply[s][j]
  BY DEF SetReply, Hearing, Shaped, IsMap
<1>2. Shaped'
  BY <1>1 DEF Hearing, Shaped, IsMap
<1>3. QueriesRight' /\ NumbersRight'
  BY <1>1 DEF Hearing, QueriesRight, NumbersRight
<1>4. HeardRight'
  <2>1. ASSUME NEW t \in Searches, NEW j \in DOMAIN reply'[t], reply'[t][j].status = "answered"
        PROVE  Said(UserOf(t).indexers[j].host, QueryOf(asked[t]), reply'[t][j].items)
                 \in replied'
    <3>1. CASE t = s /\ j = i
      BY <1>1, <2>1, <3>1
    <3>2. CASE ~ (t = s /\ j = i)
      <4>1. j \in DOMAIN reply[t] /\ reply'[t][j] = reply[t][j]
        BY <1>1, <2>1, <3>2
      <4>2. QED
        BY <2>1, <4>1, HeardIs DEF Hearing
    <3>3. QED
      BY <3>1, <3>2
  <2>2. QED
    BY <2>1 DEF HeardRight, Said, QueryOf
<1>5. QED
  BY <1>2, <1>3, <1>4 DEF Hearing

\* Every step keeps the invariant.
LEMMA HearingStep == Hearing /\ [Next]_vars => Hearing'
<1> SUFFICES ASSUME Hearing, [Next]_vars PROVE Hearing'
  OBVIOUS
<1>1. ASSUME NEW s \in Searches, NEW q \in Questions, Begin(s, q) PROVE Hearing'
  <2>1. /\ pc[s] = "idle" /\ asked' = [asked EXCEPT ![s] = q] /\ UNCHANGED <<rss, tvdb, replied>>
    BY <1>1 DEF Begin, caches, history
  <2>2. /\ IsMap(asked', Searches) /\ asked'[s] = q
        /\ \A t \in Searches \ {s} : asked'[t] = asked[t]
    BY <2>1 DEF Hearing, Shaped, IsMap
  <2>3. NumbersRight'
    BY <2>1 DEF Hearing, NumbersRight
  <2>4. CASE q.kind = "movie" /\ FanOut(s, MovieQuery(q))
    BY <2>1, <2>2, <2>3, <2>4, FanOutHears DEF QueryOf
  <2>5. CASE q.kind = "series" /\ q.imdb \in DOMAIN tvdb /\ FanOut(s, SeriesQuery(q, tvdb[q.imdb]))
    <3>1. tvdb[q.imdb] = Shows(q.imdb)
      BY <2>5 DEF Hearing, NumbersRight
    <3>2. SeriesQuery(q, tvdb[q.imdb]) = QueryOf(asked'[s])
      BY <2>2, <2>5, <3>1 DEF QueryOf
    <3>3. QED
      BY <2>1, <2>2, <2>3, <2>5, <3>2, FanOutHears
  <2>6. CASE /\ UNCHANGED <<query, reply>>
             /\ \/ Goto(s, "joined")
                \/ q.kind = "series" /\ Goto(s, "numbering")
    <3>1. /\ IsMap(pc', Searches) /\ pc'[s] \in {"numbering", "joined"}
          /\ pc'[s] = "numbering" => q.kind = "series"
          /\ \A t \in Searches \ {s} : pc'[t] = pc[t]
      BY <2>6 DEF Goto, Hearing, Shaped, IsMap
    <3>2. DOMAIN reply[s] = {}
      BY <2>1 DEF Hearing, QueriesRight
    <3>3. Shaped'
      BY <2>2, <2>6, <3>1 DEF Hearing, Shaped, IsMap
    <3>4. QueriesRight'
      BY <2>2, <2>6, <3>1, <3>2 DEF Hearing, QueriesRight
    <3>5. AnswersRight'
      BY <2>1 DEF Hearing, AnswersRight
    <3>6. HeardRight'
      BY <2>1, <2>2, <2>6, <3>2 DEF Hearing, HeardRight
    <3>7. QED
      BY <2>3, <3>3, <3>4, <3>5, <3>6 DEF Hearing
  <2>7. QED
    BY <1>1, <2>4, <2>5, <2>6 DEF Begin, NoItems
<1>2. ASSUME NEW s \in Searches, Number(s) PROVE Hearing'
  <2>1. /\ pc[s] = "numbering" /\ UNCHANGED <<rss, asked, replied>>
        /\ asked[s].kind = "series"
    BY <1>2 DEF Number, history, Hearing, QueriesRight
  <2>2. CASE NoItems(s) /\ UNCHANGED tvdb
    BY <2>1, <2>2, HearingStays DEF NoItems
  <2>3. CASE /\ tvdb' = Remember(tvdb, asked[s].imdb, Shows(asked[s].imdb))
             /\ FanOut(s, SeriesQuery(asked[s], Shows(asked[s].imdb)))
    <3>1. NumbersRight'
      BY <2>3 DEF Remember, Hearing, NumbersRight
    <3>2. SeriesQuery(asked[s], Shows(asked[s].imdb)) = QueryOf(asked[s])
      BY <2>1 DEF QueryOf
    <3>3. IsMap(asked', Searches) /\ \A t \in Searches : asked'[t] = asked[t]
      BY <2>1 DEF Hearing, Shaped, IsMap
    <3>4. QED
      BY <2>1, <2>3, <3>1, <3>2, <3>3, FanOutHears
  <2>4. QED
    BY <1>2, <2>2, <2>3 DEF Number
<1>3. ASSUME NEW s \in Searches, NEW i \in DOMAIN reply[s], Look(s, i) PROVE Hearing'
  <2> DEFINE key == Key(s, i)
             r == IF key \in DOMAIN rss THEN Answer(rss[key]) ELSE Call("calling")
  <2>1. SetReply(s, i, r) /\ UNCHANGED <<rss, tvdb, pc, asked, query, replied>>
    BY <1>3 DEF Look, caches, history
  <2>2. AnswersRight'
    BY <2>1 DEF Hearing, AnswersRight
  <2>3. ASSUME r.status = "answered"
        PROVE  Said(UserOf(s).indexers[i].host, QueryOf(asked[s]), r.items) \in replied
    <3>1. key \in DOMAIN rss /\ r.items = rss[key]
      BY <2>3 DEF Answer, Call
    <3>2. Said(key[1], [kind |-> key[2], id |-> key[3], episode |-> key[4]], rss[key]) \in replied
      BY <3>1 DEF Hearing, AnswersRight
    <3>3. QED
      BY <3>1, <3>2, KeyNamesQuery
  <2>4. r.status = "answered" =>
          Said(UserOf(s).indexers[i].host, QueryOf(asked[s]), r.items) \in replied'
    BY <2>1, <2>3
  <2> HIDE DEF r
  <2>5. QED
    BY <2>1, <2>2, <2>4, CallHears
<1>4. ASSUME NEW s \in Searches, NEW i \in DOMAIN reply[s], Reply(s, i) PROVE Hearing'
  <2> DEFINE key == Key(s, i)
             host == UserOf(s).indexers[i].host
  <2>1. PICK content :
          /\ rss' = Remember(rss, key, content)
          /\ SetReply(s, i, Answer(content))
          /\ replied' = replied \cup
               {[indexer |-> host, query |-> query[s], items |-> content]}
    BY <1>4 DEF Reply
  <2>2. UNCHANGED <<tvdb, pc, asked, query>>
    BY <1>4 DEF Reply
  <2>3. Said(host, query[s], content) \in replied'
    BY <2>1 DEF Said
  <2>4. /\ query[s] = QueryOf(asked[s]) /\ key[1] = host
        /\ [kind |-> key[2], id |-> key[3], episode |-> key[4]] = query[s]
    BY KeyNamesQuery
  <2>5. AnswersRight'
    <3>1. ASSUME NEW k \in DOMAIN rss'
          PROVE  Said(k[1], [kind |-> k[2], id |-> k[3], episode |-> k[4]], rss'[k]) \in replied'
      <4>1. CASE k = key
        <5>1. rss'[k] = content
          BY <2>1, <3>1, <4>1 DEF Remember
        <5>2. QED
          BY <2>3, <2>4, <4>1, <5>1
      <4>2. CASE k # key
        <5>1. k \in DOMAIN rss /\ rss'[k] = rss[k]
          BY <2>1, <3>1, <4>2 DEF Remember
        <5>2. QED
          BY <2>1, <5>1 DEF Hearing, AnswersRight
      <4>3. QED
        BY <4>1, <4>2
    <3>2. QED
      BY <3>1 DEF AnswersRight
  <2>6. Answer(content).status = "answered" /\ Answer(content).items = content
    BY DEF Answer
  <2>7. Said(host, QueryOf(asked[s]), Answer(content).items) \in replied'
    BY <2>3, <2>4, <2>6
  <2>8. QED
    BY <2>1, <2>2, <2>5, <2>7, CallHears
<1>5. ASSUME NEW s \in Searches, NEW i \in DOMAIN reply[s], Fail(s, i) PROVE Hearing'
  <2>1. SetReply(s, i, Call("failed")) /\ UNCHANGED <<rss, tvdb, pc, asked, query, replied>>
    BY <1>5 DEF Fail, caches, history
  <2>2. AnswersRight' /\ Call("failed").status # "answered"
    BY <2>1 DEF Hearing, AnswersRight, Call
  <2>3. QED
    BY <2>1, <2>2, CallHears
<1>6. ASSUME NEW s \in Searches,
             \/ Join(s) \/ Recall(s) \/ Inquire(s) \/ Learn(s) \/ LearnNothing(s)
             \/ Validate(s) \/ Publish(s)
      PROVE  Hearing'
  <2>1. /\ UNCHANGED <<rss, tvdb, asked, query, reply, replied>>
        /\ \E label \in {"joined", "structure", "inquiring", "availability", "ranking",
                          "answered"} : Goto(s, label)
    BY <1>6 DEF Join, Recall, Inquire, Learn, LearnNothing, Validate, Publish, Narrow, Check,
                caches, history
  <2>2. QED
    BY <2>1, HearingStays
<1>7. ASSUME Expire PROVE Hearing'
  <2>1. UNCHANGED <<tvdb, pc, asked, query, reply, replied>>
    BY <1>7 DEF Expire, history
  <2>2. \A k \in DOMAIN rss' : k \in DOMAIN rss /\ rss'[k] = rss[k]
    BY <1>7 DEF Expire, Restrict
  <2>3. Shaped' /\ QueriesRight' /\ NumbersRight' /\ HeardRight'
    BY <2>1 DEF Hearing, Shaped, QueriesRight, NumbersRight, HeardRight, IsMap
  <2>4. AnswersRight'
    BY <2>1, <2>2 DEF Hearing, AnswersRight
  <2>5. QED
    BY <2>3, <2>4 DEF Hearing
<1>8. CASE UNCHANGED vars
  BY <1>8 DEF vars, caches, history, Hearing, Shaped, QueriesRight, NumbersRight, AnswersRight,
              HeardRight, IsMap
<1>9. QED
  BY <1>1, <1>2, <1>3, <1>4, <1>5, <1>6, <1>7, <1>8 DEF Next

(* However searches share the caches, what each hears from an indexer is     *)
(* what that indexer has answered to the very question the search was made  *)
(* with; a call that failed is never heard as an answer.                     *)
THEOREM SearchesHearAnswers == Spec => []HeardRight
<1>1. Hearing => HeardRight
  BY DEF Hearing
<1>2. QED
  BY HearingInit, HearingStep, <1>1, PTL DEF Spec
-----------------------------------------------------------------------------
(* A sequence without its repetitions.                                     *)

Adding(w, s, X) ==
  /\ w \in [0 .. Len(s) -> Seq(X)]
  /\ w[0] = <<>>
  /\ \A k \in 1 .. Len(s) :
       w[k] = IF Contains(w[k - 1], s[k]) THEN w[k - 1] ELSE Append(w[k - 1], s[k])
  /\ FirstOccurrences(s) = w[Len(s)]

LEMMA AddingRuns ==
  ASSUME NEW X, NEW s \in Seq(X)
  PROVE  \E w : Adding(w, s, X)
<1>0. PICK n \in Nat : n = Len(s) /\ DOMAIN s = 1 .. n /\ \A k \in 1 .. n : s[k] \in X
  OBVIOUS
<1> DEFINE V == Seq(X)
           step == [k \in 1 .. n |->
                      [v \in V |-> IF Contains(v, s[k]) THEN v ELSE Append(v, s[k])]]
<1>1. step \in [1 .. n -> [V -> V]] /\ <<>> \in V
  BY <1>0
<1>2. \A k \in 1 .. n, v \in V :
        step[k][v] = IF Contains(v, s[k]) THEN v ELSE Append(v, s[k])
  OBVIOUS
<1> HIDE DEF step, V
<1>3. PICK f : Folds(f, n, V, <<>>, step)
  BY <1>1, FoldsExist
<1>4. f = [t \in SUBSET DOMAIN s |->
             IF t = {} THEN <<>>
             ELSE LET i == Max(t)
                  IN  IF Contains(f[t \ {i}], s[i]) THEN f[t \ {i}]
                      ELSE Append(f[t \ {i}], s[i])]
  <2>1. ASSUME NEW t \in SUBSET (1 .. n), t # {}
        PROVE  LET i == Max(t)
               IN  f[t] = IF Contains(f[t \ {i}], s[i]) THEN f[t \ {i}]
                          ELSE Append(f[t \ {i}], s[i])
    <3>1. Max(t) \in t
      <4>1. t \subseteq 0 .. n
        OBVIOUS
      <4> QED
        BY <2>1, <4>1, MaxExists
    <3>2. PICK i \in t : i = Max(t)
      BY <3>1
    <3>3. f[t \ {i}] \in V /\ f[t] = step[i][f[t \ {i}]]
      BY <1>3, <2>1, <3>2 DEF Folds
    <3> QED
      BY <1>2, <3>2, <3>3
  <2>2. f[{}] = <<>> /\ f = [t \in SUBSET (1 .. n) |-> f[t]]
    BY <1>3 DEF Folds
  <2> QED
    BY <1>0, <2>1, <2>2
<1>5. PICK g : /\ g = [t \in SUBSET DOMAIN s |->
                         IF t = {} THEN <<>>
                         ELSE LET i == Max(t)
                              IN  IF Contains(g[t \ {i}], s[i]) THEN g[t \ {i}]
                                  ELSE Append(g[t \ {i}], s[i])]
               /\ FirstOccurrences(s) = g[DOMAIN s]
  BY <1>4 DEF FirstOccurrences, FoldLeft, MapThenFoldSet
<1>6. g[{}] = <<>>
  BY <1>5
<1>7. ASSUME NEW k \in 1 .. n, g[1 .. k - 1] \in V PROVE g[1 .. k] = step[k][g[1 .. k - 1]]
  <2>1. 1 .. k \subseteq 1 .. n /\ 1 .. k # {} /\ Max(1 .. k) = k /\ (1 .. k) \ {k} = 1 .. k - 1
    BY PrefixOf
  <2>2. g[1 .. k] = IF Contains(g[1 .. k - 1], s[k]) THEN g[1 .. k - 1]
                    ELSE Append(g[1 .. k - 1], s[k])
    BY <1>0, <1>5, <2>1
  <2> QED
    BY <1>2, <1>7, <2>2
<1>8. PICK w : Run(w, n, V, <<>>, step) /\ w[n] = g[1 .. n]
  <2>1. StepsOf(g, n, V, <<>>, step)
    BY <1>1, <1>6, <1>7 DEF StepsOf
  <2> QED
    BY <2>1, FoldRuns
<1>9. \A k \in 1 .. n :
        w[k] = IF Contains(w[k - 1], s[k]) THEN w[k - 1] ELSE Append(w[k - 1], s[k])
  <2>1. \A k \in 1 .. n : k - 1 \in 0 .. n
    OBVIOUS
  <2> QED
    BY <1>2, <1>8, <2>1 DEF Run
<1>10. w \in [0 .. n -> Seq(X)] /\ w[0] = <<>> /\ FirstOccurrences(s) = w[n]
  BY <1>0, <1>5, <1>8 DEF Run, V
<1> QED
  BY <1>0, <1>9, <1>10 DEF Adding

\* Each element is there once, where it comes first: what was sorted is sorted.
LEMMA FirstOccurrencesSound ==
  ASSUME NEW X, NEW s \in Seq(X)
  PROVE  /\ FirstOccurrences(s) \in Seq(X)
         /\ Range(FirstOccurrences(s)) = Range(s)
         /\ Distinct(FirstOccurrences(s))
         /\ \A key \in [X -> Int] : Rising(s, key) => Rising(FirstOccurrences(s), key)
<1>0. PICK n \in Nat : n = Len(s) /\ \A k \in 1 .. n : s[k] \in X
  OBVIOUS
<1>1. PICK w : Adding(w, s, X)
  BY AddingRuns
<1>2. /\ \A k \in 0 .. n : w[k] \in Seq(X)
      /\ w[0] = <<>> /\ FirstOccurrences(s) = w[n]
      /\ \A k \in 1 .. n :
           w[k] = IF Contains(w[k - 1], s[k]) THEN w[k - 1] ELSE Append(w[k - 1], s[k])
  BY <1>0, <1>1 DEF Adding
<1> DEFINE Sorted(key, k) == \A i, j \in 1 .. k : i < j => key[s[i]] <= key[s[j]]
           T == {k \in Nat : k <= n =>
                   /\ \A x : x \in Range(w[k]) <=> \E i \in 1 .. k : x = s[i]
                   /\ Distinct(w[k])
                   /\ \A key \in [X -> Int] : Sorted(key, k) => Rising(w[k], key)}
<1>3. 0 \in T
  <2>1. Range(<<>>) = {} /\ Distinct(<<>>) /\ \A key : Rising(<<>>, key)
    BY DEF Range, Distinct, Rising
  <2> QED
    BY <1>2, <2>1
<1>4. ASSUME NEW k \in Nat, k \in T PROVE k + 1 \in T
  <2> SUFFICES ASSUME k + 1 <= n
               PROVE  /\ \A x : x \in Range(w[k + 1]) <=> \E i \in 1 .. k + 1 : x = s[i]
                      /\ Distinct(w[k + 1])
                      /\ \A key \in [X -> Int] : Sorted(key, k + 1) => Rising(w[k + 1], key)
    OBVIOUS
  <2>1. k + 1 \in 1 .. n /\ k \in 0 .. n /\ (k + 1) - 1 = k
    OBVIOUS
  <2>2. PICK u \in Seq(X), x \in X : u = w[k] /\ x = s[k + 1]
    BY <1>0, <1>2, <2>1
  <2>3. w[k + 1] = IF x \in Range(u) THEN u ELSE Append(u, x)
    <3>1. w[k + 1] = IF Contains(u, x) THEN u ELSE Append(u, x)
      BY <1>2, <2>1, <2>2
    <3>2. Contains(u, x) <=> x \in Range(u)
      BY InRange DEF Contains
    <3> QED
      BY <3>1, <3>2
  <2>4. /\ \A y : y \in Range(u) <=> \E i \in 1 .. k : y = s[i]
        /\ Distinct(u)
        /\ \A key \in [X -> Int] : Sorted(key, k) => Rising(u, key)
    BY <1>4, <2>1, <2>2
  <2>5. \A i : i \in 1 .. k + 1 <=> i \in 1 .. k \/ i = k + 1
    OBVIOUS
  <2>6. \A key : Sorted(key, k + 1) =>
          Sorted(key, k) /\ \A i \in 1 .. k : key[s[i]] <= key[x]
    <3>1. \A i \in 1 .. k : i < k + 1
      OBVIOUS
    <3> QED
      BY <2>2, <2>5, <3>1
  <2> HIDE DEF Sorted
  <2>7. CASE x \in Range(u)
    BY <2>2, <2>3, <2>4, <2>5, <2>6, <2>7
  <2>8. CASE x \notin Range(u)
    <3>1. PICK v : v = Append(u, x)
      OBVIOUS
    <3>2. Range(v) = Range(u) \cup {x} /\ Distinct(v)
      BY <2>4, <2>8, <3>1, RangeAppend, DistinctAppend
    <3>3. ASSUME NEW key \in [X -> Int], Sorted(key, k + 1) PROVE Rising(v, key)
      <4>1. Rising(u, key) /\ \A y \in Range(u) : key[y] <= key[x]
        BY <2>4, <2>6, <3>3
      <4> QED
        BY <3>1, <4>1, RisingAppend
    <3>4. w[k + 1] = v
      BY <2>3, <2>8, <3>1
    <3>5. \A y : y \in Range(v) <=> \E i \in 1 .. k + 1 : y = s[i]
      BY <2>2, <2>4, <2>5, <3>2
    <3> QED
      BY <3>2, <3>3, <3>4, <3>5
  <2> QED
    BY <2>7, <2>8
<1>5. n \in T
  <2> HIDE DEF T
  <2>1. Nat \subseteq T
    BY <1>3, <1>4, NatSetInduction
  <2> QED
    BY <2>1
<1>6. /\ \A x : x \in Range(w[n]) <=> \E i \in 1 .. n : x = s[i]
      /\ Distinct(w[n])
      /\ \A key \in [X -> Int] : Sorted(key, n) => Rising(w[n], key)
  BY <1>5
<1>7. \A x : x \in Range(s) <=> \E i \in 1 .. n : x = s[i]
  BY <1>0, InRange
<1>8. \A key : Rising(s, key) <=> Sorted(key, n)
  BY <1>0 DEF Rising
<1> HIDE DEF T, Sorted
<1>9. Range(w[n]) = Range(s)
  BY <1>6, <1>7
<1> QED
  BY <1>2, <1>6, <1>8, <1>9

-----------------------------------------------------------------------------
(* Languages.                                                              *)

LEMMA Patterns ==
  /\ Len(LanguagePatterns) = 30 /\ LanguagePatterns[1] = "multi"
  /\ \A l \in Range(LanguagePatterns) : \E i \in 1 .. 30 : LanguagePatterns[i] = l
  /\ \A i \in 1 .. 30 :
       /\ LanguagePatterns[i] # NoLanguage
       /\ LanguagePatterns[i] \notin MultiLanguageTags \ {"multi"}
<1>1. /\ Len(LanguagePatterns) = 30 /\ DOMAIN LanguagePatterns = 1 .. 30
      /\ LanguagePatterns[1] = "multi"
  BY DEF LanguagePatterns
<1>2. ASSUME NEW i \in 1 .. 30
      PROVE  /\ LanguagePatterns[i] # NoLanguage
             /\ LanguagePatterns[i] \notin MultiLanguageTags \ {"multi"}
  BY DEF LanguagePatterns, NoLanguage, MultiLanguageTags
<1> QED
  BY <1>1, <1>2 DEF Range

\* A title is taken for a pack whenever it says so, for one without language only
\* if it names none, and otherwise for a release in a language it names.
LEMMA DetectSound ==
  ASSUME NEW item, item.languages \subseteq Range(LanguagePatterns)
  PROVE  /\ item.languages = {} <=> DetectLanguage(item) = NoLanguage
         /\ "multi" \in item.languages <=> DetectLanguage(item) = "multi"
         /\ DetectLanguage(item) \notin MultiLanguageTags \ {"multi"}
<1> DEFINE I == {i \in 1 .. 30 : LanguagePatterns[i] \in item.languages}
<1>1. \A l \in item.languages : \E i \in I : LanguagePatterns[i] = l
  BY Patterns
<1>2. DetectLanguage(item) = IF I # {} THEN LanguagePatterns[Min(I)] ELSE NoLanguage
  <2>1. SelectInSeq(LanguagePatterns, LAMBDA l : l \in item.languages)
          = IF I # {} THEN Min(I) ELSE 0
    BY Patterns DEF SelectInSeq
  <2>2. I # {} => Min(I) # 0
    BY MinExists
  <2> QED
    BY <2>1, <2>2 DEF DetectLanguage
<1>3. CASE I = {}
  <2>1. item.languages = {} /\ DetectLanguage(item) = NoLanguage
    BY <1>1, <1>2, <1>3
  <2> QED
    BY <2>1 DEF NoLanguage, MultiLanguageTags
<1>4. CASE I # {}
  <2>1. PICK m \in I : m = Min(I) /\ \A i \in I : m <= i
    <3>1. I \subseteq Nat
      OBVIOUS
    <3> HIDE DEF I
    <3>2. Min(I) \in I /\ \A i \in I : Min(I) <= i
      BY <1>4, <3>1, MinExists
    <3> QED
      BY <3>2
  <2>2. DetectLanguage(item) = LanguagePatterns[m] /\ LanguagePatterns[m] \in item.languages
    BY <1>2, <1>4, <2>1
  <2>3. "multi" \in item.languages => m = 1
    <3>1. "multi" \in item.languages => 1 \in I
      BY Patterns
    <3> QED
      BY <2>1, <3>1
  <2> QED
    BY <2>2, <2>3, Patterns
<1> QED
  BY <1>3, <1>4

LEMMA Sequences ==
  ASSUME NEW X, NEW s \in Seq(X)
  PROVE  IsSequence(s) /\ (s = <<>> <=> Range(s) = {})
<1>1. PICK n \in Nat : n = Len(s) /\ DOMAIN s = 1 .. n
  OBVIOUS
<1>2. IsSequence(s)
  <2>1. \A i \in 1 .. n : s[i] \in Range(s)
    BY <1>1 DEF Range
  <2> QED
    BY <1>1, <2>1 DEF IsSequence
<1>3. s = <<>> => Range(s) = {}
  BY DEF Range
<1>4. ASSUME s # <<>> PROVE Range(s) # {}
  <2>1. 1 \in DOMAIN s
    BY <1>1, <1>4
  <2> QED
    BY <2>1 DEF Range
<1> QED
  BY <1>2, <1>3, <1>4

\* The languages of a title's countries, and those a user wants of the title.
LEMMA CountriesSound ==
  ASSUME NEW countries, IsSequence(countries)
  PROVE  IsSequence(CountriesToLanguages(countries))
<1> DEFINE X == {LanguageOf(c) : c \in Range(countries)}
<1>1. PICK t : t = [i \in DOMAIN countries |-> LanguageOf(countries[i])]
  OBVIOUS
<1>2. t \in Seq(X)
  <2>1. DOMAIN countries = 1 .. Len(countries) /\ Len(countries) \in Nat
    BY DEF IsSequence
  <2>2. \A i \in DOMAIN countries : t[i] \in X
    BY <1>1 DEF Range
  <2> QED
    BY <1>1, <2>1, <2>2
<1>3. PICK A : CountriesToLanguages(countries) = FirstOccurrences(Keep(t, A))
  BY <1>1 DEF CountriesToLanguages, Filter
<1> HIDE DEF X
<1>4. FirstOccurrences(Keep(t, A)) \in Seq(X)
  <2>1. PICK u \in Seq(X) : u = Keep(t, A)
    BY <1>2, KeepRange
  <2>2. FirstOccurrences(u) \in Seq(X)
    BY FirstOccurrencesSound
  <2> QED
    BY <2>1, <2>2
<1> QED
  BY <1>3, <1>4, Sequences

Wanted(languagesOfUser, originalLanguages) ==
  UNION {IF l = "original" THEN Range(originalLanguages) ELSE {l} : l \in Range(languagesOfUser)}

LEMMA EffectiveSound ==
  ASSUME NEW user, NEW titles, IsSequence(user.languages), IsSequence(titles)
  PROVE  /\ Range(EffectiveLanguages(user, titles)) = Wanted(user.languages, titles)
         /\ EffectiveLanguages(user, titles) = <<>> <=> Wanted(user.languages, titles) = {}
<1>1. PICK p : p = user.languages
  OBVIOUS
<1> DEFINE X == Range(p) \cup Range(titles)
<1>2. /\ p \in Seq(X) /\ titles \in Seq(X)
      /\ DOMAIN p = 1 .. Len(p) /\ Len(p) \in Nat
  <2>1. p \in Seq(Range(p)) /\ titles \in Seq(Range(titles))
    BY <1>1 DEF IsSequence
  <2> QED
    BY <2>1
<1>3. WantsOriginal(p) <=> "original" \in Range(p)
  BY <1>2, InRange DEF WantsOriginal, Contains
<1>4. PICK e : e = EffectiveLanguages(user, titles)
  OBVIOUS
<1> SUFFICES \E Y : e \in Seq(Y) /\ \A l : l \in Range(e) <=> l \in Wanted(p, titles)
  BY <1>1, <1>4, Sequences
<1>5. CASE "original" \notin Range(p)
  <2>1. e = p
    BY <1>1, <1>3, <1>4, <1>5 DEF EffectiveLanguages
  <2>2. \A l : l \in Wanted(p, titles) <=> l \in Range(p)
    BY <1>5 DEF Wanted
  <2> QED
    BY <1>2, <2>1, <2>2
<1>6. CASE "original" \in Range(p)
  <2>1. PICK ss : ss = [i \in DOMAIN p |-> IF p[i] = "original" THEN titles ELSE <<p[i]>>]
    OBVIOUS
  <2>2. \A i \in 1 .. Len(p) :
          p[i] \in X /\ ss[i] = IF p[i] = "original" THEN titles ELSE <<p[i]>>
    BY <1>2, <2>1
  <2>3. ss \in Seq(Seq(X)) /\ Len(ss) = Len(p)
    <3>1. \A i \in 1 .. Len(p) : ss[i] \in Seq(X)
      <4>1. \A x \in X : <<x>> \in Seq(X)
        OBVIOUS
      <4> QED
        BY <1>2, <2>2, <4>1
    <3> QED
      BY <1>2, <2>1, <3>1
  <2>4. e = FirstOccurrences(FlattenSeq(ss))
    BY <1>1, <1>3, <1>4, <1>6, <2>1 DEF EffectiveLanguages, ExpandOriginal
  <2> HIDE DEF X
  <2>5. /\ FlattenSeq(ss) \in Seq(X)
        /\ \A l : l \in Range(FlattenSeq(ss)) <=> \E i \in 1 .. Len(ss) : l \in Range(ss[i])
    BY <2>3, FlattenRange
  <2>6. e \in Seq(X) /\ Range(e) = Range(FlattenSeq(ss))
    BY <2>4, <2>5, FirstOccurrencesSound
  <2>7. \A i \in 1 .. Len(p) :
          Range(ss[i]) = IF p[i] = "original" THEN Range(titles) ELSE {p[i]}
    BY <2>2, Single
  <2>8. ASSUME NEW l PROVE l \in Wanted(p, titles) <=> \E i \in 1 .. Len(p) : l \in Range(ss[i])
    <3>1. \A x : x \in Range(p) <=> \E i \in 1 .. Len(p) : p[i] = x
      BY <1>2 DEF Range
    <3>2. l \in Wanted(p, titles) <=>
            \E x \in Range(p) : l \in IF x = "original" THEN Range(titles) ELSE {x}
      BY DEF Wanted
    <3> QED
      BY <2>7, <3>1, <3>2
  <2> QED
    BY <2>3, <2>5, <2>6, <2>8
<1> QED
  BY <1>5, <1>6

\* Items whose titles the patterns were matched against.
Named(X) == \A item \in X : item.languages \subseteq Range(LanguagePatterns)

LEMMA FiltersSound ==
  ASSUME NEW X, NEW s \in Seq(X), NEW user, NEW kind, NEW exclude
  PROVE  FilterByTitleRegex(FilterByQuality(s, user, kind), exclude) \in Seq(X)
<1>1. FilterByQuality(s, user, kind) \in Seq(X)
  <2>1. PICK A : FilterByQuality(s, user, kind) =
                   IF user.min = NotGiven /\ user.max = NotGiven THEN s
                   ELSE SortedBy(Keep(s, A[1]), A[2])
    <3>1. PICK A1, A2 : FilterByQuality(s, user, kind) =
                          IF user.min = NotGiven /\ user.max = NotGiven THEN s
                          ELSE SortedBy(Keep(s, A1), A2)
      BY DEF FilterByQuality, StableSorted, Filter
    <3>2. PICK A : A = <<A1, A2>>
      OBVIOUS
    <3> QED
      BY <3>1, <3>2
  <2>2. Keep(s, A[1]) \in Seq(X)
    BY KeepRange
  <2>3. SortedBy(Keep(s, A[1]), A[2]) \in Seq(X)
    BY <2>2, SortedRange
  <2> QED
    BY <2>1, <2>3
<1>2. PICK t \in Seq(X) : t = FilterByQuality(s, user, kind)
  BY <1>1
<1>3. PICK A : FilterByTitleRegex(t, exclude) = Keep(t, A)
  BY DEF FilterByTitleRegex, Filter
<1>4. Keep(t, A) \in Seq(X)
  BY KeepRange
<1> QED
  BY <1>2, <1>3, <1>4

LEMMA FilterByLanguageSound ==
  ASSUME NEW X, Named(X), NEW s \in Seq(X), NEW preferred
  PROVE  /\ FilterByLanguage(s, preferred) \in Seq(X)
         /\ Range(FilterByLanguage(s, preferred)) =
              {item \in Range(s) :
                 \/ preferred = <<>> \/ item.languages = {} \/ "multi" \in item.languages
                 \/ DetectLanguage(item) \in Range(preferred)}
<1>1. PICK K : K = {item \in Range(s) :
                      \/ item.languages = {} \/ "multi" \in item.languages
                      \/ DetectLanguage(item) \in Range(preferred)}
  OBVIOUS
<1>2. Range(s) \subseteq X
  BY RangeAppend
<1>3. \A item \in Range(s) :
        DetectLanguage(item) \in MultiLanguageTags \cup {NoLanguage} \cup Range(preferred)
          <=> item \in K
  <2>1. ASSUME NEW item \in Range(s)
        PROVE  DetectLanguage(item) \in MultiLanguageTags \cup {NoLanguage} \cup Range(preferred)
                 <=> item \in K
    <3>1. /\ item.languages = {} <=> DetectLanguage(item) = NoLanguage
          /\ "multi" \in item.languages <=> DetectLanguage(item) = "multi"
          /\ DetectLanguage(item) \notin MultiLanguageTags \ {"multi"}
      BY <1>2, DetectSound DEF Named
    <3>2. "multi" \in MultiLanguageTags
      BY DEF MultiLanguageTags
    <3> QED
      BY <1>1, <3>1, <3>2
  <2> QED
    BY <2>1
<1>4. FilterByLanguage(s, preferred) = IF preferred = <<>> THEN s ELSE Keep(s, K)
  <2>1. {item \in Range(s) :
           DetectLanguage(item) \in MultiLanguageTags \cup {NoLanguage} \cup Range(preferred)} = K
    BY <1>1, <1>3
  <2> QED
    BY <2>1 DEF FilterByLanguage, Filter
<1>5. Keep(s, K) \in Seq(X) /\ Range(Keep(s, K)) = Range(s) \cap K
  BY KeepRange
<1>6. CASE preferred = <<>>
  BY <1>4, <1>6
<1>7. CASE preferred # <<>>
  BY <1>1, <1>4, <1>5, <1>7
<1> QED
  BY <1>6, <1>7

-----------------------------------------------------------------------------
(* What a search has: the items of its indexers until it knows the         *)
(* languages of the title, and then those that pass the filters.           *)

Uploads ==
  UNION {UNION {UNION {Range(Posts(UserOf(s).indexers[i], QueryOf(q))) :
                         i \in DOMAIN UserOf(s).indexers} : s \in Searches} : q \in Questions}

Heard(s) ==
  FilterByTitleRegex(FilterByQuality(Collected(s), UserOf(s), asked[s].kind), UserOf(s).exclude)

Narrowed == {"structure", "availability", "ranking", "answered"}

Kept ==
  /\ IsMap(items, Searches) /\ IsMap(originals, Searches) /\ IsMap(wanted, Searches)
  /\ \A key \in DOMAIN rss : rss[key] \in Seq(Uploads)
  /\ \A key \in DOMAIN languages : IsSequence(languages[key])

\* The calls of a search,
Calls(s) ==
  /\ pc[s] # "idle" => asked[s] \in Questions
  /\ reply[s] = <<>> \/ (pc[s] # "idle" /\ DOMAIN reply[s] = DOMAIN UserOf(s).indexers)
  /\ \A i \in DOMAIN reply[s] : reply[s][i].items \in Seq(Uploads)

\* and its items.
Holds(s) ==
  /\ IsSequence(originals[s])
  /\ pc[s] \in {"idle", "numbering"} => reply[s] = <<>> /\ items[s] = <<>>
  /\ pc[s] \in {"joined", "inquiring"} => items[s] = Collected(s)
  /\ pc[s] \in Narrowed =>
       wanted[s] = FilterByLanguage(Heard(s), EffectiveLanguages(UserOf(s), originals[s]))

Selecting == Hearing /\ Kept /\ \A s \in Searches : Calls(s) /\ Holds(s)

LEMMA UploadsNamed ==
  /\ Named(Uploads)
  /\ \A q \in Questions, s \in Searches : \A i \in DOMAIN UserOf(s).indexers :
       Posts(UserOf(s).indexers[i], QueryOf(q)) \in Seq(Uploads)
<1>1. ASSUME NEW q \in Questions, NEW s \in Searches, NEW i \in DOMAIN UserOf(s).indexers
      PROVE  Posts(UserOf(s).indexers[i], QueryOf(q)) \in Seq(Uploads)
  <2>1. PICK p : p = Posts(UserOf(s).indexers[i], QueryOf(q))
    OBVIOUS
  <2>2. p \in Seq(Range(p))
    BY <2>1, SearchAssumption DEF IsSequence
  <2>3. Range(p) \subseteq Uploads
    BY <2>1 DEF Uploads
  <2> QED
    BY <2>1, <2>2, <2>3
<1>2. Named(Uploads)
  BY SearchAssumption DEF Uploads, Named
<1> QED
  BY <1>1, <1>2

LEMMA CollectedSound ==
  ASSUME NEW s \in Searches, IsMap(reply[s], DOMAIN reply[s]), Calls(s)
  PROVE  /\ Collected(s) \in Seq(Uploads)
         /\ reply[s] = <<>> => Collected(s) = <<>>
<1>1. PICK r : r = reply[s]
  OBVIOUS
<1>2. PICK n \in Nat : DOMAIN r = 1 .. n
  <2>1. CASE r = <<>>
    <3>1. DOMAIN r = 1 .. 0
      BY <2>1
    <3> QED
      BY <3>1
  <2>2. CASE DOMAIN r = DOMAIN UserOf(s).indexers
    <3>1. PICK u : u = UserOf(s).indexers
      OBVIOUS
    <3>2. u \in Seq(Range(u))
      BY <3>1, SearchAssumption DEF IsSequence
    <3>3. DOMAIN u = 1 .. Len(u) /\ Len(u) \in Nat
      BY <3>2
    <3> QED
      BY <2>2, <3>1, <3>3
  <2> QED
    BY <1>1, <2>1, <2>2 DEF Calls
<1>3. PICK ss : ss = [i \in DOMAIN r |-> r[i].items]
  OBVIOUS
<1>4. ss \in Seq(Seq(Uploads))
  <2>1. \A i \in 1 .. n : ss[i] \in Seq(Uploads)
    BY <1>1, <1>2, <1>3 DEF Calls
  <2> QED
    BY <1>2, <1>3, <2>1
<1>5. Collected(s) = FlattenSeq(ss)
  BY <1>1, <1>3 DEF Collected
<1>6. r = <<>> => FlattenSeq(ss) = <<>>
  <2>1. r = <<>> => ss = <<>>
    BY <1>3
  <2>2. FlattenSeq(<<>>) = <<>>
    BY DEF FlattenSeq
  <2> QED
    BY <2>1, <2>2
<1> QED
  BY <1>1, <1>4, <1>5, <1>6, FlattenRange

\* The filters leave what the property says.
LEMMA SelectingRespects == Selecting => LanguagesRespected
<1> SUFFICES ASSUME Selecting, NEW s \in Searches, pc[s] \in Narrowed
             PROVE  Range(wanted[s]) =
                      {item \in Range(Heard(s)) :
                         \/ Wanted(UserOf(s).languages, originals[s]) = {}
                         \/ item.languages = {} \/ "multi" \in item.languages
                         \/ DetectLanguage(item) \in Wanted(UserOf(s).languages, originals[s])}
  BY DEF LanguagesRespected, Narrowed, Heard, Wanted
<1>1. PICK titles, user, p : titles = originals[s] /\ user = UserOf(s)
                             /\ p = EffectiveLanguages(user, titles)
  OBVIOUS
<1>2. /\ Range(p) = Wanted(user.languages, titles)
      /\ p = <<>> <=> Wanted(user.languages, titles) = {}
  <2>1. IsSequence(user.languages) /\ IsSequence(titles)
    BY <1>1, SearchAssumption DEF Selecting, Holds
  <2> QED
    BY <1>1, <2>1, EffectiveSound
<1>3. PICK h \in Seq(Uploads) : h = Heard(s)
  <2>1. Collected(s) \in Seq(Uploads)
    BY CollectedSound DEF Selecting, Hearing, Shaped
  <2> QED
    BY <2>1, FiltersSound DEF Heard
<1>4. wanted[s] = FilterByLanguage(h, p)
  BY <1>1, <1>3 DEF Selecting, Holds
<1>5. Range(FilterByLanguage(h, p)) =
        {item \in Range(h) :
           \/ p = <<>> \/ item.languages = {} \/ "multi" \in item.languages
           \/ DetectLanguage(item) \in Range(p)}
  BY UploadsNamed, FilterByLanguageSound
<1> QED
  BY <1>1, <1>2, <1>3, <1>4, <1>5

LEMMA SelectingInit == Init => Selecting
<1> SUFFICES ASSUME Init PROVE Selecting
  OBVIOUS
<1>1. Hearing
  BY HearingInit
<1>2. Kept
  BY DEF Init, Kept, IsMap, Nothing
<1>3. ASSUME NEW s \in Searches PROVE Calls(s) /\ Holds(s)
  <2>1. pc[s] = "idle" /\ reply[s] = <<>> /\ items[s] = <<>> /\ originals[s] = <<>>
    BY DEF Init
  <2>2. IsSequence(originals[s])
    BY <2>1 DEF IsSequence
  <2>3. \A i \in DOMAIN reply[s] : FALSE
    BY <2>1
  <2> QED
    BY <2>1, <2>2, <2>3 DEF Calls, Holds, Narrowed
<1> QED
  BY <1>1, <1>2, <1>3 DEF Selecting

\* A search that another one's step leaves alone.
Unmoved(s) ==
  /\ pc'[s] = pc[s] /\ asked'[s] = asked[s] /\ reply'[s] = reply[s]
  /\ items'[s] = items[s] /\ originals'[s] = originals[s] /\ wanted'[s] = wanted[s]

LEMMA Undisturbed ==
  ASSUME NEW s \in Searches, Calls(s), Holds(s), Unmoved(s)
  PROVE  Calls(s)' /\ Holds(s)'
<1>1. Calls(s)'
  BY DEF Calls, Unmoved
<1>2. Collected(s)' = Collected(s)
  BY DEF Collected, Unmoved
<1>3. Heard(s)' = Heard(s)
  BY <1>2 DEF Heard, Unmoved
<1>4. Holds(s)'
  BY <1>2, <1>3 DEF Holds, Unmoved
<1> QED
  BY <1>1, <1>4

\* Its calls over, a search waits for the languages of its title.
LEMMA CallsOver ==
  ASSUME NEW s \in Searches, Calls(s), Holds(s), pc[s] # "idle",
         UNCHANGED <<asked, reply, originals>>, pc'[s] \in {"joined", "inquiring"},
         items'[s] = Collected(s)
  PROVE  Calls(s)' /\ Holds(s)'
<1>1. Calls(s)'
  BY DEF Calls
<1>2. Collected(s)' = Collected(s)
  BY DEF Collected
<1>3. Holds(s)'
  BY <1>2 DEF Holds, Narrowed
<1> QED
  BY <1>1, <1>3

\* Its items are narrowed to what passes the filters.
LEMMA NarrowSelects ==
  ASSUME Selecting, Hearing', NEW s \in Searches, pc[s] \in {"joined", "inquiring"},
         NEW titles, IsSequence(titles), Narrow(s, titles),
         UNCHANGED <<rss, asked, reply>>, \A key \in DOMAIN languages' : IsSequence(languages'[key])
  PROVE  Selecting'
<1>1. /\ IsMap(pc', Searches) /\ IsMap(items', Searches)
      /\ IsMap(originals', Searches) /\ IsMap(wanted', Searches)
      /\ pc'[s] = "structure" /\ originals'[s] = titles
      /\ wanted'[s] = FilterByLanguage(Filtered(s), EffectiveLanguages(UserOf(s), titles))
      /\ \A t \in Searches \ {s} : Unmoved(t)
  BY DEF Narrow, Goto, Selecting, Hearing, Shaped, Kept, IsMap, Unmoved
<1>2. Kept'
  BY <1>1 DEF Selecting, Kept
<1>3. Filtered(s) = Heard(s)
  BY DEF Selecting, Holds, Filtered, Heard
<1>4. Collected(s)' = Collected(s)
  BY DEF Collected
<1>5. Heard(s)' = Heard(s)
  BY <1>4 DEF Heard
<1>6. Calls(s)' /\ Holds(s)'
  BY <1>1, <1>3, <1>5 DEF Selecting, Calls, Holds, Narrowed
<1>7. ASSUME NEW t \in Searches \ {s} PROVE Calls(t)' /\ Holds(t)'
  BY <1>1, <1>7, Undisturbed DEF Selecting
<1> QED
  BY <1>2, <1>6, <1>7 DEF Selecting

\* One call gets on, perhaps with items of the indexer.
LEMMA CallSelects ==
  ASSUME Selecting, Hearing', NEW s \in Searches, NEW i \in DOMAIN reply[s],
         pc[s] = "searching", NEW r, r.items \in Seq(Uploads), SetReply(s, i, r),
         UNCHANGED <<pc, asked, items, originals, wanted, languages>>,
         \A key \in DOMAIN rss' : rss'[key] \in Seq(Uploads)
  PROVE  Selecting'
<1>1. /\ IsMap(reply', Searches)
      /\ \A t \in Searches \ {s} : reply'[t] = reply[t]
      /\ DOMAIN reply'[s] = DOMAIN reply[s]
      /\ reply'[s][i] = r
      /\ \A j \in DOMAIN reply[s] \ {i} : reply'[s][j] = reply[s][j]
  BY DEF SetReply, Selecting, Hearing, Shaped, IsMap
<1>2. Kept'
  BY DEF Selecting, Kept
<1>3. Calls(s)'
  <2>1. \A j \in DOMAIN reply'[s] : reply'[s][j].items \in Seq(Uploads)
    BY <1>1 DEF Selecting, Calls
  <2>2. DOMAIN reply'[s] = DOMAIN UserOf(s).indexers
    <3>1. reply[s] # <<>>
      OBVIOUS
    <3> QED
      BY <1>1, <3>1 DEF Selecting, Calls
  <2> QED
    BY <2>1, <2>2 DEF Selecting, Calls
<1>4. Holds(s)'
  BY DEF Selecting, Holds, Narrowed
<1>5. ASSUME NEW t \in Searches \ {s} PROVE Calls(t)' /\ Holds(t)'
  BY <1>1, <1>5, Undisturbed DEF Selecting, Unmoved
<1> QED
  BY <1>2, <1>3, <1>4, <1>5 DEF Selecting

\* A search begins to call, or goes on without a query.
LEMMA BeginSelects ==
  ASSUME Selecting, Hearing', NEW s \in Searches, pc[s] \in {"idle", "numbering"},
         asked'[s] \in Questions, \A t \in Searches \ {s} : asked'[t] = asked[t],
         UNCHANGED <<rss, languages, items, originals, wanted>>, NEW q,
         FanOut(s, q) \/ NoItems(s) \/ (Goto(s, "numbering") /\ UNCHANGED reply)
  PROVE  Selecting'
<1>1. /\ pc'[s] \in {"searching", "joined", "numbering"}
      /\ \A t \in Searches \ {s} : pc'[t] = pc[t] /\ reply'[t] = reply[t]
      /\ \/ /\ pc'[s] = "searching"
            /\ reply'[s] = [i \in DOMAIN UserOf(s).indexers |-> Call("ready")]
         \/ reply'[s] = reply[s]
  BY DEF FanOut, NoItems, Goto, Selecting, Hearing, Shaped, IsMap
<1>2. Kept'
  BY DEF Selecting, Kept
<1>3. reply[s] = <<>> /\ items[s] = <<>>
  BY DEF Selecting, Holds
<1>4. Calls(s)'
  <2>1. \A i \in DOMAIN reply'[s] : reply'[s][i].items \in Seq(Uploads)
    <3>1. CASE reply'[s] = reply[s]
      BY <1>3, <3>1
    <3>2. CASE reply'[s] = [i \in DOMAIN UserOf(s).indexers |-> Call("ready")]
      <4>1. Call("ready").items = <<>> /\ <<>> \in Seq(Uploads)
        BY DEF Call
      <4> QED
        BY <3>2, <4>1
    <3> QED
      BY <1>1, <3>1, <3>2
  <2>2. reply'[s] = <<>> \/ DOMAIN reply'[s] = DOMAIN UserOf(s).indexers
    BY <1>1, <1>3
  <2> QED
    BY <1>1, <2>1, <2>2 DEF Calls
<1>5. Holds(s)'
  <2>1. pc'[s] # "searching" => reply'[s] = <<>>
    BY <1>1, <1>3
  <2>2. reply'[s] = <<>> => Collected(s)' = <<>>
    <3>1. PICK r : r = reply'[s]
      OBVIOUS
    <3>2. PICK ss : ss = [i \in DOMAIN r |-> r[i].items]
      OBVIOUS
    <3>3. Collected(s)' = FlattenSeq(ss)
      BY <3>1, <3>2 DEF Collected
    <3>4. r = <<>> => ss = <<>>
      BY <3>2
    <3>5. FlattenSeq(<<>>) = <<>>
      BY DEF FlattenSeq
    <3> QED
      BY <3>1, <3>3, <3>4, <3>5
  <2> QED
    BY <1>1, <1>3, <2>1, <2>2 DEF Selecting, Holds, Narrowed
<1>6. ASSUME NEW t \in Searches \ {s} PROVE Calls(t)' /\ Holds(t)'
  BY <1>1, <1>6, Undisturbed DEF Selecting, Unmoved
<1> QED
  BY <1>2, <1>4, <1>5, <1>6 DEF Selecting

LEMMA SelectingStep == Selecting /\ [Next]_vars => Selecting'
<1> SUFFICES ASSUME Selecting, [Next]_vars PROVE Selecting'
  OBVIOUS
<1>0. Hearing'
  BY HearingStep DEF Selecting
<1>1. ASSUME NEW s \in Searches, NEW q \in Questions, Begin(s, q) PROVE Selecting'
  <2>1. /\ pc[s] = "idle" /\ asked'[s] = q
        /\ \A t \in Searches \ {s} : asked'[t] = asked[t]
        /\ UNCHANGED <<rss, languages, items, originals, wanted>>
    BY <1>1 DEF Begin, caches, history, Selecting, Hearing, Shaped, IsMap
  <2>2. \E x : FanOut(s, x) \/ NoItems(s) \/ (Goto(s, "numbering") /\ UNCHANGED reply)
    BY <1>1 DEF Begin
  <2> QED
    BY <1>0, <2>1, <2>2, BeginSelects
<1>2. ASSUME NEW s \in Searches, Number(s) PROVE Selecting'
  <2>1. /\ pc[s] = "numbering" /\ asked[s] \in Questions
        /\ UNCHANGED <<rss, languages, asked, items, originals, wanted>>
    BY <1>2 DEF Number, history, Selecting, Calls
  <2>2. \E x : FanOut(s, x) \/ NoItems(s) \/ (Goto(s, "numbering") /\ UNCHANGED reply)
    BY <1>2 DEF Number
  <2> QED
    BY <1>0, <2>1, <2>2, BeginSelects
<1>3. ASSUME NEW s \in Searches, NEW i \in DOMAIN reply[s], Look(s, i) \/ Fail(s, i)
      PROVE  Selecting'
  <2>1. /\ pc[s] = "searching"
        /\ UNCHANGED <<rss, languages, pc, asked, items, originals, wanted>>
    BY <1>3 DEF Look, Fail, caches, history
  <2>2. \A key \in DOMAIN rss : rss[key] \in Seq(Uploads)
    BY DEF Selecting, Kept
  <2>3. \E r : SetReply(s, i, r) /\ r.items \in Seq(Uploads)
    <3>1. <<>> \in Seq(Uploads)
      OBVIOUS
    <3>2. Call("calling").items = <<>> /\ Call("failed").items = <<>>
          /\ \A content : Answer(content).items = content
      BY DEF Call, Answer
    <3>3. PICK r : SetReply(s, i, r) /\ \/ r \in {Call("calling"), Call("failed")}
                                        \/ \E key \in DOMAIN rss : r = Answer(rss[key])
      BY <1>3 DEF Look, Fail
    <3>4. r.items \in Seq(Uploads)
      BY <2>2, <3>1, <3>2, <3>3
    <3> QED
      BY <3>3, <3>4
  <2> QED
    BY <1>0, <2>1, <2>2, <2>3, CallSelects
<1>4. ASSUME NEW s \in Searches, NEW i \in DOMAIN reply[s], Reply(s, i) PROVE Selecting'
  <2>1. PICK content \in {Posts(UserOf(s).indexers[i], query[s]), <<>>} :
          /\ rss' = Remember(rss, Key(s, i), content)
          /\ SetReply(s, i, Answer(content))
    BY <1>4 DEF Reply
  <2>2. /\ pc[s] = "searching" /\ UNCHANGED <<pc, asked, items, originals, wanted, languages>>
    BY <1>4 DEF Reply
  <2>3. content \in Seq(Uploads)
    <3>1. query[s] = QueryOf(asked[s]) /\ asked[s] \in Questions
          /\ i \in DOMAIN UserOf(s).indexers
      BY <2>2 DEF Selecting, Hearing, QueriesRight, Calls
    <3>2. <<>> \in Seq(Uploads)
      OBVIOUS
    <3> QED
      BY <2>1, <3>1, <3>2, UploadsNamed
  <2>4. \A key \in DOMAIN rss' : rss'[key] \in Seq(Uploads)
    BY <2>1, <2>3 DEF Remember, Selecting, Kept
  <2>5. PICK r : r = Answer(content)
    OBVIOUS
  <2>6. r.items \in Seq(Uploads) /\ SetReply(s, i, r)
    BY <2>1, <2>3, <2>5 DEF Answer
  <2> QED
    BY <1>0, <2>2, <2>4, <2>6, CallSelects
<1>5. ASSUME NEW s \in Searches, Join(s) \/ Inquire(s) PROVE Selecting'
  <2>1. /\ pc[s] \in {"searching", "joined"} /\ pc'[s] \in {"joined", "inquiring"}
        /\ UNCHANGED <<rss, languages, asked, reply, originals, wanted>>
        /\ IsMap(items', Searches) /\ items'[s] = Collected(s)
        /\ \A t \in Searches \ {s} : pc'[t] = pc[t] /\ items'[t] = items[t]
    BY <1>5 DEF Join, Inquire, Goto, caches, history, Selecting, Hearing, Shaped, Kept, Holds,
                IsMap
  <2>2. Kept'
    BY <2>1 DEF Selecting, Kept
  <2>3. Calls(s)' /\ Holds(s)'
    BY <2>1, CallsOver DEF Selecting
  <2>4. ASSUME NEW t \in Searches \ {s} PROVE Calls(t)' /\ Holds(t)'
    BY <2>1, <2>4, Undisturbed DEF Selecting, Unmoved
  <2> QED
    BY <1>0, <2>2, <2>3, <2>4 DEF Selecting
<1>6. ASSUME NEW s \in Searches, Recall(s) \/ Learn(s) \/ LearnNothing(s) PROVE Selecting'
  <2>1. /\ pc[s] \in {"joined", "inquiring"} /\ UNCHANGED <<rss, asked, reply>>
        /\ asked[s] \in Questions
    BY <1>6 DEF Recall, Learn, LearnNothing, caches, Selecting, Calls
  <2>2. IsSequence(<<>>)
    BY DEF IsSequence
  <2>3. \A key \in DOMAIN languages : IsSequence(languages[key])
    BY DEF Selecting, Kept
  <2>4. CASE Recall(s) \/ LearnNothing(s)
    <3>1. UNCHANGED languages /\ \E titles : IsSequence(titles) /\ Narrow(s, titles)
      BY <2>2, <2>3, <2>4 DEF Recall, LearnNothing, caches
    <3> QED
      BY <1>0, <2>1, <2>3, <3>1, NarrowSelects
  <2>5. CASE Learn(s)
    <3>1. PICK countries \in {Pages(asked[s].imdb), <<>>} :
            /\ \E key : languages' = Remember(languages, key, CountriesToLanguages(countries))
            /\ Narrow(s, CountriesToLanguages(countries))
      BY <2>5 DEF Learn
    <3>2. PICK titles : titles = CountriesToLanguages(countries)
      OBVIOUS
    <3>3. IsSequence(titles)
      <4>1. IsSequence(countries)
        BY <2>1, <2>2, <3>1, SearchAssumption
      <4> QED
        BY <3>2, <4>1, CountriesSound
    <3>4. \A k \in DOMAIN languages' : IsSequence(languages'[k])
      BY <2>3, <3>1, <3>2, <3>3 DEF Remember
    <3> QED
      BY <1>0, <2>1, <3>1, <3>2, <3>3, <3>4, NarrowSelects
  <2> QED
    BY <1>6, <2>4, <2>5
<1>7. ASSUME NEW s \in Searches, Validate(s) \/ Publish(s) PROVE Selecting'
  <2>1. /\ pc[s] \in Narrowed /\ pc'[s] \in Narrowed
        /\ UNCHANGED <<rss, languages, asked, reply, originals, wanted>>
        /\ IsMap(items', Searches)
        /\ \A t \in Searches \ {s} : pc'[t] = pc[t] /\ items'[t] = items[t]
    BY <1>7 DEF Validate, Check, Publish, Goto, caches, history, Narrowed, Selecting, Hearing,
                Shaped, Kept, IsMap
  <2>2. Kept'
    BY <2>1 DEF Selecting, Kept
  <2>3. Calls(s)'
    BY <2>1 DEF Selecting, Calls, Narrowed
  <2>4. Holds(s)'
    <3>1. Collected(s)' = Collected(s)
      BY <2>1 DEF Collected
    <3>2. Heard(s)' = Heard(s)
      BY <2>1, <3>1 DEF Heard
    <3> QED
      BY <2>1, <3>2 DEF Selecting, Holds, Narrowed
  <2>5. ASSUME NEW t \in Searches \ {s} PROVE Calls(t)' /\ Holds(t)'
    BY <2>1, <2>5, Undisturbed DEF Selecting, Unmoved
  <2> QED
    BY <1>0, <2>2, <2>3, <2>4, <2>5 DEF Selecting
<1>8. ASSUME Expire \/ UNCHANGED vars PROVE Selecting'
  <2>1. /\ UNCHANGED <<languages, pc, asked, reply, items, originals, wanted>>
        /\ \A key \in DOMAIN rss' : key \in DOMAIN rss /\ rss'[key] = rss[key]
    BY <1>8 DEF Expire, Restrict, vars, caches, history
  <2>2. Kept'
    BY <2>1 DEF Selecting, Kept
  <2>3. ASSUME NEW t \in Searches PROVE Calls(t)' /\ Holds(t)'
    BY <2>1, Undisturbed DEF Selecting, Unmoved
  <2> QED
    BY <1>0, <2>2, <2>3 DEF Selecting
<1> QED
  BY <1>1, <1>2, <1>3, <1>4, <1>5, <1>6, <1>7, <1>8 DEF Next

(* Whatever the searches hear and whenever they learn the languages of a    *)
(* title, from Cinemeta or from its cache, the items a search goes on with  *)
(* are those the user's languages allow, and all of them.                   *)
THEOREM ListsRespectLanguages == Spec => []LanguagesRespected
<1> QED
  BY SelectingInit, SelectingStep, SelectingRespects, PTL DEF Spec

-----------------------------------------------------------------------------
(* The groups of a list.                                                   *)

Class(X, signature) == {x \in X : Signature(x) = signature}
Signatures(S) == {Signature(x) : x \in S}

LEMMA SignatureFields ==
  ASSUME NEW item
  PROVE  /\ Signature(item).resolution = item.resolution
         /\ Signature(item).language = DetectLanguage(item)
BY DEF Signature

\* Items, or signatures, come by resolution.
ByResolution(s) ==
  \A i, j \in 1 .. Len(s) :
    i < j => ResolutionIndex(s[i].resolution) <= ResolutionIndex(s[j].resolution)

Resolutions(X) == [x \in X |-> ResolutionIndex(x.resolution)]

LEMMA ResolutionIndexes ==
  /\ \A r : ResolutionIndex(r) \in Int
  /\ \A X : Resolutions(X) \in [X -> Int]
  /\ \A X : \A s \in Seq(X) : ByResolution(s) <=> Rising(s, Resolutions(X))
<1>1. ASSUME NEW r PROVE ResolutionIndex(r) \in Int
  <2>1. Len(ResolutionOrder) = 6
    BY DEF ResolutionOrder
  <2>2. PICK I : I = {i \in 1 .. 6 : r \in ResolutionOrder[i]}
    OBVIOUS
  <2>3. SelectInSeq(ResolutionOrder, LAMBDA names : r \in names) = IF I # {} THEN Min(I) ELSE 0
    BY <2>1, <2>2 DEF SelectInSeq
  <2>4. I # {} => Min(I) \in I
    <3>1. I \subseteq Nat
      BY <2>2
    <3> QED
      BY <3>1, MinExists
  <2>5. I # {} => Min(I) \in Int
    BY <2>2, <2>4
  <2> QED
    BY <2>1, <2>3, <2>5 DEF ResolutionIndex
<1>2. \A X : Resolutions(X) \in [X -> Int]
  BY <1>1 DEF Resolutions
<1>3. ASSUME NEW X, NEW s \in Seq(X)
      PROVE  ByResolution(s) <=> Rising(s, Resolutions(X))
  <2>1. \A i \in 1 .. Len(s) : Resolutions(X)[s[i]] = ResolutionIndex(s[i].resolution)
    BY DEF Resolutions
  <2> QED
    BY <2>1 DEF ByResolution, Rising
<1> QED
  BY <1>1, <1>2, <1>3

\* The sort brings items by resolution and leaves the uploads of a release in
\* their order.
LEMMA SortSound ==
  ASSUME NEW X, NEW s \in Seq(X)
  PROVE  /\ SortByResolution(s) \in Seq(X)
         /\ Range(SortByResolution(s)) = Range(s)
         /\ ByResolution(SortByResolution(s))
         /\ \A c : Keep(SortByResolution(s), Class(X, c)) = Keep(s, Class(X, c))
<1>1. PICK R : R = Range(s) /\ R \subseteq X /\ s \in Seq(R)
  BY Sequences, RangeAppend DEF IsSequence
<1>2. PICK order : order = {p \in R \X R : ResolutionIndex(p[1].resolution)
                                             < ResolutionIndex(p[2].resolution)}
  OBVIOUS
<1>3. SortByResolution(s) = SortedBy(s, order)
  BY <1>1, <1>2 DEF SortByResolution, StableSorted
<1>4. PICK key : key = Resolutions(R)
  OBVIOUS
<1>5. key \in [R -> Int] /\ \A x \in R : key[x] = ResolutionIndex(x.resolution)
  BY <1>4, ResolutionIndexes DEF Resolutions
<1>6. OrderOf(order, key, R)
  BY <1>2, <1>5 DEF OrderOf
<1>7. PICK t : t = SortedBy(s, order)
  OBVIOUS
<1>8. t \in Seq(R) /\ Range(t) = R
  BY <1>1, <1>7, SortedRange
<1>9. Rising(t, key) /\ \A A : Alike(A, key, R) => Keep(t, A) = Keep(s, A)
  BY <1>1, <1>6, <1>7, SortedStable
<1>10. ByResolution(t)
  BY <1>4, <1>8, <1>9, ResolutionIndexes
<1>11. ASSUME NEW c PROVE Keep(t, Class(X, c)) = Keep(s, Class(X, c))
  <2>1. Alike(Class(X, c), key, R)
    BY <1>5 DEF Alike, Class, Signature
  <2> QED
    BY <1>9, <2>1
<1>12. t \in Seq(X)
  BY <1>1, <1>8
<1> QED
  BY <1>1, <1>3, <1>7, <1>8, <1>10, <1>11, <1>12

\* The groups of s: each holds every upload of its release, in their order.
WellGrouped(groups, s, X) ==
  /\ groups \in Seq(Seq(X))
  /\ \A t \in Range(groups) :
       /\ 1 \in DOMAIN t /\ t[1] \in Range(s)
       /\ t = Keep(s, Class(X, Signature(t[1])))
  /\ Distinct(groups)
  /\ \A i, j \in 1 .. Len(groups) :
       i < j => ResolutionIndex(groups[i][1].resolution)
                  <= ResolutionIndex(groups[j][1].resolution)

Shown(groups) == {Signature(t[1]) : t \in Range(groups)}

LEMMA ClassKept ==
  ASSUME NEW X, NEW s \in Seq(X), NEW c \in Signatures(Range(s)),
         NEW t, t = Keep(s, Class(X, c))
  PROVE  /\ t \in Seq(X) /\ Range(t) = Range(s) \cap Class(X, c)
         /\ 1 \in DOMAIN t /\ t[1] \in Range(s) /\ Signature(t[1]) = c
<1>1. t \in Seq(X) /\ Range(t) = Range(s) \cap Class(X, c)
  BY KeepRange
<1>2. Range(s) \subseteq X
  BY InRange
<1>3. PICK x \in Range(s) : Signature(x) = c
  BY DEF Signatures
<1>4. x \in Range(t)
  BY <1>1, <1>2, <1>3 DEF Class
<1>5. DOMAIN t = 1 .. Len(t) /\ Len(t) \in Nat
  BY <1>1
<1>6. 1 \in DOMAIN t
  BY <1>4, <1>5, <1>1, InRange
<1>7. t[1] \in Range(t)
  BY <1>6 DEF Range
<1> QED
  BY <1>1, <1>6, <1>7 DEF Class

LEMMA GroupsSound ==
  ASSUME NEW X, NEW s \in Seq(X), ByResolution(s)
  PROVE  /\ WellGrouped(GroupCandidates(s), s, X)
         /\ Shown(GroupCandidates(s)) = Signatures(Range(s))
<1>1. PICK all : all = [i \in DOMAIN s |-> Signature(s[i])]
  OBVIOUS
<1>2. PICK Y : Y = Signatures(Range(s))
  OBVIOUS
<1>3. PICK n \in Nat : n = Len(s) /\ DOMAIN s = 1 .. n /\ \A i \in 1 .. n : s[i] \in Range(s)
  BY InRange
<1>4. all \in Seq(Y) /\ Range(all) = Y /\ ByResolution(all)
  <2>1. \A i \in 1 .. n : all[i] = Signature(s[i]) /\ all[i] \in Y
    BY <1>1, <1>2, <1>3 DEF Signatures
  <2>2. all \in Seq(Y) /\ Len(all) = n
    BY <1>1, <1>3, <2>1
  <2>3. Range(all) = Y
    <3>1. \A x \in Range(s) : \E i \in 1 .. n : s[i] = x
      BY <1>3, InRange
    <3>2. \A c \in Y : \E i \in 1 .. n : all[i] = c
      BY <1>2, <2>1, <3>1 DEF Signatures
    <3>3. DOMAIN all = 1 .. n
      BY <1>1, <1>3
    <3> QED
      BY <2>1, <3>2, <3>3 DEF Range
  <2>4. \A i \in 1 .. n : all[i].resolution = s[i].resolution
    <3>1. ASSUME NEW i \in 1 .. n PROVE all[i].resolution = s[i].resolution
      BY <2>1, SignatureFields
    <3> QED
      BY <3>1
  <2> QED
    BY <1>3, <2>2, <2>3, <2>4 DEF ByResolution
<1>5. PICK sg : sg = FirstOccurrences(all)
  OBVIOUS
<1>6. sg \in Seq(Y) /\ Range(sg) = Y /\ Distinct(sg)
  BY <1>4, <1>5, FirstOccurrencesSound
<1>7. ByResolution(sg)
  <2>1. PICK key : key = Resolutions(Y) /\ key \in [Y -> Int] /\ Rising(all, key)
    BY <1>4, ResolutionIndexes
  <2>2. Rising(sg, key)
    BY <1>4, <1>5, <2>1, FirstOccurrencesSound
  <2> QED
    BY <1>6, <2>1, <2>2, ResolutionIndexes
<1>8. PICK G : G = GroupCandidates(s)
  OBVIOUS
<1>9. PICK m \in Nat : m = Len(sg) /\ DOMAIN sg = 1 .. m
  BY <1>6
<1>10. ASSUME NEW g \in 1 .. m
       PROVE  /\ G[g] \in Seq(X) /\ G[g] = Keep(s, Class(X, sg[g])) /\ sg[g] \in Y
              /\ 1 \in DOMAIN G[g] /\ G[g][1] \in Range(s) /\ Signature(G[g][1]) = sg[g]
  <2>1. G[g] = Keep(s, {x \in Range(s) : Signature(x) = sg[g]})
    BY <1>1, <1>5, <1>8, <1>9 DEF GroupCandidates, Filter
  <2>2. Range(s) \cap {x \in Range(s) : Signature(x) = sg[g]} = Range(s) \cap Class(X, sg[g])
    BY RangeAppend DEF Class
  <2>3. G[g] = Keep(s, Class(X, sg[g]))
    BY <2>1, <2>2, KeepSame
  <2>4. sg[g] \in Y
    BY <1>6, <1>9
  <2> QED
    BY <1>2, <2>3, <2>4, ClassKept
<1>11. G \in Seq(Seq(X)) /\ Len(G) = m /\ DOMAIN G = 1 .. m
  <2>1. DOMAIN G = 1 .. m /\ G = [g \in 1 .. m |-> G[g]]
    BY <1>1, <1>5, <1>8, <1>9 DEF GroupCandidates
  <2> QED
    BY <1>9, <1>10, <2>1
<1>12. \A t \in Range(G) : \E g \in 1 .. m : t = G[g]
  BY <1>11 DEF Range
<1>13. Distinct(G)
  <2>1. \A g, h \in 1 .. m : sg[g] = sg[h] => g = h
    BY <1>6, <1>9 DEF Distinct
  <2>2. ASSUME NEW g \in 1 .. m, NEW h \in 1 .. m, G[g] = G[h] PROVE g = h
    <3>1. Signature(G[g][1]) = sg[g] /\ Signature(G[h][1]) = sg[h]
      BY <1>10
    <3> QED
      BY <2>1, <2>2, <3>1
  <2> QED
    BY <1>11, <2>2 DEF Distinct
<1>14. \A i, j \in 1 .. m :
         i < j => ResolutionIndex(G[i][1].resolution) <= ResolutionIndex(G[j][1].resolution)
  <2>1. \A g \in 1 .. m : sg[g].resolution = G[g][1].resolution
    <3>1. ASSUME NEW g \in 1 .. m PROVE sg[g].resolution = G[g][1].resolution
      BY <1>10, SignatureFields
    <3> QED
      BY <3>1
  <2> QED
    BY <1>7, <1>9, <2>1 DEF ByResolution
<1>15. WellGrouped(G, s, X)
  BY <1>10, <1>11, <1>12, <1>13, <1>14 DEF WellGrouped
<1>16. Shown(G) = Y
  <2>1. \A g \in 1 .. m : G[g] \in Range(G)
    BY <1>11 DEF Range
  <2>2. \A c \in Y : \E g \in 1 .. m : sg[g] = c
    BY <1>6, <1>9, InRange
  <2>3. ASSUME NEW c \in Shown(G) PROVE c \in Y
    <3>1. PICK t \in Range(G) : c = Signature(t[1])
      BY <2>3 DEF Shown
    <3>2. PICK g \in 1 .. m : t = G[g]
      BY <1>12
    <3>3. Signature(G[g][1]) = sg[g] /\ sg[g] \in Y
      BY <1>10
    <3> QED
      BY <3>1, <3>2, <3>3
  <2>4. ASSUME NEW c \in Y PROVE c \in Shown(G)
    <3>1. PICK g \in 1 .. m : sg[g] = c
      BY <2>2
    <3>2. Signature(G[g][1]) = sg[g]
      BY <1>10
    <3> QED
      BY <2>1, <3>1, <3>2 DEF Shown
  <2> QED
    BY <2>3, <2>4
<1> QED
  BY <1>2, <1>8, <1>15, <1>16

\* Groups compete by their signatures.
BucketOf(c) == <<ResolutionIndex(c.resolution), c.language>>
InBucket(S, b) == {c \in S : BucketOf(c) = b}

Fewer(count, few) == IF count < few THEN count ELSE few

SignaturesAt(groups, P) == {Signature(groups[g][1]) : g \in P}

LEMMA GroupsOneToOne ==
  ASSUME NEW X, NEW s, NEW G, WellGrouped(G, s, X), NEW P, P \subseteq 1 .. Len(G),
         IsFiniteSet(P)
  PROVE  /\ IsFiniteSet(SignaturesAt(G, P))
         /\ Cardinality(SignaturesAt(G, P)) = Cardinality(P)
<1>1. PICK T : T = SignaturesAt(G, P)
  OBVIOUS
<1>2. PICK f : f = [g \in P |-> Signature(G[g][1])]
  OBVIOUS
<1>3. \A g \in 1 .. Len(G) : G[g] = Keep(s, Class(X, Signature(G[g][1])))
  <2>1. G \in Seq(Seq(X))
    BY DEF WellGrouped
  <2>2. \A g \in 1 .. Len(G) : G[g] \in Range(G)
    BY <2>1, InRange
  <2> QED
    BY <2>2 DEF WellGrouped
<1>4. ASSUME NEW g \in P, NEW h \in P, f[g] = f[h] PROVE g = h
  <2>1. g \in 1 .. Len(G) /\ h \in 1 .. Len(G) /\ Signature(G[g][1]) = Signature(G[h][1])
    BY <1>2, <1>4
  <2>2. G[g] = G[h]
    BY <1>3, <2>1
  <2> QED
    BY <2>1, <2>2 DEF WellGrouped, Distinct
<1>5. Matches(f, P, T)
  BY <1>1, <1>2, <1>4 DEF Matches, SignaturesAt
<1> QED
  BY <1>1, <1>5, SameSize

\* Of the groups of every bucket, few are shown, or all if there are fewer.
Limited(shown, all, few) ==
  /\ shown \subseteq all
  /\ few = 0 => shown = all
  /\ few > 0 => \A b :
       /\ IsFiniteSet(InBucket(all, b)) /\ IsFiniteSet(InBucket(shown, b))
       /\ Cardinality(InBucket(all, b)) \in Nat
       /\ Cardinality(InBucket(shown, b)) = Fewer(Cardinality(InBucket(all, b)), few)

LEMMA LimitSound ==
  ASSUME NEW X, NEW s \in Seq(X), NEW G, WellGrouped(G, s, X), NEW few \in Nat,
         NEW L, L = LimitGroups(G, few)
  PROVE  WellGrouped(L, s, X) /\ Limited(Shown(L), Shown(G), few)
<1>2. CASE few = 0
  <2>1. L = G
    BY <1>2 DEF LimitGroups
  <2> QED
    BY <1>2, <2>1 DEF Limited
<1>3. CASE few > 0
  <2>1. G \in Seq(Seq(X))
    BY DEF WellGrouped
  <2>2. PICK n \in Nat : /\ n = Len(G) /\ DOMAIN G = 1 .. n
                         /\ \A g \in 1 .. n : G[g] \in Range(G) /\ G[g] \in Seq(X)
                         /\ \A t \in Range(G) : \E g \in 1 .. n : G[g] = t
    BY <2>1, InRange
  <2>3. PICK kind : kind = [g \in 1 .. n |-> Bucket(G[g][1])]
    OBVIOUS
  <2>4. PICK first : first = {g \in 1 .. n : Cardinality(EarlierKin(kind, g)) < few}
    OBVIOUS
  <2>5. PICK A : A = {G[g] : g \in first}
    OBVIOUS
  <2>6. L = Keep(G, A)
    <3>1. ASSUME NEW g \in 1 .. n
          PROVE  {h \in 1 .. g - 1 : Bucket(G[h][1]) = Bucket(G[g][1])} = EarlierKin(kind, g)
      <4>1. \A h \in 1 .. g - 1 : h \in 1 .. n
        BY <2>2
      <4> QED
        BY <2>3, <4>1 DEF EarlierKin
    <3>2. first = {g \in DOMAIN G :
                     Cardinality({h \in 1 .. g - 1 : Bucket(G[h][1]) = Bucket(G[g][1])}) < few}
      BY <2>2, <2>4, <3>1
    <3> QED
      BY <1>3, <2>5, <3>2 DEF LimitGroups
  <2>7. L \in Seq(Seq(X)) /\ Range(L) = A /\ A \subseteq Range(G)
    <3>1. Keep(G, A) \in Seq(Seq(X)) /\ Range(Keep(G, A)) = Range(G) \cap A
      BY <2>1, KeepRange
    <3>2. A \subseteq Range(G)
      BY <2>2, <2>4, <2>5
    <3> QED
      BY <2>6, <3>1, <3>2
  <2>8. WellGrouped(L, s, X)
    <3>1. \A t \in Range(L) : /\ 1 \in DOMAIN t /\ t[1] \in Range(s)
                              /\ t = Keep(s, Class(X, Signature(t[1])))
      BY <2>7 DEF WellGrouped
    <3>2. Distinct(L)
      BY <2>1, <2>6, DistinctKeep DEF WellGrouped
    <3>3. PICK key : key = [t \in Seq(X) |-> ResolutionIndex(t[1].resolution)]
      OBVIOUS
    <3>4. key \in [Seq(X) -> Int]
      BY <3>3, ResolutionIndexes
    <3>5. \A S \in Seq(Seq(X)) : \A i \in 1 .. Len(S) :
            key[S[i]] = ResolutionIndex(S[i][1].resolution)
      BY <3>3, InRange
    <3>6. Rising(G, key)
      BY <2>1, <3>5 DEF WellGrouped, Rising
    <3>7. Rising(L, key)
      BY <2>1, <2>6, <3>4, <3>6, RisingKeep
    <3> QED
      BY <2>7, <3>1, <3>2, <3>5, <3>7 DEF WellGrouped, Rising
  <2>9. Shown(L) \subseteq Shown(G)
    BY <2>7 DEF Shown
  <2>10. ASSUME NEW b
         PROVE  /\ IsFiniteSet(InBucket(Shown(G), b)) /\ IsFiniteSet(InBucket(Shown(L), b))
                /\ Cardinality(InBucket(Shown(G), b)) \in Nat
                /\ Cardinality(InBucket(Shown(L), b)) =
                     Fewer(Cardinality(InBucket(Shown(G), b)), few)
    <3>1. PICK D, E : D = Kin(kind, n, b) /\ E = {g \in D : Cardinality(EarlierKin(kind, g)) < few}
      OBVIOUS
    <3>2. /\ IsFiniteSet(D) /\ IsFiniteSet(E) /\ Cardinality(D) \in Nat
          /\ Cardinality(E) = Fewer(Cardinality(D), few)
      <4>1. D = Kin(kind, n, b) /\ E = FirstKin(kind, n, b, few)
        BY <3>1 DEF FirstKin
      <4>2. Fewer(Cardinality(D), few) = IF Cardinality(D) < few THEN Cardinality(D) ELSE few
        BY DEF Fewer
      <4> QED
        BY <4>1, <4>2, FirstOfEach
    <3>3. D \subseteq 1 .. n /\ E \subseteq 1 .. n
      BY <3>1 DEF Kin
    <3>4. ASSUME NEW g \in 1 .. n
          PROVE  /\ g \in D <=> BucketOf(Signature(G[g][1])) = b
                 /\ g \in E <=> g \in first /\ BucketOf(Signature(G[g][1])) = b
      <4>1. kind[g] = BucketOf(Signature(G[g][1]))
        BY <2>3, SignatureFields DEF Bucket, BucketOf
      <4> QED
        BY <2>4, <3>1, <4>1 DEF Kin
    <3>5. InBucket(Shown(G), b) = SignaturesAt(G, D)
      <4>1. ASSUME NEW c \in InBucket(Shown(G), b)
            PROVE  c \in {Signature(G[g][1]) : g \in D}
        <5>1. PICK t \in Range(G) : c = Signature(t[1])
          BY <4>1 DEF InBucket, Shown
        <5>2. PICK g \in 1 .. n : G[g] = t
          BY <2>2
        <5>3. BucketOf(Signature(G[g][1])) = b
          BY <4>1, <5>1, <5>2 DEF InBucket
        <5> QED
          BY <3>4, <5>1, <5>2, <5>3
      <4>2. ASSUME NEW g \in D PROVE Signature(G[g][1]) \in InBucket(Shown(G), b)
        <5>1. g \in 1 .. n /\ G[g] \in Range(G)
          BY <2>2, <3>3
        <5> QED
          BY <3>4, <5>1 DEF InBucket, Shown
      <4> QED
        BY <4>1, <4>2 DEF SignaturesAt
    <3>6. InBucket(Shown(L), b) = SignaturesAt(G, E)
      <4>1. ASSUME NEW c \in InBucket(Shown(L), b)
            PROVE  c \in {Signature(G[g][1]) : g \in E}
        <5>1. PICK t \in A : c = Signature(t[1])
          BY <2>7, <4>1 DEF InBucket, Shown
        <5>2. PICK g \in first : G[g] = t
          BY <2>5
        <5>3. g \in 1 .. n /\ BucketOf(Signature(G[g][1])) = b
          BY <2>4, <4>1, <5>1, <5>2 DEF InBucket
        <5> QED
          BY <3>4, <5>1, <5>2, <5>3
      <4>2. ASSUME NEW g \in E PROVE Signature(G[g][1]) \in InBucket(Shown(L), b)
        <5>1. g \in 1 .. n
          BY <3>3
        <5>2. g \in first /\ BucketOf(Signature(G[g][1])) = b
          BY <3>4, <5>1
        <5>3. G[g] \in Range(L)
          BY <2>5, <2>7, <5>2
        <5> QED
          BY <5>2, <5>3 DEF InBucket, Shown
      <4> QED
        BY <4>1, <4>2 DEF SignaturesAt
    <3>7. /\ IsFiniteSet(InBucket(Shown(G), b))
          /\ Cardinality(InBucket(Shown(G), b)) = Cardinality(D)
      <4>1. D \subseteq 1 .. Len(G) /\ IsFiniteSet(D)
        BY <2>2, <3>2, <3>3
      <4>2. /\ IsFiniteSet(SignaturesAt(G, D))
            /\ Cardinality(SignaturesAt(G, D)) = Cardinality(D)
        BY <4>1, GroupsOneToOne
      <4> QED
        BY <3>5, <4>2
    <3>8. /\ IsFiniteSet(InBucket(Shown(L), b))
          /\ Cardinality(InBucket(Shown(L), b)) = Cardinality(E)
      <4>1. E \subseteq 1 .. Len(G) /\ IsFiniteSet(E)
        BY <2>2, <3>2, <3>3
      <4>2. /\ IsFiniteSet(SignaturesAt(G, E))
            /\ Cardinality(SignaturesAt(G, E)) = Cardinality(E)
        BY <4>1, GroupsOneToOne
      <4> QED
        BY <3>6, <4>2
    <3> QED
      BY <3>2, <3>7, <3>8
  <2> QED
    BY <1>3, <2>8, <2>9, <2>10 DEF Limited
<1> QED
  BY <1>2, <1>3

\* The list of a sequence shows its groups.
LEMMA ListedSound ==
  ASSUME NEW X, NEW s \in Seq(X), NEW few \in Nat, NEW L, L = ListedGroups(s, few)
  PROVE  WellGrouped(L, s, X) /\ Limited(Shown(L), Signatures(Range(s)), few)
<1>1. PICK u \in Seq(X) : u = SortByResolution(s)
  BY SortSound
<1>2. /\ Range(u) = Range(s) /\ ByResolution(u)
      /\ \A c : Keep(u, Class(X, c)) = Keep(s, Class(X, c))
  BY <1>1, SortSound
<1>3. PICK G : G = GroupCandidates(u)
  OBVIOUS
<1>4. WellGrouped(G, u, X) /\ Shown(G) = Signatures(Range(s))
  BY <1>2, <1>3, GroupsSound
<1>5. L = LimitGroups(G, few)
  BY <1>1, <1>3 DEF ListedGroups
<1>6. WellGrouped(L, u, X) /\ Limited(Shown(L), Shown(G), few)
  BY <1>4, <1>5, LimitSound
<1>7. WellGrouped(L, s, X)
  BY <1>2, <1>6 DEF WellGrouped
<1> QED
  BY <1>4, <1>6, <1>7

\* What is validated of a sequence: all uploads of the groups that are listed,
\* each group's in their order.
Capped(F, L, s, X) ==
  /\ F \in Seq(X) /\ Range(F) \subseteq Range(s)
  /\ Signatures(Range(F)) = Shown(L)
  /\ \A c \in Shown(L) : Keep(F, Class(X, c)) = Keep(s, Class(X, c))

LEMMA CapSound ==
  ASSUME NEW X, NEW s \in Seq(X), NEW few \in Nat,
         NEW L, L = ListedGroups(s, few), NEW F, F = CapItems(s, few)
  PROVE  Capped(F, L, s, X)
<1>1. F = FlattenSeq(L)
  BY DEF CapItems, ListedGroups
<1>2. WellGrouped(L, s, X)
  BY ListedSound
<1>3. L \in Seq(Seq(X))
  BY <1>2 DEF WellGrouped
<1>4. PICK n \in Nat : n = Len(L) /\ \A t \in Range(L) : \E k \in 1 .. n : L[k] = t
  BY <1>3, InRange
<1>5. ASSUME NEW k \in 1 .. n
      PROVE  /\ L[k] \in Range(L) /\ L[k] \in Seq(X)
             /\ L[k] = Keep(s, Class(X, Signature(L[k][1])))
             /\ Range(L[k]) = Range(s) \cap Class(X, Signature(L[k][1]))
             /\ L[k][1] \in Range(L[k])
  <2>1. L[k] \in Range(L) /\ L[k] \in Seq(X)
    BY <1>3, <1>4, InRange
  <2>2. /\ 1 \in DOMAIN L[k]
        /\ L[k] = Keep(s, Class(X, Signature(L[k][1])))
    BY <1>2, <2>1 DEF WellGrouped
  <2>3. Range(L[k]) = Range(s) \cap Class(X, Signature(L[k][1]))
    BY <2>2, KeepRange
  <2>4. L[k][1] \in Range(L[k])
    BY <2>2 DEF Range
  <2> QED
    BY <2>1, <2>2, <2>3, <2>4
<1>6. F \in Seq(X) /\ \A x : x \in Range(F) <=> \E k \in 1 .. n : x \in Range(L[k])
  BY <1>1, <1>3, <1>4, FlattenRange
<1>7. Range(F) \subseteq Range(s)
  BY <1>5, <1>6
<1>8. ASSUME NEW c \in Signatures(Range(F)) PROVE c \in Shown(L)
  <2>1. PICK x \in Range(F) : c = Signature(x)
    BY DEF Signatures
  <2>2. PICK k \in 1 .. n : x \in Range(L[k])
    BY <1>6, <2>1
  <2>3. Signature(x) = Signature(L[k][1]) /\ L[k] \in Range(L)
    BY <1>5, <2>2 DEF Class
  <2> QED
    BY <2>1, <2>3 DEF Shown
<1>9. ASSUME NEW c \in Shown(L)
      PROVE  c \in Signatures(Range(F)) /\ Keep(F, Class(X, c)) = Keep(s, Class(X, c))
  <2>1. PICK t \in Range(L) : c = Signature(t[1])
    BY DEF Shown
  <2>2. PICK k \in 1 .. n : L[k] = t
    BY <1>4
  <2>3. c = Signature(L[k][1])
    BY <2>1, <2>2
  <2>4. c \in Signatures(Range(F))
    BY <1>5, <1>6, <2>3 DEF Signatures
  <2>5. PICK A : A = Class(X, c)
    OBVIOUS
  <2>6. ASSUME NEW j \in 1 .. n, j # k PROVE Range(L[j]) \cap A = {}
    <3>1. L[j] # L[k]
      BY <1>2, <1>4, <2>6 DEF WellGrouped, Distinct
    <3>2. Signature(L[j][1]) # c
      BY <1>5, <2>3, <3>1
    <3>3. Range(L[j]) \subseteq Class(X, Signature(L[j][1]))
      BY <1>5
    <3> QED
      BY <2>5, <3>2, <3>3 DEF Class
  <2>7. OnlyOne(A, k, L)
    <3>1. Range(L[k]) \subseteq A
      BY <1>5, <2>3, <2>5
    <3> QED
      BY <1>4, <2>6, <3>1 DEF OnlyOne
  <2>8. Keep(F, A) = L[k]
    BY <1>1, <1>3, <2>7, FlattenKeep
  <2>9. L[k] = Keep(s, Class(X, c))
    BY <1>5, <2>3
  <2> QED
    BY <2>4, <2>5, <2>8, <2>9
<1> QED
  BY <1>6, <1>7, <1>8, <1>9 DEF Capped

-----------------------------------------------------------------------------
(* What is listed of the uploads that are left.                            *)

\* Of s the groups of a buffer are validated; bad are refused.
Without(s, bad) == Keep(s, Range(s) \ bad)
Survivors(s, cap, bad) == Without(CapItems(s, cap), bad)

\* The uploads of a release that were not refused.
Good(s, bad, signature) == {x \in Range(s) : x \notin bad /\ Signature(x) = signature}

\* No release that the buffer L holds is lost but by refusals.
Surviving(left, L, s, X, bad) ==
  /\ left \in Seq(X) /\ Range(left) \subseteq Range(s) \ bad
  /\ \A c \in Signatures(Range(left)) : Keep(left, Class(X, c)) = Keep(s, Good(s, bad, c))
  /\ \A c \in Shown(L) : c \in Signatures(Range(s) \ bad) => c \in Signatures(Range(left))

LEMMA SurvivorsSound ==
  ASSUME NEW X, NEW s \in Seq(X), NEW cap \in Nat, NEW bad,
         NEW left, left = Survivors(s, cap, bad), NEW L, L = ListedGroups(s, cap)
  PROVE  Surviving(left, L, s, X, bad)
<1>1. PICK F : F = CapItems(s, cap)
  OBVIOUS
<1>2. Capped(F, L, s, X)
  BY <1>1, CapSound
<1>3. /\ F \in Seq(X) /\ Range(F) \subseteq Range(s)
      /\ Signatures(Range(F)) = Shown(L)
      /\ \A c \in Shown(L) : Keep(F, Class(X, c)) = Keep(s, Class(X, c))
  BY <1>2 DEF Capped
<1>4. left = Keep(F, Range(F) \ bad)
  BY <1>1 DEF Survivors, Without
<1>5. left \in Seq(X) /\ Range(left) = Range(F) \ bad
  BY <1>3, <1>4, KeepRange
<1>6. Range(F) \subseteq X /\ Range(s) \subseteq X
  BY <1>3, InRange
<1>7. ASSUME NEW c \in Signatures(Range(left))
      PROVE  Keep(left, Class(X, c)) = Keep(s, Good(s, bad, c))
  <2>1. c \in Shown(L)
    BY <1>3, <1>5 DEF Signatures
  <2>2. Keep(left, Class(X, c)) = Keep(F, (Range(F) \ bad) \cap Class(X, c))
    BY <1>3, <1>4, KeepKeep
  <2>3. Keep(F, (Range(F) \ bad) \cap Class(X, c)) = Keep(F, Class(X, c) \cap (X \ bad))
    <3>1. Range(F) \cap ((Range(F) \ bad) \cap Class(X, c))
            = Range(F) \cap (Class(X, c) \cap (X \ bad))
      BY <1>6
    <3> QED
      BY <1>3, <3>1, KeepSame
  <2>4. Keep(F, Class(X, c) \cap (X \ bad)) = Keep(Keep(F, Class(X, c)), X \ bad)
    BY <1>3, KeepKeep
  <2>5. Keep(F, Class(X, c)) = Keep(s, Class(X, c))
    BY <1>3, <2>1
  <2>6. Keep(Keep(s, Class(X, c)), X \ bad) = Keep(s, Class(X, c) \cap (X \ bad))
    BY KeepKeep
  <2>7. Keep(s, Class(X, c) \cap (X \ bad)) = Keep(s, Good(s, bad, c))
    <3>1. Range(s) \cap (Class(X, c) \cap (X \ bad)) = Range(s) \cap Good(s, bad, c)
      BY <1>6 DEF Class, Good
    <3> QED
      BY <3>1, KeepSame
  <2> QED
    BY <2>2, <2>3, <2>4, <2>5, <2>6, <2>7
<1>8. ASSUME NEW c \in Shown(L), c \in Signatures(Range(s) \ bad)
      PROVE  c \in Signatures(Range(left))
  <2>1. PICK x \in Range(s) \ bad : Signature(x) = c
    BY <1>8 DEF Signatures
  <2>2. x \in Range(Keep(s, Class(X, c)))
    <3>1. Range(Keep(s, Class(X, c))) = Range(s) \cap Class(X, c)
      BY KeepRange
    <3> QED
      BY <1>6, <2>1, <3>1 DEF Class
  <2>3. Range(Keep(F, Class(X, c))) = Range(F) \cap Class(X, c)
    BY <1>3, KeepRange
  <2>4. x \in Range(left)
    BY <1>3, <1>5, <2>1, <2>2, <2>3
  <2> QED
    BY <2>1, <2>4 DEF Signatures
<1> QED
  BY <1>3, <1>5, <1>7, <1>8 DEF Surviving

\* Each group of the list has all uploads of its release that were not refused.
LEMMA GroupsComplete ==
  ASSUME NEW X, NEW s \in Seq(X), NEW cap \in Nat, NEW few \in Nat, NEW bad,
         NEW left, left = Survivors(s, cap, bad), NEW M, M = ListedGroups(left, few)
  PROVE  /\ WellGrouped(M, left, X)
         /\ \A t \in Range(M) : t = Keep(s, Good(s, bad, Signature(t[1])))
<1>0. PICK L : L = ListedGroups(s, cap) /\ Surviving(left, L, s, X, bad)
  BY SurvivorsSound
<1>1. /\ left \in Seq(X)
      /\ \A c \in Signatures(Range(left)) : Keep(left, Class(X, c)) = Keep(s, Good(s, bad, c))
  BY <1>0 DEF Surviving
<1>2. WellGrouped(M, left, X)
  BY <1>1, ListedSound
<1>3. ASSUME NEW t \in Range(M) PROVE t = Keep(s, Good(s, bad, Signature(t[1])))
  <2>1. t[1] \in Range(left) /\ t = Keep(left, Class(X, Signature(t[1])))
    BY <1>2 DEF WellGrouped
  <2>2. Signature(t[1]) \in Signatures(Range(left))
    BY <2>1 DEF Signatures
  <2> QED
    BY <1>1, <2>1, <2>2
<1> QED
  BY <1>2, <1>3

\* The buffer suffices, counted for one bucket.
Suffices(all, good, shown, few, spare) ==
  LET lost == all \ good
      left == Cardinality(all \ lost)
  IN  /\ Cardinality(shown) <= few
      /\ Cardinality(lost) <= spare => Cardinality(shown) >= Fewer(left, few)

LEMMA BufferCounts ==
  ASSUME NEW all, NEW good, NEW buffered, NEW kept, NEW shown, NEW few \in Nat, NEW cap \in Nat,
         few <= cap,
         IsFiniteSet(all), IsFiniteSet(kept), buffered \subseteq all, kept \subseteq all,
         good \cap buffered \subseteq kept,
         Cardinality(buffered) = Fewer(Cardinality(all), cap),
         Cardinality(shown) = Fewer(Cardinality(kept), few)
  PROVE  Suffices(all, good, shown, few, cap - few)
<1>1. PICK lost, left, size : /\ lost = all \ good /\ left = Cardinality(all \ lost)
                              /\ size = Cardinality(kept)
  OBVIOUS
<1>2. IsFiniteSet(buffered) /\ IsFiniteSet(lost) /\ IsFiniteSet(all \ lost)
  BY <1>1, FS_Subset
<1>3. /\ size \in Nat /\ left \in Nat /\ Cardinality(lost) \in Nat /\ Cardinality(all) \in Nat
      /\ Cardinality(buffered) \in Nat
  BY <1>1, <1>2, FS_CardinalityType
<1>4. Cardinality(shown) = Fewer(size, few)
  BY <1>1
<1>5. Cardinality(shown) <= few
  BY <1>3, <1>4 DEF Fewer
<1>6. ASSUME Cardinality(lost) <= cap - few PROVE Cardinality(shown) >= Fewer(left, few)
  <2>1. CASE Cardinality(all) < cap
    <3>1. Cardinality(buffered) = Cardinality(all)
      BY <2>1 DEF Fewer
    <3>2. buffered = all
      BY <3>1, FS_Subset
    <3>3. all \ lost \subseteq kept
      BY <1>1, <3>2
    <3>4. left <= size
      BY <1>1, <3>3, FS_Subset
    <3> QED
      BY <1>3, <1>4, <3>4 DEF Fewer
  <2>2. CASE ~ (Cardinality(all) < cap)
    <3>1. Cardinality(buffered) = cap
      BY <2>2 DEF Fewer
    <3>2. PICK rest : rest = buffered \ lost
      OBVIOUS
    <3>3. rest \subseteq kept
      BY <1>1, <3>2
    <3>4. /\ Cardinality(rest) \in Nat
          /\ Cardinality(rest) >= Cardinality(buffered) - Cardinality(lost)
      BY <1>2, <3>2, WithoutSize
    <3>5. Cardinality(rest) <= size
      BY <1>1, <3>3, FS_Subset
    <3>6. size >= few
      BY <1>3, <1>6, <3>1, <3>4, <3>5
    <3> QED
      BY <1>3, <1>4, <3>6 DEF Fewer
  <2> QED
    BY <2>1, <2>2
<1> QED
  BY <1>1, <1>5, <1>6 DEF Suffices

LEMMA ListedCounts ==
  ASSUME NEW X, NEW s \in Seq(X), NEW few \in Nat, few > 0, NEW cap \in Nat, few <= cap, NEW bad,
         NEW left, left = Survivors(s, cap, bad), NEW M, M = ListedGroups(left, few), NEW b
  PROVE  Suffices(InBucket(Signatures(Range(s)), b), InBucket(Signatures(Range(s) \ bad), b),
                  InBucket(Shown(M), b), few, cap - few)
<1>1. PICK L : L = ListedGroups(s, cap)
  OBVIOUS
<1>2. PICK all, good, buffered, kept, shown :
        /\ all = InBucket(Signatures(Range(s)), b)
        /\ good = InBucket(Signatures(Range(s) \ bad), b)
        /\ buffered = InBucket(Shown(L), b)
        /\ kept = InBucket(Signatures(Range(left)), b)
        /\ shown = InBucket(Shown(M), b)
  OBVIOUS
<1>0. Surviving(left, L, s, X, bad)
  BY <1>1, SurvivorsSound
<1>3. /\ left \in Seq(X) /\ Range(left) \subseteq Range(s) \ bad
      /\ \A c \in Shown(L) : c \in Signatures(Range(s) \ bad) => c \in Signatures(Range(left))
  BY <1>0 DEF Surviving
<1>4. Limited(Shown(L), Signatures(Range(s)), cap)
  BY <1>1, ListedSound
<1>5. Limited(Shown(M), Signatures(Range(left)), few)
  BY <1>3, ListedSound
<1>6. /\ IsFiniteSet(all) /\ buffered \subseteq all
      /\ Cardinality(buffered) = Fewer(Cardinality(all), cap)
  <2>1. Shown(L) \subseteq Signatures(Range(s))
    BY <1>4 DEF Limited
  <2>2. buffered \subseteq all
    BY <1>2, <2>1 DEF InBucket
  <2>3. cap > 0
    OBVIOUS
  <2> QED
    BY <1>2, <1>4, <2>2, <2>3 DEF Limited
<1>7. IsFiniteSet(kept) /\ Cardinality(shown) = Fewer(Cardinality(kept), few)
  BY <1>2, <1>5 DEF Limited
<1>8. kept \subseteq all
  BY <1>2, <1>3 DEF Signatures, InBucket
<1>9. good \cap buffered \subseteq kept
  BY <1>2, <1>3 DEF InBucket
<1>10. Suffices(all, good, shown, few, cap - few)
  BY <1>6, <1>7, <1>8, <1>9, BufferCounts
<1> QED
  BY <1>2, <1>10

-----------------------------------------------------------------------------
(* The invariant of the lists.                                             *)

Cap(s) == BufferCap(UserOf(s).perRes)
GroupsOf(s) == ListedGroups(items[s], UserOf(s).perRes)

\* The list of a search shows these groups, and the sessions hold them.
Offers(s, groups) ==
  /\ list[s] = [g \in DOMAIN groups |-> StreamOf(groups[g][1], <<s, g>>, originals[s])]
  /\ \A g \in DOMAIN groups : <<s, g>> \in DOMAIN sessions /\ sessions[<<s, g>>] = groups[g]

\* What is left of the items of a search is what is not refused of its buffer.
Ranked(s) ==
  /\ pc[s] \notin Narrowed => refused[s] = {}
  /\ pc[s] \in Narrowed => items[s] = Survivors(wanted[s], Cap(s), refused[s])
  /\ pc[s] = "answered" => Offers(s, GroupsOf(s))

Ranking ==
  /\ IsMap(refused, Searches) /\ IsMap(list, Searches)
  /\ \A s \in Searches : Ranked(s)

\* A search that an action does not rank.
Aside(s) ==
  /\ refused'[s] = refused[s] /\ wanted'[s] = wanted[s]
  /\ list'[s] = list[s] /\ originals'[s] = originals[s]
  /\ pc[s] \in Narrowed => pc'[s] = pc[s] /\ items'[s] = items[s]
  /\ pc[s] \notin Narrowed => pc'[s] \notin Narrowed
  /\ \A g : <<s, g>> \in DOMAIN sessions =>
       <<s, g>> \in DOMAIN sessions' /\ sessions'[<<s, g>>] = sessions[<<s, g>>]

LEMMA LeftAside ==
  ASSUME NEW s \in Searches, Ranked(s), Aside(s)
  PROVE  Ranked(s)'
<1>1. CASE pc[s] \notin Narrowed
  BY <1>1 DEF Ranked, Aside, Narrowed
<1>2. CASE pc[s] \in Narrowed
  <2>1. pc'[s] = pc[s] /\ items'[s] = items[s] /\ refused'[s] = refused[s]
        /\ wanted'[s] = wanted[s]
    BY <1>2 DEF Aside
  <2>2. items'[s] = Survivors(wanted'[s], Cap(s), refused'[s])
    BY <1>2, <2>1 DEF Ranked
  <2>3. pc[s] = "answered" => Offers(s, GroupsOf(s))'
    <3>1. GroupsOf(s)' = GroupsOf(s)
      BY <2>1 DEF GroupsOf
    <3>2. ASSUME NEW groups, Offers(s, groups) PROVE Offers(s, groups)'
      BY <3>2 DEF Offers, Aside
    <3> QED
      BY <3>1, <3>2 DEF Ranked
  <2> QED
    BY <1>2, <2>1, <2>2, <2>3 DEF Ranked
<1> QED
  BY <1>1, <1>2

LEMMA FilteredUploads ==
  ASSUME Selecting, NEW s \in Searches, NEW titles
  PROVE  FilterByLanguage(Heard(s), EffectiveLanguages(UserOf(s), titles)) \in Seq(Uploads)
<1>1. Collected(s) \in Seq(Uploads)
  BY CollectedSound DEF Selecting, Hearing, Shaped
<1>2. PICK h \in Seq(Uploads) : h = Heard(s)
  BY <1>1, FiltersSound DEF Heard
<1> QED
  BY <1>2, UploadsNamed, FilterByLanguageSound

LEMMA NarrowRanks ==
  ASSUME Selecting, Ranking, NEW s \in Searches, pc[s] \in {"joined", "inquiring"},
         NEW titles, Narrow(s, titles), UNCHANGED <<list, sessions, refused>>
  PROVE  Ranking'
<1>1. PICK left : left = FilterByLanguage(Filtered(s), EffectiveLanguages(UserOf(s), titles))
  OBVIOUS
<1>2. /\ pc'[s] = "structure" /\ wanted'[s] = left /\ items'[s] = CapItems(left, Cap(s))
      /\ \A t \in Searches \ {s} : Aside(t)
  BY <1>1 DEF Narrow, Goto, Selecting, Hearing, Shaped, Kept, IsMap, Aside, Cap
<1>3. left \in Seq(Uploads)
  <2>1. Filtered(s) = Heard(s)
    BY DEF Selecting, Holds, Filtered, Heard
  <2> QED
    BY <1>1, <2>1, FilteredUploads
<1>4. refused'[s] = {}
  BY DEF Ranking, Ranked, Narrowed
<1>5. CapItems(left, Cap(s)) = Survivors(left, Cap(s), {})
  <2>1. Cap(s) \in Nat
    BY SearchAssumption, RankAssumption DEF Cap, BufferCap
  <2>2. PICK F, L : F = CapItems(left, Cap(s)) /\ L = ListedGroups(left, Cap(s))
    OBVIOUS
  <2>3. Capped(F, L, left, Uploads)
    BY <1>3, <2>1, <2>2, CapSound
  <2>4. F \in Seq(Uploads)
    BY <2>3 DEF Capped
  <2>5. Keep(F, Range(F) \ {}) = F
    BY <2>4, KeepAllOrNone
  <2> QED
    BY <2>2, <2>5 DEF Survivors, Without
<1>6. Ranked(s)'
  BY <1>2, <1>4, <1>5 DEF Ranked, Narrowed
<1>7. ASSUME NEW t \in Searches \ {s} PROVE Ranked(t)'
  BY <1>2, <1>7, LeftAside DEF Ranking
<1> QED
  BY <1>6, <1>7 DEF Ranking

\* A check refuses more.
Together(all, some, more) == all = some \cup more

LEMMA RefuseMore ==
  ASSUME NEW X, NEW s \in Seq(X), NEW cap \in Nat, NEW bad, NEW more,
         NEW left, left = Survivors(s, cap, bad), NEW all, Together(all, bad, more)
  PROVE  Without(left, more) = Survivors(s, cap, all)
<1>1. PICK F, L : F = CapItems(s, cap) /\ L = ListedGroups(s, cap)
  OBVIOUS
<1>2. Capped(F, L, s, X)
  BY <1>1, CapSound
<1>3. F \in Seq(X)
  BY <1>2 DEF Capped
<1>4. left = Keep(F, Range(F) \ bad)
  BY <1>1 DEF Survivors, Without
<1>5. Range(left) = Range(F) \ bad
  BY <1>3, <1>4, KeepRange
<1>6. PICK A, B : A = Range(F) \ bad /\ B = Range(left) \ more
  OBVIOUS
<1>7. Keep(Keep(F, A), B) = Keep(F, A \cap B)
  BY <1>3, KeepKeep
<1>8. A \cap B = Range(F) \ all
  BY <1>5, <1>6 DEF Together
<1>9. Keep(left, B) = Keep(F, Range(F) \ all)
  BY <1>4, <1>6, <1>7, <1>8
<1> QED
  BY <1>1, <1>6, <1>9 DEF Survivors, Without

LEMMA CheckRanks ==
  ASSUME Selecting, Ranking, NEW s \in Searches, Validate(s)
  PROVE  Ranking'
<1>0. PICK left, old : left = items[s] /\ old = refused[s]
  OBVIOUS
<1>1. PICK bad, all : /\ items' = [items EXCEPT ![s] = Without(left, bad)]
                      /\ refused' = [refused EXCEPT ![s] = all]
                      /\ Together(all, old, bad)
  <2>1. PICK on : Check(s, on)
    BY DEF Validate
  <2> QED
    BY <1>0, <2>1 DEF Check, Without, Together
<1>2. /\ pc[s] \in Narrowed /\ pc'[s] \in {"availability", "ranking"}
      /\ \A t \in Searches \ {s} : pc'[t] = pc[t]
      /\ UNCHANGED <<list, sessions, originals, wanted>>
  BY DEF Validate, Goto, history, Narrowed, Selecting, Hearing, Shaped, IsMap
<1>3. /\ items'[s] = Without(left, bad) /\ refused'[s] = all
      /\ IsMap(refused', Searches)
      /\ \A t \in Searches \ {s} : items'[t] = items[t] /\ refused'[t] = refused[t]
  BY <1>1 DEF Ranking, Selecting, Kept, IsMap
<1>4. PICK W : W = wanted[s]
  OBVIOUS
<1>5. W \in Seq(Uploads)
  BY <1>2, <1>4, FilteredUploads DEF Selecting, Holds
<1>6. PICK cap \in Nat : cap = Cap(s)
  BY SearchAssumption, RankAssumption DEF Cap, BufferCap
<1>7. left = Survivors(W, cap, old)
  BY <1>0, <1>2, <1>4, <1>6 DEF Ranking, Ranked
<1>8. Without(left, bad) = Survivors(W, cap, all)
  BY <1>1, <1>5, <1>7, RefuseMore
<1>9. Ranked(s)'
  BY <1>2, <1>3, <1>4, <1>6, <1>8 DEF Ranked, Narrowed
<1>10. ASSUME NEW t \in Searches \ {s} PROVE Ranked(t)'
  <2>1. Aside(t)
    BY <1>2, <1>3 DEF Aside
  <2> QED
    BY <2>1, LeftAside DEF Ranking
<1> QED
  BY <1>2, <1>3, <1>9, <1>10 DEF Ranking

LEMMA PublishRanks ==
  ASSUME Selecting, Ranking, NEW s \in Searches, Publish(s)
  PROVE  Ranking'
<1>1. PICK groups : groups = GroupsOf(s)
  OBVIOUS
<1>2. /\ pc[s] = "ranking" /\ pc'[s] = "answered"
      /\ \A t \in Searches \ {s} : pc'[t] = pc[t]
      /\ UNCHANGED <<items, refused, originals, wanted>>
  BY DEF Publish, Goto, history, Selecting, Hearing, Shaped, IsMap
<1>3. PICK new : new = {<<s, g>> : g \in DOMAIN groups}
  OBVIOUS
<1>4. /\ sessions' = [t \in DOMAIN sessions \cup new |->
                        IF t \in new THEN groups[t[2]] ELSE sessions[t]]
      /\ list' = [list EXCEPT ![s] =
                    [g \in DOMAIN groups |-> StreamOf(groups[g][1], <<s, g>>, originals[s])]]
  BY <1>1, <1>3 DEF Publish, GroupsOf
<1>5. Offers(s, groups)'
  <2>1. list'[s] = [g \in DOMAIN groups |-> StreamOf(groups[g][1], <<s, g>>, originals'[s])]
    BY <1>2, <1>4 DEF Ranking, IsMap
  <2>2. \A g \in DOMAIN groups : <<s, g>> \in DOMAIN sessions' /\ sessions'[<<s, g>>] = groups[g]
    BY <1>3, <1>4
  <2> QED
    BY <2>1, <2>2 DEF Offers
<1>6. GroupsOf(s)' = groups
  BY <1>1, <1>2 DEF GroupsOf
<1>7. Ranked(s)'
  BY <1>2, <1>5, <1>6 DEF Ranking, Ranked, Narrowed
<1>8. ASSUME NEW t \in Searches \ {s} PROVE Ranked(t)'
  <2>1. \A g : <<t, g>> \notin new
    BY <1>3
  <2>2. Aside(t)
    BY <1>2, <1>4, <2>1 DEF Aside
  <2> QED
    BY <2>2, LeftAside DEF Ranking
<1>9. IsMap(list', Searches) /\ IsMap(refused', Searches)
  BY <1>2, <1>4 DEF Ranking, IsMap
<1> QED
  BY <1>7, <1>8, <1>9 DEF Ranking

LEMMA RankingInit == Init => Ranking
BY DEF Init, Ranking, Ranked, Narrowed, IsMap

LEMMA RankingStep == Selecting /\ Ranking /\ [Next]_vars => Ranking'
<1> SUFFICES ASSUME Selecting, Ranking, [Next]_vars PROVE Ranking'
  OBVIOUS
<1>0. ASSUME UNCHANGED <<list, refused>>, \A t \in Searches : Aside(t) PROVE Ranking'
  BY <1>0, LeftAside DEF Ranking
<1>1. ASSUME NEW s \in Searches,
             \/ \E q \in Questions : Begin(s, q)
             \/ \E i \in DOMAIN reply[s] : Look(s, i) \/ Reply(s, i) \/ Fail(s, i)
             \/ Number(s) \/ Join(s) \/ Inquire(s)
      PROVE  Ranking'
  <2>1. UNCHANGED <<list, sessions, originals, refused, wanted>>
    BY <1>1 DEF Begin, Look, Reply, Fail, Number, Join, Inquire, history
  <2>2. /\ pc[s] \notin Narrowed /\ pc'[s] \notin Narrowed
        /\ \A t \in Searches \ {s} : pc'[t] = pc[t] /\ items'[t] = items[t]
    BY <1>1 DEF Begin, Look, Reply, Fail, Number, Join, Inquire, FanOut, NoItems, Goto, Narrowed,
                Selecting, Hearing, Shaped, Kept, IsMap
  <2>3. \A t \in Searches : Aside(t)
    BY <2>1, <2>2 DEF Aside
  <2> QED
    BY <1>0, <2>1, <2>3
<1>2. ASSUME NEW s \in Searches, Recall(s) \/ Learn(s) \/ LearnNothing(s) PROVE Ranking'
  <2>1. pc[s] \in {"joined", "inquiring"} /\ UNCHANGED <<list, sessions, refused>>
    BY <1>2 DEF Recall, Learn, LearnNothing
  <2>2. \E titles : Narrow(s, titles)
    BY <1>2 DEF Recall, Learn, LearnNothing
  <2> QED
    BY <2>1, <2>2, NarrowRanks
<1>3. ASSUME NEW s \in Searches, Validate(s) PROVE Ranking'
  BY <1>3, CheckRanks
<1>4. ASSUME NEW s \in Searches, Publish(s) PROVE Ranking'
  BY <1>4, PublishRanks
<1>5. ASSUME Expire \/ UNCHANGED vars PROVE Ranking'
  <2>1. UNCHANGED <<pc, items, list, sessions, originals, refused, wanted>>
    BY <1>5 DEF Expire, vars, history
  <2>2. \A t \in Searches : Aside(t)
    BY <2>1 DEF Aside
  <2> QED
    BY <1>0, <2>1, <2>2
<1> QED
  BY <1>1, <1>2, <1>3, <1>4, <1>5 DEF Next

\* What a search lists, in the words of the lemmas on lists.
LEMMA Answered ==
  ASSUME Selecting, Ranking, NEW s \in Searches, pc[s] = "answered",
         NEW W, W = wanted[s], NEW left, left = items[s]
  PROVE  /\ W \in Seq(Uploads) /\ Cap(s) \in Nat /\ UserOf(s).perRes \in Nat
         /\ UserOf(s).perRes <= Cap(s)
         /\ left = Survivors(W, Cap(s), refused[s])
         /\ Offers(s, ListedGroups(left, UserOf(s).perRes))
<1>1. W \in Seq(Uploads)
  BY FilteredUploads DEF Selecting, Holds, Narrowed
<1>2. UserOf(s).perRes \in Nat
  BY SearchAssumption
<1>3. Cap(s) \in Nat /\ UserOf(s).perRes <= Cap(s)
  BY <1>2, RankAssumption DEF Cap, BufferCap
<1>4. left = Survivors(W, Cap(s), refused[s]) /\ Offers(s, ListedGroups(left, UserOf(s).perRes))
  BY DEF Ranking, Ranked, Narrowed, GroupsOf
<1> QED
  BY <1>1, <1>2, <1>3, <1>4

LEMMA RankingCompletes == Selecting /\ Ranking => FallbacksComplete
<1> SUFFICES ASSUME Selecting, Ranking, NEW s \in Searches, pc[s] = "answered"
             PROVE  /\ \A g, h \in DOMAIN list[s] :
                         g < h => /\ list[s][g].binge # list[s][h].binge
                                  /\ ResolutionIndex(list[s][g].name)
                                       <= ResolutionIndex(list[s][h].name)
                    /\ \A g \in DOMAIN list[s] :
                         sessions[list[s][g].token] =
                           Keep(wanted[s], Good(wanted[s], refused[s], list[s][g].binge))
  BY DEF FallbacksComplete, Filter, Good
<1>1. PICK W, left, bad, few, M :
        /\ W = wanted[s] /\ left = items[s] /\ bad = refused[s] /\ few = UserOf(s).perRes
        /\ M = ListedGroups(left, few)
  OBVIOUS
<1>2. /\ W \in Seq(Uploads) /\ Cap(s) \in Nat /\ few \in Nat
      /\ left = Survivors(W, Cap(s), bad) /\ Offers(s, M)
  BY <1>1, Answered
<1>3. /\ WellGrouped(M, left, Uploads)
      /\ \A t \in Range(M) : t = Keep(W, Good(W, bad, Signature(t[1])))
  BY <1>1, <1>2, GroupsComplete
<1>4. PICK n \in Nat : n = Len(M) /\ DOMAIN M = 1 .. n /\ \A g \in 1 .. n : M[g] \in Range(M)
  BY <1>3, InRange DEF WellGrouped
<1>5. ASSUME NEW g \in 1 .. n
      PROVE  /\ list[s][g].binge = Signature(M[g][1]) /\ list[s][g].name = M[g][1].resolution
             /\ list[s][g].token = <<s, g>> /\ sessions[<<s, g>>] = M[g]
  BY <1>2, <1>4 DEF Offers, StreamOf
<1>6. DOMAIN list[s] = 1 .. n
  BY <1>2, <1>4 DEF Offers
<1>7. ASSUME NEW g \in 1 .. n, NEW h \in 1 .. n, g < h
      PROVE  /\ Signature(M[g][1]) # Signature(M[h][1])
             /\ ResolutionIndex(M[g][1].resolution) <= ResolutionIndex(M[h][1].resolution)
  <2>1. M[g] # M[h]
    BY <1>3, <1>4, <1>7 DEF WellGrouped, Distinct
  <2>2. Signature(M[g][1]) # Signature(M[h][1])
    BY <1>3, <1>4, <2>1
  <2>3. ResolutionIndex(M[g][1].resolution) <= ResolutionIndex(M[h][1].resolution)
    BY <1>3, <1>4, <1>7 DEF WellGrouped
  <2> QED
    BY <2>2, <2>3
<1>8. ASSUME NEW g \in 1 .. n
      PROVE  sessions[list[s][g].token] = Keep(W, Good(W, bad, list[s][g].binge))
  <2>1. M[g] = Keep(W, Good(W, bad, Signature(M[g][1])))
    BY <1>3, <1>4
  <2>2. sessions[list[s][g].token] = M[g] /\ list[s][g].binge = Signature(M[g][1])
    BY <1>5
  <2> QED
    BY <2>1, <2>2
<1>9. ASSUME NEW g \in 1 .. n, NEW h \in 1 .. n, g < h
      PROVE  /\ list[s][g].binge # list[s][h].binge
             /\ ResolutionIndex(list[s][g].name) <= ResolutionIndex(list[s][h].name)
  <2>1. /\ list[s][g].binge = Signature(M[g][1]) /\ list[s][g].name = M[g][1].resolution
        /\ list[s][h].binge = Signature(M[h][1]) /\ list[s][h].name = M[h][1].resolution
    BY <1>5
  <2>2. /\ Signature(M[g][1]) # Signature(M[h][1])
        /\ ResolutionIndex(M[g][1].resolution) <= ResolutionIndex(M[h][1].resolution)
    BY <1>7, <1>9
  <2> QED
    BY <2>1, <2>2
<1>10. \A g \in 1 .. n :
         sessions[list[s][g].token] = Keep(wanted[s], Good(wanted[s], refused[s], list[s][g].binge))
  BY <1>1, <1>8
<1> QED
  BY <1>6, <1>9, <1>10

\* The signatures of a bucket, as the property has them.
LEMMA BucketGroups ==
  ASSUME NEW S, NEW b
  PROVE  Groups(b, S) = InBucket(Signatures(S), b)
<1>1. \A c : BucketOf(Signature(c)) = Bucket(c)
  BY SignatureFields DEF BucketOf, Bucket
<1> QED
  BY <1>1 DEF Groups, InBucket, Signatures

LEMMA RankingSuffices == Selecting /\ Ranking => BufferSuffices
<1> SUFFICES ASSUME Selecting, Ranking, NEW s \in Searches, pc[s] = "answered",
                    UserOf(s).perRes > 0, NEW b
             PROVE  Suffices(Groups(b, Range(wanted[s])), Groups(b, Range(wanted[s]) \ refused[s]),
                             Listed(s) \cap Groups(b, Range(wanted[s])),
                             UserOf(s).perRes, Cap(s) - UserOf(s).perRes)
  BY DEF BufferSuffices, Suffices, Fewer, Cap
<1>1. PICK W, left, bad, few, M :
        /\ W = wanted[s] /\ left = items[s] /\ bad = refused[s] /\ few = UserOf(s).perRes
        /\ M = ListedGroups(left, few)
  OBVIOUS
<1>2. /\ W \in Seq(Uploads) /\ Cap(s) \in Nat /\ few \in Nat /\ few <= Cap(s)
      /\ left = Survivors(W, Cap(s), bad) /\ Offers(s, M)
  BY <1>1, Answered
<1>3. Suffices(InBucket(Signatures(Range(W)), b), InBucket(Signatures(Range(W) \ bad), b),
               InBucket(Shown(M), b), few, Cap(s) - few)
  BY <1>1, <1>2, ListedCounts
<1>4. Listed(s) \cap Groups(b, Range(W)) = InBucket(Shown(M), b)
  <2>1. WellGrouped(M, left, Uploads)
    BY <1>1, <1>2, GroupsComplete
  <2>2. PICK n \in Nat : /\ n = Len(M) /\ DOMAIN M = 1 .. n /\ \A g \in 1 .. n : M[g] \in Range(M)
                         /\ \A t \in Range(M) : \E g \in 1 .. n : M[g] = t
    BY <2>1, InRange DEF WellGrouped
  <2>3. DOMAIN list[s] = 1 .. n /\ \A g \in 1 .. n : list[s][g].binge = Signature(M[g][1])
    BY <1>2, <2>2 DEF Offers, StreamOf
  <2>4. Listed(s) = Shown(M)
    <3>1. ASSUME NEW c \in Listed(s) PROVE c \in Shown(M)
      BY <2>2, <2>3 DEF Listed, Shown
    <3>2. ASSUME NEW c \in Shown(M) PROVE c \in Listed(s)
      <4>1. PICK g \in 1 .. n : c = Signature(M[g][1])
        BY <2>2 DEF Shown
      <4> QED
        BY <2>3, <4>1 DEF Listed
    <3> QED
      BY <3>1, <3>2
  <2>5. Range(left) \subseteq Range(W)
    <3>1. PICK L : L = ListedGroups(W, Cap(s))
      OBVIOUS
    <3>2. Surviving(left, L, W, Uploads, bad)
      BY <1>2, <3>1, SurvivorsSound
    <3> QED
      BY <3>2 DEF Surviving
  <2>6. Shown(M) \subseteq Signatures(Range(W))
    BY <2>1, <2>5 DEF Shown, Signatures, WellGrouped
  <2>7. Groups(b, Range(W)) = InBucket(Signatures(Range(W)), b)
    BY BucketGroups
  <2> QED
    BY <2>4, <2>6, <2>7 DEF InBucket
<1>5. /\ Groups(b, Range(W)) = InBucket(Signatures(Range(W)), b)
      /\ Groups(b, Range(W) \ bad) = InBucket(Signatures(Range(W) \ bad), b)
  BY BucketGroups
<1> QED
  BY <1>1, <1>3, <1>4, <1>5

(* Whatever is heard, filtered and refused, and whatever other searches     *)
(* register meanwhile, a list comes by resolution, no release twice, and    *)
(* behind each of its streams stand all the uploads that were not refused,  *)
(* in the order the search ranked them.                                     *)
THEOREM ListsComplete == Spec => []FallbacksComplete
<1>1. Init => Selecting /\ Ranking
  BY SelectingInit, RankingInit
<1>2. Selecting /\ Ranking /\ [Next]_vars => (Selecting /\ Ranking)'
  BY SelectingStep, RankingStep
<1> QED
  BY <1>1, <1>2, RankingCompletes, PTL DEF Spec

(* For any limit and any buffer: a bucket never shows more releases than    *)
(* the limit, and shows that many or all good ones unless the checks refuse *)
(* more of them than the buffer has to spare.                               *)
THEOREM ListsFull == Spec => []BufferSuffices
<1>1. Init => Selecting /\ Ranking
  BY SelectingInit, RankingInit
<1>2. Selecting /\ Ranking /\ [Next]_vars => (Selecting /\ Ranking)'
  BY SelectingStep, RankingStep
<1> QED
  BY <1>1, <1>2, RankingSuffices, PTL DEF Spec
===============================================================================
