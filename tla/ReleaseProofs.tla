----------------------------- MODULE ReleaseProofs -----------------------------
(***************************************************************************)
(* What is promised of a release: what the checks on its NZB conclude and  *)
(* remember (NzbVerdicts), for any documents, hosts, servers and tasks;    *)
(* and the layout a preflight derives of it and what is served through it  *)
(* (ProbedLayout), for any files, volumes, dressings and headers.          *)
(*                                                                         *)
(* A layout is seen as that of carriers, the files that carry some of the  *)
(* video, each a stretch of the assembled stream and of the video.  What   *)
(* is proved of such layouts holds of a flat file, one carrier, and of the *)
(* volumes of an archive.                                                  *)
(***************************************************************************)
EXTENDS NzbVerdicts, ProbedLayout, FiniteLemmas

\* The steps of NzbVerdicts, each by its name.
LEMMA Steps ==
  ASSUME Next
  PROVE  \/ \E t \in Tasks :
              \/ FetchLookup(t) /\ UNCHANGED verdictVars
              \/ FetchGate(t) /\ UNCHANGED verdictVars
              \/ Send(t) /\ UNCHANGED verdictVars
              \/ Deliver(t) /\ UNCHANGED verdictVars
              \/ Refuse(t) /\ UNCHANGED verdictVars
              \/ Retry(t) /\ UNCHANGED verdictVars
              \/ \E why \in Failures : GiveUp(t, why) /\ UNCHANGED verdictVars
              \/ SanityLookup(t) \/ SanityVerdict(t)
              \/ AvailabilityLookup(t) \/ AvailabilityGet(t)
              \/ AvailabilityCanary(t) \/ AvailabilityVerdict(t)
              \/ PlayFetched(t) \/ SmokeTry(t) \/ Invalidate(t) \/ Leave(t)
         \/ \E t \in Tasks, u \in Urls : Search(t, u) \/ Play(t, u)
         \/ \E h \in Hosts : CooldownEnds(h) /\ UNCHANGED verdictVars
         \/ \E u \in Urls : \/ BytesForget(u) /\ UNCHANGED verdictVars
                            \/ SanityForget(u)
                            \/ AvailabilityForget(u)
         \/ \E u \in Urls, s \in Servers : Vanish(u, s)
  BY Zenon DEF Next, TaskStep, FetchStep

\* Every variable has its type initially.
LEMMA TypeInit == Init => TypeOK
  BY FetchAssumption, VerdictsAssumption
     DEF Init, FetchInit, TypeOK, CachesOK, TasksOK, Labels, Verdicts, Servers, Answers

\* A task under way is about a document.
LEMMA HasUrl ==
  ASSUME TypeOK, NEW t \in Tasks, pc[t] \notin {"idle", "ended"}
  PROVE  url[t] \in Urls /\ Host(t) \in Hosts
  BY FetchAssumption DEF TypeOK, TasksOK, Host

\* A task that ends leaves no trace in its variables.
LEMMA EndTasks ==
  ASSUME TasksOK, NEW t \in Tasks, End(t),
         \/ attempt' = [attempt EXCEPT ![t] = 0]
         \/ attempt' = attempt /\ ~(attempt[t] > 0)
  PROVE  TasksOK'
<1> USE FetchAssumption, VerdictsAssumption DEF TasksOK, Labels, End, Goto
<1>1. /\ pc' \in [Tasks -> Labels] /\ url' \in [Tasks -> Urls \cup {NoUrl}]
      /\ got' \in [Tasks -> Answers \cup {"nothing", "bad"}]
      /\ kind' \in [Tasks -> {"none", "search", "play"}]
      /\ server' \in [Tasks -> 0..NumServers] /\ attempt' \in [Tasks -> 0..RetryAttempts]
  OBVIOUS
<1>2. pc'[t] = "ended" /\ url'[t] = NoUrl /\ ~(attempt'[t] > 0)
  OBVIOUS
<1>3. \A o \in Tasks \ {t} : /\ pc'[o] = pc[o] /\ url'[o] = url[o]
                            /\ got'[o] = got[o] /\ attempt'[o] = attempt[o]
  OBVIOUS
<1>4. QED
  BY <1>1, <1>2, <1>3

\* Every step keeps the types of the caches, the servers and the history.
LEMMA CachesStep ==
  ASSUME TypeOK, [Next]_vars
  PROVE  CachesOK'
<1> USE FetchAssumption, VerdictsAssumption
    DEF TypeOK, CachesOK, TasksOK, Asking, Verdicts, Servers, Goto, Return, End, releases
<1>1. ASSUME NEW t \in Tasks, FetchLookup(t), UNCHANGED verdictVars PROVE CachesOK'
  BY <1>1, HasUrl DEF FetchLookup, verdictVars
<1>2. ASSUME NEW t \in Tasks, FetchGate(t), UNCHANGED verdictVars PROVE CachesOK'
  BY <1>2, HasUrl DEF FetchGate, verdictVars
<1>3. ASSUME NEW t \in Tasks, Send(t), UNCHANGED verdictVars PROVE CachesOK'
  BY <1>3, HasUrl DEF Send, verdictVars
<1>4. ASSUME NEW t \in Tasks, Deliver(t), UNCHANGED verdictVars PROVE CachesOK'
  BY <1>4, HasUrl DEF Deliver, verdictVars
<1>5. ASSUME NEW t \in Tasks, Refuse(t), UNCHANGED verdictVars PROVE CachesOK'
  BY <1>5, HasUrl DEF Refuse, verdictVars
<1>6. ASSUME NEW t \in Tasks, Retry(t), UNCHANGED verdictVars PROVE CachesOK'
  BY <1>6, HasUrl DEF Retry, verdictVars
<1>7. ASSUME NEW t \in Tasks, NEW why \in Failures, GiveUp(t, why), UNCHANGED verdictVars PROVE CachesOK'
  BY <1>7, HasUrl DEF GiveUp, verdictVars
<1>8. ASSUME NEW t \in Tasks, SanityLookup(t) PROVE CachesOK'
  BY <1>8, HasUrl DEF SanityLookup
<1>9. ASSUME NEW t \in Tasks, SanityVerdict(t) PROVE CachesOK'
  BY <1>9, HasUrl DEF SanityVerdict
<1>10. ASSUME NEW t \in Tasks, AvailabilityLookup(t) PROVE CachesOK'
  BY <1>10, HasUrl DEF AvailabilityLookup
<1>11. ASSUME NEW t \in Tasks, AvailabilityGet(t) PROVE CachesOK'
  BY <1>11, HasUrl DEF AvailabilityGet
<1>12. ASSUME NEW t \in Tasks, AvailabilityCanary(t) PROVE CachesOK'
  BY <1>12, HasUrl DEF AvailabilityCanary
<1>13. ASSUME NEW t \in Tasks, AvailabilityVerdict(t) PROVE CachesOK'
  BY <1>13, HasUrl DEF AvailabilityVerdict
<1>14. ASSUME NEW t \in Tasks, PlayFetched(t) PROVE CachesOK'
  BY <1>14, HasUrl DEF PlayFetched
<1>15. ASSUME NEW t \in Tasks, SmokeTry(t) PROVE CachesOK'
  BY <1>15, HasUrl DEF SmokeTry
<1>16. ASSUME NEW t \in Tasks, Invalidate(t) PROVE CachesOK'
  BY <1>16, HasUrl DEF Invalidate
<1>17. ASSUME NEW t \in Tasks, Leave(t) PROVE CachesOK'
  BY <1>17, HasUrl DEF Leave
<1>18. ASSUME NEW t \in Tasks, NEW u \in Urls, Search(t, u) PROVE CachesOK'
  BY <1>18 DEF Search
<1>19. ASSUME NEW t \in Tasks, NEW u \in Urls, Play(t, u) PROVE CachesOK'
  BY <1>19 DEF Play
<1>20. ASSUME NEW h \in Hosts, CooldownEnds(h), UNCHANGED verdictVars PROVE CachesOK'
  BY <1>20 DEF CooldownEnds, verdictVars
<1>21. ASSUME NEW u \in Urls, BytesForget(u), UNCHANGED verdictVars PROVE CachesOK'
  BY <1>21 DEF BytesForget, verdictVars
<1>22. ASSUME NEW u \in Urls, SanityForget(u) PROVE CachesOK'
  BY <1>22 DEF SanityForget, fetchVars
<1>23. ASSUME NEW u \in Urls, AvailabilityForget(u) PROVE CachesOK'
  BY <1>23 DEF AvailabilityForget, fetchVars
<1>24. ASSUME NEW u \in Urls, NEW s \in Servers, Vanish(u, s) PROVE CachesOK'
  BY <1>24 DEF Vanish, fetchVars
<1>25. CASE UNCHANGED vars
  BY <1>25 DEF vars, fetchVars, verdictVars
<1>26. QED
  BY <1>1, <1>2, <1>3, <1>4, <1>5, <1>6, <1>7, <1>8, <1>9, <1>10, <1>11, <1>12, <1>13,
     <1>14, <1>15, <1>16, <1>17, <1>18, <1>19, <1>20, <1>21, <1>22, <1>23, <1>24,
     <1>25, Steps

\* Every step keeps the types of the tasks, and a document with those that run.
LEMMA TasksStep ==
  ASSUME TypeOK, [Next]_vars
  PROVE  TasksOK'
<1> USE FetchAssumption, VerdictsAssumption
    DEF TypeOK, TasksOK, CachesOK, Labels, Verdicts, Servers, Answers, Failures, Goto,
     Return, End, releases
<1>1. ASSUME NEW t \in Tasks, FetchLookup(t), UNCHANGED verdictVars PROVE TasksOK'
  <2>1. pc[t] \notin {"idle", "ended"} /\ url[t] \in Urls
    BY <1>1, HasUrl DEF FetchLookup, Labels
  <2>2. CASE url[t] \in bytes
    BY SMTT(30), <1>1, <2>1, <2>2 DEF FetchLookup, verdictVars
  <2>3. CASE url[t] \notin bytes
    BY SMTT(30), <1>1, <2>1, <2>3 DEF FetchLookup, verdictVars
  <2>4. QED
    BY <1>1, <2>2, <2>3 DEF FetchLookup
<1>2. ASSUME NEW t \in Tasks, FetchGate(t), UNCHANGED verdictVars PROVE TasksOK'
  <2>1. pc[t] \notin {"idle", "ended"} /\ url[t] \in Urls
    BY <1>2, HasUrl DEF FetchGate, Labels
  <2>2. CASE Host(t) \in throttled
    BY SMTT(30), <1>2, <2>1, <2>2 DEF FetchGate, verdictVars
  <2>3. CASE Host(t) \notin throttled
    BY SMTT(30), <1>2, <2>1, <2>3 DEF FetchGate, verdictVars
  <2>4. QED
    BY <1>2, <2>2, <2>3 DEF FetchGate
<1>3. ASSUME NEW t \in Tasks, Send(t), UNCHANGED verdictVars PROVE TasksOK'
  BY <1>3, HasUrl DEF Send, verdictVars
<1>4. ASSUME NEW t \in Tasks, Deliver(t), UNCHANGED verdictVars PROVE TasksOK'
  BY <1>4, HasUrl DEF Deliver, verdictVars
<1>5. ASSUME NEW t \in Tasks, Refuse(t), UNCHANGED verdictVars PROVE TasksOK'
  BY <1>5, HasUrl DEF Refuse, verdictVars
<1>6. ASSUME NEW t \in Tasks, Retry(t), UNCHANGED verdictVars PROVE TasksOK'
  BY <1>6, HasUrl DEF Retry, verdictVars
<1>7. ASSUME NEW t \in Tasks, NEW why \in Failures, GiveUp(t, why), UNCHANGED verdictVars PROVE TasksOK'
  BY <1>7, HasUrl DEF GiveUp, verdictVars
<1>8. ASSUME NEW t \in Tasks, SanityLookup(t) PROVE TasksOK'
  <2>1. pc[t] \notin {"idle", "ended"} /\ url[t] \in Urls
    BY <1>8, HasUrl DEF SanityLookup, Labels
  <2>2. CASE sanity[url[t]] = "ok"
    BY SMTT(30), <1>8, <2>1, <2>2 DEF SanityLookup
  <2>3. CASE sanity[url[t]] = "bad"
    BY EndTasks, <1>8, <2>1, <2>3 DEF SanityLookup
  <2>4. CASE sanity[url[t]] = "none"
    BY SMTT(30), <1>8, <2>1, <2>4 DEF SanityLookup
  <2>5. QED
    BY <1>8, <2>2, <2>3, <2>4 DEF SanityLookup
<1>9. ASSUME NEW t \in Tasks, SanityVerdict(t) PROVE TasksOK'
  <2>1. pc[t] \notin {"idle", "ended"} /\ url[t] \in Urls
    BY <1>9, HasUrl DEF SanityVerdict, Labels
  <2>2. CASE got[t] = "ok" /\ url[t] \in playable
    BY SMTT(30), <1>9, <2>1, <2>2 DEF SanityVerdict
  <2>3. CASE got[t] # "ok" \/ url[t] \notin playable
    BY EndTasks, <1>9, <2>1, <2>3 DEF SanityVerdict
  <2>4. QED
    BY <1>9, <2>2, <2>3 DEF SanityVerdict
<1>10. ASSUME NEW t \in Tasks, AvailabilityLookup(t) PROVE TasksOK'
  <2>1. pc[t] \notin {"idle", "ended"} /\ url[t] \in Urls
    BY <1>10, HasUrl DEF AvailabilityLookup, Labels
  <2>2. CASE available[url[t]] # "none"
    BY EndTasks, <1>10, <2>1, <2>2 DEF AvailabilityLookup
  <2>3. CASE available[url[t]] = "none"
    BY SMTT(30), <1>10, <2>1, <2>3 DEF AvailabilityLookup
  <2>4. QED
    BY <1>10, <2>2, <2>3 DEF AvailabilityLookup
<1>11. ASSUME NEW t \in Tasks, AvailabilityGet(t) PROVE TasksOK'
  <2>1. pc[t] \notin {"idle", "ended"} /\ url[t] \in Urls
    BY <1>11, HasUrl DEF AvailabilityGet, Labels
  <2>2. CASE Goto(t, "canary") /\ server' = [server EXCEPT ![t] = 1] /\ UNCHANGED got
    BY SMTT(30), <1>11, <2>1, <2>2 DEF AvailabilityGet
  <2>3. CASE Goto(t, "verdict") /\ got' = [got EXCEPT ![t] = "bad"] /\ UNCHANGED server
    BY SMTT(30), <1>11, <2>1, <2>3 DEF AvailabilityGet
  <2>4. QED
    BY <1>11, <2>2, <2>3 DEF AvailabilityGet
<1>12. ASSUME NEW t \in Tasks, AvailabilityCanary(t) PROVE TasksOK'
  BY <1>12, HasUrl DEF AvailabilityCanary
<1>13. ASSUME NEW t \in Tasks, AvailabilityVerdict(t) PROVE TasksOK'
  BY <1>13, HasUrl DEF AvailabilityVerdict
<1>14. ASSUME NEW t \in Tasks, PlayFetched(t) PROVE TasksOK'
  <2>1. pc[t] \notin {"idle", "ended"} /\ url[t] \in Urls
    BY <1>14, HasUrl DEF PlayFetched, Labels
  <2>2. CASE Goto(t, "smoke") /\ url' = url
    BY SMTT(30), <1>14, <2>1, <2>2 DEF PlayFetched
  <2>3. CASE End(t)
    BY EndTasks, <1>14, <2>1, <2>3 DEF PlayFetched
  <2>4. QED
    BY <1>14, <2>2, <2>3 DEF PlayFetched
<1>15. ASSUME NEW t \in Tasks, SmokeTry(t) PROVE TasksOK'
  <2>1. pc[t] \notin {"idle", "ended"} /\ url[t] \in Urls
    BY <1>15, HasUrl DEF SmokeTry, Labels
  <2>2. CASE End(t)
    BY EndTasks, <1>15, <2>1, <2>2 DEF SmokeTry
  <2>3. CASE pc' = pc
    BY SMTT(30), <1>15, <2>1, <2>3 DEF SmokeTry
  <2>4. CASE Goto(t, "dead") /\ UNCHANGED <<url, got, server, kind>>
    BY SMTT(30), <1>15, <2>1, <2>4 DEF SmokeTry
  <2>5. QED
    BY <1>15, <2>2, <2>3, <2>4 DEF SmokeTry
<1>16. ASSUME NEW t \in Tasks, Invalidate(t) PROVE TasksOK'
  BY <1>16, HasUrl DEF Invalidate
<1>17. ASSUME NEW t \in Tasks, Leave(t) PROVE TasksOK'
  BY <1>17, HasUrl DEF Leave
<1>18. ASSUME NEW t \in Tasks, NEW u \in Urls, Search(t, u) PROVE TasksOK'
  BY <1>18 DEF Search
<1>19. ASSUME NEW t \in Tasks, NEW u \in Urls, Play(t, u) PROVE TasksOK'
  BY <1>19 DEF Play
<1>20. ASSUME NEW h \in Hosts, CooldownEnds(h), UNCHANGED verdictVars PROVE TasksOK'
  BY <1>20 DEF CooldownEnds, verdictVars
<1>21. ASSUME NEW u \in Urls, BytesForget(u), UNCHANGED verdictVars PROVE TasksOK'
  BY <1>21 DEF BytesForget, verdictVars
<1>22. ASSUME NEW u \in Urls, SanityForget(u) PROVE TasksOK'
  BY <1>22 DEF SanityForget, fetchVars
<1>23. ASSUME NEW u \in Urls, AvailabilityForget(u) PROVE TasksOK'
  BY <1>23 DEF AvailabilityForget, fetchVars
<1>24. ASSUME NEW u \in Urls, NEW s \in Servers, Vanish(u, s) PROVE TasksOK'
  BY <1>24 DEF Vanish, fetchVars
<1>25. CASE UNCHANGED vars
  BY <1>25 DEF vars, fetchVars, verdictVars
<1>26. QED
  BY <1>1, <1>2, <1>3, <1>4, <1>5, <1>6, <1>7, <1>8, <1>9, <1>10, <1>11, <1>12, <1>13,
     <1>14, <1>15, <1>16, <1>17, <1>18, <1>19, <1>20, <1>21, <1>22, <1>23, <1>24,
     <1>25, Steps

\* Every step keeps the types.
LEMMA TypeStep ==
  ASSUME TypeOK, [Next]_vars
  PROVE  TypeOK'
  BY CachesStep, TasksStep DEF TypeOK

-----------------------------------------------------------------------------
(* The cooldown: whoever asks a host in cooldown was asking when it began. *)

EarlyAsk ==
  \A t \in Tasks : pc[t] \in {"send", "wait"} /\ Host(t) \in throttled => t \in early[Host(t)]

\* A task gets past the gate of a host that is not cooling down, and one that
\* begins a cooldown writes down who else is past it.
LEMMA EarlyAskStep ==
  ASSUME TypeOK, EarlyAsk, [Next]_vars
  PROVE  EarlyAsk'
<1> USE FetchAssumption, VerdictsAssumption
    DEF TypeOK, EarlyAsk, TasksOK, CachesOK, Host, Asking, Goto, Return, End, releases
<1>1. ASSUME NEW t \in Tasks, FetchLookup(t), UNCHANGED verdictVars PROVE EarlyAsk'
  BY <1>1, HasUrl DEF FetchLookup, verdictVars
<1>2. ASSUME NEW t \in Tasks, FetchGate(t), UNCHANGED verdictVars PROVE EarlyAsk'
  BY <1>2, HasUrl DEF FetchGate, verdictVars
<1>3. ASSUME NEW t \in Tasks, Send(t), UNCHANGED verdictVars PROVE EarlyAsk'
  BY <1>3, HasUrl DEF Send, verdictVars
<1>4. ASSUME NEW t \in Tasks, Deliver(t), UNCHANGED verdictVars PROVE EarlyAsk'
  BY <1>4, HasUrl DEF Deliver, verdictVars
<1>5. ASSUME NEW t \in Tasks, Refuse(t), UNCHANGED verdictVars PROVE EarlyAsk'
  BY <1>5, HasUrl DEF Refuse, verdictVars
<1>6. ASSUME NEW t \in Tasks, Retry(t), UNCHANGED verdictVars PROVE EarlyAsk'
  BY <1>6, HasUrl DEF Retry, verdictVars
<1>7. ASSUME NEW t \in Tasks, NEW why \in Failures, GiveUp(t, why), UNCHANGED verdictVars PROVE EarlyAsk'
  BY <1>7, HasUrl DEF GiveUp, verdictVars
<1>8. ASSUME NEW t \in Tasks, SanityLookup(t) PROVE EarlyAsk'
  BY <1>8, HasUrl DEF SanityLookup
<1>9. ASSUME NEW t \in Tasks, SanityVerdict(t) PROVE EarlyAsk'
  BY <1>9, HasUrl DEF SanityVerdict
<1>10. ASSUME NEW t \in Tasks, AvailabilityLookup(t) PROVE EarlyAsk'
  BY <1>10, HasUrl DEF AvailabilityLookup
<1>11. ASSUME NEW t \in Tasks, AvailabilityGet(t) PROVE EarlyAsk'
  BY <1>11, HasUrl DEF AvailabilityGet
<1>12. ASSUME NEW t \in Tasks, AvailabilityCanary(t) PROVE EarlyAsk'
  BY <1>12, HasUrl DEF AvailabilityCanary
<1>13. ASSUME NEW t \in Tasks, AvailabilityVerdict(t) PROVE EarlyAsk'
  BY <1>13, HasUrl DEF AvailabilityVerdict
<1>14. ASSUME NEW t \in Tasks, PlayFetched(t) PROVE EarlyAsk'
  BY <1>14, HasUrl DEF PlayFetched
<1>15. ASSUME NEW t \in Tasks, SmokeTry(t) PROVE EarlyAsk'
  BY <1>15, HasUrl DEF SmokeTry
<1>16. ASSUME NEW t \in Tasks, Invalidate(t) PROVE EarlyAsk'
  BY <1>16, HasUrl DEF Invalidate
<1>17. ASSUME NEW t \in Tasks, Leave(t) PROVE EarlyAsk'
  BY <1>17, HasUrl DEF Leave
<1>18. ASSUME NEW t \in Tasks, NEW u \in Urls, Search(t, u) PROVE EarlyAsk'
  BY <1>18 DEF Search
<1>19. ASSUME NEW t \in Tasks, NEW u \in Urls, Play(t, u) PROVE EarlyAsk'
  BY <1>19 DEF Play
<1>20. ASSUME NEW h \in Hosts, CooldownEnds(h), UNCHANGED verdictVars PROVE EarlyAsk'
  BY <1>20 DEF CooldownEnds, verdictVars
<1>21. ASSUME NEW u \in Urls, BytesForget(u), UNCHANGED verdictVars PROVE EarlyAsk'
  BY <1>21 DEF BytesForget, verdictVars
<1>22. ASSUME NEW u \in Urls, SanityForget(u) PROVE EarlyAsk'
  BY <1>22 DEF SanityForget, fetchVars
<1>23. ASSUME NEW u \in Urls, AvailabilityForget(u) PROVE EarlyAsk'
  BY <1>23 DEF AvailabilityForget, fetchVars
<1>24. ASSUME NEW u \in Urls, NEW s \in Servers, Vanish(u, s) PROVE EarlyAsk'
  BY <1>24 DEF Vanish, fetchVars
<1>25. CASE UNCHANGED vars
  BY <1>25 DEF vars, fetchVars, verdictVars
<1>26. QED
  BY <1>1, <1>2, <1>3, <1>4, <1>5, <1>6, <1>7, <1>8, <1>9, <1>10, <1>11, <1>12, <1>13,
     <1>14, <1>15, <1>16, <1>17, <1>18, <1>19, <1>20, <1>21, <1>22, <1>23, <1>24,
     <1>25, Steps

(* The byte cache: a document a task has fetched is there or was dropped. *)

FetchedIsKept ==
  /\ ListedIsFetched
  /\ \A t \in Tasks : pc[t] = "fetched" /\ got[t] = "ok" => url[t] \in bytes \cup forgotten

\* A document is cached before its verdict, and leaves the cache only to be
\* forgotten.
LEMMA FetchedIsKeptStep ==
  ASSUME TypeOK, FetchedIsKept, [Next]_vars
  PROVE  FetchedIsKept'
<1> USE FetchAssumption, VerdictsAssumption
    DEF TypeOK, FetchedIsKept, ListedIsFetched, TasksOK, CachesOK, Host, Goto, Return,
     End, releases
<1>1. ASSUME NEW t \in Tasks, FetchLookup(t), UNCHANGED verdictVars PROVE FetchedIsKept'
  BY <1>1, HasUrl DEF FetchLookup, verdictVars
<1>2. ASSUME NEW t \in Tasks, FetchGate(t), UNCHANGED verdictVars PROVE FetchedIsKept'
  BY <1>2, HasUrl DEF FetchGate, verdictVars
<1>3. ASSUME NEW t \in Tasks, Send(t), UNCHANGED verdictVars PROVE FetchedIsKept'
  BY <1>3, HasUrl DEF Send, verdictVars
<1>4. ASSUME NEW t \in Tasks, Deliver(t), UNCHANGED verdictVars PROVE FetchedIsKept'
  BY <1>4, HasUrl DEF Deliver, verdictVars
<1>5. ASSUME NEW t \in Tasks, Refuse(t), UNCHANGED verdictVars PROVE FetchedIsKept'
  BY <1>5, HasUrl DEF Refuse, verdictVars
<1>6. ASSUME NEW t \in Tasks, Retry(t), UNCHANGED verdictVars PROVE FetchedIsKept'
  BY <1>6, HasUrl DEF Retry, verdictVars
<1>7. ASSUME NEW t \in Tasks, NEW why \in Failures, GiveUp(t, why), UNCHANGED verdictVars PROVE FetchedIsKept'
  BY <1>7, HasUrl DEF GiveUp, verdictVars
<1>8. ASSUME NEW t \in Tasks, SanityLookup(t) PROVE FetchedIsKept'
  BY <1>8, HasUrl DEF SanityLookup
<1>9. ASSUME NEW t \in Tasks, SanityVerdict(t) PROVE FetchedIsKept'
  BY <1>9, HasUrl DEF SanityVerdict
<1>10. ASSUME NEW t \in Tasks, AvailabilityLookup(t) PROVE FetchedIsKept'
  BY <1>10, HasUrl DEF AvailabilityLookup
<1>11. ASSUME NEW t \in Tasks, AvailabilityGet(t) PROVE FetchedIsKept'
  BY <1>11, HasUrl DEF AvailabilityGet
<1>12. ASSUME NEW t \in Tasks, AvailabilityCanary(t) PROVE FetchedIsKept'
  BY <1>12, HasUrl DEF AvailabilityCanary
<1>13. ASSUME NEW t \in Tasks, AvailabilityVerdict(t) PROVE FetchedIsKept'
  BY <1>13, HasUrl DEF AvailabilityVerdict
<1>14. ASSUME NEW t \in Tasks, PlayFetched(t) PROVE FetchedIsKept'
  BY <1>14, HasUrl DEF PlayFetched
<1>15. ASSUME NEW t \in Tasks, SmokeTry(t) PROVE FetchedIsKept'
  BY <1>15, HasUrl DEF SmokeTry
<1>16. ASSUME NEW t \in Tasks, Invalidate(t) PROVE FetchedIsKept'
  BY <1>16, HasUrl DEF Invalidate
<1>17. ASSUME NEW t \in Tasks, Leave(t) PROVE FetchedIsKept'
  BY <1>17, HasUrl DEF Leave
<1>18. ASSUME NEW t \in Tasks, NEW u \in Urls, Search(t, u) PROVE FetchedIsKept'
  BY <1>18 DEF Search
<1>19. ASSUME NEW t \in Tasks, NEW u \in Urls, Play(t, u) PROVE FetchedIsKept'
  BY <1>19 DEF Play
<1>20. ASSUME NEW h \in Hosts, CooldownEnds(h), UNCHANGED verdictVars PROVE FetchedIsKept'
  BY <1>20 DEF CooldownEnds, verdictVars
<1>21. ASSUME NEW u \in Urls, BytesForget(u), UNCHANGED verdictVars PROVE FetchedIsKept'
  BY <1>21 DEF BytesForget, verdictVars
<1>22. ASSUME NEW u \in Urls, SanityForget(u) PROVE FetchedIsKept'
  BY <1>22 DEF SanityForget, fetchVars
<1>23. ASSUME NEW u \in Urls, AvailabilityForget(u) PROVE FetchedIsKept'
  BY <1>23 DEF AvailabilityForget, fetchVars
<1>24. ASSUME NEW u \in Urls, NEW s \in Servers, Vanish(u, s) PROVE FetchedIsKept'
  BY <1>24 DEF Vanish, fetchVars
<1>25. CASE UNCHANGED vars
  BY <1>25 DEF vars, fetchVars, verdictVars
<1>26. QED
  BY <1>1, <1>2, <1>3, <1>4, <1>5, <1>6, <1>7, <1>8, <1>9, <1>10, <1>11, <1>12, <1>13,
     <1>14, <1>15, <1>16, <1>17, <1>18, <1>19, <1>20, <1>21, <1>22, <1>23, <1>24,
     <1>25, Steps

(* Availability: a probe has found every server it is past to hold the      *)
(* release, and a server that holds it always did.                          *)

ProbedHolders ==
  /\ AvailableEverywhere
  /\ \A t \in Tasks :
       /\ pc[t] = "canary" => server[t] \in Servers /\ 1..server[t] - 1 \subseteq posted[url[t]]
       /\ pc[t] = "verdict" /\ got[t] = "ok" => posted[url[t]] = Servers

\* A task that ends has nothing left to prove.
LEMMA EndProbers ==
  ASSUME TasksOK, ProbedHolders, NEW t \in Tasks, End(t), posted' = posted,
         AvailableEverywhere'
  PROVE  ProbedHolders'
<1> USE DEF TasksOK, ProbedHolders, End, Goto, Servers
<1>1. pc'[t] = "ended"
  OBVIOUS
<1>2. \A o \in Tasks \ {t} : /\ pc'[o] = pc[o] /\ url'[o] = url[o]
                            /\ got'[o] = got[o] /\ server'[o] = server[o]
  OBVIOUS
<1>3. QED
  BY <1>1, <1>2

\* A probe goes on only from a server that holds the release.
LEMMA ProbedHoldersStep ==
  ASSUME TypeOK, ProbedHolders, [Next]_vars
  PROVE  ProbedHolders'
<1> USE FetchAssumption, VerdictsAssumption
    DEF TypeOK, ProbedHolders, AvailableEverywhere, TasksOK, CachesOK, Host, Servers,
     Goto, Return, End, releases
<1>1. ASSUME NEW t \in Tasks, FetchLookup(t), UNCHANGED verdictVars PROVE ProbedHolders'
  <2>1. pc[t] \notin {"idle", "ended"} /\ url[t] \in Urls
    BY <1>1, HasUrl DEF FetchLookup, Labels
  <2>2. CASE url[t] \in bytes
    BY SMTT(30), <1>1, <2>1, <2>2 DEF FetchLookup, verdictVars
  <2>3. CASE url[t] \notin bytes
    BY SMTT(30), <1>1, <2>1, <2>3 DEF FetchLookup, verdictVars
  <2>4. QED
    BY <1>1, <2>2, <2>3 DEF FetchLookup
<1>2. ASSUME NEW t \in Tasks, FetchGate(t), UNCHANGED verdictVars PROVE ProbedHolders'
  BY <1>2, HasUrl DEF FetchGate, verdictVars
<1>3. ASSUME NEW t \in Tasks, Send(t), UNCHANGED verdictVars PROVE ProbedHolders'
  BY <1>3, HasUrl DEF Send, verdictVars
<1>4. ASSUME NEW t \in Tasks, Deliver(t), UNCHANGED verdictVars PROVE ProbedHolders'
  BY <1>4, HasUrl DEF Deliver, verdictVars
<1>5. ASSUME NEW t \in Tasks, Refuse(t), UNCHANGED verdictVars PROVE ProbedHolders'
  BY <1>5, HasUrl DEF Refuse, verdictVars
<1>6. ASSUME NEW t \in Tasks, Retry(t), UNCHANGED verdictVars PROVE ProbedHolders'
  BY <1>6, HasUrl DEF Retry, verdictVars
<1>7. ASSUME NEW t \in Tasks, NEW why \in Failures, GiveUp(t, why), UNCHANGED verdictVars PROVE ProbedHolders'
  BY <1>7, HasUrl DEF GiveUp, verdictVars
<1>8. ASSUME NEW t \in Tasks, SanityLookup(t) PROVE ProbedHolders'
  <2>1. pc[t] \notin {"idle", "ended"} /\ url[t] \in Urls
    BY <1>8, HasUrl DEF SanityLookup, Labels
  <2>2. CASE sanity[url[t]] = "ok"
    BY SMTT(30), <1>8, <2>1, <2>2 DEF SanityLookup
  <2>3. CASE sanity[url[t]] = "bad"
    BY EndProbers, <1>8, <2>1, <2>3 DEF SanityLookup
  <2>4. CASE sanity[url[t]] = "none"
    BY SMTT(30), <1>8, <2>1, <2>4 DEF SanityLookup
  <2>5. QED
    BY <1>8, <2>2, <2>3, <2>4 DEF SanityLookup
<1>9. ASSUME NEW t \in Tasks, SanityVerdict(t) PROVE ProbedHolders'
  <2>1. pc[t] \notin {"idle", "ended"} /\ url[t] \in Urls
    BY <1>9, HasUrl DEF SanityVerdict, Labels
  <2>2. CASE got[t] = "ok" /\ url[t] \in playable
    BY SMTT(30), <1>9, <2>1, <2>2 DEF SanityVerdict
  <2>3. CASE got[t] # "ok" \/ url[t] \notin playable
    BY EndProbers, <1>9, <2>1, <2>3 DEF SanityVerdict
  <2>4. QED
    BY <1>9, <2>2, <2>3 DEF SanityVerdict
<1>10. ASSUME NEW t \in Tasks, AvailabilityLookup(t) PROVE ProbedHolders'
  <2>1. pc[t] \notin {"idle", "ended"} /\ url[t] \in Urls
    BY <1>10, HasUrl DEF AvailabilityLookup, Labels
  <2>2. CASE available[url[t]] # "none"
    BY EndProbers, <1>10, <2>1, <2>2 DEF AvailabilityLookup
  <2>3. CASE available[url[t]] = "none"
    BY SMTT(30), <1>10, <2>1, <2>3 DEF AvailabilityLookup
  <2>4. QED
    BY <1>10, <2>2, <2>3 DEF AvailabilityLookup
<1>11. ASSUME NEW t \in Tasks, AvailabilityGet(t) PROVE ProbedHolders'
  BY <1>11, HasUrl DEF AvailabilityGet
<1>12. ASSUME NEW t \in Tasks, AvailabilityCanary(t) PROVE ProbedHolders'
  <2>1. pc[t] \notin {"idle", "ended"} /\ url[t] \in Urls
    BY <1>12, HasUrl DEF AvailabilityCanary
  <2>2. CASE server[t] \in held[url[t]] /\ server[t] < NumServers /\ pc' = pc
    <3>1. server[t] \in posted[url[t]]
      BY <2>1, <2>2
    <3>2. server' = [server EXCEPT ![t] = @ + 1] /\ UNCHANGED <<pc, got, url, posted,
     available>>
      BY <1>12, <2>2 DEF AvailabilityCanary
    <3>3. server'[t] \in Servers /\ 1..server'[t] - 1 \subseteq posted[url[t]]
      BY <1>12, <2>2, <3>1, <3>2 DEF AvailabilityCanary
    <3>4. \A o \in Tasks \ {t} : server'[o] = server[o]
      BY <3>2
    <3>5. pc[t] = "canary"
      BY <1>12 DEF AvailabilityCanary
    <3>6. QED
      BY <3>2, <3>3, <3>4, <3>5
  <2>3. CASE /\ server[t] \in held[url[t]] /\ server[t] = NumServers
             /\ got' = [got EXCEPT ![t] = "ok"]
    <3>1. posted[url[t]] = Servers
      <4>1. server[t] \in posted[url[t]] /\ posted[url[t]] \subseteq Servers
        BY <2>1, <2>3
      <4>2. 1..NumServers - 1 \subseteq posted[url[t]]
        BY <1>12, <2>3 DEF AvailabilityCanary
      <4>3. ASSUME NEW s \in Servers PROVE s \in posted[url[t]]
        <5>1. s = NumServers \/ s \in 1..NumServers - 1
          OBVIOUS
        <5>2. QED
          BY <2>3, <4>1, <4>2, <5>1
      <4>4. QED
        BY <4>1, <4>3
    <3>2. pc'[t] = "verdict" /\ UNCHANGED <<posted, available, url, server>>
      BY <1>12, <2>1, <2>3 DEF AvailabilityCanary
    <3>3. \A o \in Tasks \ {t} : pc'[o] = pc[o] /\ got'[o] = got[o]
      BY <1>12, <2>1, <2>3 DEF AvailabilityCanary
    <3>4. QED
      BY <3>1, <3>2, <3>3
  <2>4. CASE Goto(t, "verdict") /\ got' = [got EXCEPT ![t] = "bad"]
    BY <1>12, <2>1, <2>4 DEF AvailabilityCanary
  <2>5. QED
    BY <1>12, <2>2, <2>3, <2>4 DEF AvailabilityCanary
<1>13. ASSUME NEW t \in Tasks, AvailabilityVerdict(t) PROVE ProbedHolders'
  BY <1>13, HasUrl DEF AvailabilityVerdict
<1>14. ASSUME NEW t \in Tasks, PlayFetched(t) PROVE ProbedHolders'
  <2>1. pc[t] \notin {"idle", "ended"} /\ url[t] \in Urls
    BY <1>14, HasUrl DEF PlayFetched, Labels
  <2>2. CASE Goto(t, "smoke") /\ url' = url
    BY SMTT(30), <1>14, <2>1, <2>2 DEF PlayFetched
  <2>3. CASE End(t)
    BY EndProbers, <1>14, <2>1, <2>3 DEF PlayFetched
  <2>4. QED
    BY <1>14, <2>2, <2>3 DEF PlayFetched
<1>15. ASSUME NEW t \in Tasks, SmokeTry(t) PROVE ProbedHolders'
  BY <1>15, HasUrl DEF SmokeTry
<1>16. ASSUME NEW t \in Tasks, Invalidate(t) PROVE ProbedHolders'
  BY <1>16, HasUrl DEF Invalidate
<1>17. ASSUME NEW t \in Tasks, Leave(t) PROVE ProbedHolders'
  BY <1>17, HasUrl DEF Leave
<1>18. ASSUME NEW t \in Tasks, NEW u \in Urls, Search(t, u) PROVE ProbedHolders'
  BY <1>18 DEF Search
<1>19. ASSUME NEW t \in Tasks, NEW u \in Urls, Play(t, u) PROVE ProbedHolders'
  BY <1>19 DEF Play
<1>20. ASSUME NEW h \in Hosts, CooldownEnds(h), UNCHANGED verdictVars PROVE ProbedHolders'
  BY <1>20 DEF CooldownEnds, verdictVars
<1>21. ASSUME NEW u \in Urls, BytesForget(u), UNCHANGED verdictVars PROVE ProbedHolders'
  BY <1>21 DEF BytesForget, verdictVars
<1>22. ASSUME NEW u \in Urls, SanityForget(u) PROVE ProbedHolders'
  BY <1>22 DEF SanityForget, fetchVars
<1>23. ASSUME NEW u \in Urls, AvailabilityForget(u) PROVE ProbedHolders'
  BY <1>23 DEF AvailabilityForget, fetchVars
<1>24. ASSUME NEW u \in Urls, NEW s \in Servers, Vanish(u, s) PROVE ProbedHolders'
  BY <1>24 DEF Vanish, fetchVars
<1>25. CASE UNCHANGED vars
  BY <1>25 DEF vars, fetchVars, verdictVars
<1>26. QED
  BY <1>1, <1>2, <1>3, <1>4, <1>5, <1>6, <1>7, <1>8, <1>9, <1>10, <1>11, <1>12, <1>13,
     <1>14, <1>15, <1>16, <1>17, <1>18, <1>19, <1>20, <1>21, <1>22, <1>23, <1>24,
     <1>25, Steps

(* Invalidation: once a release is found dead with no probe of it under way, *)
(* no probe of it can find it.                                               *)

BuriedForGood ==
  \A u \in buried :
    /\ held[u] = {} /\ available[u] # "ok"
    /\ \A t \in Tasks : pc[t] = "verdict" /\ url[t] = u => got[t] # "ok"

\* No server takes a release up again, so that every later probe misses.
LEMMA BuriedForGoodStep ==
  ASSUME TypeOK, BuriedForGood, [Next]_vars
  PROVE  BuriedForGood'
<1> USE FetchAssumption, VerdictsAssumption
    DEF TypeOK, BuriedForGood, Checking, TasksOK, CachesOK, Host, Goto, Return, End,
     releases
<1>1. ASSUME NEW t \in Tasks, FetchLookup(t), UNCHANGED verdictVars PROVE BuriedForGood'
  BY <1>1, HasUrl DEF FetchLookup, verdictVars
<1>2. ASSUME NEW t \in Tasks, FetchGate(t), UNCHANGED verdictVars PROVE BuriedForGood'
  BY <1>2, HasUrl DEF FetchGate, verdictVars
<1>3. ASSUME NEW t \in Tasks, Send(t), UNCHANGED verdictVars PROVE BuriedForGood'
  BY <1>3, HasUrl DEF Send, verdictVars
<1>4. ASSUME NEW t \in Tasks, Deliver(t), UNCHANGED verdictVars PROVE BuriedForGood'
  BY <1>4, HasUrl DEF Deliver, verdictVars
<1>5. ASSUME NEW t \in Tasks, Refuse(t), UNCHANGED verdictVars PROVE BuriedForGood'
  BY <1>5, HasUrl DEF Refuse, verdictVars
<1>6. ASSUME NEW t \in Tasks, Retry(t), UNCHANGED verdictVars PROVE BuriedForGood'
  BY <1>6, HasUrl DEF Retry, verdictVars
<1>7. ASSUME NEW t \in Tasks, NEW why \in Failures, GiveUp(t, why), UNCHANGED verdictVars PROVE BuriedForGood'
  BY <1>7, HasUrl DEF GiveUp, verdictVars
<1>8. ASSUME NEW t \in Tasks, SanityLookup(t) PROVE BuriedForGood'
  BY <1>8, HasUrl DEF SanityLookup
<1>9. ASSUME NEW t \in Tasks, SanityVerdict(t) PROVE BuriedForGood'
  BY <1>9, HasUrl DEF SanityVerdict
<1>10. ASSUME NEW t \in Tasks, AvailabilityLookup(t) PROVE BuriedForGood'
  BY <1>10, HasUrl DEF AvailabilityLookup
<1>11. ASSUME NEW t \in Tasks, AvailabilityGet(t) PROVE BuriedForGood'
  BY <1>11, HasUrl DEF AvailabilityGet
<1>12. ASSUME NEW t \in Tasks, AvailabilityCanary(t) PROVE BuriedForGood'
  BY <1>12, HasUrl DEF AvailabilityCanary
<1>13. ASSUME NEW t \in Tasks, AvailabilityVerdict(t) PROVE BuriedForGood'
  BY <1>13, HasUrl DEF AvailabilityVerdict
<1>14. ASSUME NEW t \in Tasks, PlayFetched(t) PROVE BuriedForGood'
  BY <1>14, HasUrl DEF PlayFetched
<1>15. ASSUME NEW t \in Tasks, SmokeTry(t) PROVE BuriedForGood'
  BY <1>15, HasUrl DEF SmokeTry
<1>16. ASSUME NEW t \in Tasks, Invalidate(t) PROVE BuriedForGood'
  BY <1>16, HasUrl DEF Invalidate
<1>17. ASSUME NEW t \in Tasks, Leave(t) PROVE BuriedForGood'
  BY <1>17, HasUrl DEF Leave
<1>18. ASSUME NEW t \in Tasks, NEW u \in Urls, Search(t, u) PROVE BuriedForGood'
  BY <1>18 DEF Search
<1>19. ASSUME NEW t \in Tasks, NEW u \in Urls, Play(t, u) PROVE BuriedForGood'
  BY <1>19 DEF Play
<1>20. ASSUME NEW h \in Hosts, CooldownEnds(h), UNCHANGED verdictVars PROVE BuriedForGood'
  BY <1>20 DEF CooldownEnds, verdictVars
<1>21. ASSUME NEW u \in Urls, BytesForget(u), UNCHANGED verdictVars PROVE BuriedForGood'
  BY <1>21 DEF BytesForget, verdictVars
<1>22. ASSUME NEW u \in Urls, SanityForget(u) PROVE BuriedForGood'
  BY <1>22 DEF SanityForget, fetchVars
<1>23. ASSUME NEW u \in Urls, AvailabilityForget(u) PROVE BuriedForGood'
  BY <1>23 DEF AvailabilityForget, fetchVars
<1>24. ASSUME NEW u \in Urls, NEW s \in Servers, Vanish(u, s) PROVE BuriedForGood'
  BY <1>24 DEF Vanish, fetchVars
<1>25. CASE UNCHANGED vars
  BY <1>25 DEF vars, fetchVars, verdictVars
<1>26. QED
  BY <1>1, <1>2, <1>3, <1>4, <1>5, <1>6, <1>7, <1>8, <1>9, <1>10, <1>11, <1>12, <1>13,
     <1>14, <1>15, <1>16, <1>17, <1>18, <1>19, <1>20, <1>21, <1>22, <1>23, <1>24,
     <1>25, Steps

-----------------------------------------------------------------------------
\* No variable ever leaves its type.
THEOREM TypeCorrect == Spec => []TypeOK
<1>1. QED
  BY TypeInit, TypeStep, PTL DEF Spec

\* While an indexer's host cools down, no fetch is begun there: whatever
\* fetch_nzb_xml still sends belongs to a fetch that was past the throttle when
\* the cooldown began.
THEOREM CooldownIsQuiet == Spec => QuietCooldown
<1>1. Init => EarlyAsk
  BY DEF Init, FetchInit, EarlyAsk
<1>2. ASSUME EarlyAsk, [Next]_vars
      PROVE  [\A t \in Tasks : pc[t] = "send" /\ pc'[t] = "wait" /\ Host(t) \in throttled
                => t \in early[Host(t)]]_vars
  BY <1>2 DEF EarlyAsk
<1>3. QED
  BY <1>1, <1>2, TypeInit, TypeStep, EarlyAskStep, PTL DEF Spec, QuietCooldown

\* A release with a good structure verdict is played from the document the
\* verdict was made of, as long as the byte cache keeps it.
THEOREM ListedStaysFetched == Spec => []ListedIsFetched
<1>1. Init => FetchedIsKept
  BY DEF Init, FetchInit, FetchedIsKept, ListedIsFetched
<1>2. FetchedIsKept => ListedIsFetched
  BY DEF FetchedIsKept
<1>3. QED
  BY <1>1, <1>2, TypeInit, TypeStep, FetchedIsKeptStep, PTL DEF Spec

\* A release is remembered as available only if every server held it,
\* whatever the servers lose and the caches forget while it is probed.
THEOREM AvailabilityIsStrict == Spec => []AvailableEverywhere
<1>1. Init => ProbedHolders
  BY DEF Init, FetchInit, ProbedHolders, AvailableEverywhere
<1>2. ProbedHolders => AvailableEverywhere
  BY DEF ProbedHolders
<1>3. QED
  BY <1>1, <1>2, TypeInit, TypeStep, ProbedHoldersStep, PTL DEF Spec

\* A release a preflight found on no server stays forgotten, if no probe was
\* under way when its verdict was dropped.
THEOREM DeadIsForgotten == Spec => []DeadStaysDead
<1>1. Init => BuriedForGood
  BY DEF Init, BuriedForGood
<1>2. BuriedForGood => DeadStaysDead
  BY DEF BuriedForGood, DeadStaysDead
<1>3. QED
  BY <1>1, <1>2, TypeInit, TypeStep, BuriedForGoodStep, PTL DEF Spec

-----------------------------------------------------------------------------
(* Sums.                                                                   *)

\* T[k] is the sum of the first k of n numbers.
Totals(T, n, f) ==
  T \in [0..n -> Nat] /\ T[0] = 0 /\ \A k \in 1..n : T[k] = T[k - 1] + f[k]

\* Sum adds up the elements of a sequence, as the fold it is.
LEMMA SumIsSum ==
  ASSUME NEW n \in Nat, NEW f \in [1..n -> Nat]
  PROVE  \E g : AddsUp(g, 1..n, f) /\ Sum(f) = g[1..n]
<1>1. DOMAIN f = 1..n /\ f \in [1..n -> Int] /\ IsFiniteSet(1..n)
  BY FS_Interval
<1>2. PICK g : AddsUp(g, DOMAIN f, f) /\ SumFunction(f) = g[DOMAIN f]
  BY <1>1, SumFunctionSums
<1>3. Sum(f) = SumFunction(f)
  BY DEF Sum, FoldSeq, FoldFunction, SumFunction, SumFunctionOnSet, FoldFunctionOnSet
<1> QED
  BY <1>1, <1>2, <1>3

\* One more number adds to the sum.
LEMMA SumStep ==
  ASSUME NEW g, NEW n \in Nat, NEW F, AddsUp(g, 1..n, F), NEW k \in 1..n
  PROVE  g[1..k] = F[k] + g[1..k - 1]
<1>1. PICK D, s : D = 1..n /\ s = 1..k
  OBVIOUS
<1>2. AddsUp(g, D, F)
  BY <1>1
<1>3. s \in SUBSET D /\ k \in s /\ s \ {k} = 1..k - 1
  BY <1>1
<1>4. g[s] = F[k] + g[s \ {k}]
  BY <1>2, <1>3, SumsAnyOrder
<1> QED
  BY <1>1, <1>3, <1>4

\* Sums are taken as running totals.
LEMMA RunningTotals ==
  ASSUME NEW n \in Nat, NEW f \in [1..n -> Nat]
  PROVE  \E T : /\ Totals(T, n, f)
                /\ \A k \in 0..n : \A h \in [1..k -> Nat] :
                     (\A j \in 1..k : h[j] = f[j]) => Sum(h) = T[k]
<1>1. PICK g : AddsUp(g, 1..n, f) /\ Sum(f) = g[1..n]
  BY SumIsSum
<1>2. g[{}] = 0 /\ \A s \in SUBSET (1..n) : g[s] \in Int
  BY <1>1, SumsTyped
<1> DEFINE T == [k \in 0..n |-> g[1..k]]
<1>3. T[0] = 0
  <2>1. 1..0 = {}
    OBVIOUS
  <2> QED
    BY <1>2, <2>1
<1>4. ASSUME NEW k \in 1..n PROVE T[k] = T[k - 1] + f[k] /\ f[k] \in Nat /\ T[k] \in Int
  <2>1. 1..k \in SUBSET (1..n) /\ k \in 1..k /\ (1..k) \ {k} = 1..k - 1
    OBVIOUS
  <2>2. g[1..k] = f[k] + g[1..k - 1]
    BY <1>1, SumStep
  <2>3. g[1..k] \in Int /\ 1..k - 1 \in SUBSET (1..n)
    BY <1>2, <2>1
  <2>4. g[1..k - 1] \in Int
    BY <1>2, <2>3
  <2>5. T[k] = g[1..k] /\ T[k - 1] = g[1..k - 1]
    OBVIOUS
  <2>6. f[k] \in Nat /\ g[1..k] = f[k] + g[1..k - 1]
    BY <2>1, <2>2
  <2>7. g[1..k] = g[1..k - 1] + f[k]
    BY <2>3, <2>4, <2>6
  <2> HIDE DEF T
  <2> QED
    BY <2>3, <2>5, <2>6, <2>7
<1>5. ASSUME NEW k \in 0..n, NEW h \in [1..k -> Nat], \A j \in 1..k : h[j] = f[j]
      PROVE  Sum(h) = T[k]
  <2>1. PICK e : AddsUp(e, 1..k, h) /\ Sum(h) = e[1..k]
    BY SumIsSum
  <2>2. 1..k \subseteq (1..k) \cap (1..n)
    OBVIOUS
  <2>3. \A x \in 1..k : h[x] = f[x]
    BY <1>5
  <2>4. e[1..k] = g[1..k]
    BY <1>1, <2>1, <2>2, <2>3, SumsAgree
  <2> QED
    BY <2>1, <2>4
<1>6. T = [k \in 0..n |-> T[k]]
  OBVIOUS
<1> HIDE DEF T
<1> DEFINE P == {k \in Nat : k <= n => T[k] \in Nat}
<1>7. 0 \in P
  BY <1>3
<1>8. ASSUME NEW k \in Nat, k \in P PROVE k + 1 \in P
  <2> SUFFICES ASSUME k + 1 <= n PROVE T[k + 1] \in Nat
    OBVIOUS
  <2>1. k + 1 \in 1..n /\ k + 1 - 1 = k /\ T[k] \in Nat
    BY <1>8
  <2>2. T[k + 1] = T[k + 1 - 1] + f[k + 1] /\ f[k + 1] \in Nat
    BY <1>4, <2>1
  <2> QED
    BY <2>1, <2>2
<1>9. Nat \subseteq P
  <2> HIDE DEF P
  <2> QED
    BY <1>7, <1>8, NatSetInduction
<1>10. T \in [0..n -> Nat]
  BY <1>6, <1>9
<1> QED
  BY <1>3, <1>4, <1>5, <1>10 DEF Totals

\* Totals never fall; over a stretch of zeros they stay; and they are unique.
LEMMA TotalsRise ==
  ASSUME NEW n \in Nat, NEW f \in [1..n -> Nat], NEW T, Totals(T, n, f)
  PROVE  \A a, b \in 0..n : a <= b =>
           /\ T[a] <= T[b]
           /\ (\A j \in a + 1..b : f[j] = 0) => T[a] = T[b]
<1> SUFFICES ASSUME NEW a \in 0..n
             PROVE  \A b \in 0..n : a <= b =>
                      /\ T[a] <= T[b]
                      /\ (\A j \in a + 1..b : f[j] = 0) => T[a] = T[b]
  OBVIOUS
<1>0. T \in [0..n -> Nat] /\ T[0] = 0 /\ \A k \in 1..n : T[k] = T[k - 1] + f[k]
  BY DEF Totals
<1> DEFINE P == {b \in Nat : a <= b /\ b <= n =>
                   /\ T[a] <= T[b]
                   /\ (\A j \in a + 1..b : f[j] = 0) => T[a] = T[b]}
<1>1. 0 \in P
  BY <1>0
<1>2. ASSUME NEW b \in Nat, b \in P PROVE b + 1 \in P
  <2> SUFFICES ASSUME a <= b + 1, b + 1 <= n
               PROVE  /\ T[a] <= T[b + 1]
                      /\ (\A j \in a + 1..b + 1 : f[j] = 0) => T[a] = T[b + 1]
    OBVIOUS
  <2>1. T[a] \in Nat /\ T[b + 1] \in Nat
    BY <1>0
  <2>2. CASE a = b + 1
    BY <2>1, <2>2
  <2>3. CASE a <= b
    <3>1. /\ T[a] <= T[b]
          /\ (\A j \in a + 1..b : f[j] = 0) => T[a] = T[b]
      BY <1>2, <2>3
    <3>2. b + 1 \in 1..n /\ b + 1 - 1 = b /\ T[b] \in Nat /\ f[b + 1] \in Nat
      BY <1>0
    <3>3. T[b + 1] = T[b] + f[b + 1]
      BY <1>0, <3>2
    <3>4. ASSUME \A j \in a + 1..b + 1 : f[j] = 0
          PROVE  f[b + 1] = 0 /\ \A j \in a + 1..b : f[j] = 0
      <4>1. b + 1 \in a + 1..b + 1 /\ \A j \in a + 1..b : j \in a + 1..b + 1
        BY <2>3
      <4> QED
        BY <3>4, <4>1
    <3> QED
      BY <2>1, <3>1, <3>2, <3>3, <3>4
  <2> QED
    BY <2>2, <2>3
<1>3. Nat \subseteq P
  <2> HIDE DEF P
  <2> QED
    BY <1>1, <1>2, NatSetInduction
<1> QED
  BY <1>3

-----------------------------------------------------------------------------
(* Parts in order, and where they lie.                                     *)

\* Parts are listed in some order, one for each number up to n.
Numbered(parts, n) ==
  /\ n \in Nat \ {0} /\ parts = [i \in 1..n |-> parts[i]]
  /\ \A i \in 1..n : parts[i].number \in Nat
  /\ {parts[i].number : i \in 1..n} = 1..n

\* place[j] is where the part with number j is listed.
InPlace(place, parts, n) ==
  /\ place \in [1..n -> 1..n]
  /\ \A j \in 1..n : parts[place[j]].number = j
  /\ \A i \in 1..n : parts[i].number \in 1..n /\ place[parts[i].number] = i

\* Each number is listed at one place.
LEMMA PlacesExist ==
  ASSUME NEW n, NEW parts, Numbered(parts, n)
  PROVE  \E place : InPlace(place, parts, n)
<1>0. n \in Nat \ {0} /\ \A i \in 1..n : parts[i].number \in 1..n
  BY DEF Numbered
<1>00. \A j \in 1..n : \E i \in 1..n : parts[i].number = j
  <2>1. \A j \in 1..n : j \in {parts[i].number : i \in 1..n}
    BY DEF Numbered
  <2> QED
    BY <2>1
<1> DEFINE f == [i \in 1..n |-> parts[i].number]
           place == [j \in 1..n |-> CHOOSE i \in 1..n : parts[i].number = j]
<1>1. f \in Surjection(1..n, 1..n)
  BY <1>0, <1>00 DEF Surjection
<1>2. f \in Injection(1..n, 1..n)
  <2>1. IsFiniteSet(1..n)
    BY <1>0, FS_Interval
  <2>2. PICK S : S = 1..n
    OBVIOUS
  <2>3. f \in Surjection(S, S) /\ IsFiniteSet(S) /\ Cardinality(S) = Cardinality(S)
    BY <1>1, <2>1, <2>2
  <2> HIDE DEF f
  <2>4. f \in Injection(S, S)
    BY <2>3, FS_SurjSameCardinalityImpliesInj
  <2> QED
    BY <2>2, <2>4
<1>3. \A i, j \in 1..n : parts[i].number = parts[j].number => i = j
  BY <1>2 DEF Injection, IsInjective
<1>4. \A j \in 1..n : place[j] \in 1..n /\ parts[place[j]].number = j
  BY <1>00
<1>5. place \in [1..n -> 1..n]
  BY <1>4
<1> HIDE DEF place
<1>6. \A i \in 1..n : place[parts[i].number] = i
  BY <1>0, <1>3, <1>4
<1> QED
  BY <1>0, <1>4, <1>5, <1>6 DEF InPlace

\* Sorted by number (sort_by_key of build_segment_refs), the parts are in their places.
LEMMA PartsByNumber ==
  ASSUME NEW n, NEW parts, Numbered(parts, n), NEW place, InPlace(place, parts, n)
  PROVE  ByNumber(parts) = [j \in 1..n |-> parts[place[j]]]
<1>0. /\ n \in Nat \ {0} /\ parts = [i \in 1..n |-> parts[i]]
      /\ \A i \in 1..n : parts[i].number \in Nat
  BY DEF Numbered
<1>1. /\ place \in [1..n -> 1..n]
      /\ \A j \in 1..n : parts[place[j]].number = j
      /\ \A i \in 1..n : parts[i].number \in 1..n /\ place[parts[i].number] = i
  BY DEF InPlace
<1> DEFINE X == Range(parts)
           key == [x \in X |-> x.number]
           u == [j \in 1..n |-> parts[place[j]]]
           order == {p \in X \X X : p[1].number < p[2].number}
<1>2. ByNumber(parts) = SortedBy(parts, order)
  BY DEF ByNumber, StableSorted
<1>3. DOMAIN parts = 1..n /\ \A i \in 1..n : parts[i] \in X
  BY <1>0 DEF Range
<1>4. parts \in Seq(X) /\ Len(parts) = n
  BY <1>0, <1>3
<1>5. \A x \in X : \E i \in 1..n : x = parts[i]
  BY <1>3 DEF Range
<1>6. key \in [X -> Int] /\ \A x \in X : key[x] = x.number
  BY <1>0, <1>5
<1>7. OrderOf(order, key, X)
  BY <1>6 DEF OrderOf
<1>8. Distinct(parts)
  BY <1>1, <1>4 DEF Distinct
<1>9. u \in Seq(X) /\ Len(u) = n /\ DOMAIN u = 1..n /\ \A j \in 1..n : u[j] = parts[place[j]]
  <2>1. \A j \in 1..n : parts[place[j]] \in X
    BY <1>1, <1>3
  <2> HIDE DEF X
  <2>2. u \in [1..n -> X] /\ \A j \in 1..n : u[j] = parts[place[j]]
    BY <2>1
  <2> HIDE DEF u
  <2>3. n \in Nat
    BY <1>0
  <2>4. u \in Seq(X)
    BY <2>2, <2>3
  <2>5. DOMAIN u = 1..n
    BY <2>2
  <2>6. Len(u) = n
    BY <2>3, <2>4, <2>5
  <2> QED
    BY <2>2, <2>4, <2>5, <2>6
<1>10. Range(u) = X
  <2>1. ASSUME NEW x \in X PROVE x \in Range(u)
    <3>1. PICK i \in 1..n : x = parts[i]
      BY <1>5
    <3>2. u[parts[i].number] = x /\ parts[i].number \in 1..n
      BY <1>1, <1>9, <3>1
    <3> HIDE DEF u
    <3> QED
      BY <1>9, <3>2 DEF Range
  <2>2. Range(u) \subseteq X
    <3> HIDE DEF u
    <3> QED
      BY <1>9, RangeOfSeq
  <2> QED
    BY <2>1, <2>2
<1>11. Climbs(u, key)
  <2>1. \A j \in 1..n : u[j] \in X /\ key[u[j]] = j
    BY <1>1, <1>3, <1>6, <1>9
  <2> HIDE DEF u, key
  <2> QED
    BY <1>9, <2>1 DEF Climbs
<1> HIDE DEF X, key, order, u
<1>12. SortedBy(parts, order) = u
  <2>1. Range(parts) = Range(u)
    BY <1>10 DEF X
  <2> QED
    BY <1>4, <1>7, <1>8, <1>9, <1>11, <2>1, SortedUnique
<1> QED
  BY <1>2, <1>12 DEF u

\* The lengths of n articles, of one stride but for the last, and len in all.
Regular(lens, n, stride, len) ==
  /\ n \in Nat \ {0} /\ stride \in Nat \ {0} /\ len \in Nat
  /\ lens \in [1..n -> Nat \ {0}]
  /\ \A i \in 1..n - 1 : lens[i] = stride
  /\ len = (n - 1) * stride + lens[n]

\* Where an article begins in its file, and how long the file is.
LEMMA RegularSums ==
  ASSUME NEW n, NEW stride, NEW len, NEW lens, Regular(lens, n, stride, len)
  PROVE  /\ \A i \in 1..n : Sum(SubSeq(lens, 1, i - 1)) = (i - 1) * stride
         /\ Sum(lens) = len
<1>0. /\ n \in Nat \ {0} /\ stride \in Nat \ {0} /\ len \in Nat
      /\ lens \in [1..n -> Nat] /\ \A i \in 1..n : lens[i] \in Nat
      /\ \A i \in 1..n - 1 : lens[i] = stride
      /\ len = (n - 1) * stride + lens[n]
  BY DEF Regular
<1>1. PICK T : /\ Totals(T, n, lens)
               /\ \A k \in 0..n : \A h \in [1..k -> Nat] :
                    (\A j \in 1..k : h[j] = lens[j]) => Sum(h) = T[k]
  BY <1>0, RunningTotals
<1>2. T \in [0..n -> Nat] /\ T[0] = 0 /\ \A k \in 1..n : T[k] = T[k - 1] + lens[k]
  BY <1>1 DEF Totals
<1> DEFINE P == {i \in Nat : i <= n - 1 => T[i] = i * stride}
<1>3. 0 \in P
  BY <1>0, <1>2
<1>4. ASSUME NEW i \in Nat, i \in P PROVE i + 1 \in P
  <2> SUFFICES ASSUME i + 1 <= n - 1 PROVE T[i + 1] = (i + 1) * stride
    OBVIOUS
  <2>1. i + 1 \in 1..n - 1 /\ i + 1 \in 1..n /\ i + 1 - 1 = i /\ T[i] = i * stride
    BY <1>0, <1>4
  <2>2. T[i + 1] = T[i] + lens[i + 1] /\ lens[i + 1] = stride
    <3>1. \A m \in 1..n - 1 : lens[m] = stride
      BY <1>0
    <3> QED
      BY <1>2, <2>1, <3>1
  <2>3. T[i + 1] = i * stride + stride
    BY <2>1, <2>2
  <2>4. (i + 1) * stride = i * stride + stride
    BY <1>0
  <2> QED
    BY <2>3, <2>4
<1>5. Nat \subseteq P
  <2> HIDE DEF P
  <2> QED
    BY <1>3, <1>4, NatSetInduction
<1>6. \A i \in 0..n - 1 : T[i] = i * stride
  BY <1>0, <1>5
<1>7. ASSUME NEW i \in 1..n PROVE Sum(SubSeq(lens, 1, i - 1)) = (i - 1) * stride
  <2>1. PICK h : h = SubSeq(lens, 1, i - 1)
    OBVIOUS
  <2>2. i - 1 \in 0..n /\ i - 1 \in 0..n - 1 /\ i - 1 \in Int /\ i - 1 \in Nat
    BY <1>0
  <2>3. \A j \in 1..i - 1 : lens[j] \in Nat
    BY <1>0
  <2>4. PICK S : S = Nat
    OBVIOUS
  <2>40. \A j \in 1..i - 1 : lens[j] \in S
    BY <2>3, <2>4
  <2>5. /\ h \in Seq(S) /\ Len(h) = IF 1 <= i - 1 THEN i - 1 - 1 + 1 ELSE 0
        /\ \A j \in 1..i - 1 - 1 + 1 : h[j] = lens[1 + j - 1]
    BY <2>1, <2>2, <2>40, SubSeqProperties
  <2>6. Len(h) = i - 1 /\ i - 1 - 1 + 1 = i - 1
    BY <2>2, <2>5
  <2>7. \A j \in 1..i - 1 : h[j] = lens[j]
    <3>1. \A j \in 1..i - 1 : 1 + j - 1 = j
      OBVIOUS
    <3> QED
      BY <2>5, <2>6, <3>1
  <2>8. h \in [1..i - 1 -> Nat]
    BY <2>4, <2>5, <2>6
  <2>9. Sum(h) = T[i - 1]
    BY <1>1, <2>2, <2>7, <2>8
  <2> QED
    BY <1>6, <2>1, <2>2, <2>9
<1>8. Sum(lens) = len
  <2>1. n \in 0..n /\ \A j \in 1..n : lens[j] = lens[j]
    BY <1>0
  <2>2. Sum(lens) = T[n]
    BY <1>0, <1>1, <2>1
  <2>3. T[n] = T[n - 1] + lens[n] /\ T[n - 1] = (n - 1) * stride
    BY <1>0, <1>2, <1>6
  <2> QED
    BY <1>0, <2>2, <2>3
<1> QED
  BY <1>7, <1>8


\* What a layout has of an article.
Segment == [offset : Nat, bytes : Nat \ {0}, article : Nat \X Nat]

\* A carrier is a file of the release, of so many parts of a stride, that lies
\* in the assembled stream, and of which so much is the video from some place on.
Carrier == [file : Nat, parts : Nat \ {0}, stride : Nat \ {0}, from : Nat, upto : Nat,
            video : Nat, length : Nat \ {0}, start : Nat]

\* The i-th segment of a carrier.
SegmentOf(x, c, i) ==
  /\ x \in Segment
  /\ x.offset = c.from + (i - 1) * c.stride
  /\ x.offset + x.bytes = IF i < c.parts THEN c.from + i * c.stride ELSE c.upto
  /\ x.article = <<c.file, i>>

\* The segments of a carrier.
PieceOf(s, c) ==
  /\ s \in Seq(Segment) /\ Len(s) = c.parts
  /\ \A i \in 1..c.parts : SegmentOf(s[i], c, i)

\* Segments without gap or overlap, from one place to another.
Contiguous(s, a, b) ==
  /\ s \in Seq(Segment) /\ Len(s) > 0 /\ a \in Nat /\ b \in Nat
  /\ s[1].offset = a
  /\ \A i \in 1..Len(s) - 1 : s[i + 1].offset = s[i].offset + s[i].bytes
  /\ s[Len(s)].offset + s[Len(s)].bytes = b

\* The carrier of file number k, with these articles.
Carries(c, k, n, stride, len) ==
  /\ c \in Carrier /\ c.file = k /\ c.parts = n /\ c.stride = stride
  /\ c.upto = c.from + len

\* Parts in their order, laid out with regular lengths, are such a piece.
LEMMA PieceLaid ==
  ASSUME NEW k \in Nat, NEW n, NEW stride, NEW len, NEW lens, Regular(lens, n, stride, len),
         NEW parts, DOMAIN parts = 1..n, \A i \in 1..n : parts[i].article = <<k, i>>,
         NEW c, Carries(c, k, n, stride, len)
  PROVE  PieceOf(LaidOut(parts, lens, c.from), c)
<1>0. /\ n \in Nat \ {0} /\ stride \in Nat \ {0} /\ len \in Nat
      /\ lens \in [1..n -> Nat \ {0}] /\ \A i \in 1..n : lens[i] \in Nat \ {0}
      /\ \A i \in 1..n - 1 : lens[i] = stride
      /\ len = (n - 1) * stride + lens[n]
  BY DEF Regular
<1>1. /\ c.file = k /\ c.parts = n /\ c.stride = stride /\ c.from \in Nat
      /\ c.upto = c.from + len
  BY DEF Carries, Carrier
<1>2. PICK s : s = LaidOut(parts, lens, c.from)
  OBVIOUS
<1>3. /\ DOMAIN s = 1..n
      /\ s = [i \in 1..n |-> s[i]]
      /\ \A i \in 1..n : s[i] = [offset  |-> c.from + Sum(SubSeq(lens, 1, i - 1)),
                                 bytes   |-> lens[i],
                                 article |-> parts[i].article]
  BY <1>2 DEF LaidOut
<1>4. \A i \in 1..n : Sum(SubSeq(lens, 1, i - 1)) = (i - 1) * stride
  BY RegularSums
<1>5. ASSUME NEW i \in 1..n PROVE SegmentOf(s[i], c, i)
  <2>1. PICK p : p = (i - 1) * stride
    OBVIOUS
  <2>2. p \in Nat
    BY <1>0, <2>1
  <2>3. s[i] = [offset |-> c.from + p, bytes |-> lens[i], article |-> <<k, i>>]
    BY <1>3, <1>4, <2>1
  <2>4. c.from + p \in Nat /\ i \in Nat
    BY <1>1, <2>2
  <2>5. /\ s[i] \in Segment /\ s[i].offset = c.from + p /\ s[i].bytes = lens[i]
        /\ s[i].article = <<k, i>>
    BY <1>0, <2>3, <2>4 DEF Segment
  <2>6. c.from + p + lens[i] = IF i < n THEN c.from + i * stride ELSE c.from + len
    <3>1. CASE i < n
      <4>1. lens[i] = stride /\ i * stride = (i - 1) * stride + stride
        BY <1>0, <3>1
      <4> QED
        BY <1>0, <1>1, <2>1, <2>2, <3>1, <4>1
    <3>2. CASE i = n
      BY <1>0, <1>1, <2>1, <2>2, <3>2
    <3> QED
      BY <1>0, <3>1, <3>2
  <2> QED
    BY <1>1, <2>1, <2>5, <2>6 DEF SegmentOf
<1>6. s \in Seq(Segment) /\ Len(s) = n
  <2>1. s \in [1..n -> Segment]
    BY <1>3, <1>5 DEF SegmentOf
  <2> QED
    BY <1>0, <2>1, FunctionIsSeq
<1> QED
  BY <1>1, <1>2, <1>5, <1>6 DEF PieceOf

\* They lie without a gap in what the carrier takes of the stream.
LEMMA PieceContiguous ==
  ASSUME NEW c \in Carrier, NEW s, PieceOf(s, c)
  PROVE  /\ Contiguous(s, c.from, c.upto)
         /\ \A x \in Range(s) : \E i \in 1..c.parts : SegmentOf(x, c, i)
<1>1. PICK n : n = c.parts
  OBVIOUS
<1>2. n \in Nat \ {0} /\ c.stride \in Nat /\ c.from \in Nat /\ c.upto \in Nat
  BY <1>1 DEF Carrier
<1>3. s \in Seq(Segment) /\ Len(s) = n /\ \A i \in 1..n : SegmentOf(s[i], c, i)
  BY <1>1 DEF PieceOf
<1>4. \A i \in 1..n :
        /\ s[i].offset = c.from + (i - 1) * c.stride
        /\ s[i].offset + s[i].bytes = IF i < n THEN c.from + i * c.stride ELSE c.upto
  BY <1>1, <1>3 DEF SegmentOf
<1>5. s[1].offset = c.from
  BY <1>2, <1>4
<1>6. s[n].offset + s[n].bytes = c.upto
  BY <1>2, <1>4
<1>7. ASSUME NEW i \in 1..n - 1 PROVE s[i + 1].offset = s[i].offset + s[i].bytes
  <2>1. i \in 1..n /\ i + 1 \in 1..n /\ i < n /\ i + 1 - 1 = i
    BY <1>2
  <2>2. s[i + 1].offset = c.from + (i + 1 - 1) * c.stride
    BY <1>4, <2>1
  <2>3. s[i].offset + s[i].bytes = c.from + i * c.stride
    BY <1>4, <2>1
  <2> QED
    BY <2>1, <2>2, <2>3
<1>8. \A x \in Range(s) : \E i \in 1..n : SegmentOf(x, c, i)
  <2> SUFFICES ASSUME NEW x \in Range(s) PROVE \E i \in 1..n : SegmentOf(x, c, i)
    OBVIOUS
  <2>1. PICK i \in 1..n : s[i] = x
    BY <1>3, InRange
  <2> QED
    BY <1>3, <2>1
<1>9. Contiguous(s, c.from, c.upto)
  <2>1. s \in Seq(Segment) /\ Len(s) > 0 /\ c.from \in Nat /\ c.upto \in Nat
    BY <1>2, <1>3
  <2>2. s[Len(s)].offset + s[Len(s)].bytes = c.upto
    BY <1>3, <1>6
  <2>3. \A i \in 1..Len(s) - 1 : s[i + 1].offset = s[i].offset + s[i].bytes
    BY <1>3, <1>7
  <2> QED
    BY <1>5, <2>1, <2>2, <2>3 DEF Contiguous
<1> QED
  BY <1>1, <1>8, <1>9

\* Segments without a gap are in order.
LEMMA ContiguousOrder ==
  ASSUME NEW s, NEW a, NEW b, Contiguous(s, a, b)
  PROVE  /\ \A i \in 1..Len(s) : /\ s[i].offset \in Nat /\ s[i].bytes \in Nat \ {0}
                                 /\ a <= s[i].offset /\ s[i].offset + s[i].bytes <= b
         /\ \A i, j \in 1..Len(s) : i < j => s[i].offset + s[i].bytes <= s[j].offset
         /\ a < b
<1>1. PICK n : n = Len(s)
  OBVIOUS
<1>2. /\ n \in Nat /\ n > 0 /\ a \in Nat /\ b \in Nat /\ 1 \in 1..n /\ n \in 1..n
      /\ s \in Seq(Segment) /\ s[1].offset = a /\ s[n].offset + s[n].bytes = b
      /\ \A i \in 1..n - 1 : s[i + 1].offset = s[i].offset + s[i].bytes
  BY <1>1 DEF Contiguous
<1>3. \A i \in 1..n : s[i].offset \in Nat /\ s[i].bytes \in Nat \ {0}
  <2>1. \A i \in 1..n : s[i] \in Segment
    BY <1>1, <1>2
  <2> QED
    BY <2>1 DEF Segment
<1>4. PICK x, y : x = [i \in 1..n |-> s[i].offset] /\ y = [i \in 1..n |-> s[i].offset + s[i].bytes]
  OBVIOUS
<1>5. /\ \A i \in 1..n : x[i] = s[i].offset /\ y[i] = s[i].offset + s[i].bytes
      /\ \A i \in 1..n : x[i] \in Nat /\ y[i] \in Nat /\ x[i] < y[i] /\ x[i] <= y[i]
  BY <1>3, <1>4
<1>6. \A i \in 1..n - 1 : x[i + 1] = y[i]
  BY <1>2, <1>5
<1>7. \A i, j \in 1..n : i < j => y[i] <= x[j]
  BY <1>2, <1>5, <1>6, StepsOrder
<1>8. ASSUME NEW i \in 1..n PROVE a <= x[i] /\ y[i] <= b
  <2>1. x[1] = a /\ y[n] = b
    BY <1>2, <1>5
  <2>2. i = 1 \/ y[1] <= x[i]
    BY <1>2, <1>7
  <2>3. i = n \/ y[i] <= x[n]
    BY <1>2, <1>7
  <2>4. /\ x[1] \in Nat /\ y[1] \in Nat /\ x[n] \in Nat /\ y[n] \in Nat /\ x[i] \in Nat
        /\ y[i] \in Nat /\ x[1] < y[1] /\ x[n] < y[n]
    BY <1>2, <1>5
  <2> QED
    BY <2>1, <2>2, <2>3, <2>4
<1>9. a < b
  BY <1>2, <1>3, <1>5, <1>8
<1> QED
  BY <1>1, <1>3, <1>5, <1>7, <1>8, <1>9

\* Two stretches that meet are one.
LEMMA ContiguousConcat ==
  ASSUME NEW s, NEW t, NEW a, NEW b, NEW c, Contiguous(s, a, b), Contiguous(t, b, c)
  PROVE  Contiguous(s \o t, a, c)
<1>1. PICK n, m, u : n = Len(s) /\ m = Len(t) /\ u = s \o t
  OBVIOUS
<1>2. /\ n \in Nat /\ n > 0 /\ s \in Seq(Segment) /\ a \in Nat /\ b \in Nat
      /\ s[1].offset = a /\ s[n].offset + s[n].bytes = b
      /\ \A i \in 1..n - 1 : s[i + 1].offset = s[i].offset + s[i].bytes
      /\ m \in Nat /\ m > 0 /\ t \in Seq(Segment) /\ c \in Nat
      /\ t[1].offset = b /\ t[m].offset + t[m].bytes = c
      /\ \A i \in 1..m - 1 : t[i + 1].offset = t[i].offset + t[i].bytes
  BY <1>1 DEF Contiguous
<1>3. u \in Seq(Segment) /\ Len(u) = n + m
  BY <1>1, <1>2, ConcatProperties
<1>4. \A i \in 1..n + m : u[i] = IF i <= n THEN s[i] ELSE t[i - n]
  BY <1>1, <1>2, ConcatProperties
<1>5. u[1].offset = a /\ u[n + m].offset + u[n + m].bytes = c
  <2>1. PICK q : q = n + m
    OBVIOUS
  <2>2. 1 \in 1..q /\ 1 <= n /\ q \in 1..q /\ ~ (q <= n) /\ q - n = m
    BY <1>2, <2>1
  <2>3. u[1] = s[1]
    BY <1>4, <2>1, <2>2
  <2>4. u[q] = t[q - n]
    BY <1>4, <2>1, <2>2
  <2> QED
    BY <1>2, <2>1, <2>2, <2>3, <2>4
<1>6. ASSUME NEW i \in 1..n + m - 1 PROVE u[i + 1].offset = u[i].offset + u[i].bytes
  <2>1. CASE i < n
    <3>1. i \in 1..n - 1 /\ u[i] = s[i] /\ u[i + 1] = s[i + 1]
      BY <1>2, <1>4, <2>1
    <3> QED
      BY <1>2, <3>1
  <2>2. CASE i = n
    <3>1. u[i] = s[n] /\ u[i + 1] = t[1]
      <4>1. i + 1 \in 1..n + m /\ ~ (i + 1 <= n) /\ i + 1 - n = 1 /\ i \in 1..n + m /\ i <= n
        BY <1>2, <2>2
      <4> QED
        BY <1>4, <2>2, <4>1
    <3> QED
      BY <1>2, <3>1
  <2>3. CASE i > n
    <3>1. i - n \in 1..m - 1 /\ u[i] = t[i - n] /\ u[i + 1] = t[i - n + 1]
      <4>1. i + 1 - n = i - n + 1 /\ i \in 1..n + m /\ i + 1 \in 1..n + m /\ ~ (i <= n)
            /\ ~ (i + 1 <= n)
        BY <1>2, <2>3
      <4> QED
        BY <1>2, <1>4, <2>3, <4>1
    <3> QED
      BY <1>2, <3>1
  <2> QED
    BY <1>2, <2>1, <2>2, <2>3
<1>7. n + m > 0
  BY <1>2
<1> QED
  BY <1>1, <1>2, <1>3, <1>5, <1>6, <1>7 DEF Contiguous

\* So are such stretches, flattened, if each begins where the one before ends.
LEMMA FlattenContiguous ==
  ASSUME NEW m \in Nat \ {0}, NEW ss \in Seq(Seq(Segment)), Len(ss) = m, NEW V,
         \A k \in 1..m : Contiguous(ss[k], V[k - 1], V[k])
  PROVE  Contiguous(FlattenSeq(ss), V[0], V[m])
<1>1. PICK w : Flattening(w, ss, Segment)
  BY FlattenRuns
<1>2. /\ w[0] = <<>> /\ FlattenSeq(ss) = w[m]
      /\ \A k \in 1..m : w[k] = w[k - 1] \o ss[k]
  BY <1>1 DEF Flattening
<1> DEFINE P == {k \in Nat : k + 1 <= m => Contiguous(w[k + 1], V[0], V[k + 1])}
<1>3. 0 \in P
  <2>1. 1 \in 1..m /\ 1 - 1 = 0 /\ 0 + 1 = 1
    OBVIOUS
  <2>2. w[1] = <<>> \o ss[1]
    BY <1>2, <2>1
  <2>3. ss[1] \in Seq(Segment)
    BY <2>1
  <2>4. w[1] = ss[1]
    BY <2>2, <2>3, ConcatEmptySeq
  <2>5. Contiguous(ss[1], V[0], V[1])
    BY <2>1
  <2> QED
    BY <2>1, <2>4, <2>5
<1>4. ASSUME NEW k \in Nat, k \in P PROVE k + 1 \in P
  <2> SUFFICES ASSUME k + 1 + 1 <= m PROVE Contiguous(w[k + 1 + 1], V[0], V[k + 1 + 1])
    OBVIOUS
  <2>1. PICK l, q : l = k + 1 /\ q = l + 1
    OBVIOUS
  <2>2. q \in 1..m /\ q - 1 = l /\ k + 1 <= m
    BY <2>1
  <2>3. Contiguous(w[l], V[0], V[l])
    BY <1>4, <2>1, <2>2
  <2>4. w[q] = w[q - 1] \o ss[q]
    BY <1>2, <2>2
  <2>5. Contiguous(ss[q], V[q - 1], V[q])
    BY <2>2
  <2>6. Contiguous(w[q], V[0], V[q])
    BY <2>2, <2>3, <2>4, <2>5, ContiguousConcat
  <2> QED
    BY <2>1, <2>6
<1>5. Nat \subseteq P
  <2> HIDE DEF P
  <2> QED
    BY <1>3, <1>4, NatSetInduction
<1>6. PICK k \in Nat : k + 1 = m
  <2>1. m - 1 \in Nat /\ m - 1 + 1 = m
    OBVIOUS
  <2> QED
    BY <2>1
<1>7. Contiguous(w[k + 1], V[0], V[k + 1])
  BY <1>5, <1>6
<1> QED
  BY <1>2, <1>6, <1>7

-----------------------------------------------------------------------------
(* Carriers: what a layout is made of.                                     *)

\* A segment that lies in what a carrier takes of the assembled stream.
HeldBy(x, c) ==
  /\ x \in Segment /\ c.from <= x.offset /\ x.offset + x.bytes <= c.upto
  /\ \E j \in 1..c.parts : /\ x.article = <<c.file, j>>
                           /\ x.offset = c.from + (j - 1) * c.stride

\* The segments of a carrier lie in it.
LEMMA PieceHeld ==
  ASSUME NEW c \in Carrier, NEW s, PieceOf(s, c)
  PROVE  Contiguous(s, c.from, c.upto) /\ \A x \in Range(s) : HeldBy(x, c)
<1>1. /\ Contiguous(s, c.from, c.upto)
      /\ \A x \in Range(s) : \E i \in 1..c.parts : SegmentOf(x, c, i)
  BY PieceContiguous
<1>2. s \in Seq(Segment)
  BY DEF PieceOf
<1>3. ASSUME NEW x \in Range(s) PROVE HeldBy(x, c)
  <2>1. PICK i \in 1..c.parts : SegmentOf(x, c, i)
    BY <1>1
  <2>2. PICK j \in 1..Len(s) : s[j] = x
    BY <1>2, InRange
  <2>3. c.from <= x.offset /\ x.offset + x.bytes <= c.upto
    BY <1>1, <2>2, ContiguousOrder
  <2> QED
    BY <2>1, <2>3 DEF HeldBy, SegmentOf
<1> QED
  BY <1>1, <1>3

\* The carriers of a video, end to end in the assembled stream and in the video.
Planned(C, m) ==
  /\ m \in Nat \ {0} /\ C \in [1..m -> Carrier]
  /\ C[1].from = 0 /\ C[1].video = 0
  /\ \A k \in 1..m : C[k].start + C[k].length <= C[k].upto - C[k].from
  /\ \A k \in 1..m - 1 : /\ C[k + 1].from = C[k].upto
                         /\ C[k + 1].video = C[k].video + C[k].length

\* The chunks of these carriers.
ChunksOf(C, m) ==
  [k \in 1..m |-> [video |-> C[k].video, length |-> C[k].length,
                   assembled |-> C[k].from + C[k].start]]

\* The layout of these carriers.
LaysOut(lay, C, m) ==
  /\ Planned(C, m)
  /\ Contiguous(lay.segments, 0, C[m].upto)
  /\ \A x \in Range(lay.segments) : \E k \in 1..m : HeldBy(x, C[k])
  /\ lay.chunks = ChunksOf(C, m)

\* The segments of all carriers are without a gap, and each lies in one of them.
LEMMA FromPieces ==
  ASSUME NEW C, NEW m, Planned(C, m), NEW ss \in Seq(Seq(Segment)), Len(ss) = m,
         \A k \in 1..m : PieceOf(ss[k], C[k])
  PROVE  /\ Contiguous(FlattenSeq(ss), 0, C[m].upto)
         /\ \A x \in Range(FlattenSeq(ss)) : \E k \in 1..m : HeldBy(x, C[k])
<1>1. /\ m \in Nat \ {0} /\ \A k \in 1..m : C[k] \in Carrier
      /\ C[1].from = 0 /\ \A k \in 1..m - 1 : C[k + 1].from = C[k].upto
  BY DEF Planned
<1>2. PICK V : V = [k \in 0..m |-> IF k = 0 THEN 0 ELSE C[k].upto]
  OBVIOUS
<1>3. V[0] = 0 /\ V[m] = C[m].upto
  BY <1>1, <1>2
<1>4. \A k \in 1..m : V[k] = C[k].upto /\ V[k - 1] = C[k].from
  <2> SUFFICES ASSUME NEW k \in 1..m PROVE V[k] = C[k].upto /\ V[k - 1] = C[k].from
    OBVIOUS
  <2>1. V[k] = C[k].upto
    BY <1>2
  <2>2. CASE k = 1
    BY <1>1, <1>3, <2>1, <2>2
  <2>3. CASE k # 1
    <3>1. PICK l : l = k - 1
      OBVIOUS
    <3>2. l \in 1..m - 1 /\ l \in 0..m /\ l # 0 /\ l + 1 = k
      BY <1>1, <2>3, <3>1
    <3>3. V[l] = C[l].upto
      BY <1>2, <3>2
    <3>4. C[l + 1].from = C[l].upto
      BY <1>1, <3>2
    <3> QED
      BY <2>1, <3>1, <3>2, <3>3, <3>4
  <2> QED
    BY <2>2, <2>3
<1>5. \A k \in 1..m : /\ Contiguous(ss[k], C[k].from, C[k].upto)
                      /\ \A x \in Range(ss[k]) : HeldBy(x, C[k])
  BY <1>1, PieceHeld
<1>6. Contiguous(FlattenSeq(ss), V[0], V[m])
  <2>1. \A k \in 1..m : Contiguous(ss[k], V[k - 1], V[k])
    BY <1>4, <1>5
  <2> QED
    BY <1>1, <2>1, FlattenContiguous
<1>7. ASSUME NEW x \in Range(FlattenSeq(ss)) PROVE \E k \in 1..m : HeldBy(x, C[k])
  <2>1. PICK k \in 1..m : x \in Range(ss[k])
    BY FlattenRange
  <2> QED
    BY <1>5, <2>1
<1> QED
  BY <1>3, <1>6, <1>7

\* The carriers are in order in the stream and in the video.
LEMMA PlannedOrder ==
  ASSUME NEW C, NEW m, Planned(C, m)
  PROVE  /\ \A k \in 1..m :
              /\ C[k].from \in Nat /\ C[k].upto \in Nat /\ C[k].video \in Nat
              /\ C[k].start \in Nat /\ C[k].length \in Nat \ {0}
              /\ C[k].from + C[k].start + C[k].length <= C[k].upto
         /\ \A k, l \in 1..m : k < l => /\ C[k].upto <= C[l].from
                                        /\ C[k].video + C[k].length <= C[l].video
<1>1. /\ m \in Nat /\ \A k \in 1..m : C[k] \in Carrier
      /\ \A k \in 1..m : C[k].start + C[k].length <= C[k].upto - C[k].from
      /\ \A k \in 1..m - 1 : C[k + 1].from = C[k].upto /\ C[k + 1].video = C[k].video + C[k].length
  BY DEF Planned
<1>2. \A k \in 1..m : /\ C[k].from \in Nat /\ C[k].upto \in Nat /\ C[k].video \in Nat
                      /\ C[k].start \in Nat /\ C[k].length \in Nat \ {0}
  BY <1>1 DEF Carrier
<1>3. \A k \in 1..m : C[k].from + C[k].start + C[k].length <= C[k].upto
  BY <1>1, <1>2
<1>4. PICK a, b, x, y : /\ a = [k \in 1..m |-> C[k].from] /\ b = [k \in 1..m |-> C[k].upto]
                        /\ x = [k \in 1..m |-> C[k].video]
                        /\ y = [k \in 1..m |-> C[k].video + C[k].length]
  OBVIOUS
<1>5. \A k \in 1..m : /\ a[k] = C[k].from /\ b[k] = C[k].upto
                      /\ x[k] = C[k].video /\ y[k] = C[k].video + C[k].length
  BY <1>4
<1>6. \A k \in 1..m : a[k] \in Nat /\ b[k] \in Nat /\ a[k] <= b[k]
  BY <1>2, <1>3, <1>5
<1>7. \A k \in 1..m : x[k] \in Nat /\ y[k] \in Nat /\ x[k] <= y[k]
  BY <1>2, <1>5
<1>8. \A k \in 1..m - 1 : k \in 1..m /\ k + 1 \in 1..m
  BY <1>1
<1>9. \A k \in 1..m - 1 : a[k + 1] = b[k] /\ x[k + 1] = y[k]
  BY <1>1, <1>5, <1>8
<1>10. \A k, l \in 1..m : k < l => b[k] <= a[l]
  BY <1>1, <1>6, <1>9, StepsOrder
<1>11. \A k, l \in 1..m : k < l => y[k] <= x[l]
  BY <1>1, <1>7, <1>9, StepsOrder
<1> QED
  BY <1>2, <1>3, <1>5, <1>10, <1>11

\* Such a layout is sound,
LEMMA LaidOutSound ==
  ASSUME NEW lay, NEW C, NEW m, LaysOut(lay, C, m)
  PROVE  Sound(lay.segments, lay.chunks)
<1>1. PICK segs, chks : segs = lay.segments /\ chks = lay.chunks
  OBVIOUS
<1>2. /\ Planned(C, m) /\ Contiguous(segs, 0, C[m].upto)
      /\ \A x \in Range(segs) : \E k \in 1..m : HeldBy(x, C[k])
      /\ chks = ChunksOf(C, m)
  BY <1>1 DEF LaysOut
<1>3. PICK n : n = Len(segs)
  OBVIOUS
<1>4. /\ n \in Nat /\ n > 0 /\ segs \in Seq(Segment) /\ DOMAIN segs = 1..n
      /\ segs[1].offset = 0 /\ segs[n].offset + segs[n].bytes = C[m].upto
      /\ \A i \in 1..n - 1 : segs[i + 1].offset = segs[i].offset + segs[i].bytes
  BY <1>2, <1>3 DEF Contiguous
<1>5. \A i \in 1..n : segs[i].offset \in Nat /\ segs[i].bytes \in Nat \ {0}
  BY <1>2, <1>3, ContiguousOrder
<1>6. /\ m \in Nat \ {0} /\ C[1].video = 0
      /\ \A k \in 1..m - 1 : C[k + 1].from = C[k].upto /\ C[k + 1].video = C[k].video + C[k].length
  BY <1>2 DEF Planned
<1>7. /\ \A k \in 1..m :
           /\ C[k].from \in Nat /\ C[k].upto \in Nat /\ C[k].video \in Nat
           /\ C[k].start \in Nat /\ C[k].length \in Nat \ {0}
           /\ C[k].from + C[k].start + C[k].length <= C[k].upto
      /\ \A k, l \in 1..m : k < l => /\ C[k].upto <= C[l].from
                                     /\ C[k].video + C[k].length <= C[l].video
  BY <1>2, PlannedOrder
<1>8. /\ DOMAIN chks = 1..m /\ Len(chks) = m
      /\ \A k \in 1..m : /\ chks[k].video = C[k].video /\ chks[k].length = C[k].length
                         /\ chks[k].assembled = C[k].from + C[k].start
  BY <1>2, <1>6 DEF ChunksOf
<1>9. Layout(segs, chks)!AssembledSize = C[m].upto
  BY <1>3, <1>4 DEF Layout!AssembledSize, Layout!SegmentEnd
<1>10. ASSUME NEW k \in 1..m
       PROVE  chks[k].length > 0 /\ chks[k].assembled + chks[k].length <= C[m].upto
  <2>1. k = m \/ C[k].upto <= C[m].from
    BY <1>6, <1>7
  <2>2. m \in 1..m
    BY <1>6
  <2>3. chks[k].length = C[k].length /\ chks[k].assembled = C[k].from + C[k].start
    BY <1>8
  <2>4. /\ C[k].from \in Nat /\ C[k].start \in Nat /\ C[k].length \in Nat \ {0}
        /\ C[k].upto \in Nat /\ C[k].from + C[k].start + C[k].length <= C[k].upto
    BY <1>7
  <2>5. C[m].from \in Nat /\ C[m].upto \in Nat /\ C[m].from <= C[m].upto
    <3>1. /\ C[m].from \in Nat /\ C[m].start \in Nat /\ C[m].length \in Nat \ {0}
          /\ C[m].upto \in Nat /\ C[m].from + C[m].start + C[m].length <= C[m].upto
      BY <1>7, <2>2
    <3> QED
      BY <3>1
  <2> QED
    BY <2>1, <2>3, <2>4, <2>5
<1>11. ASSUME NEW k \in 1..m - 1
       PROVE  /\ chks[k + 1].video = chks[k].video + chks[k].length
              /\ chks[k + 1].assembled >= chks[k].assembled + chks[k].length
              /\ \A i \in 1..n :
                   segs[i].offset < chks[k].assembled + chks[k].length =>
                     segs[i].offset + segs[i].bytes <= chks[k + 1].assembled
  <2>1. k \in 1..m /\ k + 1 \in 1..m
    BY <1>6
  <2>2. C[k + 1].from = C[k].upto /\ C[k + 1].video = C[k].video + C[k].length
    BY <1>6
  <2>20. /\ chks[k].video = C[k].video /\ chks[k].length = C[k].length
         /\ chks[k].assembled = C[k].from + C[k].start
         /\ chks[k + 1].video = C[k + 1].video
         /\ chks[k + 1].assembled = C[k + 1].from + C[k + 1].start
    BY <1>8, <2>1
  <2>21. /\ C[k].from \in Nat /\ C[k].start \in Nat /\ C[k].length \in Nat \ {0}
         /\ C[k].upto \in Nat /\ C[k].from + C[k].start + C[k].length <= C[k].upto
         /\ C[k + 1].from \in Nat /\ C[k + 1].start \in Nat
    BY <1>7, <2>1
  <2>3. ASSUME NEW i \in 1..n, segs[i].offset < chks[k].assembled + chks[k].length
        PROVE  segs[i].offset + segs[i].bytes <= chks[k + 1].assembled
    <3>1. PICK x : x = segs[i]
      OBVIOUS
    <3>2. x \in Range(segs)
      BY <1>3, <1>4, <3>1, InRange
    <3>3. PICK j \in 1..m : HeldBy(x, C[j])
      BY <1>2, <3>2
    <3>4. C[j].from <= x.offset /\ x.offset + x.bytes <= C[j].upto
      BY <3>3 DEF HeldBy
    <3>5. x.offset \in Nat /\ x.bytes \in Nat
      BY <1>5, <3>1
    <3>6. x.offset < C[k].upto
      BY <2>20, <2>21, <2>3, <3>1, <3>5
    <3>7. ~ (k < j)
      BY <1>7, <2>1, <3>4, <3>5, <3>6
    <3>8. C[j].upto <= C[k].upto
      <4>1. j = k \/ C[j].upto <= C[k].from
        BY <1>7, <2>1, <3>7
      <4> QED
        BY <1>7, <2>1, <4>1
    <3>9. C[j].upto \in Nat
      BY <1>7
    <3> QED
      BY <2>2, <2>20, <2>21, <3>1, <3>4, <3>5, <3>8, <3>9
  <2>4. chks[k + 1].assembled >= chks[k].assembled + chks[k].length
    BY <2>2, <2>20, <2>21
  <2> QED
    BY <2>2, <2>20, <2>3, <2>4
<1>12. Sound(segs, chks)
  <2>1. chks[1].video = 0
    BY <1>6, <1>8
  <2>2. \A i \in DOMAIN segs : segs[i].bytes > 0
    BY <1>4, <1>5
  <2> QED
    BY <1>3, <1>4, <1>8, <1>9, <1>10, <1>11, <2>1, <2>2 DEF Sound
<1> QED
  BY <1>1, <1>12

-----------------------------------------------------------------------------
(* What the pipeline finds in such a layout.                               *)

\* The search finds the segment of every byte of the assembled stream.
LEMMA SegmentFound ==
  ASSUME NEW segs, NEW chks, NEW b, Contiguous(segs, 0, b), NEW at \in 0..b - 1
  PROVE  \E f \in 1..Len(segs) :
           /\ Layout(segs, chks)!FindSegment(at) = f
           /\ segs[f].offset <= at /\ at < segs[f].offset + segs[f].bytes
<1>1. PICK n : n = Len(segs)
  OBVIOUS
<1>2. /\ n \in Nat /\ n > 0 /\ segs \in Seq(Segment) /\ DOMAIN segs = 1..n /\ b \in Nat
      /\ segs[1].offset = 0 /\ segs[n].offset + segs[n].bytes = b
      /\ \A i \in 1..n - 1 : segs[i + 1].offset = segs[i].offset + segs[i].bytes
  BY <1>1 DEF Contiguous
<1>3. \A i \in 1..n : segs[i].offset \in Nat /\ segs[i].bytes \in Nat \ {0}
  BY <1>1, ContiguousOrder
<1>4. PICK before : before = {i \in DOMAIN segs : segs[i].offset <= at}
  OBVIOUS
<1>5. before \subseteq 0..n /\ before # {} /\ \A i \in 1..n : i \in before <=> segs[i].offset <= at
  <2>1. 1 \in before
    BY <1>2, <1>4
  <2> QED
    BY <1>2, <1>4, <2>1
<1>6. PICK f : f = Max(before)
  OBVIOUS
<1>7. f \in before /\ \A i \in before : i <= f
  BY <1>2, <1>5, <1>6, MaxExists
<1>8. f \in 1..n /\ segs[f].offset <= at
  BY <1>2, <1>4, <1>7
<1>9. at < segs[f].offset + segs[f].bytes
  <2>1. CASE f = n
    BY <1>2, <2>1
  <2>2. CASE f # n
    <3>1. f \in 1..n - 1 /\ f + 1 \in 1..n /\ ~ (f + 1 <= f)
      BY <1>2, <1>8, <2>2
    <3>2. f + 1 \notin before
      BY <1>7, <3>1
    <3>3. ~ (segs[f + 1].offset <= at) /\ segs[f + 1].offset = segs[f].offset + segs[f].bytes
      BY <1>2, <1>5, <3>1, <3>2
    <3>4. segs[f + 1].offset \in Nat
      BY <1>3, <3>1
    <3> QED
      BY <3>3, <3>4
  <2> QED
    BY <2>1, <2>2
<1>10. Layout(segs, chks)!FindSegment(at) = f
  <2>1. Layout(segs, chks)!Max(before) = f
    BY <1>6 DEF Max, Layout!Max
  <2>2. ~ (at >= Layout(segs, chks)!SegmentEnd(f))
    <3>1. Layout(segs, chks)!SegmentEnd(f) = segs[f].offset + segs[f].bytes
      BY DEF Layout!SegmentEnd
    <3>2. segs[f].offset + segs[f].bytes \in Nat
      BY <1>3, <1>8
    <3> QED
      BY <1>9, <3>1, <3>2
  <2>3. Layout(segs, chks)!SegmentIdx = DOMAIN segs
    BY DEF Layout!SegmentIdx
  <2>4. before = {i \in Layout(segs, chks)!SegmentIdx : segs[i].offset <= at}
    BY <1>4, <2>3
  <2> QED
    BY <1>5, <2>1, <2>2, <2>4 DEF Layout!FindSegment
<1> QED
  BY <1>1, <1>8, <1>9, <1>10

\* Byte i of what a carrier carries is byte b of the video: the pipeline finds it
\* in a segment of that carrier, at its place there.
FoundIn(lay, b, c, i) ==
  \E f \in 1..Len(lay.segments) : \E j \in 1..c.parts :
    /\ PlaceOf(lay, b) = c.from + c.start + i
    /\ SegmentAt(lay, c.from + c.start + i) = f
    /\ lay.segments[f].article = <<c.file, j>>
    /\ lay.segments[f].offset = c.from + (j - 1) * c.stride

\* The pipeline translates a byte of the video to its place in the stream.
LEMMA PlaceFound ==
  ASSUME NEW lay, NEW C, NEW m, LaysOut(lay, C, m), NEW k \in 1..m, NEW i \in 0..C[k].length - 1
  PROVE  PlaceOf(lay, C[k].video + i) = C[k].from + C[k].start + i
<1>1. PICK segs, chks, b : segs = lay.segments /\ chks = lay.chunks /\ b = C[k].video + i
  OBVIOUS
<1>2. Planned(C, m) /\ chks = ChunksOf(C, m)
  BY <1>1 DEF LaysOut
<1>3. m \in Nat
  BY <1>2 DEF Planned
<1>4. /\ \A l \in 1..m : /\ C[l].from \in Nat /\ C[l].video \in Nat
                         /\ C[l].start \in Nat /\ C[l].length \in Nat \ {0}
      /\ \A l, o \in 1..m : l < o => C[l].video + C[l].length <= C[o].video
  BY <1>2, PlannedOrder
<1>5. /\ DOMAIN chks = 1..m
      /\ \A l \in 1..m : /\ chks[l].video = C[l].video /\ chks[l].length = C[l].length
                         /\ chks[l].assembled = C[l].from + C[l].start
  BY <1>2 DEF ChunksOf
<1>6. PICK holding : holding = {l \in DOMAIN chks :
                                  chks[l].video <= b /\ b < chks[l].video + chks[l].length}
  OBVIOUS
<1>7. holding = {k}
  <2>1. b \in Nat /\ C[k].video <= b /\ b < C[k].video + C[k].length
    BY <1>1, <1>4
  <2>2. \A l \in 1..m : l \in holding <=> C[l].video <= b /\ b < C[l].video + C[l].length
    BY <1>5, <1>6
  <2>3. ASSUME NEW l \in 1..m, l # k PROVE l \notin holding
    <3>1. l < k \/ k < l
      BY <1>3, <2>3
    <3>2. /\ C[k].video \in Nat /\ C[k].length \in Nat /\ C[l].video \in Nat /\ C[l].length \in Nat
      BY <1>4
    <3>3. \/ C[l].video + C[l].length <= C[k].video
          \/ C[k].video + C[k].length <= C[l].video
      BY <1>4, <3>1
    <3> QED
      BY <2>1, <2>2, <3>2, <3>3
  <2>4. k \in holding
    BY <2>1, <2>2
  <2> QED
    BY <1>5, <1>6, <2>3, <2>4
<1>8. Layout(segs, chks)!ChunkOf(b) = k
  <2>1. Min(holding) = k
    <3>1. holding \subseteq Nat /\ holding # {}
      BY <1>3, <1>7
    <3> QED
      BY <1>7, <3>1, MinExists
  <2>2. Layout(segs, chks)!Min(holding) = k
    BY <2>1 DEF Min, Layout!Min
  <2> QED
    BY <1>6, <1>7, <2>2 DEF Layout!ChunkOf
<1>9. Layout(segs, chks)!VideoToAssembled(b) = chks[k].assembled + (b - chks[k].video)
  BY <1>8 DEF Layout!VideoToAssembled
<1>10. chks[k].assembled + (b - chks[k].video) = C[k].from + C[k].start + i
  <2>1. /\ chks[k].video = C[k].video /\ chks[k].assembled = C[k].from + C[k].start
        /\ C[k].from \in Nat /\ C[k].start \in Nat /\ C[k].video \in Nat
    BY <1>4, <1>5
  <2> QED
    BY <1>1, <2>1
<1> QED
  BY <1>1, <1>9, <1>10 DEF PlaceOf

\* The search for that place ends in a segment of the carrier.
LEMMA BytesFound ==
  ASSUME NEW lay, NEW C, NEW m, LaysOut(lay, C, m), NEW k \in 1..m, NEW i \in 0..C[k].length - 1
  PROVE  FoundIn(lay, C[k].video + i, C[k], i)
<1>1. PICK segs, c, at : segs = lay.segments /\ c = C[k] /\ at = c.from + c.start + i
  OBVIOUS
<1>2. /\ Planned(C, m) /\ Contiguous(segs, 0, C[m].upto)
      /\ \A x \in Range(segs) : \E l \in 1..m : HeldBy(x, C[l])
  BY <1>1 DEF LaysOut
<1>3. PlaceOf(lay, c.video + i) = at
  BY <1>1, PlaceFound
<1>4. /\ \A l \in 1..m :
           /\ C[l].from \in Nat /\ C[l].upto \in Nat
           /\ C[l].start \in Nat /\ C[l].length \in Nat \ {0}
           /\ C[l].from + C[l].start + C[l].length <= C[l].upto
      /\ \A l, o \in 1..m : l < o => C[l].upto <= C[o].from
  BY <1>2, PlannedOrder
<1>40. m \in 1..m /\ m \in Nat /\ c \in Carrier
  BY <1>1, <1>2 DEF Planned
<1>5. /\ c.from \in Nat /\ c.start \in Nat /\ c.upto \in Nat /\ c.length \in Nat
      /\ c.from + c.start + c.length <= c.upto
  BY <1>1, <1>4
<1>6. at \in Nat /\ c.from <= at /\ at < c.upto
  BY <1>1, <1>5
<1>7. at \in 0..C[m].upto - 1
  <2>1. k = m \/ C[k].upto <= C[m].from
    BY <1>4, <1>40
  <2>2. /\ C[m].from \in Nat /\ C[m].upto \in Nat /\ C[m].start \in Nat /\ C[m].length \in Nat
        /\ C[m].from + C[m].start + C[m].length <= C[m].upto
    BY <1>4, <1>40
  <2>3. C[m].from <= C[m].upto
    BY <2>2
  <2>4. c.upto <= C[m].upto
    BY <1>1, <1>5, <2>1, <2>2, <2>3
  <2> QED
    BY <1>5, <1>6, <2>2, <2>4
<1>8. PICK f \in 1..Len(segs) : /\ Layout(segs, lay.chunks)!FindSegment(at) = f
                                /\ segs[f].offset <= at /\ at < segs[f].offset + segs[f].bytes
  BY <1>2, <1>7, SegmentFound
<1>9. PICK x : x = segs[f]
  OBVIOUS
<1>10. segs \in Seq(Segment) /\ x.offset \in Nat /\ x.bytes \in Nat
  BY <1>2, <1>8, <1>9, ContiguousOrder DEF Contiguous
<1>11. PICK l \in 1..m : HeldBy(x, C[l])
  <2>1. x \in Range(segs)
    BY <1>9, <1>10, InRange
  <2> QED
    BY <1>2, <2>1
<1>12. l = k
  <2>1. C[l].from <= x.offset /\ x.offset + x.bytes <= C[l].upto
    BY <1>11 DEF HeldBy
  <2>2. C[l].from \in Nat /\ C[l].upto \in Nat
    BY <1>4
  <2>3. C[l].from <= at /\ at < C[l].upto
    BY <1>6, <1>8, <1>9, <1>10, <2>1, <2>2
  <2>4. ~ (l < k) /\ ~ (k < l)
    BY <1>1, <1>4, <1>5, <1>6, <2>2, <2>3
  <2> QED
    BY <1>40, <2>4
<1>13. PICK j \in 1..c.parts : x.article = <<c.file, j>> /\ x.offset = c.from + (j - 1) * c.stride
  BY <1>1, <1>11, <1>12 DEF HeldBy
<1>14. SegmentAt(lay, at) = f
  BY <1>1, <1>8 DEF SegmentAt
<1>15. FoundIn(lay, c.video + i, c, i)
  <2>1. PICK b : b = c.video + i
    OBVIOUS
  <2> QED
    BY <1>1, <1>3, <1>8, <1>9, <1>13, <1>14, <2>1 DEF FoundIn
<1> QED
  BY <1>1, <1>15

\* Every byte of the video lies in some carrier.
LEMMA EveryByte ==
  ASSUME NEW C, NEW m, Planned(C, m), NEW b \in 0..C[m].video + C[m].length - 1
  PROVE  \E k \in 1..m : \E i \in 0..C[k].length - 1 : b = C[k].video + i
<1>1. /\ m \in Nat \ {0} /\ C[1].video = 0
      /\ \A k \in 1..m - 1 : C[k + 1].video = C[k].video + C[k].length
  BY DEF Planned
<1>2. \A k \in 1..m : C[k].video \in Nat /\ C[k].length \in Nat \ {0}
  BY PlannedOrder
<1>20. m \in 1..m /\ 1 \in 1..m
  BY <1>1
<1>21. b \in Nat /\ b < C[m].video + C[m].length
  BY <1>2, <1>20
<1>3. PICK S : S = {k \in 1..m : C[k].video <= b}
  OBVIOUS
<1>4. S \subseteq 0..m /\ S # {}
  <2>1. 1 \in S
    BY <1>1, <1>20, <1>21, <1>3
  <2> QED
    BY <1>3, <2>1
<1>5. PICK k : k = Max(S)
  OBVIOUS
<1>6. k \in S /\ \A l \in S : l <= k
  BY <1>1, <1>4, <1>5, MaxExists
<1>7. k \in 1..m /\ C[k].video <= b
  BY <1>3, <1>6
<1>8. b < C[k].video + C[k].length
  <2>1. CASE k = m
    BY <1>21, <2>1
  <2>2. CASE k # m
    <3>1. k \in 1..m - 1 /\ k + 1 \in 1..m /\ ~ (k + 1 <= k)
      BY <1>1, <1>7, <2>2
    <3>2. ~ (C[k + 1].video <= b)
      BY <1>3, <1>6, <3>1
    <3>3. C[k + 1].video = C[k].video + C[k].length /\ C[k + 1].video \in Nat
      BY <1>1, <1>2, <3>1
    <3> QED
      BY <1>21, <3>2, <3>3
  <2> QED
    BY <2>1, <2>2
<1>9. C[k].video \in Nat /\ C[k].length \in Nat
  BY <1>2, <1>7
<1>10. b - C[k].video \in 0..C[k].length - 1 /\ b = C[k].video + (b - C[k].video)
  BY <1>7, <1>8, <1>9, <1>21
<1> QED
  BY <1>7, <1>10

\* What is video of a file has a carrier.
Represents(C, m, files) ==
  \A k \in DOMAIN files :
    /\ files[k].data \in Nat /\ files[k].start \in Nat /\ DataBefore(files, k) \in Nat
    /\ files[k].data > 0 =>
         \E c \in 1..m : /\ C[c].file = k /\ C[c].stride = files[k].stride
                         /\ C[c].video = DataBefore(files, k)
                         /\ C[c].start = files[k].start /\ files[k].data <= C[c].length

\* So every byte is read from the article that was posted with it.
LEMMA CarriersLocate ==
  ASSUME NEW lay, NEW C, NEW m, LaysOut(lay, C, m), NEW files, Represents(C, m, files)
  PROVE  Located(files, lay)
<1>0. Planned(C, m) /\ \A k \in 1..m : C[k] \in Carrier
  BY DEF LaysOut, Planned
<1> SUFFICES ASSUME NEW k \in DOMAIN files, NEW i \in 0..files[k].data - 1
             PROVE  SentFrom(files, lay, DataBefore(files, k) + i) = <<k, files[k].start + i>>
  BY DEF Located
<1>1. files[k].data \in Nat /\ files[k].data > 0 /\ files[k].start \in Nat
  BY DEF Represents
<1>2. PICK l \in 1..m : /\ C[l].file = k /\ C[l].stride = files[k].stride
                        /\ C[l].video = DataBefore(files, k)
                        /\ C[l].start = files[k].start /\ files[k].data <= C[l].length
  BY <1>1 DEF Represents
<1>3. PICK c : c = C[l]
  OBVIOUS
<1>4. c.from \in Nat /\ c.start \in Nat /\ c.stride \in Nat /\ c.length \in Nat
  BY <1>0, <1>3 DEF Carrier
<1>5. i \in 0..C[l].length - 1
  BY <1>1, <1>2, <1>3, <1>4
<1>6. PICK b : b = DataBefore(files, k) + i
  OBVIOUS
<1>7. FoundIn(lay, b, c, i)
  BY <1>2, <1>3, <1>5, <1>6, BytesFound
<1>8. PICK f \in 1..Len(lay.segments) :
        \E j \in 1..c.parts :
          /\ PlaceOf(lay, b) = c.from + c.start + i
          /\ SegmentAt(lay, c.from + c.start + i) = f
          /\ lay.segments[f].article = <<c.file, j>>
          /\ lay.segments[f].offset = c.from + (j - 1) * c.stride
  BY <1>7 DEF FoundIn
<1>9. PICK j \in 1..c.parts :
          /\ PlaceOf(lay, b) = c.from + c.start + i
          /\ SegmentAt(lay, c.from + c.start + i) = f
          /\ lay.segments[f].article = <<c.file, j>>
          /\ lay.segments[f].offset = c.from + (j - 1) * c.stride
  BY <1>8
<1>10. PICK x : x = lay.segments[f]
  OBVIOUS
<1>11. x.article[1] = k /\ x.article[2] = j
  BY <1>2, <1>3, <1>9, <1>10
<1>12. PICK p : p = (j - 1) * c.stride
  OBVIOUS
<1>13. p \in Int
  BY <1>4, <1>12
<1>14. PICK at : at = c.from + c.start + i
  OBVIOUS
<1>15. PlaceOf(lay, b) = at /\ lay.segments[SegmentAt(lay, at)] = x
  BY <1>9, <1>10, <1>14
<1>16. SentFrom(files, lay, b)
         = <<x.article[1], (x.article[2] - 1) * files[x.article[1]].stride + (at - x.offset)>>
  BY <1>15 DEF SentFrom
<1>17. x.offset = c.from + p /\ (x.article[2] - 1) * files[x.article[1]].stride = p
  BY <1>2, <1>3, <1>9, <1>10, <1>11, <1>12
<1>18. p + (at - x.offset) = c.start + i
  BY <1>4, <1>13, <1>14, <1>17
<1> QED
  BY <1>2, <1>3, <1>6, <1>11, <1>16, <1>17, <1>18

\* And none is without a segment.
LEMMA CarriersServe ==
  ASSUME NEW lay, NEW C, NEW m, LaysOut(lay, C, m), NEW b \in 0..C[m].video + C[m].length - 1
  PROVE  SegmentAt(lay, PlaceOf(lay, b)) # 0
<1>1. Planned(C, m)
  BY DEF LaysOut
<1>2. PICK k \in 1..m : \E i \in 0..C[k].length - 1 : b = C[k].video + i
  BY <1>1, EveryByte
<1>3. PICK i \in 0..C[k].length - 1 : b = C[k].video + i
  BY <1>2
<1>4. FoundIn(lay, b, C[k], i)
  BY <1>3, BytesFound
<1> QED
  BY <1>4 DEF FoundIn


\* The parts of a posted file.
LEMMA PostedParts ==
  ASSUME NEW v \in PostedFiles, Complete(v), NEW k \in Nat, NEW p, p = Posted(v, k)
  PROVE  /\ Numbered(p.parts, Len(v.parts))
         /\ \A i \in 1..Len(v.parts) :
              p.parts[i] = [number |-> v.parts[i].number, bytes |-> v.parts[i].bytes,
                            article |-> <<k, v.parts[i].number>>]
         /\ p.stride = v.stride /\ p.size = v.size /\ p.start = v.start /\ p.data = v.data
         /\ p.tail = v.tail
<1>1. PICK n, parts : n = Len(v.parts) /\ parts = v.parts
  OBVIOUS
<1>2. /\ parts \in Seq([number : Nat, bytes : Nat]) /\ n \in Nat /\ DOMAIN parts = 1..n
      /\ v = [parts |-> parts, stride |-> v.stride, tail |-> v.tail, size |-> v.size,
              start |-> v.start, data |-> v.data]
  BY <1>1 DEF PostedFiles
<1>3. n > 0 /\ {parts[i].number : i \in 1..n} = 1..n
  BY <1>1 DEF Complete
<1>4. PICK q : q = [i \in 1..n |-> [number |-> parts[i].number, bytes |-> parts[i].bytes,
                                    article |-> <<k, parts[i].number>>]]
  OBVIOUS
<1>5. p = [v EXCEPT !.parts = q]
  BY <1>1, <1>2, <1>4 DEF Posted
<1>6. /\ p.parts = q /\ p.stride = v.stride /\ p.size = v.size /\ p.start = v.start
      /\ p.data = v.data /\ p.tail = v.tail
  BY <1>2, <1>5
<1>7. Numbered(q, n)
  <2>0. PICK X : X = [number : Nat, bytes : Nat]
    OBVIOUS
  <2>1. \A i \in 1..n : parts[i] \in X
    <3>1. parts \in Seq(X) /\ Len(parts) = n
      BY <1>1, <1>2, <2>0
    <3> QED
      BY <3>1
  <2>2. \A i \in 1..n : q[i].number = parts[i].number /\ q[i].number \in Nat
    BY <1>4, <2>0, <2>1
  <2>3. {q[i].number : i \in 1..n} = {parts[i].number : i \in 1..n}
    BY <2>2
  <2>4. {q[i].number : i \in 1..n} = 1..n
    BY <1>3, <2>3
  <2>5. q = [i \in 1..n |-> q[i]]
    BY <1>4
  <2>6. n \in Nat \ {0}
    BY <1>2, <1>3
  <2> QED
    BY <2>2, <2>4, <2>5, <2>6 DEF Numbered
<1> QED
  BY <1>1, <1>4, <1>6, <1>7

-----------------------------------------------------------------------------
(* The layout of a flat file.                                              *)

\* The length a preflight gives the last article of a file.
LastLength(v) == IF SizeTrue(v) THEN v.tail ELSE v.stride

\* The total that is computed for a file: its length if the yEnc header gives it, else
\* whole strides.
LEMMA TotalOf ==
  ASSUME NEW v \in PostedFiles, Complete(v), NEW n, n = Len(v.parts)
  PROVE  /\ n \in Nat \ {0} /\ v.stride \in Nat \ {0} /\ (n - 1) * v.stride \in Nat
         /\ FileLength(v) = (n - 1) * v.stride + v.tail
         /\ FileTotal(n, v.stride, v.size) = (n - 1) * v.stride + LastLength(v)
         /\ Saturating(FileTotal(n, v.stride, v.size), (n - 1) * v.stride) = LastLength(v)
         /\ LastLength(v) \in Nat \ {0} /\ v.tail \in Nat \ {0}
         /\ v.tail <= LastLength(v) /\ LastLength(v) <= v.stride
<1>1. /\ n \in Nat /\ v.stride \in Nat \ {0} /\ v.tail \in Nat \ {0} /\ v.size \in Nat
  BY DEF PostedFiles
<1>2. n > 0 /\ v.tail <= v.stride /\ (SizeTrue(v) \/ SizeUseless(v))
  BY DEF Complete
<1>3. FileLength(v) = (n - 1) * v.stride + v.tail
  BY DEF FileLength
<1>4. PICK p : p = (n - 1) * v.stride
  OBVIOUS
<1>5. p \in Nat /\ n * v.stride = p + v.stride
  <2>1. n - 1 \in Nat
    BY <1>1, <1>2
  <2>2. p \in Nat
    BY <1>1, <1>4, <2>1
  <2>3. n * v.stride = (n - 1) * v.stride + v.stride
    BY <1>1
  <2> QED
    BY <1>4, <2>2, <2>3
<1>6. /\ LastLength(v) \in Nat \ {0} /\ v.tail <= LastLength(v) /\ LastLength(v) <= v.stride
  BY <1>1, <1>2 DEF LastLength
<1>7. FileTotal(n, v.stride, v.size) = p + LastLength(v)
  <2>1. FileTotal(n, v.stride, v.size) = IF v.size > 0 /\ v.size >= p THEN v.size ELSE n * v.stride
    BY <1>4 DEF FileTotal
  <2>2. CASE SizeTrue(v)
    <3>1. v.size = p + v.tail
      BY <1>3, <1>4, <2>2 DEF SizeTrue
    <3>2. v.size > 0 /\ v.size >= p
      BY <1>1, <1>5, <3>1
    <3> QED
      BY <2>1, <2>2, <3>1, <3>2 DEF LastLength
  <2>3. CASE ~ SizeTrue(v)
    <3>1. v.size = 0 \/ v.size < p
      BY <1>2, <1>4, <2>3 DEF SizeUseless, NotGiven
    <3>2. ~ (v.size > 0 /\ v.size >= p)
      BY <1>1, <1>5, <3>1
    <3> QED
      BY <1>5, <2>1, <2>3, <3>2 DEF LastLength
  <2> QED
    BY <2>2, <2>3
<1>8. Saturating(p + LastLength(v), p) = LastLength(v)
  BY <1>5, <1>6 DEF Saturating
<1> QED
  BY <1>1, <1>2, <1>3, <1>4, <1>5, <1>6, <1>7, <1>8

\* What a preflight makes of the segments of a flat file: they are laid out with
\* regular lengths, to the end of the file or to the end of a whole stride.
FlatLaid(lens, listed, r, v, n) ==
  /\ r.total \in Nat
  /\ Regular(lens, n, v.stride, r.total)
  /\ DOMAIN listed = 1..n /\ \A i \in 1..n : listed[i].article = <<1, i>>
  /\ r.segments = LaidOut(listed, lens, 0)
  /\ \/ r.total = FileLength(v)
     \/ ~ SizeTrue(v) /\ r.total = (n - 1) * v.stride + v.stride

\* The segments of a flat file are those of its one carrier.
LEMMA FlatPiece ==
  ASSUME NEW v \in PostedFiles, Complete(v), FlatFile(v), NEW n, n = Len(v.parts),
         NEW parts, parts = Posted(v, 1).parts,
         NEW r, r = Rebuild(BuildSegmentRefs(parts), v.stride, v.size)
  PROVE  \E lens : \E listed : FlatLaid(lens, listed, r, v, n)
<1>1. /\ Numbered(parts, n)
      /\ \A i \in 1..n : parts[i] = [number |-> v.parts[i].number, bytes |-> v.parts[i].bytes,
                                     article |-> <<1, v.parts[i].number>>]
  BY PostedParts
<1>2. /\ n \in Nat \ {0} /\ v.stride \in Nat \ {0} /\ (n - 1) * v.stride \in Nat
      /\ FileLength(v) = (n - 1) * v.stride + v.tail
      /\ FileTotal(n, v.stride, v.size) = (n - 1) * v.stride + LastLength(v)
      /\ Saturating(FileTotal(n, v.stride, v.size), (n - 1) * v.stride) = LastLength(v)
      /\ LastLength(v) \in Nat \ {0} /\ v.tail \in Nat \ {0} /\ LastLength(v) <= v.stride
  BY TotalOf
<1>20. DOMAIN v.parts = 1..n
  <2>1. v.parts \in Seq([number : Nat, bytes : Nat])
    BY DEF PostedFiles
  <2> QED
    BY <2>1
<1>3. PICK place : InPlace(place, parts, n)
  BY <1>1, PlacesExist
<1>4. PICK sorted : sorted = [j \in 1..n |-> parts[place[j]]]
  OBVIOUS
<1>5. ByNumber(parts) = sorted
  BY <1>1, <1>3, <1>4, PartsByNumber
<1>6. /\ DOMAIN sorted = 1..n
      /\ \A j \in 1..n : /\ place[j] \in 1..n /\ v.parts[place[j]].number = j
                         /\ sorted[j].bytes = v.parts[place[j]].bytes
                         /\ sorted[j].article = <<1, j>>
  <2>1. ASSUME NEW j \in 1..n
        PROVE  place[j] \in 1..n /\ parts[place[j]].number = j /\ sorted[j] = parts[place[j]]
    BY <1>3, <1>4 DEF InPlace
  <2>2. ASSUME NEW j \in 1..n
        PROVE  /\ v.parts[place[j]].number = j
               /\ sorted[j].bytes = v.parts[place[j]].bytes
               /\ sorted[j].article = <<1, j>>
    <3>1. sorted[j] = [number |-> v.parts[place[j]].number, bytes |-> v.parts[place[j]].bytes,
                       article |-> <<1, v.parts[place[j]].number>>]
      BY <1>1, <2>1
    <3>2. sorted[j].number = j
      BY <2>1
    <3> QED
      BY <3>1, <3>2
  <2> QED
    BY <1>4, <2>1, <2>2
<1>7. PICK sizes : sizes = [i \in 1..n |-> sorted[i].bytes]
  OBVIOUS
<1>8. PICK segs : segs = LaidOut(sorted, sizes, 0)
  OBVIOUS
<1>9. BuildSegmentRefs(parts) = segs
  BY <1>5, <1>6, <1>7, <1>8 DEF BuildSegmentRefs
<1>10. /\ DOMAIN segs = 1..n /\ Len(segs) = n
       /\ \A i \in 1..n : /\ segs[i].bytes = sorted[i].bytes /\ segs[i].article = <<1, i>>
                          /\ segs[i].offset = 0 + Sum(SubSeq(sizes, 1, i - 1))
  <2>1. /\ segs = [i \in 1..n |-> [offset |-> 0 + Sum(SubSeq(sizes, 1, i - 1)), bytes |-> sizes[i],
                                   article |-> sorted[i].article]]
    BY <1>6, <1>8 DEF LaidOut
  <2>2. \A i \in 1..n : sizes[i] = sorted[i].bytes /\ sorted[i].article = <<1, i>>
    BY <1>6, <1>7
  <2>3. DOMAIN segs = 1..n
    BY <2>1
  <2>4. \A i \in 1..n : /\ segs[i].bytes = sorted[i].bytes /\ segs[i].article = <<1, i>>
                        /\ segs[i].offset = 0 + Sum(SubSeq(sizes, 1, i - 1))
    BY <2>1, <2>2
  <2>5. Len(segs) = n
    <3>1. n \in Nat
      BY <1>2
    <3>2. PICK X : X = {segs[i] : i \in 1..n}
      OBVIOUS
    <3>3. segs \in [1..n -> X]
      BY <2>1, <3>2
    <3> QED
      BY <3>1, <3>3, FunctionIsSeq
  <2> QED
    BY <2>3, <2>4, <2>5
<1>11. CASE segs[1].bytes = v.stride
  <2>1. /\ v.parts[place[1]].number = 1 /\ v.parts[place[1]].bytes = v.stride
        /\ place[1] \in DOMAIN v.parts
    <3>1. 1 \in 1..n
      BY <1>2
    <3> QED
      BY <1>6, <1>10, <1>11, <1>20, <3>1
  <2>2. \A j \in DOMAIN v.parts : v.parts[j].bytes = ArticleLength(v, v.parts[j].number)
    BY <2>1 DEF FlatFile
  <2>3. \A j \in 1..n : sizes[j] = IF j < n THEN v.stride ELSE v.tail
    <3>1. ASSUME NEW j \in 1..n PROVE sizes[j] = IF j < n THEN v.stride ELSE v.tail
      <4>1. place[j] \in DOMAIN v.parts
        BY <1>6, <1>20
      <4>2. v.parts[place[j]].bytes = ArticleLength(v, j)
        BY <1>6, <2>2, <4>1
      <4> QED
        BY <1>6, <1>7, <4>2 DEF ArticleLength
    <3> QED
      BY <3>1
  <2>4. Regular(sizes, n, v.stride, FileLength(v))
    <3>1. sizes \in [1..n -> Nat \ {0}]
      BY <1>2, <1>7, <2>3
    <3>2. \A i \in 1..n - 1 : sizes[i] = v.stride
      BY <1>2, <2>3
    <3>3. sizes[n] = v.tail
      <4>1. n \in 1..n /\ ~ (n < n)
        BY <1>2
      <4> QED
        BY <2>3, <4>1
    <3> QED
      BY <1>2, <3>1, <3>2, <3>3 DEF Regular
  <2>5. r.segments = segs /\ r.total = segs[n].offset + segs[n].bytes
    <3>1. r = Rebuild(segs, v.stride, v.size)
      BY <1>9
    <3>2. r = [segments |-> segs, total |-> segs[Len(segs)].offset + segs[Len(segs)].bytes]
      BY <1>11, <3>1 DEF Rebuild
    <3>3. r.segments = segs /\ r.total = segs[Len(segs)].offset + segs[Len(segs)].bytes
      BY <3>2
    <3> QED
      BY <1>10, <3>3
  <2>6. Sum(SubSeq(sizes, 1, n - 1)) = (n - 1) * v.stride
    BY <1>2, <2>4, RegularSums
  <2>7. r.total = FileLength(v)
    <3>1. segs[n].offset = (n - 1) * v.stride /\ segs[n].bytes = v.tail
      <4>1. n \in 1..n /\ ~ (n < n)
        BY <1>2
      <4>2. segs[n].bytes = sizes[n] /\ sizes[n] = v.tail
        BY <1>7, <1>10, <2>3, <4>1
      <4>3. segs[n].offset = 0 + Sum(SubSeq(sizes, 1, n - 1))
        BY <1>10, <4>1
      <4> QED
        BY <1>2, <2>6, <4>2, <4>3
    <3> QED
      BY <1>2, <2>5, <3>1
  <2>8. r.total \in Nat
    BY <1>2, <2>7
  <2> QED
    BY <1>6, <1>8, <2>4, <2>5, <2>7, <2>8 DEF FlatLaid
<1>12. CASE segs[1].bytes # v.stride
  <2>1. PICK lens : lens = [i \in 1..n |-> IF i < n THEN v.stride ELSE LastLength(v)]
    OBVIOUS
  <2>2. \A i \in 1..n : (IF i < n THEN v.stride
                         ELSE IF LastLength(v) < v.stride THEN LastLength(v) ELSE v.stride)
                        = IF i < n THEN v.stride ELSE LastLength(v)
    BY <1>2
  <2>3. r.segments = LaidOut(segs, lens, 0) /\ r.total = FileTotal(n, v.stride, v.size)
    <3>1. PICK tail : tail = LastLength(v)
      OBVIOUS
    <3>2. lens = [i \in 1..n |-> IF i < n THEN v.stride
                                 ELSE IF tail < v.stride THEN tail ELSE v.stride]
      BY <2>1, <2>2, <3>1
    <3>3. r = [segments |-> LaidOut(segs,
                              [i \in 1..n |-> IF i < n THEN v.stride
                                              ELSE IF tail < v.stride THEN tail ELSE v.stride],
                              0),
               total |-> FileTotal(n, v.stride, v.size)]
      <4>1. r = Rebuild(segs, v.stride, v.size)
        BY <1>9
      <4>2. PICK whole, p : whole = FileTotal(n, v.stride, v.size) /\ p = (n - 1) * v.stride
        OBVIOUS
      <4>3. Saturating(whole, p) = tail
        BY <1>2, <3>1, <4>2
      <4> HIDE DEF FileTotal
      <4>4. r = [segments |-> LaidOut(segs, [i \in 1..n |-> IF i < n THEN v.stride
                               ELSE IF Saturating(whole, p) < v.stride THEN Saturating(whole, p)
                               ELSE v.stride], 0),
                 total |-> whole]
        BY <1>10, <1>12, <4>1, <4>2 DEF Rebuild
      <4> QED
        BY <4>2, <4>3, <4>4
    <3> QED
      BY <3>2, <3>3
  <2>4. r.total = (n - 1) * v.stride + LastLength(v) /\ r.total \in Nat
    BY <1>2, <2>3
  <2>5. Regular(lens, n, v.stride, r.total)
    <3>1. lens \in [1..n -> Nat \ {0}]
      BY <1>2, <2>1
    <3>2. \A i \in 1..n - 1 : lens[i] = v.stride
      BY <1>2, <2>1
    <3>3. lens[n] = LastLength(v)
      BY <1>2, <2>1
    <3> QED
      BY <1>2, <2>4, <3>1, <3>2, <3>3 DEF Regular
  <2>6. \/ r.total = FileLength(v)
        \/ ~ SizeTrue(v) /\ r.total = (n - 1) * v.stride + v.stride
    BY <1>2, <2>4 DEF LastLength
  <2> QED
    BY <1>10, <2>3, <2>4, <2>5, <2>6 DEF FlatLaid
<1> QED
  BY <1>11, <1>12

\* What the files of a release hold of the video, as running totals.
Tallies(T, n, f, files) ==
  /\ Totals(T, n, f)
  /\ DataLength(files) = T[n]
  /\ \A k \in 1..n : DataBefore(files, k) = T[k - 1]

\* Such totals there are.
LEMMA DataTotals ==
  ASSUME NEW n \in Nat, NEW files, DOMAIN files = 1..n, \A k \in 1..n : files[k].data \in Nat,
         NEW f, f = [k \in 1..n |-> files[k].data]
  PROVE  \E T : Tallies(T, n, f, files)
<1>1. f \in [1..n -> Nat] /\ \A k \in 1..n : f[k] = files[k].data
  OBVIOUS
<1>2. PICK T : /\ Totals(T, n, f)
               /\ \A k \in 0..n : \A h \in [1..k -> Nat] :
                    (\A j \in 1..k : h[j] = f[j]) => Sum(h) = T[k]
  BY <1>1, RunningTotals
<1>3. DataLength(files) = T[n]
  <2>1. n \in 0..n /\ \A j \in 1..n : f[j] = f[j]
    OBVIOUS
  <2>2. Sum(f) = T[n]
    BY <1>1, <1>2, <2>1
  <2> QED
    BY <2>2 DEF DataLength
<1>4. ASSUME NEW k \in 1..n PROVE DataBefore(files, k) = T[k - 1]
  <2>1. PICK l : l = k - 1
    OBVIOUS
  <2>2. l \in 0..n /\ \A j \in 1..l : j \in 1..n
    BY <2>1
  <2>3. PICK h : h = [j \in 1..l |-> files[j].data]
    OBVIOUS
  <2>4. h \in [1..l -> Nat] /\ \A j \in 1..l : h[j] = f[j]
    BY <1>1, <2>2, <2>3
  <2>5. Sum(h) = T[l]
    BY <1>2, <2>2, <2>4
  <2> QED
    BY <2>1, <2>3, <2>5 DEF DataBefore
<1> QED
  BY <1>2, <1>3, <1>4 DEF Tallies

\* A layout from which a video of this length is served.
Delivers(files, lay, length) ==
  /\ Sound(lay.segments, lay.chunks)
  /\ Located(files, lay)
  /\ length \in Nat \ {0}
  /\ \A b \in 0..length - 1 : SegmentAt(lay, PlaceOf(lay, b)) # 0

\* A layout of carriers that represent the files delivers the video.
LEMMA CarriersDeliver ==
  ASSUME NEW lay, NEW C, NEW m, LaysOut(lay, C, m), NEW files, Represents(C, m, files),
         NEW length, length = C[m].video + C[m].length
  PROVE  Delivers(files, lay, length)
<1>1. m \in Nat \ {0} /\ C \in [1..m -> Carrier]
  BY DEF LaysOut, Planned
<1>2. C[m].video \in Nat /\ C[m].length \in Nat \ {0}
  BY <1>1 DEF Carrier
<1>3. length \in Nat \ {0}
  BY <1>2
<1>4. \A b \in 0..length - 1 : SegmentAt(lay, PlaceOf(lay, b)) # 0
  <2> SUFFICES ASSUME NEW b \in 0..length - 1 PROVE SegmentAt(lay, PlaceOf(lay, b)) # 0
    OBVIOUS
  <2>1. b \in 0..C[m].video + C[m].length - 1
    BY <1>2
  <2> QED
    BY <2>1, CarriersServe
<1> QED
  BY <1>3, <1>4, LaidOutSound, CarriersLocate DEF Delivers

\* The layout a preflight builds for a flat file delivers it (BuildFlatLayout).
LEMMA FlatLaidOut ==
  ASSUME NEW v \in PostedFiles, Complete(v), FlatFile(v),
         NEW file, file.parts = Posted(v, 1).parts, file.stride = v.stride, file.size = v.size,
         NEW lay, lay = BuildFlatLayout(file), NEW length, length = lay.chunks[1].length
  PROVE  /\ Delivers(<<Posted(v, 1)>>, lay, length)
         /\ ExactLength("flat", <<Posted(v, 1)>>, length)
<1>1. PICK n : n = Len(v.parts)
  OBVIOUS
<1>2. PICK p : p = Posted(v, 1)
  OBVIOUS
<1>03. PICK parts : parts = Posted(v, 1).parts
  OBVIOUS
<1>3. PICK r : r = Rebuild(BuildSegmentRefs(parts), v.stride, v.size)
  OBVIOUS
<1>4. lay = [segments |-> r.segments,
             chunks   |-> <<[video |-> 0, length |-> r.total, assembled |-> 0]>>]
  BY <1>03, <1>3 DEF BuildFlatLayout
<1>5. /\ lay.segments = r.segments /\ length = r.total
      /\ lay.chunks = <<[video |-> 0, length |-> r.total, assembled |-> 0]>>
  BY <1>4
<1>6. PICK lens : \E listed : FlatLaid(lens, listed, r, v, n)
  BY <1>1, <1>03, <1>3, FlatPiece
<1>60. PICK listed : FlatLaid(lens, listed, r, v, n)
  BY <1>6
<1>7. /\ r.total \in Nat
      /\ Regular(lens, n, v.stride, r.total)
      /\ DOMAIN listed = 1..n /\ \A i \in 1..n : listed[i].article = <<1, i>>
      /\ r.segments = LaidOut(listed, lens, 0)
      /\ \/ r.total = FileLength(v)
         \/ ~ SizeTrue(v) /\ r.total = (n - 1) * v.stride + v.stride
  BY <1>60 DEF FlatLaid
<1>8. /\ n \in Nat \ {0} /\ v.stride \in Nat \ {0} /\ (n - 1) * v.stride \in Nat
      /\ FileLength(v) = (n - 1) * v.stride + v.tail
      /\ v.tail \in Nat \ {0} /\ v.tail <= v.stride
  <2>1. /\ n \in Nat \ {0} /\ v.stride \in Nat \ {0} /\ (n - 1) * v.stride \in Nat
        /\ FileLength(v) = (n - 1) * v.stride + v.tail
        /\ v.tail \in Nat \ {0}
    BY <1>1, TotalOf
  <2> QED
    BY <2>1 DEF Complete
<1>9. PICK q : q = (n - 1) * v.stride
  OBVIOUS
<1>10. /\ r.total \in Nat \ {0} /\ q \in Nat /\ FileLength(v) = q + v.tail
       /\ FileLength(v) <= r.total
       /\ \/ r.total = FileLength(v)
          \/ ~ SizeTrue(v) /\ r.total = q + v.stride
  BY <1>7, <1>8, <1>9
<1>11. PICK c : c = [file |-> 1, parts |-> n, stride |-> v.stride, from |-> 0, upto |-> r.total,
                     video |-> 0, length |-> r.total, start |-> 0]
  OBVIOUS
<1>12. c \in Carrier
  BY <1>8, <1>10, <1>11 DEF Carrier
<1>13. /\ c.file = 1 /\ c.parts = n /\ c.stride = v.stride /\ c.from = 0 /\ c.upto = r.total
       /\ c.video = 0 /\ c.length = r.total /\ c.start = 0
  BY <1>11
<1>14. PieceOf(r.segments, c)
  <2>1. Carries(c, 1, n, v.stride, r.total)
    BY <1>10, <1>12, <1>13 DEF Carries
  <2>2. PieceOf(LaidOut(listed, lens, c.from), c)
    BY <1>7, <2>1, PieceLaid
  <2> QED
    BY <1>7, <1>13, <2>2
<1>15. Contiguous(r.segments, 0, r.total) /\ \A x \in Range(r.segments) : HeldBy(x, c)
  BY <1>12, <1>13, <1>14, PieceHeld
<1>16. PICK C : C = [k \in 1..1 |-> c]
  OBVIOUS
<1>17. C[1] = c /\ C \in [1..1 -> Carrier] /\ 1 \in 1..1
  BY <1>12, <1>16
<1>18. Planned(C, 1)
  <2>1. \A k \in 1..1 : C[k] = c
    BY <1>16
  <2>2. r.total - 0 = r.total /\ 0 + r.total = r.total /\ r.total <= r.total /\ 1..1 - 1 = {}
    BY <1>10
  <2>3. \A k \in 1..1 : C[k].start + C[k].length <= C[k].upto - C[k].from
    BY <1>10, <1>13, <2>1
  <2> QED
    BY <1>13, <1>17, <2>2, <2>3 DEF Planned
<1>19. lay.chunks = ChunksOf(C, 1)
  <2>1. PICK x : x = [video |-> 0, length |-> r.total, assembled |-> 0]
    OBVIOUS
  <2>2. \A k \in 1..1 : [video |-> C[k].video, length |-> C[k].length,
                         assembled |-> C[k].from + C[k].start] = x
    <3>1. 0 + 0 = 0 /\ \A k \in 1..1 : k = 1
      OBVIOUS
    <3> QED
      BY <1>13, <1>17, <2>1, <3>1
  <2>3. ChunksOf(C, 1) = [k \in 1..1 |-> x]
    BY <2>2 DEF ChunksOf
  <2> QED
    BY <1>5, <2>1, <2>3
<1>20. LaysOut(lay, C, 1)
  BY <1>5, <1>13, <1>15, <1>17, <1>18, <1>19 DEF LaysOut
<1>21. p.data = FileLength(v) /\ p.start = 0 /\ p.stride = v.stride /\ p.size = v.size
  <2>1. p.data = v.data /\ p.start = v.start /\ p.stride = v.stride /\ p.size = v.size
    BY <1>2, PostedParts
  <2> QED
    BY <2>1 DEF FlatFile
<1>22. PICK files : files = <<p>>
  OBVIOUS
<1>23. DOMAIN files = 1..1 /\ files[1] = p /\ \A k \in 1..1 : k = 1
  BY <1>22
<1>24. PICK f : f = [k \in 1..1 |-> files[k].data]
  OBVIOUS
<1>25. \A k \in 1..1 : files[k].data \in Nat
  BY <1>8, <1>10, <1>21, <1>23
<1>26. PICK T : Tallies(T, 1, f, files)
  <2>1. PICK m : m = 1
    OBVIOUS
  <2>2. m \in Nat /\ DOMAIN files = 1..m /\ \A k \in 1..m : files[k].data \in Nat
    BY <1>23, <1>25, <2>1
  <2>3. f = [k \in 1..m |-> files[k].data]
    BY <1>24, <2>1
  <2>4. \E T : Tallies(T, m, f, files)
    BY <2>2, <2>3, DataTotals
  <2> QED
    BY <2>1, <2>4
<1>260. /\ Totals(T, 1, f) /\ DataLength(files) = T[1]
        /\ \A k \in 1..1 : DataBefore(files, k) = T[k - 1]
  BY <1>26 DEF Tallies
<1>27. DataLength(files) = FileLength(v) /\ DataBefore(files, 1) = 0
  <2>1. T[0] = 0 /\ T[1] = T[1 - 1] + f[1]
    BY <1>17, <1>260 DEF Totals
  <2>2. 1 - 1 = 0 /\ f[1] = FileLength(v) /\ FileLength(v) \in Nat
    BY <1>10, <1>17, <1>21, <1>23, <1>24, <1>25
  <2>3. DataBefore(files, 1) = T[1 - 1]
    BY <1>17, <1>260
  <2>4. T[1] = FileLength(v)
    BY <2>1, <2>2
  <2> QED
    BY <1>260, <2>1, <2>2, <2>3, <2>4
<1>28. Represents(C, 1, files)
  <2>1. \A k \in DOMAIN files : files[k] = p /\ k = 1 /\ p.data \in Nat
    BY <1>23, <1>25
  <2>2. p.start \in Nat /\ p.data <= C[1].length
    BY <1>10, <1>13, <1>17, <1>21
  <2>3. /\ C[1].file = 1 /\ C[1].stride = p.stride /\ C[1].video = DataBefore(files, 1)
        /\ C[1].start = p.start
    BY <1>13, <1>17, <1>21, <1>27
  <2> QED
    BY <1>17, <1>27, <2>1, <2>2, <2>3 DEF Represents
<1>29. length = C[1].video + C[1].length
  BY <1>5, <1>10, <1>13, <1>17
<1>30. Delivers(files, lay, length)
  BY <1>20, <1>28, <1>29, CarriersDeliver
<1>31. ExactLength("flat", files, length)
  <2>1. CASE r.total = FileLength(v)
    BY <1>5, <1>27, <2>1 DEF ExactLength
  <2>2. CASE r.total # FileLength(v)
    <3>1. ~ SizeTrue(v) /\ r.total = q + v.stride /\ DataLength(files) = q + v.tail
      BY <1>10, <1>27, <2>2
    <3>2. DataLength(files) < length /\ length < DataLength(files) + v.stride
      <4>1. PICK s, t : s = v.stride /\ t = v.tail
        OBVIOUS
      <4>2. /\ q \in Nat /\ s \in Nat /\ t \in Nat /\ t > 0 /\ t <= s
            /\ DataLength(files) = q + t /\ length = q + s /\ q + t # q + s
        BY <1>5, <1>8, <1>10, <2>2, <3>1, <4>1
      <4>3. q + t < q + s /\ q + s < q + t + s
        BY <4>2
      <4> QED
        BY <4>1, <4>2, <4>3
    <3>3. ~ SizeTrue(files[1]) /\ files[1].stride = v.stride
      <4>1. Numbered(p.parts, n) /\ p.tail = v.tail
        BY <1>1, <1>2, PostedParts
      <4>2. PICK articlesOf : articlesOf = p.parts
        OBVIOUS
      <4>3. n \in Nat /\ articlesOf = [i \in 1..n |-> articlesOf[i]]
        BY <4>1, <4>2 DEF Numbered
      <4>4. Len(articlesOf) = n
        <5>1. \A g : Len([i \in 1..n |-> g[i]]) = n
          BY <4>3
        <5> QED
          BY <4>3, <5>1
      <4>5. FileLength(p) = FileLength(v)
        BY <1>1, <1>21, <4>1, <4>2, <4>4 DEF FileLength
      <4> QED
        BY <1>21, <1>23, <3>1, <4>5 DEF SizeTrue
    <3> QED
      BY <3>2, <3>3 DEF ExactLength
  <2> QED
    BY <2>1, <2>2
<1> QED
  BY <1>2, <1>22, <1>30, <1>31

-----------------------------------------------------------------------------
(* What an NZB lists of a release, and what is played of it.               *)

\* The largest file by what the NZB lists, if the others are smaller.
LEMMA LargestIs ==
  ASSUME NEW X, NEW s \in Seq(X), NEW x \in Range(s),
         \A y \in Range(s) : ListedSize(y) \in Int /\ (y # x => ListedSize(y) < ListedSize(x))
  PROVE  Largest(s) = x
<1>1. PICK key : key = [y \in Range(s) |-> ListedSize(y)]
  OBVIOUS
<1>2. \A i \in DOMAIN s : s[i] \in Range(s) /\ key[s[i]] = ListedSize(s[i])
  BY <1>1 DEF Range
<1>3. /\ \E i : GreatestIn(s, key, i)
      /\ \A i : GreatestIn(s, key, i) => s[i] \in {x}
  <2>1. PICK top : top = ListedSize(x)
    OBVIOUS
  <2>2. PICK G : G = {x}
    OBVIOUS
  <2>3. top \in Int /\ Range(s) \cap G # {}
    BY <2>1, <2>2
  <2>4. \A y \in Range(s) :
          key[y] \in Int /\ (y \in G => key[y] = top) /\ (y \notin G => key[y] < top)
    BY <1>1, <2>1, <2>2
  <2> QED
    BY <2>2, <2>3, <2>4, GreatestExists
<1>4. \A i : GreatestIn(s, key, i) <=>
        /\ i \in DOMAIN s
        /\ \A j \in DOMAIN s : ListedSize(s[j]) < ListedSize(s[i])
                               \/ (ListedSize(s[i]) = ListedSize(s[j]) /\ j <= i)
  BY <1>2 DEF GreatestIn
<1>5. \E i \in DOMAIN s : \A j \in DOMAIN s : ListedSize(s[j]) < ListedSize(s[i])
                               \/ (ListedSize(s[i]) = ListedSize(s[j]) /\ j <= i)
  BY <1>3, <1>4
<1>6. PICK i \in DOMAIN s : /\ Largest(s) = s[i]
                            /\ \A j \in DOMAIN s : ListedSize(s[j]) < ListedSize(s[i])
                               \/ (ListedSize(s[i]) = ListedSize(s[j]) /\ j <= i)
  BY <1>5 DEF Largest, LastGreatest
<1>7. GreatestIn(s, key, i)
  BY <1>4, <1>6
<1> QED
  BY <1>3, <1>6, <1>7

\* A release of n complete files, and the entries of a dressed one.
Released(files, n) ==
  /\ n \in Nat \ {0} /\ DOMAIN files = 1..n
  /\ \A k \in 1..n : \E v \in PostedFiles : Complete(v) /\ files[k] = Posted(v, k)

\* What a volume lists beside the video, and its entry for the video.
BesideOf(d) == IF d.sample THEN <<Entry("dir", 0, 0, 0, 0), Entry("sample", 1, 0, 1, d.method)>>
               ELSE <<>>

VideoOf(v, unpacked) ==
  IF v.data = 0 THEN <<>> ELSE <<Entry("video", unpacked, v.start, v.data, 0)>>

\* A file as the NZB lists it.
DressedFile(v, k, unpacked, d) ==
  [name     |-> Name(d.style, k),    parts   |-> v.parts,
   stride   |-> v.stride,            size    |-> v.size,
   password |-> d.password,
   entries  |-> BesideOf(d) \o VideoOf(v, unpacked)]

\* The dressed files in the order of the release.
InRelease(L, files, n, unpacked, d) ==
  L = [k \in 1..n |-> DressedFile(files[k], k, unpacked, d)]

\* The styles of a dressing.
StyleOf(d) == d.style \in {"part", "old", "video", "other"}

\* What the names tell.
LEMMA NameStyles ==
  ASSUME NEW d, StyleOf(d), NEW k \in Nat \ {0}
  PROVE  /\ Name(d.style, k).style
              = IF d.style = "old" THEN (IF k = 1 THEN "rar" ELSE "r") ELSE d.style
         /\ Name(d.style, k).style # "par2"
         /\ d.style = "part" => Name(d.style, k).number = 2 * k
         /\ d.style = "old" => Name(d.style, k).number = k - 2
<1>1. CASE d.style = "part"
  BY <1>1 DEF Name
<1>2. CASE d.style = "old"
  BY <1>2 DEF Name
<1>3. CASE d.style = "video"
  BY <1>3 DEF Name
<1>4. CASE d.style = "other"
  BY <1>4 DEF Name
<1> QED
  BY <1>1, <1>2, <1>3, <1>4 DEF StyleOf

\* The dressed files are a sequence without repetitions.
Listing(L, files, n, unpacked, d) ==
  /\ L \in Seq(Range(L)) /\ Len(L) = n /\ DOMAIN L = 1..n
  /\ \A k \in 1..n : L[k] = DressedFile(files[k], k, unpacked, d)
  /\ \A x \in Range(L) : \E k \in 1..n : x = L[k]
  /\ \A k, l \in 1..n : L[k] = L[l] => k = l

\* The files of a release are listed under names of their own.
LEMMA ReleaseListed ==
  ASSUME NEW files, NEW n, Released(files, n), NEW unpacked, NEW d, StyleOf(d),
         NEW L, InRelease(L, files, n, unpacked, d)
  PROVE  Listing(L, files, n, unpacked, d)
<1>1. n \in Nat /\ L = [k \in 1..n |-> DressedFile(files[k], k, unpacked, d)]
  BY DEF Released, InRelease
<1>2. DOMAIN L = 1..n /\ \A k \in 1..n : L[k] = DressedFile(files[k], k, unpacked, d)
  BY <1>1
<1>3. \A k \in 1..n : L[k] \in Range(L)
  BY <1>2 DEF Range
<1>4. L \in [1..n -> Range(L)]
  BY <1>1, <1>3
<1>5. L \in Seq(Range(L)) /\ Len(L) = n
  BY <1>1, <1>4, FunctionIsSeq
<1>6. \A x \in Range(L) : \E k \in 1..n : x = L[k]
  BY <1>2 DEF Range
<1>7. ASSUME NEW k \in 1..n PROVE L[k].parts[1].article[1] = k
  <2>1. PICK v \in PostedFiles : Complete(v) /\ files[k] = Posted(v, k)
    BY DEF Released
  <2>2. \A i \in 1..Len(v.parts) :
          files[k].parts[i] = [number |-> v.parts[i].number, bytes |-> v.parts[i].bytes,
                               article |-> <<k, v.parts[i].number>>]
    BY <2>1, PostedParts
  <2>3. 1 \in 1..Len(v.parts)
    <3>1. v.parts \in Seq([number : Nat, bytes : Nat]) /\ Len(v.parts) > 0
      BY <2>1 DEF PostedFiles, Complete
    <3>2. Len(v.parts) \in Nat
      BY <3>1
    <3> QED
      BY <3>1, <3>2
  <2>4. files[k].parts[1].article = <<k, v.parts[1].number>>
    <3>1. PICK one : one = 1
      OBVIOUS
    <3>2. files[k].parts[one] = [number |-> v.parts[one].number, bytes |-> v.parts[one].bytes,
                                 article |-> <<k, v.parts[one].number>>]
      BY <2>2, <2>3, <3>1
    <3>3. files[k].parts[one].article = <<k, v.parts[one].number>>
      BY <3>2
    <3> QED
      BY <3>1, <3>3
  <2>5. L[k].parts = files[k].parts
    BY <1>2 DEF DressedFile
  <2> QED
    BY <2>4, <2>5
<1> QED
  BY <1>2, <1>5, <1>6, <1>7 DEF Listing

\* With the recovery files among them they are what the NZB lists.
LEMMA DressedListed ==
  ASSUME NEW files, NEW n, Released(files, n), NEW unpacked, NEW d, StyleOf(d),
         NEW L, InRelease(L, files, n, unpacked, d), NEW nzb, nzb = Dressed(files, unpacked, d),
         NEW X, X = Range(L) \cup {Par2}
  PROVE  nzb \in Seq(X) /\ Range(nzb) = X /\ Distinct(nzb)
<1>1. /\ L \in Seq(Range(L)) /\ Len(L) = n /\ DOMAIN L = 1..n
      /\ \A k \in 1..n : L[k] = DressedFile(files[k], k, unpacked, d)
      /\ \A x \in Range(L) : \E k \in 1..n : x = L[k]
      /\ \A k, l \in 1..n : L[k] = L[l] => k = l
  <2>1. Listing(L, files, n, unpacked, d)
    BY ReleaseListed
  <2> QED
    BY <2>1 DEF Listing
<1>2. nzb = IF d.reversed THEN Reverse(L \o <<Par2>>) ELSE L \o <<Par2>>
  BY DEF Dressed, InRelease, Released, DressedFile, BesideOf, VideoOf
<1>3. PICK last : last = <<Par2>>
  OBVIOUS
<1>4. last \in Seq(X) /\ Range(last) = {Par2} /\ Distinct(last)
  <2>1. Par2 \in X
    OBVIOUS
  <2>2. last \in Seq(X) /\ Range(last) = {Par2}
    BY <1>3, <2>1, Single
  <2>3. Distinct(last)
    <3>1. Len(last) = 1
      BY <1>3
    <3> QED
      BY <3>1 DEF Distinct
  <2> QED
    BY <2>2, <2>3
<1>5. Distinct(L) /\ L \in Seq(X)
  BY <1>1 DEF Distinct
<1>6. Range(L) \cap Range(last) = {}
  <2> SUFFICES ASSUME Par2 \in Range(L) PROVE FALSE
    BY <1>4
  <2>1. PICK k \in 1..n : Par2 = L[k]
    BY <1>1
  <2>2. k \in Nat \ {0}
    BY DEF Released
  <2>3. Par2.name.style = Name(d.style, k).style
    BY <1>1, <2>1 DEF DressedFile
  <2>4. Par2.name.style = "par2"
    BY DEF Par2, Extra
  <2> QED
    BY <2>2, <2>3, <2>4, NameStyles
<1>7. PICK s : s = L \o last
  OBVIOUS
<1>8. s \in Seq(X) /\ Range(s) = X /\ Distinct(s)
  <2>1. s \in Seq(X)
    BY <1>4, <1>5, <1>7, ConcatProperties
  <2>2. Range(s) = Range(L) \cup Range(last)
    BY <1>4, <1>5, <1>7, RangeConcatenation
  <2>3. Distinct(s)
    BY <1>4, <1>5, <1>6, <1>7, DistinctConcat
  <2> QED
    BY <1>4, <2>1, <2>2, <2>3
<1>9. CASE d.reversed
  <2>1. nzb = Reverse(s)
    BY <1>2, <1>3, <1>7, <1>9
  <2> QED
    BY <1>8, <2>1, ReverseKeeps
<1>10. CASE ~ d.reversed
  <2>1. nzb = s
    BY <1>2, <1>3, <1>7, <1>10
  <2> QED
    BY <1>8, <2>1
<1> QED
  BY <1>9, <1>10

\* Which of these have a name of certain styles.
LEMMA NamedOf ==
  ASSUME NEW X, NEW nzb \in Seq(X), NEW styles, NEW s, s = Named(nzb, styles)
  PROVE  /\ s \in Seq(X) /\ Range(s) = {f \in Range(nzb) : f.name.style \in styles}
         /\ Distinct(nzb) => Distinct(s)
         /\ s = <<>> <=> \A f \in Range(nzb) : f.name.style \notin styles
<1>1. PICK A : A = {f \in Range(nzb) : f.name.style \in styles}
  OBVIOUS
<1>2. s = Keep(nzb, A)
  BY <1>1 DEF Named, Filter
<1>3. s \in Seq(X) /\ Range(s) = A
  <2>1. s \in Seq(X) /\ Range(s) = Range(nzb) \cap A
    BY <1>2, KeepRange
  <2> QED
    BY <1>1, <2>1
<1>4. Distinct(nzb) => Distinct(s)
  BY <1>2, DistinctKeep
<1>5. s = <<>> <=> Range(s) = {}
  <2>1. Range(<<>>) = {}
    BY DEF Range
  <2>2. s # <<>> => s[1] \in Range(s)
    <3>1. s # <<>> => 1 \in 1..Len(s)
      BY <1>3
    <3> QED
      BY <1>3, <3>1, InRange
  <2> QED
    BY <2>1, <2>2
<1> QED
  BY <1>1, <1>3, <1>4, <1>5

\* Which of these are no recovery files.
LEMMA NotPar2Of ==
  ASSUME NEW X, NEW nzb \in Seq(X), NEW s, s = NotPar2(nzb)
  PROVE  /\ s \in Seq(X) /\ Range(s) = {f \in Range(nzb) : f.name.style # "par2"}
         /\ s = <<>> <=> \A f \in Range(nzb) : f.name.style = "par2"
<1>1. PICK A : A = {f \in Range(nzb) : f.name.style # "par2"}
  OBVIOUS
<1>2. s = Keep(nzb, A)
  BY <1>1 DEF NotPar2, Filter
<1>3. s \in Seq(X) /\ Range(s) = A
  <2>1. s \in Seq(X) /\ Range(s) = Range(nzb) \cap A
    BY <1>2, KeepRange
  <2> QED
    BY <1>1, <2>1
<1>5. s = <<>> <=> Range(s) = {}
  <2>1. Range(<<>>) = {}
    BY DEF Range
  <2>2. s # <<>> => s[1] \in Range(s)
    <3>1. s # <<>> => 1 \in 1..Len(s)
      BY <1>3
    <3> QED
      BY <1>3, <3>1, InRange
  <2> QED
    BY <2>1, <2>2
<1> QED
  BY <1>1, <1>3, <1>5

\* Sums of naturals are naturals.
LEMMA SumIsNat ==
  ASSUME NEW n \in Nat, NEW f \in [1..n -> Nat]
  PROVE  Sum(f) \in Nat
<1>1. PICK T : /\ Totals(T, n, f)
               /\ \A k \in 0..n : \A h \in [1..k -> Nat] :
                    (\A j \in 1..k : h[j] = f[j]) => Sum(h) = T[k]
  BY RunningTotals
<1>2. T \in [0..n -> Nat] /\ n \in 0..n
  BY <1>1 DEF Totals
<1>3. Sum(f) = T[n]
  BY <1>1, <1>2
<1> QED
  BY <1>2, <1>3

\* A posted file has the size the NZB lists for it.
LEMMA PostedSize ==
  ASSUME NEW v \in PostedFiles, Complete(v), NEW k \in Nat, NEW x, x.parts = Posted(v, k).parts
  PROVE  ListedSize(x) = ListedSize(v) /\ ListedSize(v) \in Nat
<1>1. PICK n, p : n = Len(v.parts) /\ p = Posted(v, k)
  OBVIOUS
<1>2. /\ Numbered(p.parts, n)
      /\ \A i \in 1..n : p.parts[i] = [number |-> v.parts[i].number, bytes |-> v.parts[i].bytes,
                                       article |-> <<k, v.parts[i].number>>]
  BY <1>1, PostedParts
<1>3. n \in Nat /\ DOMAIN p.parts = 1..n
  BY <1>2 DEF Numbered
<1>4. ASSUME NEW i \in 1..n PROVE p.parts[i].bytes = v.parts[i].bytes
  <2>1. p.parts[i] = [number |-> v.parts[i].number, bytes |-> v.parts[i].bytes,
                      article |-> <<k, v.parts[i].number>>]
    BY <1>2
  <2> QED
    BY <2>1
<1>5. DOMAIN v.parts = 1..n /\ \A i \in 1..n : v.parts[i].bytes \in Nat
  <2>1. PICK X : X = [number : Nat, bytes : Nat]
    OBVIOUS
  <2>2. v.parts \in Seq(X)
    BY <2>1 DEF PostedFiles
  <2>3. DOMAIN v.parts = 1..n /\ \A i \in 1..n : v.parts[i] \in X
    BY <1>1, <2>2
  <2> QED
    BY <2>1, <2>3
<1>6. PICK f : f = [i \in 1..n |-> v.parts[i].bytes]
  OBVIOUS
<1>7. f \in [1..n -> Nat]
  BY <1>5, <1>6
<1>8. ListedSize(v) = Sum(f)
  BY <1>5, <1>6 DEF ListedSize
<1>9. ListedSize(x) = Sum(f)
  <2>1. x.parts = p.parts
    BY <1>1
  <2>2. [i \in DOMAIN x.parts |-> x.parts[i].bytes] = f
    BY <1>3, <1>4, <1>6, <2>1
  <2> QED
    BY <2>2 DEF ListedSize
<1> QED
  BY <1>3, <1>7, <1>8, <1>9, SumIsNat

\* Listed in order, the parts are those by number.
LEMMA PartsInOrder ==
  ASSUME NEW n, NEW parts, Numbered(parts, n), \A i \in 1..n : parts[i].number = i
  PROVE  ByNumber(parts) = parts
<1>1. n \in Nat /\ parts = [i \in 1..n |-> parts[i]]
  BY DEF Numbered
<1>2. PICK place : place = [j \in 1..n |-> j]
  OBVIOUS
<1>3. \A j \in 1..n : place[j] = j
  BY <1>2
<1>4. InPlace(place, parts, n)
  BY <1>2, <1>3 DEF InPlace
<1>5. ByNumber(parts) = [j \in 1..n |-> parts[place[j]]]
  BY <1>4, PartsByNumber
<1>6. [j \in 1..n |-> parts[place[j]]] = [j \in 1..n |-> parts[j]]
  BY <1>3
<1> QED
  BY <1>1, <1>5, <1>6

\* What the NZB of a flat release lists: the file x, the recovery files, and
\* perhaps a smaller sample.
FlatNzb(nzb, x, d) ==
  /\ \E Y : nzb \in Seq(Y)
  /\ Range(nzb) = {x, Par2} \cup IF d.sample THEN {Extra("video", 1)} ELSE {}
  /\ x.name = Name(d.style, 1)
  /\ ListedSize(x) \in Nat
  /\ d.sample => ListedSize(Extra("video", 1)) \in Nat
                 /\ ListedSize(x) > ListedSize(Extra("video", 1))

\* That is what a probe of a flat release finds listed.
LEMMA FlatListed ==
  ASSUME NEW v \in PostedFiles, Complete(v), NEW d, StyleOf(d), d.sample \in BOOLEAN,
         d.sample => ListedSize(v) > ListedSize(Extra("video", 1)),
         NEW dressed, dressed = Dressed(<<Posted(v, 1)>>, 0, d),
         NEW nzb, nzb = IF d.sample THEN Append(dressed, Extra("video", 1)) ELSE dressed,
         NEW x, x = DressedFile(Posted(v, 1), 1, 0, d)
  PROVE  FlatNzb(nzb, x, d)
<1>1. PICK files : files = <<Posted(v, 1)>>
  OBVIOUS
<1>2. PICK n : n = 1
  OBVIOUS
<1>3. Released(files, n) /\ \A k \in 1..n : k = 1
  BY <1>1, <1>2 DEF Released
<1>4. PICK L : L = [k \in 1..n |-> DressedFile(files[k], k, 0, d)]
  OBVIOUS
<1>5. InRelease(L, files, n, 0, d)
  BY <1>4 DEF InRelease
<1>6. Listing(L, files, n, 0, d)
  BY <1>3, <1>5, ReleaseListed
<1>7. Range(L) = {x}
  <2>1. DOMAIN L = 1..n /\ L[1] = x /\ 1 \in 1..n
    BY <1>1, <1>2, <1>4
  <2> QED
    BY <1>3, <2>1 DEF Range
<1>8. PICK X : X = {x, Par2}
  OBVIOUS
<1>9. dressed \in Seq(X) /\ Range(dressed) = X
  <2>1. X = Range(L) \cup {Par2}
    BY <1>7, <1>8
  <2>2. dressed = Dressed(files, 0, d)
    BY <1>1
  <2> QED
    BY <1>3, <1>5, <2>1, <2>2, DressedListed
<1>10. PICK sample : sample = Extra("video", 1)
  OBVIOUS
<1>11. PICK Y : Y = X \cup {sample}
  OBVIOUS
<1>12. nzb \in Seq(Y) /\ Range(nzb) = X \cup IF d.sample THEN {sample} ELSE {}
  <2>1. dressed \in Seq(Y) /\ sample \in Y
    BY <1>9, <1>11
  <2>2. CASE d.sample
    <3>1. nzb = Append(dressed, sample)
      BY <1>10, <2>2
    <3>2. nzb \in Seq(Y)
      BY <2>1, <3>1, AppendProperties
    <3>3. Range(nzb) = Range(dressed) \cup {sample}
      BY <2>1, <3>1, RangeAppend
    <3> QED
      BY <1>9, <2>2, <3>2, <3>3
  <2>3. CASE ~ d.sample
    BY <1>9, <2>1, <2>3
  <2> QED
    BY <2>2, <2>3
<1>13. x.name = Name(d.style, 1) /\ x.parts = Posted(v, 1).parts
  BY DEF DressedFile
<1>14. ListedSize(x) = ListedSize(v) /\ ListedSize(v) \in Nat
  BY <1>13, PostedSize
<1>15. ListedSize(sample) \in Nat
  <2>1. PICK f : f = [i \in 1..n |-> 1]
    OBVIOUS
  <2>2. f \in [1..n -> Nat] /\ n \in Nat
    BY <1>2, <2>1
  <2>3. Sum(f) \in Nat
    BY <2>2, SumIsNat
  <2>4. sample.parts = <<[number |-> 1, bytes |-> 1, article |-> <<"video", 1>>]>>
    BY <1>10 DEF Extra
  <2>5. DOMAIN sample.parts = 1..1 /\ sample.parts[1].bytes = 1
    BY <2>4
  <2>6. [i \in DOMAIN sample.parts |-> sample.parts[i].bytes] = f
    BY <1>2, <1>3, <2>1, <2>5
  <2> QED
    BY <2>3, <2>6 DEF ListedSize
<1>16. \E W : nzb \in Seq(W)
  BY <1>12
<1> QED
  BY <1>8, <1>10, <1>12, <1>13, <1>14, <1>15, <1>16 DEF FlatNzb

\* So the file is what a preflight plays.
LEMMA FlatChosen ==
  ASSUME NEW d, StyleOf(d), d.style = "other" => ~ d.sample,
         NEW x, NEW nzb, FlatNzb(nzb, x, d), PickMainFile(nzb).kind = "flat"
  PROVE  /\ PickMainFile(nzb) = [kind |-> "flat", file |-> x]
         /\ x.name.style \in {"video", "other"}
         /\ Named(nzb, {"part"}) = <<>>
         /\ NotPar2(nzb) # <<>> /\ Largest(NotPar2(nzb)) = x
<1>1. PICK sample : sample = Extra("video", 1)
  OBVIOUS
<1>2. PICK Y : nzb \in Seq(Y)
  BY DEF FlatNzb
<1>3. /\ Range(nzb) = {x, Par2} \cup IF d.sample THEN {sample} ELSE {}
      /\ x.name = Name(d.style, 1)
      /\ ListedSize(x) \in Nat
      /\ d.sample => ListedSize(sample) \in Nat /\ ListedSize(x) > ListedSize(sample)
  BY <1>1 DEF FlatNzb
<1>4. Par2.name.style = "par2" /\ sample.name.style = "video"
  BY <1>1 DEF Par2, Extra
<1>5. /\ x.name.style = IF d.style = "old" THEN "rar" ELSE d.style
      /\ d.style \in {"part", "old", "video", "other"}
  BY <1>3, NameStyles DEF StyleOf
<1>6. PICK rars, parts, videos, others :
        /\ rars = Named(nzb, RarStyles) /\ parts = Named(nzb, {"part"})
        /\ videos = Named(nzb, {"video"}) /\ others = NotPar2(nzb)
  OBVIOUS
<1>7. rars = <<>> <=> \A f \in Range(nzb) : f.name.style \notin RarStyles
  BY <1>2, <1>6, NamedOf
<1>8. parts = <<>> <=> \A f \in Range(nzb) : f.name.style \notin {"part"}
  BY <1>2, <1>6, NamedOf
<1>9. /\ videos \in Seq(Y) /\ Range(videos) = {f \in Range(nzb) : f.name.style \in {"video"}}
      /\ videos = <<>> <=> \A f \in Range(nzb) : f.name.style \notin {"video"}
  BY <1>2, <1>6, NamedOf
<1>10. /\ others \in Seq(Y) /\ Range(others) = {f \in Range(nzb) : f.name.style # "par2"}
       /\ others = <<>> <=> \A f \in Range(nzb) : f.name.style = "par2"
  BY <1>2, <1>6, NotPar2Of
<1>11. rars = <<>>
  BY <1>6 DEF PickMainFile
<1>12. x.name.style = d.style /\ d.style \in {"video", "other"}
  <2>1. x \in Range(nzb)
    BY <1>3
  <2>2. x.name.style \notin {"part", "rar", "r"}
    BY <1>7, <1>11, <2>1 DEF RarStyles
  <2> QED
    BY <1>5, <2>2
<1>13. parts = <<>>
  BY <1>3, <1>4, <1>8, <1>12
<1>14. others # <<>> /\ Largest(others) = x
  <2>1. Range(others) = {x} \cup IF d.sample THEN {sample} ELSE {}
    BY <1>3, <1>4, <1>10, <1>12
  <2>2. x \in Range(others)
    BY <2>1
  <2>3. \A y \in Range(others) : ListedSize(y) \in Int /\ (y # x => ListedSize(y) < ListedSize(x))
    BY <1>3, <2>1
  <2>4. Largest(others) = x
    BY <1>10, <2>2, <2>3, LargestIs
  <2>5. others # <<>>
    BY <1>3, <1>10, <1>12
  <2> QED
    BY <2>4, <2>5
<1>15. PickMainFile(nzb) = [kind |-> "flat", file |-> x]
  <2>1. CASE d.style = "video"
    <3>1. Range(videos) = {x} \cup IF d.sample THEN {sample} ELSE {}
      BY <1>3, <1>4, <1>9, <1>12, <2>1
    <3>2. x \in Range(videos)
      BY <3>1
    <3>3. \A y \in Range(videos) : ListedSize(y) \in Int /\ (y # x => ListedSize(y) < ListedSize(x))
      BY <1>3, <3>1
    <3>4. Largest(videos) = x
      BY <1>9, <3>2, <3>3, LargestIs
    <3>5. videos # <<>>
      BY <1>3, <1>9, <1>12, <2>1
    <3> QED
      BY <1>6, <1>11, <3>4, <3>5 DEF PickMainFile
  <2>2. CASE d.style = "other"
    <3>1. Range(nzb) = {x, Par2}
      BY <1>3, <2>2
    <3>2. videos = <<>>
      BY <1>4, <1>9, <1>12, <2>2, <3>1
    <3> QED
      BY <1>6, <1>11, <1>14, <3>2 DEF PickMainFile
  <2> QED
    BY <1>12, <2>1, <2>2
<1> QED
  BY <1>6, <1>12, <1>13, <1>14, <1>15

\* Its first and its last article are asked for if its parts are listed in order.
LEMMA FlatCovered ==
  ASSUME NEW d, StyleOf(d), d.style = "other" => ~ d.sample,
         NEW x, NEW nzb, FlatNzb(nzb, x, d), PickMainFile(nzb).kind = "flat",
         NEW n, Numbered(x.parts, n)
  PROVE  Covered("flat", nzb)
<1>1. /\ PickMainFile(nzb) = [kind |-> "flat", file |-> x]
      /\ x.name.style \in {"video", "other"}
      /\ Named(nzb, {"part"}) = <<>>
      /\ NotPar2(nzb) # <<>> /\ Largest(NotPar2(nzb)) = x
  BY FlatChosen
<1>2. PICK files : files = <<PickMainFile(nzb).file>>
  OBVIOUS
<1>3. files = <<x>> /\ files[1] = x /\ Last(files) = x
  <2>1. files = <<x>>
    BY <1>1, <1>2
  <2> QED
    BY <2>1 DEF Last
<1>4. n \in Nat \ {0} /\ x.parts = [i \in 1..n |-> x.parts[i]] /\ DOMAIN x.parts = 1..n
  BY DEF Numbered
<1>5. Len(x.parts) = n
  <2>1. PICK X : X = {x.parts[i] : i \in 1..n}
    OBVIOUS
  <2>2. x.parts \in [1..n -> X] /\ n \in Nat
    BY <1>4, <2>1
  <2> QED
    BY <2>2, FunctionIsSeq
<1>6. PickCanaries(nzb) = Ends(Articles(x.parts))
  BY <1>1 DEF PickCanaries
<1>7. PICK a : a = Articles(x.parts)
  OBVIOUS
<1>8. a = [i \in 1..n |-> x.parts[i].article] /\ DOMAIN a = 1..n
  BY <1>4, <1>7 DEF Articles
<1>9. Len(a) = n /\ a # <<>>
  <2>1. PICK X : X = {a[i] : i \in 1..n}
    OBVIOUS
  <2>2. a \in [1..n -> X] /\ n \in Nat
    BY <1>4, <1>8, <2>1
  <2>3. Len(a) = n
    BY <2>2, FunctionIsSeq
  <2> QED
    BY <1>4, <2>3
<1>10. Ends(a) = {x.parts[1].article, x.parts[n].article}
  <2>1. Head(a) = a[1] /\ Last(a) = a[n]
    BY <1>9 DEF Last
  <2>2. 1 \in 1..n /\ n \in 1..n
    BY <1>4
  <2>3. a[1] = x.parts[1].article /\ a[n] = x.parts[n].article
    BY <1>8, <2>2
  <2> QED
    BY <1>9, <2>1, <2>3 DEF Ends
<1>11. ASSUME \A i \in DOMAIN x.parts : x.parts[i].number = i
       PROVE  /\ ByNumber(x.parts)[1].article \in PickCanaries(nzb)
              /\ Last(ByNumber(x.parts)).article \in PickCanaries(nzb)
  <2>1. ByNumber(x.parts) = x.parts
    BY <1>4, <1>11, PartsInOrder
  <2>2. Last(x.parts) = x.parts[n]
    BY <1>5 DEF Last
  <2> QED
    BY <1>6, <1>7, <1>10, <2>1, <2>2
<1>12. files[1].name.style # "part"
  BY <1>1, <1>3
<1> QED
  BY <1>2, <1>3, <1>11, <1>12 DEF Covered

-----------------------------------------------------------------------------
(* The volumes of an archive, and the video in it.                         *)

\* The number in the name of a volume.
NumberOf(d, k) == IF d.style = "part" THEN 2 * k ELSE k

\* The volumes of an archive are found in their order, and no other file.
VolumesOf(nzb, L, n, d) ==
  /\ FindRarVolumes(nzb) = L
  /\ d.style \in {"part", "old"}
  /\ \A k \in 1..n : L[k].name.style = "part" <=> d.style = "part"
  /\ \A k \in 1..n : VolumeNumber(L[k]) = NumberOf(d, k)
  /\ d.style = "part" => /\ Named(nzb, {"part"}) \in Seq(Range(L))
                         /\ Range(Named(nzb, {"part"})) = Range(L)

\* An archive is played from the volumes that were posted, in their order.
LEMMA VolumesFound ==
  ASSUME NEW files, NEW n, Released(files, n), NEW unpacked, NEW d, StyleOf(d),
         NEW L, InRelease(L, files, n, unpacked, d), NEW nzb, nzb = Dressed(files, unpacked, d),
         PickMainFile(nzb).kind = "rar"
  PROVE  VolumesOf(nzb, L, n, d)
<1>1. PICK X, R : X = Range(L) \cup {Par2} /\ R = Range(L)
  OBVIOUS
<1>2. nzb \in Seq(X) /\ Range(nzb) = R \cup {Par2} /\ Distinct(nzb)
  BY <1>1, DressedListed
<1>3. Listing(L, files, n, unpacked, d)
  BY ReleaseListed
<1>4. /\ L \in Seq(R) /\ Len(L) = n /\ DOMAIN L = 1..n /\ n \in Nat \ {0}
      /\ \A k \in 1..n : L[k].name = Name(d.style, k)
      /\ \A x \in R : \E k \in 1..n : x = L[k]
      /\ \A k \in 1..n : L[k] \in R
  <2>1. /\ L \in Seq(R) /\ Len(L) = n /\ DOMAIN L = 1..n
        /\ \A x \in R : \E k \in 1..n : x = L[k]
    BY <1>1, <1>3 DEF Listing
  <2>2. \A k \in 1..n : L[k].name = Name(d.style, k)
    BY <1>3 DEF Listing, DressedFile
  <2>3. n \in Nat \ {0}
    BY DEF Released
  <2>4. \A k \in 1..n : L[k] \in R
    BY <1>1, <2>1 DEF Range
  <2> QED
    BY <2>1, <2>2, <2>3, <2>4
<1>5. \A k \in 1..n :
        /\ L[k].name.style = IF d.style = "old" THEN (IF k = 1 THEN "rar" ELSE "r") ELSE d.style
        /\ d.style = "part" => L[k].name.number = 2 * k
        /\ d.style = "old" => L[k].name.number = k - 2
  <2> SUFFICES ASSUME NEW k \in 1..n
               PROVE  /\ L[k].name.style = IF d.style = "old" THEN (IF k = 1 THEN "rar" ELSE "r")
                                           ELSE d.style
                      /\ d.style = "part" => L[k].name.number = 2 * k
                      /\ d.style = "old" => L[k].name.number = k - 2
    OBVIOUS
  <2>1. k \in Nat \ {0}
    BY <1>4
  <2>2. PICK N : N = Name(d.style, k)
    OBVIOUS
  <2>3. /\ N.style = IF d.style = "old" THEN (IF k = 1 THEN "rar" ELSE "r") ELSE d.style
        /\ d.style = "part" => N.number = 2 * k
        /\ d.style = "old" => N.number = k - 2
    BY <2>1, <2>2, NameStyles
  <2>4. L[k].name = N
    BY <1>4, <2>2
  <2> QED
    BY <2>3, <2>4
<1>6. Par2.name.style = "par2"
  BY DEF Par2, Extra
<1>7. PICK rars, parts, olds :
        /\ rars = Named(nzb, RarStyles) /\ parts = Named(nzb, {"part"})
        /\ olds = Named(nzb, {"rar", "r"})
  OBVIOUS
<1>8. rars = <<>> <=> \A f \in Range(nzb) : f.name.style \notin RarStyles
  BY <1>2, <1>7, NamedOf
<1>9. /\ parts \in Seq(X) /\ Range(parts) = {f \in Range(nzb) : f.name.style \in {"part"}}
      /\ Distinct(parts)
      /\ parts = <<>> <=> \A f \in Range(nzb) : f.name.style \notin {"part"}
  BY <1>2, <1>7, NamedOf
<1>10. /\ olds \in Seq(X) /\ Range(olds) = {f \in Range(nzb) : f.name.style \in {"rar", "r"}}
       /\ Distinct(olds)
  BY <1>2, <1>7, NamedOf
<1>11. rars # <<>>
  BY <1>7 DEF PickMainFile
<1>12. d.style \in {"part", "old"}
  <2>1. PICK f \in Range(nzb) : f.name.style \in RarStyles
    BY <1>8, <1>11
  <2>2. f \in R
    BY <1>2, <1>6, <2>1 DEF RarStyles
  <2>3. PICK k \in 1..n : f = L[k]
    BY <1>4, <2>2
  <2> QED
    BY <1>5, <2>1, <2>3 DEF RarStyles, StyleOf
<1>13. \A k \in 1..n : VolumeNumber(L[k]) = NumberOf(d, k)
  <2> SUFFICES ASSUME NEW k \in 1..n PROVE VolumeNumber(L[k]) = NumberOf(d, k)
    OBVIOUS
  <2>1. CASE d.style = "part"
    BY <1>5, <2>1 DEF VolumeNumber, NumberOf
  <2>2. CASE d.style = "old" /\ k = 1
    <3>1. L[k].name.style = "rar"
      BY <1>5, <2>2
    <3> QED
      BY <2>2, <3>1 DEF VolumeNumber, NumberOf
  <2>3. CASE d.style = "old" /\ k # 1
    <3>1. L[k].name.style = "r" /\ L[k].name.number = k - 2
      BY <1>5, <2>3
    <3>2. k - 2 + 2 = k
      BY <1>4
    <3> QED
      BY <2>3, <3>1, <3>2 DEF VolumeNumber, NumberOf
  <2> QED
    BY <1>12, <2>1, <2>2, <2>3
<1>14. \A k \in 1..n : L[k].name.style = "part" <=> d.style = "part"
  BY <1>5, <1>12
<1>15. PICK s : s = IF parts # <<>> THEN parts ELSE olds
  OBVIOUS
<1>16. /\ d.style = "part" => Range(parts) = R
       /\ s \in Seq(X) /\ Range(s) = R /\ Distinct(s)
  <2>0. 1 \in 1..n /\ L[1] \in R
    BY <1>4
  <2>1. CASE d.style = "part"
    <3>1. \A x \in R : x.name.style = "part"
      BY <1>4, <1>5, <2>1
    <3>2. Range(parts) = R
      BY <1>2, <1>6, <1>9, <3>1
    <3>3. parts # <<>>
      BY <1>2, <1>9, <2>0, <3>1
    <3> QED
      BY <1>9, <1>15, <3>2, <3>3
  <2>2. CASE d.style = "old"
    <3>1. \A x \in R : x.name.style \in {"rar", "r"}
      BY <1>4, <1>5, <2>2
    <3>2. parts = <<>>
      BY <1>2, <1>6, <1>9, <3>1
    <3>3. Range(olds) = R
      BY <1>2, <1>6, <1>10, <3>1
    <3> QED
      BY <1>10, <1>15, <2>2, <3>2, <3>3
  <2> QED
    BY <1>12, <2>1, <2>2
<1>17. PICK key, order : /\ key = [f \in R |-> VolumeNumber(f)]
                         /\ order = {p \in R \X R : VolumeNumber(p[1]) < VolumeNumber(p[2])}
  OBVIOUS
<1>18. FindRarVolumes(nzb) = SortedBy(s, order)
  BY <1>7, <1>15, <1>16, <1>17 DEF FindRarVolumes, StableSorted
<1>19. \A k \in 1..n : key[L[k]] = NumberOf(d, k)
  BY <1>4, <1>13, <1>17
<1>20. key \in [R -> Int]
  <2>1. ASSUME NEW x \in R PROVE VolumeNumber(x) \in Int
    <3>1. PICK k \in 1..n : x = L[k]
      BY <1>4
    <3> QED
      BY <1>4, <1>13, <3>1 DEF NumberOf
  <2> QED
    BY <1>17, <2>1
<1>21. OrderOf(order, key, R)
  BY <1>17, <1>20 DEF OrderOf
<1>22. Climbs(L, key)
  <2>1. ASSUME NEW i \in 1..n, NEW j \in 1..n, i < j PROVE key[L[i]] < key[L[j]]
    <3>1. NumberOf(d, i) < NumberOf(d, j)
      BY <2>1 DEF NumberOf
    <3> QED
      BY <1>19, <3>1
  <2> QED
    BY <1>4, <2>1 DEF Climbs
<1>23. s \in Seq(R)
  <2>1. s \in Seq(Range(s))
    BY <1>16, SeqOfRange
  <2> QED
    BY <1>16, <2>1
<1>24. SortedBy(s, order) = L
  <2>1. Range(s) = Range(L)
    BY <1>1, <1>16
  <2> QED
    BY <1>4, <1>16, <1>21, <1>22, <1>23, <2>1, SortedUnique
<1>25. d.style = "part" => parts \in Seq(R) /\ Range(parts) = R
  <2>1. parts \in Seq(Range(parts))
    BY <1>9, SeqOfRange
  <2> QED
    BY <1>16, <2>1
<1> QED
  BY <1>1, <1>7, <1>12, <1>13, <1>14, <1>18, <1>24, <1>25 DEF VolumesOf

\* The entry of the video.
VideoEntry(v, unpacked) == Entry("video", unpacked, v.start, v.data, 0)

\* The entries a volume lists: the one with the video is there if it has data.
ListedEntries(s, v, unpacked, d) ==
  /\ s \in Seq(Range(s))
  /\ Range(s) = (IF d.sample THEN {Entry("dir", 0, 0, 0, 0), Entry("sample", 1, 0, 1, d.method)}
                 ELSE {})
                \cup (IF v.data = 0 THEN {} ELSE {VideoEntry(v, unpacked)})

\* The entries as they were dressed.
EntriesOf(s, v, unpacked, d) ==
  d.sample \in BOOLEAN /\ s = BesideOf(d) \o VideoOf(v, unpacked)

\* The entries of a dressed file are those beside the video and that of the video.
LEMMA EntriesListed ==
  ASSUME NEW v, NEW unpacked, NEW d, NEW s, EntriesOf(s, v, unpacked, d)
  PROVE  ListedEntries(s, v, unpacked, d)
<1>0. d.sample \in BOOLEAN /\ s = BesideOf(d) \o VideoOf(v, unpacked)
  BY DEF EntriesOf
<1>1. PICK a, b, c : /\ a = Entry("dir", 0, 0, 0, 0) /\ b = Entry("sample", 1, 0, 1, d.method)
                     /\ c = VideoEntry(v, unpacked)
  OBVIOUS
<1>2. PICK E : E = {a, b, c}
  OBVIOUS
<1>3. PICK x, y : x = BesideOf(d) /\ y = VideoOf(v, unpacked)
  OBVIOUS
<1>4. x \in Seq(E) /\ Range(x) = IF d.sample THEN {a, b} ELSE {}
  <2>1. CASE d.sample
    <3>1. x = <<a, b>>
      BY <1>1, <1>3, <2>1 DEF BesideOf
    <3>2. DOMAIN x = 1..2 /\ x[1] = a /\ x[2] = b
      BY <3>1
    <3>3. \A i \in 1..2 : i = 1 \/ i = 2
      OBVIOUS
    <3>4. x = [i \in 1..2 |-> x[i]] /\ \A i \in 1..2 : x[i] \in E
      BY <1>2, <3>1, <3>2, <3>3
    <3>5. x \in Seq(E)
      <4>1. PICK two : two = 2
        OBVIOUS
      <4>2. two \in Nat /\ x \in [1..two -> E]
        BY <3>4, <4>1
      <4> QED
        BY <4>2, FunctionIsSeq
    <3>6. Range(x) = {a, b}
      BY <3>2, <3>3 DEF Range
    <3> QED
      BY <2>1, <3>5, <3>6
  <2>2. CASE ~ d.sample
    <3>1. x = <<>>
      BY <1>3, <2>2 DEF BesideOf
    <3> QED
      BY <2>2, <3>1 DEF Range
  <2> QED
    BY <2>1, <2>2
<1>5. y \in Seq(E) /\ Range(y) = IF v.data = 0 THEN {} ELSE {c}
  <2>1. CASE v.data = 0
    <3>1. y = <<>>
      BY <1>3, <2>1 DEF VideoOf
    <3> QED
      BY <2>1, <3>1 DEF Range
  <2>2. CASE v.data # 0
    <3>1. y = <<c>> /\ c \in E
      BY <1>1, <1>2, <1>3, <2>2 DEF VideoOf, VideoEntry
    <3> QED
      BY <2>2, <3>1, Single
  <2> QED
    BY <2>1, <2>2
<1>6. s = x \o y
  BY <1>0, <1>3
<1>7. s \in Seq(E) /\ Range(s) = Range(x) \cup Range(y)
  BY <1>4, <1>5, <1>6, ConcatProperties, RangeConcatenation
<1>8. s \in Seq(Range(s))
  BY <1>7, SeqOfRange
<1> QED
  BY <1>1, <1>4, <1>5, <1>7, <1>8 DEF ListedEntries

\* The volumes of an archive: what each lists, and that the video is larger than a sample.
Archive(L, files, n, unpacked, d) ==
  /\ n \in Nat \ {0} /\ DOMAIN L = 1..n /\ DOMAIN files = 1..n
  /\ unpacked \in Nat /\ unpacked > IF d.sample THEN 1 ELSE 0
  /\ \A k \in 1..n : ListedEntries(L[k].entries, files[k], unpacked, d)
  /\ \E k \in 1..n : files[k].data # 0

\* The entries with data in them.
SizedEntries(s, L, files, k, unpacked, d) ==
  /\ s \in Seq(Range(L[k].entries))
  /\ Range(s) = (IF d.sample THEN {Entry("sample", 1, 0, 1, d.method)} ELSE {})
                \cup (IF files[k].data = 0 THEN {} ELSE {VideoEntry(files[k], unpacked)})

\* Those are what Entries takes of a volume.
LEMMA EntriesSized ==
  ASSUME NEW L, NEW files, NEW n, NEW unpacked, NEW d, Archive(L, files, n, unpacked, d),
         NEW k \in 1..n, NEW s, s = Keep(L[k].entries, {e \in Range(L[k].entries) : e.unpacked > 0})
  PROVE  SizedEntries(s, L, files, k, unpacked, d)
<1>1. PICK t, v : t = L[k].entries /\ v = files[k]
  OBVIOUS
<1>2. ListedEntries(t, v, unpacked, d) /\ unpacked \in Nat /\ unpacked > 0
  BY <1>1 DEF Archive
<1>3. PICK a, b, c : /\ a = Entry("dir", 0, 0, 0, 0) /\ b = Entry("sample", 1, 0, 1, d.method)
                     /\ c = VideoEntry(v, unpacked)
  OBVIOUS
<1>4. /\ t \in Seq(Range(t))
      /\ Range(t) = (IF d.sample THEN {a, b} ELSE {}) \cup (IF v.data = 0 THEN {} ELSE {c})
  BY <1>2, <1>3 DEF ListedEntries
<1>5. a.unpacked = 0 /\ b.unpacked = 1 /\ c.unpacked = unpacked
  BY <1>3 DEF Entry, VideoEntry
<1>6. PICK A : A = {e \in Range(t) : e.unpacked > 0}
  OBVIOUS
<1>7. s \in Seq(Range(t)) /\ Range(s) = Range(t) \cap A
  BY <1>1, <1>4, <1>6, KeepRange
<1>8. Range(t) \cap A = (IF d.sample THEN {b} ELSE {}) \cup (IF v.data = 0 THEN {} ELSE {c})
  <2>1. a \notin A /\ (b \in Range(t) => b \in A) /\ (c \in Range(t) => c \in A)
    BY <1>2, <1>5, <1>6
  <2>2. a # b /\ a # c
    BY <1>2, <1>5
  <2> QED
    BY <1>4, <2>1, <2>2
<1> QED
  BY <1>1, <1>3, <1>7, <1>8 DEF SizedEntries

\* The video is what is chosen as the largest entry.
LEMMA MainEntryIs ==
  ASSUME NEW L, NEW files, NEW n, NEW unpacked, NEW d, Archive(L, files, n, unpacked, d)
  PROVE  MainEntry(L).file = "video" /\ MainEntry(L).unpacked = unpacked
<1>1. /\ n \in Nat \ {0} /\ DOMAIN L = 1..n
      /\ unpacked \in Nat /\ unpacked > IF d.sample THEN 1 ELSE 0
      /\ \E k \in 1..n : files[k].data # 0
  BY DEF Archive
<1>2. PICK sized : sized = [k \in 1..n |->
        Keep(L[k].entries, {e \in Range(L[k].entries) : e.unpacked > 0})]
  OBVIOUS
<1>3. PICK sample : sample = Entry("sample", 1, 0, 1, d.method)
  OBVIOUS
<1>4. \A k \in 1..n :
        /\ sized[k] \in Seq(Range(L[k].entries))
        /\ Range(sized[k]) = (IF d.sample THEN {sample} ELSE {})
                             \cup (IF files[k].data = 0 THEN {} ELSE {VideoEntry(files[k], unpacked)})
  <2> SUFFICES ASSUME NEW k \in 1..n
               PROVE  /\ sized[k] \in Seq(Range(L[k].entries))
                      /\ Range(sized[k]) = (IF d.sample THEN {sample} ELSE {})
                             \cup (IF files[k].data = 0 THEN {} ELSE {VideoEntry(files[k], unpacked)})
    OBVIOUS
  <2>1. PICK s : s = Keep(L[k].entries, {e \in Range(L[k].entries) : e.unpacked > 0})
    OBVIOUS
  <2>2. /\ s \in Seq(Range(L[k].entries))
        /\ Range(s) = (IF d.sample THEN {sample} ELSE {})
                      \cup (IF files[k].data = 0 THEN {} ELSE {VideoEntry(files[k], unpacked)})
    <3>1. SizedEntries(s, L, files, k, unpacked, d)
      BY <2>1, EntriesSized
    <3> QED
      BY <1>3, <3>1 DEF SizedEntries
  <2>3. s = sized[k]
    BY <1>2, <2>1
  <2> QED
    BY <2>2, <2>3
<1>5. \A k \in 1..n : /\ \A i \in DOMAIN sized[k] : sized[k][i] \in Range(sized[k])
                      /\ \A e \in Range(sized[k]) : \E i \in DOMAIN sized[k] : sized[k][i] = e
  BY DEF Range
<1>6. PICK ss : ss = [k \in 1..n |->
        [i \in DOMAIN sized[k] |-> [volume |-> k, entry |-> sized[k][i]]]]
  OBVIOUS
<1>7. Entries(L) = FlattenSeq(ss)
  <2>1. \A k \in 1..n : sized[k] = Keep(L[k].entries, {e \in Range(L[k].entries) : e.unpacked > 0})
    BY <1>2
  <2> QED
    BY <1>1, <1>6, <2>1 DEF Entries, Filter
<1>80. PICK E : E = UNION {Range(sized[l]) : l \in 1..n}
  OBVIOUS
<1>8. PICK W : W = [volume : 1..n, entry : E]
  OBVIOUS
<1>9. ASSUME NEW k \in 1..n
      PROVE  ss[k] \in Seq(W)
  <2>1. PICK t, m : t = sized[k] /\ m = Len(sized[k])
    OBVIOUS
  <2>2. m \in Nat /\ DOMAIN t = 1..m
    BY <1>4, <2>1
  <2>3. ss[k] = [i \in 1..m |-> [volume |-> k, entry |-> t[i]]]
    BY <1>6, <2>1, <2>2
  <2>4. \A i \in 1..m : [volume |-> k, entry |-> t[i]] \in W
    <3>1. \A i \in 1..m : t[i] \in E
      BY <1>5, <1>80, <2>1, <2>2
    <3> QED
      BY <1>8, <3>1
  <2>5. ss[k] \in [1..m -> W]
    BY <2>3, <2>4
  <2> QED
    BY <2>2, <2>5, FunctionIsSeq
<1>10. ss \in Seq(Seq(W)) /\ Len(ss) = n
  <2>1. ss \in [1..n -> Seq(W)]
    BY <1>6, <1>9
  <2> QED
    BY <1>1, <2>1, FunctionIsSeq
<1>11. PICK s : s = FlattenSeq(ss)
  OBVIOUS
<1>12. s \in Seq(W) /\ \A x : x \in Range(s) <=> \E k \in 1..n : x \in Range(ss[k])
  BY <1>10, <1>11, FlattenRange
<1>13. \A k \in 1..n : \A x :
         x \in Range(ss[k]) <=> \E e \in Range(sized[k]) : x = [volume |-> k, entry |-> e]
  <2> SUFFICES ASSUME NEW k \in 1..n, NEW x
               PROVE  x \in Range(ss[k]) <=> \E e \in Range(sized[k]) : x = [volume |-> k, entry |-> e]
    OBVIOUS
  <2>1. /\ DOMAIN ss[k] = DOMAIN sized[k]
        /\ \A i \in DOMAIN sized[k] : ss[k][i] = [volume |-> k, entry |-> sized[k][i]]
    BY <1>6
  <2>2. x \in Range(ss[k]) <=> \E i \in DOMAIN sized[k] : x = ss[k][i]
    BY <2>1 DEF Range
  <2>3. ASSUME x \in Range(ss[k]) PROVE \E e \in Range(sized[k]) : x = [volume |-> k, entry |-> e]
    <3>1. PICK i \in DOMAIN sized[k] : x = ss[k][i]
      BY <2>2, <2>3
    <3>2. PICK e : e = sized[k][i]
      OBVIOUS
    <3>3. e \in Range(sized[k]) /\ x = [volume |-> k, entry |-> e]
      BY <1>5, <2>1, <3>1, <3>2
    <3> QED
      BY <3>3
  <2>4. ASSUME NEW e \in Range(sized[k]), x = [volume |-> k, entry |-> e] PROVE x \in Range(ss[k])
    <3>1. PICK i \in DOMAIN sized[k] : sized[k][i] = e
      BY <1>5
    <3>2. x = ss[k][i]
      BY <2>1, <2>4, <3>1
    <3> QED
      BY <2>2, <3>2
  <2> QED
    BY <2>3, <2>4
<1>14. PICK G : G = {x \in Range(s) : x.entry.file = "video"}
  OBVIOUS
<1>15. sample.file = "sample" /\ sample.unpacked = 1
  BY <1>3 DEF Entry
<1>16. \A k \in 1..n : VideoEntry(files[k], unpacked).file = "video"
                       /\ VideoEntry(files[k], unpacked).unpacked = unpacked
  BY DEF VideoEntry, Entry
<1>17. ASSUME NEW x \in Range(s)
       PROVE  /\ x.entry.unpacked \in Int
              /\ x \in G => x.entry.unpacked = unpacked /\ x.entry.file = "video"
              /\ x \notin G => x.entry.unpacked < unpacked
  <2>1. PICK k \in 1..n : x \in Range(ss[k])
    BY <1>12
  <2>2. PICK e \in Range(sized[k]) : x = [volume |-> k, entry |-> e]
    BY <1>13, <2>1
  <2>3. x.entry = e
    BY <2>2
  <2>4. CASE e = VideoEntry(files[k], unpacked)
    BY <1>1, <1>14, <1>16, <2>3, <2>4
  <2>5. CASE d.sample /\ e = sample
    BY <1>1, <1>14, <1>15, <2>3, <2>5
  <2>6. e = VideoEntry(files[k], unpacked) \/ (d.sample /\ e = sample)
    <3>1. PICK v : v = VideoEntry(files[k], unpacked)
      OBVIOUS
    <3>2. e \in (IF d.sample THEN {sample} ELSE {}) \cup (IF files[k].data = 0 THEN {} ELSE {v})
      BY <1>4, <2>2, <3>1
    <3>3. e = v \/ (d.sample /\ e = sample)
      <4>1. CASE d.sample
        BY <3>2, <4>1
      <4>2. CASE ~ d.sample
        BY <3>2, <4>2
      <4> QED
        BY <4>1, <4>2
    <3> QED
      BY <3>1, <3>3
  <2> QED
    BY <2>4, <2>5, <2>6
<1>18. Range(s) \cap G # {}
  <2>1. PICK k \in 1..n : files[k].data # 0
    BY <1>1
  <2>2. PICK e : e = VideoEntry(files[k], unpacked)
    OBVIOUS
  <2>3. e \in Range(sized[k])
    BY <1>4, <2>1, <2>2
  <2>4. PICK x : x = [volume |-> k, entry |-> e]
    OBVIOUS
  <2>5. x \in Range(s)
    BY <1>12, <1>13, <2>3, <2>4
  <2>6. x.entry = e
    BY <2>4
  <2> QED
    BY <1>14, <1>16, <2>2, <2>5, <2>6
<1>19. PICK key : key = [x \in Range(s) |-> x.entry.unpacked]
  OBVIOUS
<1>20. \A i \in DOMAIN s : s[i] \in Range(s) /\ key[s[i]] = s[i].entry.unpacked
  BY <1>19 DEF Range
<1>21. /\ \E i : GreatestIn(s, key, i)
       /\ \A i : GreatestIn(s, key, i) => s[i] \in G
  <2>1. \A x \in Range(s) :
          key[x] \in Int /\ (x \in G => key[x] = unpacked) /\ (x \notin G => key[x] < unpacked)
    BY <1>17, <1>19
  <2>2. unpacked \in Int
    BY <1>1
  <2> QED
    BY <1>12, <1>18, <2>1, <2>2, GreatestExists
<1>22. \A i : GreatestIn(s, key, i) <=>
        /\ i \in DOMAIN s
        /\ \A j \in DOMAIN s : s[j].entry.unpacked < s[i].entry.unpacked
                               \/ (s[i].entry.unpacked = s[j].entry.unpacked /\ j <= i)
  BY <1>20 DEF GreatestIn
<1>23. \E i \in DOMAIN s : \A j \in DOMAIN s : s[j].entry.unpacked < s[i].entry.unpacked
                               \/ (s[i].entry.unpacked = s[j].entry.unpacked /\ j <= i)
  BY <1>21, <1>22
<1>24. PICK i \in DOMAIN s : /\ MainEntry(L) = s[i].entry
                             /\ \A j \in DOMAIN s : s[j].entry.unpacked < s[i].entry.unpacked
                               \/ (s[i].entry.unpacked = s[j].entry.unpacked /\ j <= i)
  <2>1. MainEntry(L) = LastGreatest(s, LAMBDA e : e.entry.unpacked).entry
    BY <1>7, <1>11 DEF MainEntry
  <2>2. PICK i : i = CHOOSE l \in DOMAIN s :
                       \A j \in DOMAIN s : s[j].entry.unpacked < s[l].entry.unpacked
                               \/ (s[l].entry.unpacked = s[j].entry.unpacked /\ j <= l)
    OBVIOUS
  <2>3. /\ i \in DOMAIN s
        /\ \A j \in DOMAIN s : s[j].entry.unpacked < s[i].entry.unpacked
                               \/ (s[i].entry.unpacked = s[j].entry.unpacked /\ j <= i)
    BY <1>23, <2>2
  <2>4. MainEntry(L) = s[i].entry
    BY <2>1, <2>2 DEF LastGreatest
  <2> QED
    BY <2>3, <2>4
<1>25. s[i] \in G
  BY <1>21, <1>22, <1>24
<1>26. s[i] \in Range(s)
  BY <1>20
<1> QED
  BY <1>17, <1>24, <1>25, <1>26

\* The volumes with data of the video, in their order.
CarriersIn(cs, files, n) ==
  /\ cs \in Seq(1..n)
  /\ Range(cs) = {k \in 1..n : files[k].data # 0}
  /\ \A i, j \in 1..Len(cs) : i < j => cs[i] < cs[j]

\* Such volumes are what PerVolume keeps.
LEMMA CarriersKept ==
  ASSUME NEW n \in Nat \ {0}, NEW files, NEW id, id = [k \in 1..n |-> k],
         NEW A, \A k \in 1..n : k \in A <=> files[k].data # 0, NEW cs, cs = Keep(id, A)
  PROVE  CarriersIn(cs, files, n)
<1>1. PICK N : N = 1..n
  OBVIOUS
<1>2. id \in [1..n -> N] /\ n \in Nat /\ \A k \in 1..n : id[k] = k
  BY <1>1
<1>3. id \in Seq(N) /\ Len(id) = n /\ DOMAIN id = 1..n
  BY <1>2, FunctionIsSeq
<1>4. Range(id) = N
  BY <1>1, <1>2, <1>3 DEF Range
<1>5. id \in [N -> Int]
  BY <1>1, <1>2
<1>6. Rising(id, id)
  BY <1>1, <1>2, <1>3 DEF Rising
<1>7. Distinct(id)
  BY <1>1, <1>2, <1>3 DEF Distinct
<1>8. cs \in Seq(N) /\ Range(cs) = Range(id) \cap A
  BY <1>3, KeepRange
<1>9. Rising(cs, id) /\ Distinct(cs)
  BY <1>3, <1>5, <1>6, <1>7, RisingKeep, DistinctKeep
<1>10. ASSUME NEW i \in 1..Len(cs), NEW j \in 1..Len(cs), i < j PROVE cs[i] < cs[j]
  <2>1. cs[i] \in N /\ cs[j] \in N
    BY <1>8, InRange
  <2>2. id[cs[i]] <= id[cs[j]]
    BY <1>9, <1>10 DEF Rising
  <2>3. cs[i] # cs[j]
    <3>1. Len(cs) \in Nat
      BY <1>8
    <3> QED
      BY <1>9, <1>10, <3>1 DEF Distinct
  <2> QED
    BY <1>1, <1>2, <2>1, <2>2, <2>3
<1>11. Range(cs) = {k \in 1..n : files[k].data # 0}
  BY <1>1, <1>4, <1>8
<1> QED
  BY <1>1, <1>8, <1>10, <1>11 DEF CarriersIn

\* What the headers say of these.
LEMMA PerVolumeIs ==
  ASSUME NEW L, NEW files, NEW n, NEW unpacked, NEW d, Archive(L, files, n, unpacked, d)
  PROVE  \E cs : /\ CarriersIn(cs, files, n)
                 /\ PerVolume(L) = [c \in 1..Len(cs) |->
                      [parts |-> L[cs[c]].parts, stride |-> L[cs[c]].stride, size |-> L[cs[c]].size,
                       start |-> files[cs[c]].start, data |-> files[cs[c]].data]]
<1> DEFINE M(k) == Keep(L[k].entries,
                        {e \in Range(L[k].entries) : e.unpacked > 0 /\ e.file = MainEntry(L).file})
           At(k) == IF M(k) = <<>> THEN [start |-> 0, data |-> 0] ELSE Head(M(k))
<1>1. PICK id : id = [k \in DOMAIN L |-> k]
  OBVIOUS
<1>2. PICK A : A = {k \in Range(id) : M(k) # <<>>}
  OBVIOUS
<1>3. PICK cs : cs = Keep(id, A)
  OBVIOUS
<1>4. PerVolume(L) = [c \in DOMAIN cs |->
                       [parts |-> L[cs[c]].parts, stride |-> L[cs[c]].stride, size |-> L[cs[c]].size,
                        start |-> At(cs[c]).start, data |-> At(cs[c]).data]]
  BY <1>1, <1>2, <1>3 DEF PerVolume, Filter
<1>5. /\ n \in Nat \ {0} /\ DOMAIN L = 1..n /\ DOMAIN files = 1..n
      /\ unpacked \in Nat /\ unpacked > IF d.sample THEN 1 ELSE 0
      /\ \A k \in 1..n : ListedEntries(L[k].entries, files[k], unpacked, d)
  BY DEF Archive
<1>6. MainEntry(L).file = "video"
  BY MainEntryIs
<1>7. ASSUME NEW k \in 1..n
      PROVE  /\ M(k) # <<>> <=> files[k].data # 0
             /\ files[k].data # 0 => At(k).start = files[k].start /\ At(k).data = files[k].data
  <2>1. PICK t, v : t = L[k].entries /\ v = files[k]
    OBVIOUS
  <2>2. ListedEntries(t, v, unpacked, d)
    BY <1>5, <2>1
  <2>3. PICK a, b, c : /\ a = Entry("dir", 0, 0, 0, 0) /\ b = Entry("sample", 1, 0, 1, d.method)
                       /\ c = VideoEntry(v, unpacked)
    OBVIOUS
  <2>4. /\ t \in Seq(Range(t))
        /\ Range(t) = (IF d.sample THEN {a, b} ELSE {}) \cup (IF v.data = 0 THEN {} ELSE {c})
    BY <2>2, <2>3 DEF ListedEntries
  <2>5. /\ a.file = "dir" /\ b.file = "sample"
        /\ c.file = "video" /\ c.unpacked = unpacked /\ c.start = v.start /\ c.data = v.data
    BY <2>3 DEF Entry, VideoEntry
  <2>6. PICK B : B = {e \in Range(t) : e.unpacked > 0 /\ e.file = "video"}
    OBVIOUS
  <2>7. PICK s : s = M(k)
    OBVIOUS
  <2>8. s = Keep(t, B)
    BY <1>6, <2>1, <2>6, <2>7
  <2>9. s \in Seq(Range(t)) /\ Range(s) = Range(t) \cap B
    BY <2>4, <2>8, KeepRange
  <2>10. Range(t) \cap B = IF v.data = 0 THEN {} ELSE {c}
    <3>1. a \notin B /\ b \notin B
      BY <2>5, <2>6
    <3>2. c \in Range(t) => c \in B
      BY <1>5, <2>5, <2>6
    <3> QED
      BY <2>4, <3>1, <3>2
  <2> HIDE DEF M
  <2>11. CASE v.data = 0
    <3>1. s = <<>>
      <4>1. s # <<>> => 1 \in 1..Len(s)
        BY <2>9
      <4>2. 1 \in 1..Len(s) => s[1] \in Range(s)
        BY <2>9, InRange
      <4> QED
        BY <2>9, <2>10, <2>11, <4>1, <4>2
    <3> QED
      BY <2>1, <2>7, <2>11, <3>1
  <2>12. CASE v.data # 0
    <3>1. s # <<>>
      <4>1. Range(<<>>) = {}
        BY DEF Range
      <4> QED
        BY <2>9, <2>10, <2>12, <4>1
    <3>2. 1 \in 1..Len(s) /\ Head(s) = s[1]
      BY <2>9, <3>1
    <3>3. s[1] \in Range(s)
      BY <2>9, <3>2, InRange
    <3>4. Head(s) = c
      BY <2>9, <2>10, <2>12, <3>2, <3>3
    <3>5. At(k) = c
      BY <2>7, <3>1, <3>4
    <3> HIDE DEF At
    <3> QED
      BY <2>1, <2>5, <2>7, <2>12, <3>1, <3>5
  <2> QED
    BY <2>11, <2>12
<1> HIDE DEF M, At
<1>8. id = [k \in 1..n |-> k]
  BY <1>1, <1>5
<1>9. \A k \in 1..n : k \in A <=> files[k].data # 0
  <2>1. Range(id) = 1..n
    BY <1>8 DEF Range
  <2> QED
    BY <1>2, <1>7, <2>1
<1>10. CarriersIn(cs, files, n)
  BY <1>3, <1>5, <1>8, <1>9, CarriersKept
<1>11. PICK m \in Nat : m = Len(cs) /\ DOMAIN cs = 1..m /\ \A c \in 1..m : cs[c] \in Range(cs)
  <2>1. cs \in Seq(1..n)
    BY <1>10 DEF CarriersIn
  <2>2. \A c \in 1..Len(cs) : cs[c] \in Range(cs)
    BY <2>1, InRange
  <2> QED
    BY <2>1, <2>2
<1>12. ASSUME NEW c \in 1..m
       PROVE  At(cs[c]).start = files[cs[c]].start /\ At(cs[c]).data = files[cs[c]].data
  <2>1. cs[c] \in 1..n /\ files[cs[c]].data # 0
    BY <1>10, <1>11 DEF CarriersIn
  <2> QED
    BY <1>7, <2>1
<1>13. PerVolume(L) = [c \in 1..m |->
                      [parts |-> L[cs[c]].parts, stride |-> L[cs[c]].stride, size |-> L[cs[c]].size,
                       start |-> files[cs[c]].start, data |-> files[cs[c]].data]]
  BY <1>4, <1>11, <1>12
<1> QED
  BY <1>10, <1>11, <1>13

\* How a preflight lays out a volume.
VolumeShape(w, lens, k, v, n, len) ==
  /\ Regular(lens, n, v.stride, len) /\ len \in Nat \ {0}
  /\ Sum(lens) = len
  /\ v.start \in Nat /\ v.data \in Nat /\ v.start + v.data <= len
  /\ DOMAIN w.parts = 1..n /\ \A i \in 1..n : w.parts[i].article = <<k, i>>

\* So is every volume that was posted completely.
LEMMA VolumeShaped ==
  ASSUME NEW v \in PostedFiles, Complete(v), NEW k \in Nat, NEW n, n = Len(v.parts),
         NEW w, w.parts = ByNumber(Posted(v, k).parts), w.stride = v.stride, w.size = v.size,
         NEW lens, lens = VolumeLengths(w),
         NEW len, len = (n - 1) * v.stride + LastLength(v)
  PROVE  VolumeShape(w, lens, k, v, n, len)
<1>1. PICK parts : parts = Posted(v, k).parts
  OBVIOUS
<1>2. /\ Numbered(parts, n)
      /\ \A i \in 1..n : parts[i] = [number |-> v.parts[i].number, bytes |-> v.parts[i].bytes,
                                     article |-> <<k, v.parts[i].number>>]
  BY <1>1, PostedParts
<1>3. /\ n \in Nat \ {0} /\ v.stride \in Nat \ {0} /\ (n - 1) * v.stride \in Nat
      /\ FileLength(v) = (n - 1) * v.stride + v.tail
      /\ Saturating(FileTotal(n, v.stride, v.size), (n - 1) * v.stride) = LastLength(v)
      /\ LastLength(v) \in Nat \ {0} /\ v.tail \in Nat \ {0} /\ v.tail <= LastLength(v)
  BY TotalOf
<1>4. PICK place : InPlace(place, parts, n)
  BY <1>2, PlacesExist
<1>5. w.parts = [j \in 1..n |-> parts[place[j]]]
  BY <1>1, <1>2, <1>4, PartsByNumber
<1>6. ASSUME NEW i \in 1..n PROVE w.parts[i].article = <<k, i>>
  <2>1. place[i] \in 1..n /\ parts[place[i]].number = i
    BY <1>4 DEF InPlace
  <2>2. PICK l : l = place[i]
    OBVIOUS
  <2>3. parts[l] = [number |-> v.parts[l].number, bytes |-> v.parts[l].bytes,
                    article |-> <<k, v.parts[l].number>>]
    BY <1>2, <2>1, <2>2
  <2>4. parts[l].number = i /\ parts[l].article = <<k, v.parts[l].number>>
        /\ parts[l].number = v.parts[l].number
    BY <2>1, <2>2, <2>3
  <2>5. w.parts[i] = parts[l]
    BY <1>5, <2>2
  <2> QED
    BY <2>4, <2>5
<1>7. DOMAIN w.parts = 1..n /\ Len(w.parts) = n
  <2>1. PICK X : X = {w.parts[i] : i \in 1..n}
    OBVIOUS
  <2>2. n \in Nat /\ w.parts \in [1..n -> X] /\ DOMAIN w.parts = 1..n
    BY <1>3, <1>5, <2>1
  <2> QED
    BY <2>2, FunctionIsSeq
<1>8. PICK last : last = LastLength(v)
  OBVIOUS
<1>9. lens = [i \in 1..n |-> IF i < n THEN v.stride ELSE last]
  <2>1. lens = [i \in 1..n |-> IF i < n THEN v.stride
                     ELSE Saturating(FileTotal(n, v.stride, v.size), (n - 1) * v.stride)]
    BY <1>7 DEF VolumeLengths
  <2>2. PICK x : x = Saturating(FileTotal(n, v.stride, v.size), (n - 1) * v.stride)
    OBVIOUS
  <2>3. x = last
    BY <1>3, <1>8, <2>2
  <2>4. lens = [i \in 1..n |-> IF i < n THEN v.stride ELSE x]
    BY <2>1, <2>2
  <2> QED
    BY <2>3, <2>4
<1>10. PICK p : p = (n - 1) * v.stride
  OBVIOUS
<1>11. p \in Nat /\ len = p + last /\ last \in Nat \ {0} /\ len \in Nat \ {0}
  BY <1>3, <1>8, <1>10
<1>12. Regular(lens, n, v.stride, len)
  <2>1. lens \in [1..n -> Nat \ {0}]
    BY <1>3, <1>9, <1>11
  <2>2. \A i \in 1..n - 1 : lens[i] = v.stride
    BY <1>3, <1>9
  <2>3. lens[n] = last
    BY <1>3, <1>9
  <2>4. len = (n - 1) * v.stride + lens[n]
    BY <1>10, <1>11, <2>3
  <2>5. n \in Nat \ {0} /\ v.stride \in Nat \ {0} /\ len \in Nat
    BY <1>3, <1>11
  <2> QED
    BY <2>1, <2>2, <2>4, <2>5 DEF Regular
<1>13. Sum(lens) = len
  BY <1>12, RegularSums
<1>14. v.start \in Nat /\ v.data \in Nat /\ v.start + v.data <= len
  <2>1. v.start \in Nat /\ v.data \in Nat
    BY DEF PostedFiles
  <2>2. v.start + v.data <= FileLength(v)
    BY DEF Complete
  <2>3. FileLength(v) = p + v.tail /\ v.tail \in Nat /\ v.tail <= last
    BY <1>3, <1>8, <1>10
  <2> QED
    BY <1>11, <2>1, <2>2, <2>3
<1> QED
  BY <1>6, <1>7, <1>11, <1>12, <1>13, <1>14 DEF VolumeShape

-----------------------------------------------------------------------------
(* The layout of an archive.                                               *)

\* The volumes left out have nothing of the video: the totals of the carriers are
\* the totals of all.
SameSums(T, W, cs, n, m) ==
  /\ \A c \in 1..m : T[cs[c] - 1] = W[c - 1]
  /\ T[n] = W[m]

\* The running totals over the carriers are those over all volumes.
LEMMA CarriersSums ==
  ASSUME NEW n \in Nat, NEW files, NEW cs, CarriersIn(cs, files, n),
         NEW f \in [1..n -> Nat], \A k \in 1..n : f[k] = files[k].data,
         NEW T, Totals(T, n, f), NEW m, m = Len(cs),
         NEW g, g = [c \in 1..m |-> f[cs[c]]], NEW W, Totals(W, m, g)
  PROVE  SameSums(T, W, cs, n, m)
<1>1. /\ cs \in Seq(1..n) /\ m \in Nat
      /\ \A i, j \in 1..m : i < j => cs[i] < cs[j]
      /\ \A c \in 1..m : cs[c] \in 1..n
  <2>1. cs \in Seq(1..n) /\ \A i, j \in 1..m : i < j => cs[i] < cs[j]
    BY DEF CarriersIn
  <2> QED
    BY <2>1
<1>2. \A j \in 1..n : f[j] # 0 => \E e \in 1..m : cs[e] = j
  <2> SUFFICES ASSUME NEW j \in 1..n, f[j] # 0 PROVE \E e \in 1..m : cs[e] = j
    OBVIOUS
  <2>1. j \in Range(cs)
    BY DEF CarriersIn
  <2>2. \A x \in Range(cs) : \E e \in 1..Len(cs) : cs[e] = x
    BY <1>1, InRange
  <2> QED
    BY <2>1, <2>2
<1>3. PICK z : z = [c \in 0..m |-> IF c = 0 THEN 0 ELSE cs[c]]
  OBVIOUS
<1>4. z[0] = 0 /\ (\A c \in 1..m : z[c] = cs[c]) /\ \A c \in 0..m : z[c] \in 0..n
  BY <1>1, <1>3
<1>5. T \in [0..n -> Nat] /\ T[0] = 0 /\ \A k \in 1..n : T[k] = T[k - 1] + f[k]
  BY DEF Totals
<1>6. ASSUME NEW c \in 1..m
      PROVE  z[c - 1] <= cs[c] - 1 /\ \A j \in z[c - 1] + 1..cs[c] - 1 : f[j] = 0
  <2>1. PICK p : p = c - 1
    OBVIOUS
  <2>2. p \in 0..m /\ cs[c] \in 1..n /\ z[p] \in 0..n
    BY <1>1, <1>4, <2>1
  <2>3. p # 0 => p \in 1..m /\ p < c /\ z[p] = cs[p] /\ cs[p] < cs[c]
    BY <1>1, <1>4, <2>1, <2>2
  <2>4. z[p] <= cs[c] - 1
    BY <1>1, <1>4, <2>2, <2>3
  <2>5. ASSUME NEW j \in z[p] + 1..cs[c] - 1, f[j] # 0 PROVE FALSE
    <3>1. j \in 1..n /\ z[p] < j /\ j < cs[c]
      BY <2>2, <2>5
    <3>2. PICK e \in 1..m : cs[e] = j
      BY <1>2, <2>5, <3>1
    <3>3. e < c
      <4>1. c < e => cs[c] < cs[e]
        BY <1>1
      <4>2. e # c
        BY <3>1, <3>2
      <4> QED
        BY <1>1, <2>2, <3>1, <3>2, <4>1, <4>2
    <3>4. p # 0 /\ e <= p
      BY <2>1, <3>3
    <3>5. e = p \/ cs[e] < cs[p]
      BY <1>1, <2>3, <3>4
    <3>6. cs[p] \in Int /\ z[p] = cs[p]
      BY <1>1, <2>3, <3>4
    <3> QED
      BY <3>1, <3>2, <3>5, <3>6
  <2> QED
    BY <2>1, <2>4, <2>5
<1>7. ASSUME NEW c \in 1..m PROVE T[cs[c] - 1] = T[z[c - 1]]
  <2>1. PICK a, b : a = z[c - 1] /\ b = cs[c] - 1
    OBVIOUS
  <2>2. a \in 0..n /\ b \in 0..n /\ a <= b /\ \A j \in a + 1..b : f[j] = 0
    <3>1. c - 1 \in 0..m /\ cs[c] \in 1..n
      BY <1>1
    <3>2. a \in 0..n /\ b \in 0..n
      BY <1>4, <2>1, <3>1
    <3> QED
      BY <1>6, <2>1, <3>2
  <2>3. T[a] = T[b]
    BY <2>2, TotalsRise
  <2> QED
    BY <2>1, <2>3
<1>8. PICK U : U = [c \in 0..m |-> T[z[c]]]
  OBVIOUS
<1>9. g \in [1..m -> Nat] /\ \A c \in 1..m : g[c] = f[cs[c]]
  BY <1>1
<1>10. \A c \in 0..m : U[c] = W[c]
  <2>1. U[0] = 0
    BY <1>1, <1>4, <1>5, <1>8
  <2>2. ASSUME NEW c \in 1..m PROVE U[c] = U[c - 1] + g[c]
    <3>1. c - 1 \in 0..m /\ c \in 0..m /\ cs[c] \in 1..n
      BY <1>1
    <3>2. T[cs[c]] = T[cs[c] - 1] + f[cs[c]]
      BY <1>5, <3>1
    <3> QED
      BY <1>4, <1>7, <1>8, <1>9, <3>1, <3>2
  <2>3. W[0] = 0 /\ \A c \in 1..m : W[c] = W[c - 1] + g[c]
    BY DEF Totals
  <2> SUFFICES ASSUME NEW c \in 0..m PROVE U[c] = W[c]
    OBVIOUS
  <2>4. SameSteps(U, W, c)
    <3>1. c \in Nat /\ U[0] = W[0]
      BY <1>1, <2>1, <2>3
    <3>2. ASSUME NEW k \in 1..c, U[k - 1] = W[k - 1] PROVE U[k] = W[k]
      <4>1. k \in 1..m
        BY <1>1
      <4>2. U[k] = U[k - 1] + g[k] /\ W[k] = W[k - 1] + g[k]
        BY <2>2, <2>3, <4>1
      <4> QED
        BY <3>2, <4>2
    <3> QED
      BY <3>1, <3>2 DEF SameSteps
  <2> QED
    BY <2>4, RunsAgree
<1>11. ASSUME NEW c \in 1..m PROVE T[cs[c] - 1] = W[c - 1]
  <2>1. c - 1 \in 0..m
    BY <1>1
  <2> QED
    BY <1>7, <1>8, <1>10, <2>1
<1>12. T[n] = W[m]
  <2>1. PICK a : a = z[m]
    OBVIOUS
  <2>2. a \in 0..n /\ m \in 0..m
    BY <1>1, <1>4, <2>1
  <2>3. ASSUME NEW j \in a + 1..n, f[j] # 0 PROVE FALSE
    <3>1. j \in 1..n /\ a < j
      BY <2>2, <2>3
    <3>2. PICK e \in 1..m : cs[e] = j
      BY <1>2, <2>3, <3>1
    <3>3. m \in 1..m /\ a = cs[m] /\ a \in Int
      BY <1>1, <1>4, <2>1
    <3>4. e = m \/ cs[e] < cs[m]
      BY <1>1, <3>3
    <3> QED
      BY <3>1, <3>2, <3>3, <3>4
  <2>4. T[a] = T[n]
    <3>1. n \in 0..n /\ a <= n
      BY <2>2
    <3> QED
      BY <2>2, <2>3, <3>1, TotalsRise
  <2> QED
    BY <1>8, <1>10, <2>1, <2>2, <2>4
<1> QED
  BY <1>11, <1>12 DEF SameSums

\* Where the volumes begin in the assembled stream and in the video.
Starts(U, W, volumes, m, E, g) ==
  /\ Totals(U, m, E) /\ Totals(W, m, g)
  /\ \A c \in 1..m : VolumeStart(volumes, c) = U[c - 1] /\ VideoStart(volumes, c) = W[c - 1]

\* VolumeStart and VideoStart are the totals of the lengths and of the data.
LEMMA StartsAre ==
  ASSUME NEW m \in Nat, NEW volumes, NEW E \in [1..m -> Nat], NEW g \in [1..m -> Nat],
         \A c \in 1..m : Sum(VolumeLengths(volumes[c])) = E[c] /\ volumes[c].data = g[c]
  PROVE  \E U : \E W : Starts(U, W, volumes, m, E, g)
<1>1. PICK U : /\ Totals(U, m, E)
               /\ \A k \in 0..m : \A h \in [1..k -> Nat] :
                    (\A j \in 1..k : h[j] = E[j]) => Sum(h) = U[k]
  BY RunningTotals
<1>2. PICK W : /\ Totals(W, m, g)
               /\ \A k \in 0..m : \A h \in [1..k -> Nat] :
                    (\A j \in 1..k : h[j] = g[j]) => Sum(h) = W[k]
  BY RunningTotals
<1>3. ASSUME NEW c \in 1..m PROVE VolumeStart(volumes, c) = U[c - 1]
  <2>1. PICK l : l = c - 1
    OBVIOUS
  <2>2. l \in 0..m /\ \A j \in 1..l : j \in 1..m
    BY <2>1
  <2>3. PICK h : h = [j \in 1..l |-> Sum(VolumeLengths(volumes[j]))]
    OBVIOUS
  <2>4. h \in [1..l -> Nat] /\ \A j \in 1..l : h[j] = E[j]
    BY <2>2, <2>3
  <2>5. Sum(h) = U[l]
    BY <1>1, <2>2, <2>4
  <2> QED
    BY <2>1, <2>3, <2>5 DEF VolumeStart
<1>4. ASSUME NEW c \in 1..m PROVE VideoStart(volumes, c) = W[c - 1]
  <2>1. PICK l : l = c - 1
    OBVIOUS
  <2>2. l \in 0..m /\ \A j \in 1..l : j \in 1..m
    BY <2>1
  <2>3. PICK h : h = [j \in 1..l |-> volumes[j].data]
    OBVIOUS
  <2>4. h \in [1..l -> Nat] /\ \A j \in 1..l : h[j] = g[j]
    BY <2>2, <2>3
  <2>5. Sum(h) = W[l]
    BY <1>2, <2>2, <2>4
  <2> QED
    BY <2>1, <2>3, <2>5 DEF VideoStart
<1>5. Starts(U, W, volumes, m, E, g)
  BY <1>1, <1>2, <1>3, <1>4 DEF Starts
<1> QED
  BY <1>5

\* The carriers of an archive: the posted files V they are, how many articles N each
\* has and how long E each is laid out.
Plan(C, cs, m, V, N, E, U, W) ==
  C = [c \in 1..m |-> [file |-> cs[c], parts |-> N[c], stride |-> V[cs[c]].stride,
                       from |-> U[c - 1], upto |-> U[c], video |-> W[c - 1],
                       length |-> V[cs[c]].data, start |-> V[cs[c]].start]]

\* The volumes of a layout, and what they were posted as.
Volumed(volumes, B, cs, m, V, N, E) ==
  /\ m \in Nat \ {0} /\ DOMAIN volumes = 1..m
  /\ \A c \in 1..m : /\ cs[c] \in Nat
                     /\ B[c] = VolumeLengths(volumes[c])
                     /\ volumes[c].data = V[cs[c]].data /\ volumes[c].start = V[cs[c]].start
                     /\ V[cs[c]].data # 0
                     /\ VolumeShape(volumes[c], B[c], cs[c], V[cs[c]], N[c], E[c])

\* They lie end to end, in the stream and in the video.
LEMMA PlanMade ==
  ASSUME NEW volumes, NEW B, NEW cs, NEW m, NEW V, NEW N, NEW E,
         Volumed(volumes, B, cs, m, V, N, E),
         NEW U, NEW W, NEW g, g = [c \in 1..m |-> V[cs[c]].data], Totals(U, m, E), Totals(W, m, g),
         NEW C, Plan(C, cs, m, V, N, E, U, W)
  PROVE  Planned(C, m) /\ \A c \in 1..m : Carries(C[c], cs[c], N[c], V[cs[c]].stride, E[c])
<1>1. /\ m \in Nat \ {0}
      /\ \A c \in 1..m : cs[c] \in Nat /\ V[cs[c]].data # 0
                         /\ VolumeShape(volumes[c], B[c], cs[c], V[cs[c]], N[c], E[c])
  BY DEF Volumed
<1>2. \A c \in 1..m :
        /\ N[c] \in Nat \ {0} /\ V[cs[c]].stride \in Nat \ {0} /\ E[c] \in Nat \ {0}
        /\ V[cs[c]].start \in Nat /\ V[cs[c]].data \in Nat /\ V[cs[c]].start + V[cs[c]].data <= E[c]
  BY <1>1 DEF VolumeShape, Regular
<1>3. /\ U \in [0..m -> Nat] /\ U[0] = 0 /\ \A c \in 1..m : U[c] = U[c - 1] + E[c]
      /\ W \in [0..m -> Nat] /\ W[0] = 0 /\ \A c \in 1..m : W[c] = W[c - 1] + g[c]
  BY DEF Totals
<1>4. \A c \in 1..m : c - 1 \in 0..m /\ c \in 0..m
  BY <1>1
<1>5. \A c \in 1..m : U[c - 1] \in Nat /\ U[c] \in Nat /\ W[c - 1] \in Nat
  BY <1>3, <1>4
<1>6. ASSUME NEW c \in 1..m
      PROVE  /\ C[c].file = cs[c] /\ C[c].parts = N[c] /\ C[c].stride = V[cs[c]].stride
             /\ C[c].from = U[c - 1] /\ C[c].upto = U[c] /\ C[c].video = W[c - 1]
             /\ C[c].length = V[cs[c]].data /\ C[c].start = V[cs[c]].start
             /\ C[c] \in Carrier
  <2>1. C[c] = [file |-> cs[c], parts |-> N[c], stride |-> V[cs[c]].stride,
                from |-> U[c - 1], upto |-> U[c], video |-> W[c - 1],
                length |-> V[cs[c]].data, start |-> V[cs[c]].start]
    BY DEF Plan
  <2>2. /\ C[c].file = cs[c] /\ C[c].parts = N[c] /\ C[c].stride = V[cs[c]].stride
        /\ C[c].from = U[c - 1] /\ C[c].upto = U[c] /\ C[c].video = W[c - 1]
        /\ C[c].length = V[cs[c]].data /\ C[c].start = V[cs[c]].start
    BY <2>1
  <2>3. C[c] \in Carrier
    BY <1>1, <1>2, <1>5, <2>1 DEF Carrier
  <2> QED
    BY <2>2, <2>3
<1>7. C \in [1..m -> Carrier]
  BY <1>6 DEF Plan
<1>8. \A c \in 1..m : C[c].upto = C[c].from + E[c]
  BY <1>3, <1>6
<1>9. \A c \in 1..m : Carries(C[c], cs[c], N[c], V[cs[c]].stride, E[c])
  BY <1>6, <1>8 DEF Carries
<1>10. ASSUME NEW c \in 1..m PROVE C[c].start + C[c].length <= C[c].upto - C[c].from
  <2>1. C[c].upto - C[c].from = E[c]
    BY <1>2, <1>5, <1>6, <1>8
  <2> QED
    BY <1>2, <1>6, <2>1
<1>11. ASSUME NEW c \in 1..m - 1
       PROVE  C[c + 1].from = C[c].upto /\ C[c + 1].video = C[c].video + C[c].length
  <2>1. PICK e : e = c + 1
    OBVIOUS
  <2>2. c \in 1..m /\ e \in 1..m /\ e - 1 = c
    BY <1>1, <2>1
  <2>3. C[e].from = U[e - 1] /\ C[e].video = W[e - 1]
    BY <1>6, <2>2
  <2>4. W[c] = W[c - 1] + V[cs[c]].data
    BY <1>3, <2>2
  <2> QED
    BY <1>6, <2>1, <2>2, <2>3, <2>4
<1>12. C[1].from = 0 /\ C[1].video = 0
  <2>1. 1 \in 1..m /\ 1 - 1 = 0
    BY <1>1
  <2> QED
    BY <1>3, <1>6, <2>1
<1> QED
  BY <1>1, <1>7, <1>9, <1>10, <1>11, <1>12 DEF Planned

\* The layout of the volumes that carry the video is that of the carriers.
LEMMA RarLaysOut ==
  ASSUME NEW volumes, NEW B, NEW cs, NEW m, NEW V, NEW N, NEW E,
         Volumed(volumes, B, cs, m, V, N, E),
         NEW U, NEW W, NEW g, g = [c \in 1..m |-> V[cs[c]].data], Starts(U, W, volumes, m, E, g),
         NEW C, Plan(C, cs, m, V, N, E, U, W), NEW lay, lay = RarLayout(volumes)
  PROVE  LaysOut(lay, C, m)
<1>1. /\ Totals(U, m, E) /\ Totals(W, m, g)
      /\ \A c \in 1..m : VolumeStart(volumes, c) = U[c - 1] /\ VideoStart(volumes, c) = W[c - 1]
  BY DEF Starts
<1>2. Planned(C, m) /\ \A c \in 1..m : Carries(C[c], cs[c], N[c], V[cs[c]].stride, E[c])
  BY <1>1, PlanMade
<1>3. \A c \in 1..m : /\ cs[c] \in Nat /\ B[c] = VolumeLengths(volumes[c])
                      /\ volumes[c].data = V[cs[c]].data /\ volumes[c].start = V[cs[c]].start
                      /\ VolumeShape(volumes[c], B[c], cs[c], V[cs[c]], N[c], E[c])
  BY DEF Volumed
<1>4. \A c \in 1..m : /\ C[c].from = U[c - 1] /\ C[c].video = W[c - 1]
                      /\ C[c].length = V[cs[c]].data /\ C[c].start = V[cs[c]].start
  BY DEF Plan
<1>5. PICK ss : ss = [c \in 1..m |->
       LaidOut(volumes[c].parts, VolumeLengths(volumes[c]), VolumeStart(volumes, c))]
  OBVIOUS
<1>6. ASSUME NEW c \in 1..m PROVE PieceOf(ss[c], C[c])
  <2>1. PICK k, n, stride, len, lens, parts, x :
          /\ k = cs[c] /\ n = N[c] /\ stride = V[cs[c]].stride /\ len = E[c] /\ lens = B[c]
          /\ parts = volumes[c].parts /\ x = C[c]
    OBVIOUS
  <2>2. /\ k \in Nat /\ Regular(lens, n, stride, len)
        /\ DOMAIN parts = 1..n /\ \A i \in 1..n : parts[i].article = <<k, i>>
    BY <1>3, <2>1 DEF VolumeShape
  <2>3. Carries(x, k, n, stride, len)
    BY <1>2, <2>1
  <2>4. PieceOf(LaidOut(parts, lens, x.from), x)
    BY <2>2, <2>3, PieceLaid
  <2>5. ss[c] = LaidOut(parts, lens, x.from)
    BY <1>1, <1>3, <1>4, <1>5, <2>1
  <2> QED
    BY <2>1, <2>4, <2>5
<1>7. ss \in Seq(Seq(Segment)) /\ Len(ss) = m
  <2>1. m \in Nat
    BY DEF Volumed
  <2>2. ss \in [1..m -> Seq(Segment)]
    BY <1>5, <1>6 DEF PieceOf
  <2> QED
    BY <2>1, <2>2, FunctionIsSeq
<1>8. /\ Contiguous(FlattenSeq(ss), 0, C[m].upto)
      /\ \A x \in Range(FlattenSeq(ss)) : \E k \in 1..m : HeldBy(x, C[k])
  BY <1>2, <1>6, <1>7, FromPieces
<1>9. lay.segments = FlattenSeq(ss)
  <2>1. DOMAIN volumes = 1..m
    BY DEF Volumed
  <2>2. lay.segments = FlattenSeq([c \in 1..m |->
          LaidOut(volumes[c].parts, VolumeLengths(volumes[c]), VolumeStart(volumes, c))])
    BY <2>1 DEF RarLayout
  <2> QED
    BY <1>5, <2>2
<1>10. lay.chunks = ChunksOf(C, m)
  <2>1. \A c \in 1..m : /\ VideoStart(volumes, c) = C[c].video /\ volumes[c].data = C[c].length
                        /\ VolumeStart(volumes, c) + volumes[c].start = C[c].from + C[c].start
    BY <1>1, <1>3, <1>4
  <2>2. DOMAIN volumes = 1..m
    BY DEF Volumed
  <2>3. lay.chunks = [c \in 1..m |->
       [video     |-> VideoStart(volumes, c),
        length    |-> volumes[c].data,
        assembled |-> VolumeStart(volumes, c) + volumes[c].start]]
    BY <2>2 DEF RarLayout
  <2> QED
    BY <2>1, <2>3 DEF ChunksOf
<1> QED
  BY <1>2, <1>8, <1>9, <1>10 DEF LaysOut

\* The files of a release as they were posted.
PostedAs(V, files, n) ==
  \A k \in 1..n :
    /\ V[k] \in PostedFiles /\ Complete(V[k]) /\ files[k] = Posted(V[k], k)
    /\ files[k].stride = V[k].stride /\ files[k].size = V[k].size
    /\ files[k].start = V[k].start /\ files[k].data = V[k].data
    /\ V[k].stride \in Nat \ {0} /\ V[k].start \in Nat /\ V[k].data \in Nat

\* Every file of a release is some posted file with its articles named.
LEMMA PostedAgain ==
  ASSUME NEW files, NEW n, Released(files, n)
  PROVE  \E V : PostedAs(V, files, n)
<1>1. /\ n \in Nat \ {0}
      /\ \A k \in 1..n : \E v \in PostedFiles : Complete(v) /\ files[k] = Posted(v, k)
  BY DEF Released
<1>2. PICK V : V = [k \in 1..n |->
        CHOOSE v \in PostedFiles : Complete(v) /\ files[k] = Posted(v, k)]
  OBVIOUS
<1>3. ASSUME NEW k \in 1..n
      PROVE  /\ V[k] \in PostedFiles /\ Complete(V[k]) /\ files[k] = Posted(V[k], k)
             /\ files[k].stride = V[k].stride /\ files[k].size = V[k].size
             /\ files[k].start = V[k].start /\ files[k].data = V[k].data
             /\ V[k].stride \in Nat \ {0} /\ V[k].start \in Nat /\ V[k].data \in Nat
  <2>1. V[k] \in PostedFiles /\ Complete(V[k]) /\ files[k] = Posted(V[k], k) /\ k \in Nat
    BY <1>1, <1>2
  <2>2. PICK v, p : v = V[k] /\ p = files[k]
    OBVIOUS
  <2>3. p.stride = v.stride /\ p.size = v.size /\ p.start = v.start /\ p.data = v.data
    BY <2>1, <2>2, PostedParts
  <2>4. v.stride \in Nat \ {0} /\ v.start \in Nat /\ v.data \in Nat
    BY <2>1, <2>2 DEF PostedFiles
  <2> QED
    BY <2>1, <2>2, <2>3, <2>4
<1>4. PostedAs(V, files, n)
  BY <1>3 DEF PostedAs
<1> QED
  BY <1>4

\* The layout a preflight builds for a RAR set delivers the video.
LEMMA ArchiveDelivers ==
  ASSUME NEW files, NEW n, Released(files, n), NEW L, NEW unpacked, NEW d,
         Archive(L, files, n, unpacked, d),
         \A k \in 1..n : /\ L[k].parts = files[k].parts /\ L[k].stride = files[k].stride
                         /\ L[k].size = files[k].size,
         NEW lay, lay = BuildRarLayout(PerVolume(L)), unpacked = DataLength(files)
  PROVE  Delivers(files, lay, unpacked)
<1>1. /\ n \in Nat \ {0} /\ DOMAIN files = 1..n
      /\ \E k \in 1..n : files[k].data # 0
  BY DEF Archive
<1>2. PICK cs :
        /\ CarriersIn(cs, files, n)
        /\ PerVolume(L) = [c \in 1..Len(cs) |->
             [parts |-> L[cs[c]].parts, stride |-> L[cs[c]].stride, size |-> L[cs[c]].size,
              start |-> files[cs[c]].start, data |-> files[cs[c]].data]]
  BY PerVolumeIs
<1>3. PICK V : PostedAs(V, files, n)
  BY PostedAgain
<1>4. PICK m : m = Len(cs)
  OBVIOUS
<1>5. /\ m \in Nat \ {0}
      /\ \A c \in 1..m : cs[c] \in 1..n /\ files[cs[c]].data # 0
  <2>1. cs \in Seq(1..n) /\ Range(cs) = {k \in 1..n : files[k].data # 0}
    BY <1>2 DEF CarriersIn
  <2>2. /\ \A c \in 1..m : cs[c] \in Range(cs)
        /\ \A x \in Range(cs) : \E c \in 1..m : cs[c] = x
    BY <1>4, <2>1, InRange
  <2>3. \E c : c \in 1..m
    BY <1>1, <2>1, <2>2
  <2> QED
    BY <1>4, <2>1, <2>2, <2>3
<1>6. PICK N : N = [c \in 1..m |-> Len(V[cs[c]].parts)]
  OBVIOUS
<1>7. PICK E : E = [c \in 1..m |-> (N[c] - 1) * V[cs[c]].stride + LastLength(V[cs[c]])]
  OBVIOUS
<1>8. PICK volumes : volumes = [c \in 1..m |->
        [parts |-> ByNumber(L[cs[c]].parts), stride |-> L[cs[c]].stride, size |-> L[cs[c]].size,
         start |-> files[cs[c]].start, data |-> files[cs[c]].data]]
  OBVIOUS
<1>9. PICK B : B = [c \in 1..m |-> VolumeLengths(volumes[c])]
  OBVIOUS
<1>10. lay = RarLayout(volumes)
  <2>1. PICK pv : pv = PerVolume(L)
    OBVIOUS
  <2>2. pv = [c \in 1..m |->
             [parts |-> L[cs[c]].parts, stride |-> L[cs[c]].stride, size |-> L[cs[c]].size,
              start |-> files[cs[c]].start, data |-> files[cs[c]].data]]
    BY <1>2, <1>4, <2>1
  <2>3. DOMAIN pv = 1..m
    BY <2>2
  <2>4. \A c \in 1..m : [pv[c] EXCEPT !.parts = ByNumber(@)] = volumes[c]
    <3> SUFFICES ASSUME NEW c \in 1..m PROVE [pv[c] EXCEPT !.parts = ByNumber(@)] = volumes[c]
      OBVIOUS
    <3>1. pv[c] = [parts |-> L[cs[c]].parts, stride |-> L[cs[c]].stride, size |-> L[cs[c]].size,
                   start |-> files[cs[c]].start, data |-> files[cs[c]].data]
      BY <2>2
    <3>2. volumes[c] = [parts |-> ByNumber(L[cs[c]].parts), stride |-> L[cs[c]].stride,
                        size |-> L[cs[c]].size,
                        start |-> files[cs[c]].start, data |-> files[cs[c]].data]
      BY <1>8
    <3> QED
      BY <3>1, <3>2
  <2>5. [c \in DOMAIN pv |-> [pv[c] EXCEPT !.parts = ByNumber(@)]] = volumes
    BY <1>8, <2>3, <2>4
  <2> QED
    BY <2>1, <2>5 DEF BuildRarLayout, PartsSorted
<1>11. ASSUME NEW c \in 1..m
       PROVE  /\ cs[c] \in Nat
              /\ volumes[c].data = V[cs[c]].data /\ volumes[c].start = V[cs[c]].start
              /\ V[cs[c]].data # 0
              /\ VolumeShape(volumes[c], B[c], cs[c], V[cs[c]], N[c], E[c])
  <2>1. PICK k : k = cs[c]
    OBVIOUS
  <2>2. PICK v : v = V[k]
    OBVIOUS
  <2>3. PICK w : w = volumes[c]
    OBVIOUS
  <2>4. k \in 1..n /\ k \in Nat /\ files[k].data # 0
    BY <1>5, <2>1
  <2>5. /\ v \in PostedFiles /\ Complete(v) /\ files[k] = Posted(v, k)
        /\ files[k].stride = v.stride /\ files[k].size = v.size
        /\ files[k].start = v.start /\ files[k].data = v.data
    BY <1>3, <2>2, <2>4 DEF PostedAs
  <2>6. w = [parts |-> ByNumber(L[k].parts), stride |-> L[k].stride, size |-> L[k].size,
             start |-> files[k].start, data |-> files[k].data]
    BY <1>8, <2>1, <2>3
  <2>7. /\ w.parts = ByNumber(L[k].parts) /\ w.stride = L[k].stride /\ w.size = L[k].size
        /\ w.start = files[k].start /\ w.data = files[k].data
    BY <2>6
  <2>8. /\ w.parts = ByNumber(Posted(v, k).parts) /\ w.stride = v.stride /\ w.size = v.size
        /\ w.start = v.start /\ w.data = v.data
    BY <2>4, <2>5, <2>7
  <2>9. PICK nn, lens, len : nn = N[c] /\ lens = B[c] /\ len = E[c]
    OBVIOUS
  <2>10. /\ nn = Len(v.parts) /\ lens = VolumeLengths(w)
         /\ len = (nn - 1) * v.stride + LastLength(v)
    BY <1>6, <1>7, <1>9, <2>1, <2>2, <2>3, <2>9
  <2>11. VolumeShape(w, lens, k, v, nn, len)
    BY <2>4, <2>5, <2>8, <2>10, VolumeShaped
  <2> QED
    BY <2>1, <2>2, <2>3, <2>4, <2>5, <2>8, <2>9, <2>11
<1>12. Volumed(volumes, B, cs, m, V, N, E)
  <2>1. DOMAIN volumes = 1..m /\ \A c \in 1..m : B[c] = VolumeLengths(volumes[c])
    BY <1>8, <1>9
  <2> QED
    BY <1>5, <1>11, <2>1 DEF Volumed
<1>13. PICK g : g = [c \in 1..m |-> V[cs[c]].data]
  OBVIOUS
<1>14. E \in [1..m -> Nat] /\ g \in [1..m -> Nat]
  <2>1. \A c \in 1..m : E[c] \in Nat /\ V[cs[c]].data \in Nat
    BY <1>11 DEF VolumeShape
  <2>2. g \in [1..m -> Nat]
    BY <1>13, <2>1
  <2>3. E = [c \in 1..m |-> E[c]]
    BY <1>7
  <2>4. E \in [1..m -> Nat]
    BY <2>1, <2>3
  <2> QED
    BY <2>2, <2>4
<1>15. \A c \in 1..m : Sum(VolumeLengths(volumes[c])) = E[c] /\ volumes[c].data = g[c]
  BY <1>9, <1>11, <1>13 DEF VolumeShape
<1>16. PICK U : \E W : Starts(U, W, volumes, m, E, g)
  BY <1>5, <1>14, <1>15, StartsAre
<1>17. PICK W : Starts(U, W, volumes, m, E, g)
  BY <1>16
<1>18. PICK C : C = [c \in 1..m |-> [file |-> cs[c], parts |-> N[c], stride |-> V[cs[c]].stride,
                       from |-> U[c - 1], upto |-> U[c], video |-> W[c - 1],
                       length |-> V[cs[c]].data, start |-> V[cs[c]].start]]
  OBVIOUS
<1>19. Plan(C, cs, m, V, N, E, U, W)
  BY <1>18 DEF Plan
<1>20. LaysOut(lay, C, m)
  BY <1>10, <1>12, <1>13, <1>17, <1>19, RarLaysOut
<1>21. PICK f : f = [k \in 1..n |-> files[k].data]
  OBVIOUS
<1>22. /\ \A k \in 1..n : /\ files[k].data \in Nat /\ files[k].start \in Nat
                          /\ files[k].stride = V[k].stride /\ files[k].start = V[k].start
                          /\ files[k].data = V[k].data
  BY <1>3 DEF PostedAs
<1>23. PICK T : Tallies(T, n, f, files)
  BY <1>1, <1>21, <1>22, DataTotals
<1>24. /\ Totals(T, n, f) /\ DataLength(files) = T[n]
       /\ \A k \in 1..n : DataBefore(files, k) = T[k - 1]
  BY <1>23 DEF Tallies
<1>25. (\A c \in 1..m : T[cs[c] - 1] = W[c - 1]) /\ T[n] = W[m]
  <2>1. f \in [1..n -> Nat] /\ \A k \in 1..n : f[k] = files[k].data
    BY <1>21, <1>22
  <2>2. g = [c \in 1..m |-> f[cs[c]]]
    <3>1. \A c \in 1..m : V[cs[c]].data = f[cs[c]]
      BY <1>5, <1>22, <2>1
    <3> QED
      BY <1>13, <3>1
  <2>3. Totals(W, m, g) /\ n \in Nat
    BY <1>1, <1>17 DEF Starts
  <2>4. SameSums(T, W, cs, n, m)
    BY <1>2, <1>4, <1>24, <2>1, <2>2, <2>3, CarriersSums
  <2> QED
    BY <2>4 DEF SameSums
<1>26. \A c \in 1..m : /\ C[c].file = cs[c] /\ C[c].stride = V[cs[c]].stride
                       /\ C[c].video = W[c - 1] /\ C[c].length = V[cs[c]].data
                       /\ C[c].start = V[cs[c]].start
  BY <1>18
<1>27. Represents(C, m, files)
  <2>1. ASSUME NEW k \in 1..n
        PROVE  /\ files[k].data \in Nat /\ files[k].start \in Nat /\ DataBefore(files, k) \in Nat
               /\ files[k].data > 0 =>
                    \E c \in 1..m : /\ C[c].file = k /\ C[c].stride = files[k].stride
                                    /\ C[c].video = DataBefore(files, k)
                                    /\ C[c].start = files[k].start /\ files[k].data <= C[c].length
    <3>1. DataBefore(files, k) \in Nat
      <4>1. k - 1 \in 0..n /\ T \in [0..n -> Nat]
        BY <1>1, <1>24 DEF Totals
      <4> QED
        BY <1>24, <4>1
    <3>2. ASSUME files[k].data > 0
          PROVE  \E c \in 1..m : /\ C[c].file = k /\ C[c].stride = files[k].stride
                                 /\ C[c].video = DataBefore(files, k)
                                 /\ C[c].start = files[k].start /\ files[k].data <= C[c].length
      <4>1. cs \in Seq(1..n) /\ k \in Range(cs)
        BY <1>22, <3>2, <1>2 DEF CarriersIn
      <4>2. \A x \in Range(cs) : \E c \in 1..m : cs[c] = x
        BY <1>4, <4>1, InRange
      <4>3. PICK c \in 1..m : cs[c] = k
        BY <4>1, <4>2
      <4>4. C[c].video = DataBefore(files, k)
        BY <1>24, <1>25, <1>26, <4>3
      <4>5. /\ C[c].file = k /\ C[c].stride = files[k].stride /\ C[c].start = files[k].start
            /\ C[c].length = files[k].data
        BY <1>22, <1>26, <4>3
      <4>6. files[k].data <= C[c].length
        BY <1>22, <4>5
      <4> QED
        BY <4>4, <4>5, <4>6
    <3> QED
      BY <1>22, <3>1, <3>2
  <2> QED
    BY <1>1, <2>1 DEF Represents
<1>28. unpacked = C[m].video + C[m].length
  <2>1. m \in 1..m
    BY <1>5
  <2>2. W[m] = W[m - 1] + g[m]
    BY <1>17, <2>1 DEF Starts, Totals
  <2>3. g[m] = V[cs[m]].data
    BY <1>13, <2>1
  <2> QED
    BY <1>24, <1>25, <1>26, <2>1, <2>2, <2>3
<1> QED
  BY <1>20, <1>27, <1>28, CarriersDeliver

-----------------------------------------------------------------------------
(* The canaries.                                                           *)

\* The first and the last article of a file, as a preflight lays it out.
LEMMA EndsByNumber ==
  ASSUME NEW n, NEW parts, Numbered(parts, n), NEW s, s = ByNumber(parts), NEW a, a = Articles(s)
  PROVE  /\ s[1].article \in Ends(a)
         /\ Last(s).article = Last(a)
<1>1. PICK place : InPlace(place, parts, n)
  BY PlacesExist
<1>2. s = [j \in 1..n |-> parts[place[j]]]
  BY <1>1, PartsByNumber
<1>3. n \in Nat \ {0}
  BY DEF Numbered
<1>4. DOMAIN s = 1..n /\ Len(s) = n
  <2>1. PICK X : X = {parts[place[j]] : j \in 1..n}
    OBVIOUS
  <2>2. s \in [1..n -> X] /\ n \in Nat
    BY <1>2, <1>3, <2>1
  <2> QED
    BY <2>2, FunctionIsSeq
<1>5. a = [j \in 1..n |-> s[j].article]
  BY <1>4 DEF Articles
<1>6. Len(a) = n /\ a # <<>>
  <2>1. PICK X : X = {s[j].article : j \in 1..n}
    OBVIOUS
  <2>2. a \in [1..n -> X] /\ n \in Nat
    BY <1>3, <1>5, <2>1
  <2>3. Len(a) = n
    BY <2>2, FunctionIsSeq
  <2> QED
    BY <1>3, <2>3
<1>7. Head(a) = a[1] /\ Last(a) = a[n] /\ Last(s) = s[n]
  BY <1>4, <1>6 DEF Last
<1>8. a[1] = s[1].article /\ a[n] = s[n].article
  <2>1. 1 \in 1..n /\ n \in 1..n
    BY <1>3
  <2> QED
    BY <1>5, <2>1
<1> QED
  BY <1>6, <1>7, <1>8 DEF Ends

\* The canaries of a set of parts are from its first volume and its last.
PartsChosen(parts, L, n) ==
  FirstLeast(parts, VolumeNumber) = L[1] /\ LastGreatest(parts, VolumeNumber) = L[n]

\* The first and last of a set of parts by number are those of its volumes.
LEMMA PartsEnds ==
  ASSUME NEW nzb, NEW L, NEW n \in Nat \ {0}, NEW d, VolumesOf(nzb, L, n, d), DOMAIN L = 1..n,
         d.style = "part", NEW s, s = Named(nzb, {"part"})
  PROVE  s # <<>> /\ PartsChosen(s, L, n)
<1>1. PICK R : R = Range(L)
  OBVIOUS
<1>2. /\ s \in Seq(R) /\ Range(s) = R
      /\ \A k \in 1..n : VolumeNumber(L[k]) = 2 * k
  BY <1>1 DEF VolumesOf, NumberOf
<1>3. (\A k \in 1..n : L[k] \in R) /\ \A x \in R : \E k \in 1..n : x = L[k]
  BY <1>1 DEF Range
<1>4. PICK key : key = [f \in R |-> VolumeNumber(f)]
  OBVIOUS
<1>5. \A k \in 1..n : key[L[k]] = 2 * k
  BY <1>2, <1>3, <1>4
<1>6. \A i \in DOMAIN s : s[i] \in R /\ key[s[i]] = VolumeNumber(s[i])
  BY <1>2, <1>4 DEF Range
<1>7. 1 \in 1..n /\ n \in 1..n
  OBVIOUS
<1>8. s # <<>>
  <2>1. Range(<<>>) = {}
    BY DEF Range
  <2> QED
    BY <1>2, <1>3, <1>7, <2>1
<1>9. FirstLeast(s, VolumeNumber) = L[1]
  <2>1. PICK x : x = L[1]
    OBVIOUS
  <2>2. \A y \in Range(s) : key[y] \in Int /\ (y # x => key[x] < key[y])
    <3> SUFFICES ASSUME NEW y \in Range(s) PROVE key[y] \in Int /\ (y # x => key[x] < key[y])
      OBVIOUS
    <3>1. PICK k \in 1..n : y = L[k]
      BY <1>2, <1>3
    <3>2. key[y] = 2 * k /\ key[x] = 2
      BY <1>5, <1>7, <2>1, <3>1
    <3>3. y # x => k # 1
      BY <2>1, <3>1
    <3> QED
      BY <3>2, <3>3
  <2>3. /\ \E i : LeastIn(s, key, i)
        /\ \A i : LeastIn(s, key, i) => s[i] = x
    <3>1. x \in Range(s)
      BY <1>2, <1>3, <1>7, <2>1
    <3> QED
      BY <1>2, <2>2, <3>1, LeastExists
  <2>4. \A i : LeastIn(s, key, i) <=>
          /\ i \in DOMAIN s
          /\ \A j \in DOMAIN s : VolumeNumber(s[i]) < VolumeNumber(s[j])
                                 \/ (VolumeNumber(s[i]) = VolumeNumber(s[j]) /\ i <= j)
    BY <1>6 DEF LeastIn
  <2>5. \E i \in DOMAIN s : \A j \in DOMAIN s :
          \/ VolumeNumber(s[i]) < VolumeNumber(s[j])
          \/ VolumeNumber(s[i]) = VolumeNumber(s[j]) /\ i <= j
    BY <2>3, <2>4
  <2>6. PICK i \in DOMAIN s :
          /\ FirstLeast(s, VolumeNumber) = s[i]
          /\ \A j \in DOMAIN s : VolumeNumber(s[i]) < VolumeNumber(s[j])
                                 \/ (VolumeNumber(s[i]) = VolumeNumber(s[j]) /\ i <= j)
    BY <2>5 DEF FirstLeast
  <2>7. LeastIn(s, key, i)
    BY <2>4, <2>6
  <2> QED
    BY <2>1, <2>3, <2>6, <2>7
<1>10. LastGreatest(s, VolumeNumber) = L[n]
  <2>1. PICK x, top : x = L[n] /\ top = 2 * n
    OBVIOUS
  <2>2. PICK G : G = {x}
    OBVIOUS
  <2>3. \A y \in Range(s) :
          key[y] \in Int /\ (y \in G => key[y] = top) /\ (y \notin G => key[y] < top)
    <3> SUFFICES ASSUME NEW y \in Range(s)
                 PROVE  key[y] \in Int /\ (y \in G => key[y] = top) /\ (y \notin G => key[y] < top)
      OBVIOUS
    <3>1. PICK k \in 1..n : y = L[k]
      BY <1>2, <1>3
    <3>2. key[y] = 2 * k /\ key[x] = top
      BY <1>5, <1>7, <2>1, <3>1
    <3>3. y # x => k # n
      BY <2>1, <3>1
    <3> QED
      BY <2>1, <2>2, <3>2, <3>3
  <2>4. /\ \E i : GreatestIn(s, key, i)
        /\ \A i : GreatestIn(s, key, i) => s[i] \in G
    <3>1. Range(s) \cap G # {} /\ top \in Int
      BY <1>2, <1>3, <1>7, <2>1, <2>2
    <3> QED
      BY <1>2, <2>3, <3>1, GreatestExists
  <2>5. \A i : GreatestIn(s, key, i) <=>
          /\ i \in DOMAIN s
          /\ \A j \in DOMAIN s : VolumeNumber(s[j]) < VolumeNumber(s[i])
                                 \/ (VolumeNumber(s[i]) = VolumeNumber(s[j]) /\ j <= i)
    BY <1>6 DEF GreatestIn
  <2>6. \E i \in DOMAIN s : \A j \in DOMAIN s :
          \/ VolumeNumber(s[j]) < VolumeNumber(s[i])
          \/ VolumeNumber(s[i]) = VolumeNumber(s[j]) /\ j <= i
    BY <2>4, <2>5
  <2>7. PICK i \in DOMAIN s :
          /\ LastGreatest(s, VolumeNumber) = s[i]
          /\ \A j \in DOMAIN s : VolumeNumber(s[j]) < VolumeNumber(s[i])
                                 \/ (VolumeNumber(s[i]) = VolumeNumber(s[j]) /\ j <= i)
    BY <2>6 DEF LastGreatest
  <2>8. GreatestIn(s, key, i)
    BY <2>5, <2>7
  <2> QED
    BY <2>1, <2>2, <2>4, <2>7, <2>8
<1> QED
  BY <1>8, <1>9, <1>10 DEF PartsChosen

\* The availability check asks for both ends of what a preflight lays out.
LEMMA RarCovered ==
  ASSUME NEW nzb, NEW L, NEW n \in Nat \ {0}, NEW d, VolumesOf(nzb, L, n, d),
         DOMAIN L = 1..n, Len(L) = n, \A k \in 1..n : \E q : Numbered(L[k].parts, q)
  PROVE  Covered("rar", nzb)
<1>1. FindRarVolumes(nzb) = L /\ (L[1].name.style = "part" => d.style = "part")
  BY DEF VolumesOf
<1>2. Last(L) = L[n] /\ 1 \in 1..n /\ n \in 1..n
  BY DEF Last
<1>3. ASSUME d.style = "part"
      PROVE  /\ ByNumber(L[1].parts)[1].article \in PickCanaries(nzb)
             /\ Last(ByNumber(L[n].parts)).article \in PickCanaries(nzb)
  <2>1. PICK s : s = Named(nzb, {"part"})
    OBVIOUS
  <2>2. s # <<>> /\ FirstLeast(s, VolumeNumber) = L[1] /\ LastGreatest(s, VolumeNumber) = L[n]
    BY <1>3, <2>1, PartsEnds DEF PartsChosen
  <2>3. PickCanaries(nzb) = Ends(Articles(ByNumber(L[1].parts)))
                            \cup {Last(Articles(ByNumber(L[n].parts)))}
    BY <2>1, <2>2 DEF PickCanaries
  <2>4. PICK p, q : p = L[1].parts /\ q = L[n].parts
    OBVIOUS
  <2>5. (\E k : Numbered(p, k)) /\ (\E k : Numbered(q, k))
    BY <1>2, <2>4
  <2>6. ByNumber(p)[1].article \in Ends(Articles(ByNumber(p)))
    BY <2>5, EndsByNumber
  <2>7. Last(ByNumber(q)).article = Last(Articles(ByNumber(q)))
    BY <2>5, EndsByNumber
  <2> QED
    BY <2>3, <2>4, <2>6, <2>7
<1>4. PICK files : files = FindRarVolumes(nzb)
  OBVIOUS
<1>5. files[1].name.style = "part" =>
        /\ ByNumber(files[1].parts)[1].article \in PickCanaries(nzb)
        /\ Last(ByNumber(Last(files).parts)).article \in PickCanaries(nzb)
  BY <1>1, <1>2, <1>3, <1>4
<1> QED
  BY <1>4, <1>5 DEF Covered

-----------------------------------------------------------------------------
(* What a preflight makes of a release.                                    *)

\* What a preflight made of a release.
Ready(what, files, nzb, lay, length) ==
  /\ Delivers(files, lay, length)
  /\ Covered(what, nzb)
  /\ ExactLength(what, files, length)

\* A dressing, by the assumption of ProbedLayout.
DressingOf(d) == /\ StyleOf(d) /\ d.reversed \in BOOLEAN /\ d.sample \in BOOLEAN
                 /\ (d.style = "other" => ~ d.sample)

\* Every dressing is of a style the lemmas speak of.
LEMMA Dressing ==
  ASSUME NEW d \in Dressings
  PROVE  DressingOf(d)
BY ReleaseAssumption DEF DressingOf, StyleOf

\* A flat release that is probed is ready to be served.
LEMMA FlatProbed ==
  ASSUME NEW v \in FlatFiles, NEW d \in Dressings,
         d.sample => ListedSize(v) > ListedSize(Extra("video", 1)),
         NEW dressed, dressed = Dressed(<<Posted(v, 1)>>, 0, d),
         NEW nzb, nzb = IF d.sample THEN Append(dressed, Extra("video", 1)) ELSE dressed,
         NEW chosen, chosen = PickMainFile(nzb), chosen.kind = "flat",
         NEW lay, lay = BuildFlatLayout(chosen.file), NEW length, length = lay.chunks[1].length
  PROVE  Ready("flat", <<Posted(v, 1)>>, nzb, lay, length)
<1>1. v \in PostedFiles /\ Complete(v) /\ FlatFile(v)
  BY ReleaseAssumption
<1>2. StyleOf(d) /\ d.sample \in BOOLEAN /\ (d.style = "other" => ~ d.sample)
  BY Dressing DEF DressingOf
<1>3. PICK x : x = DressedFile(Posted(v, 1), 1, 0, d)
  OBVIOUS
<1>4. FlatNzb(nzb, x, d)
  BY <1>1, <1>2, <1>3, FlatListed
<1>5. PickMainFile(nzb) = [kind |-> "flat", file |-> x]
  BY <1>2, <1>4, FlatChosen
<1>6. chosen.file = x
  BY <1>5
<1>7. PICK p : p = Posted(v, 1)
  OBVIOUS
<1>8. x.parts = p.parts /\ x.stride = p.stride /\ x.size = p.size
  BY <1>3, <1>7 DEF DressedFile
<1>9. Numbered(p.parts, Len(v.parts)) /\ p.stride = v.stride /\ p.size = v.size
  BY <1>1, <1>7, PostedParts
<1>10. /\ Delivers(<<Posted(v, 1)>>, lay, length)
       /\ ExactLength("flat", <<Posted(v, 1)>>, length)
  <2>1. x.parts = Posted(v, 1).parts /\ x.stride = v.stride /\ x.size = v.size
    BY <1>7, <1>8, <1>9
  <2>2. lay = BuildFlatLayout(x)
    BY <1>6
  <2> QED
    BY <1>1, <2>1, <2>2, FlatLaidOut
<1>11. Covered("flat", nzb)
  <2>1. Numbered(x.parts, Len(v.parts))
    BY <1>8, <1>9
  <2>2. PickMainFile(nzb).kind = "flat"
    OBVIOUS
  <2> QED
    BY <1>2, <1>4, <2>1, <2>2, FlatCovered
<1> QED
  BY <1>10, <1>11 DEF Ready

\* The files of a RAR set as they are posted.
VideoIn(files, n, whole) ==
  /\ Released(files, n) /\ whole \in Nat /\ whole = DataLength(files)
  /\ \E k \in 1..n : files[k].data # 0

\* A set of volumes with data has it.
LEMMA VolumesPosted ==
  ASSUME NEW volumes \in BoundedSeq(Volumes, MaxVolumes),
         NEW files, files = [k \in DOMAIN volumes |-> Posted(volumes[k], k)],
         NEW whole, whole = Sum([k \in DOMAIN volumes |-> volumes[k].data]),
         NEW least \in {0, 1}, whole > least
  PROVE  \E n : VideoIn(files, n, whole)
<1>1. PICK n : n \in Nat /\ DOMAIN volumes = 1..n /\ \A k \in 1..n : volumes[k] \in Volumes
  <2>1. PICK m \in 0..MaxVolumes : volumes \in [1..m -> Volumes]
    BY DEF BoundedSeq, SeqOf
  <2>2. m \in Nat
    BY ReleaseAssumption
  <2> QED
    BY <2>1, <2>2
<1>2. ASSUME NEW k \in 1..n
      PROVE  /\ volumes[k] \in PostedFiles /\ Complete(volumes[k])
             /\ files[k] = Posted(volumes[k], k) /\ files[k].data = volumes[k].data
             /\ volumes[k].data \in Nat
  <2>1. volumes[k] \in PostedFiles /\ Complete(volumes[k])
    BY <1>1, ReleaseAssumption
  <2>2. PICK v, p : v = volumes[k] /\ p = Posted(v, k)
    OBVIOUS
  <2>3. k \in Nat /\ files[k] = p
    BY <1>1, <2>2
  <2>4. p.data = v.data
    BY <2>1, <2>2, <2>3, PostedParts
  <2>5. v.data \in Nat
    BY <2>1, <2>2 DEF PostedFiles
  <2> QED
    BY <2>1, <2>2, <2>3, <2>4, <2>5
<1>3. DOMAIN files = 1..n
  BY <1>1
<1>4. PICK f : f = [k \in 1..n |-> files[k].data]
  OBVIOUS
<1>5. f \in [1..n -> Nat] /\ \A k \in 1..n : f[k] = files[k].data
  BY <1>2, <1>4
<1>6. whole = Sum(f)
  <2>1. [k \in DOMAIN volumes |-> volumes[k].data] = f
    BY <1>1, <1>2, <1>4
  <2> QED
    BY <2>1
<1>7. whole \in Nat /\ whole = DataLength(files)
  BY <1>1, <1>3, <1>4, <1>5, <1>6, SumIsNat DEF DataLength
<1>8. PICK T : Tallies(T, n, f, files)
  BY <1>1, <1>2, <1>3, <1>4, DataTotals
<1>9. Totals(T, n, f) /\ T[n] = whole /\ T[0] = 0
  BY <1>7, <1>8 DEF Tallies, Totals
<1>10. \E k \in 1..n : files[k].data # 0
  <2> SUFFICES ASSUME \A k \in 1..n : files[k].data = 0 PROVE FALSE
    OBVIOUS
  <2>1. PICK a : a = 0
    OBVIOUS
  <2>2. a \in 0..n /\ n \in 0..n /\ a <= n /\ \A k \in a + 1..n : f[k] = 0
    BY <1>1, <1>5, <2>1
  <2>3. T[a] = T[n]
    BY <1>1, <1>5, <1>9, <2>2, TotalsRise
  <2> QED
    BY <1>7, <1>9, <2>1, <2>3
<1>11. n \in Nat \ {0}
  BY <1>1, <1>10
<1>12. Released(files, n)
  BY <1>2, <1>3, <1>11 DEF Released
<1>13. VideoIn(files, n, whole)
  BY <1>7, <1>10, <1>12 DEF VideoIn
<1> QED
  BY <1>13

\* An archive that is probed is ready to be served.
LEMMA RarProbed ==
  ASSUME NEW volumes \in BoundedSeq(Volumes, MaxVolumes), NEW d \in Dressings,
         NEW files, files = [k \in DOMAIN volumes |-> Posted(volumes[k], k)],
         NEW whole, whole = Sum([k \in DOMAIN volumes |-> volumes[k].data]),
         whole > IF d.sample THEN 1 ELSE 0,
         NEW nzb, nzb = Dressed(files, whole, d), PickMainFile(nzb).kind = "rar",
         NEW found, found = FindRarVolumes(nzb),
         NEW lay, lay = BuildRarLayout(PerVolume(found)),
         NEW length, length = MainEntry(found).unpacked
  PROVE  Ready("rar", files, nzb, lay, length)
<1>1. StyleOf(d) /\ d.sample \in BOOLEAN
  BY Dressing DEF DressingOf
<1>2. \E n : VideoIn(files, n, whole)
  <2>1. PICK least : least = IF d.sample THEN 1 ELSE 0
    OBVIOUS
  <2>2. least \in {0, 1} /\ whole > least
    BY <1>1, <2>1
  <2> QED
    BY <2>2, VolumesPosted
<1>3. PICK n : Released(files, n) /\ whole \in Nat /\ whole = DataLength(files)
               /\ \E k \in 1..n : files[k].data # 0
  BY <1>2 DEF VideoIn
<1>4. PICK L : L = [k \in 1..n |-> DressedFile(files[k], k, whole, d)]
  OBVIOUS
<1>5. InRelease(L, files, n, whole, d)
  BY <1>4 DEF InRelease
<1>6. n \in Nat \ {0} /\ DOMAIN files = 1..n
  BY <1>3 DEF Released
<1>7. DOMAIN L = 1..n /\ Len(L) = n
  <2>1. Listing(L, files, n, whole, d)
    BY <1>1, <1>3, <1>5, ReleaseListed
  <2> QED
    BY <2>1 DEF Listing
<1>8. VolumesOf(nzb, L, n, d)
  BY <1>1, <1>3, <1>5, VolumesFound
<1>9. found = L
  BY <1>8 DEF VolumesOf
<1>10. ASSUME NEW k \in 1..n
       PROVE  /\ L[k].parts = files[k].parts /\ L[k].stride = files[k].stride
              /\ L[k].size = files[k].size
              /\ L[k].entries = BesideOf(d) \o VideoOf(files[k], whole)
              /\ \E q : Numbered(files[k].parts, q)
  <2>1. L[k] = DressedFile(files[k], k, whole, d)
    BY <1>4
  <2>2. PICK v \in PostedFiles : Complete(v) /\ files[k] = Posted(v, k)
    BY <1>3 DEF Released
  <2>3. PICK p : p = files[k]
    OBVIOUS
  <2>4. k \in Nat /\ p = Posted(v, k)
    BY <1>6, <2>2, <2>3
  <2>5. Numbered(p.parts, Len(v.parts))
    BY <2>2, <2>4, PostedParts
  <2>6. PICK x, e, f : x = L[k] /\ f = files[k] /\ e = BesideOf(d) \o VideoOf(f, whole)
    OBVIOUS
  <2>7. x = [name     |-> Name(d.style, k),  parts   |-> f.parts,
             stride   |-> f.stride,          size    |-> f.size,
             password |-> d.password,        entries |-> e]
    BY <2>1, <2>6 DEF DressedFile
  <2>8. x.parts = f.parts /\ x.stride = f.stride /\ x.size = f.size /\ x.entries = e
    BY <2>7
  <2> QED
    BY <2>3, <2>5, <2>6, <2>8
<1>11. Archive(L, files, n, whole, d)
  <2>1. ASSUME NEW k \in 1..n PROVE ListedEntries(L[k].entries, files[k], whole, d)
    <3>1. PICK s, v : s = L[k].entries /\ v = files[k]
      OBVIOUS
    <3>2. EntriesOf(s, v, whole, d)
      BY <1>1, <1>10, <3>1 DEF EntriesOf
    <3>3. ListedEntries(s, v, whole, d)
      BY <3>2, EntriesListed
    <3> QED
      BY <3>1, <3>3
  <2> QED
    BY <1>3, <1>6, <1>7, <2>1 DEF Archive
<1>12. Delivers(files, lay, whole)
  <2>1. \A k \in 1..n : /\ L[k].parts = files[k].parts /\ L[k].stride = files[k].stride
                        /\ L[k].size = files[k].size
    BY <1>10
  <2>2. lay = BuildRarLayout(PerVolume(L))
    BY <1>9
  <2> QED
    BY <1>3, <1>11, <2>1, <2>2, ArchiveDelivers
<1>13. length = whole
  BY <1>9, <1>11, MainEntryIs
<1>14. Covered("rar", nzb)
  <2>1. \A k \in 1..n : \E q : Numbered(L[k].parts, q)
    BY <1>10
  <2> QED
    BY <1>6, <1>7, <1>8, <2>1, RarCovered
<1> QED
  BY <1>3, <1>12, <1>13, <1>14 DEF Ready, ExactLength

-----------------------------------------------------------------------------
(* Requests, and the theorems.                                             *)

\* What a request asks for, as an interval of the video.
HeaderOf(header) ==
  \/ header[1] = "none" \/ header[1] = "malformed" \/ header[1] = "several"
  \/ header[1] \in {"from", "last"} /\ header[2] \in Nat
  \/ header[1] = "between" /\ header[2] \in Nat /\ header[3] \in Nat

\* The answer to a request gives it what it wants.
Exact(header, range, length) ==
  /\ Served(range) => /\ Wanted(header, length) = range.first..range.last
                      /\ ContentLength(range) = Cardinality(Wanted(header, length))
  /\ range.status = "not satisfiable" <=>
       Wanted(header, length) = {} /\ header[1] \notin {"malformed", "several"}

\* A partial answer is exact if its range is what is wanted,
LEMMA PartialExact ==
  ASSUME NEW header, NEW length \in Nat \ {0}, NEW a \in Nat, NEW b \in Nat, a <= b,
         Wanted(header, length) = a..b, NEW range, range = Partial(a, b)
  PROVE  Exact(header, range, length)
<1>1. range.first = a /\ range.last = b /\ range.status = "partial"
  BY DEF Partial
<1>2. a \in a..b
  OBVIOUS
<1>3. Cardinality(a..b) = b - a + 1
  BY Counted
<1>4. Wanted(header, length) # {}
  BY <1>2
<1> QED
  BY <1>1, <1>3, <1>4 DEF Exact, Served, ContentLength

\* a refusal if nothing is,
LEMMA RefusalExact ==
  ASSUME NEW header, NEW length, Wanted(header, length) = {},
         header[1] \notin {"malformed", "several"}, NEW range, range = NotSatisfiable
  PROVE  Exact(header, range, length)
BY DEF NotSatisfiable, Exact, Served

\* and a bad request is none of both.
LEMMA BadExact ==
  ASSUME NEW header, NEW length, header[1] \in {"malformed", "several"},
         NEW range, range = BadRequest
  PROVE  Exact(header, range, length)
<1>1. range.status = "bad request"
  BY DEF BadRequest
<1> QED
  BY <1>1 DEF Exact, Served

\* parse_range is exact, for every header it can be given.
LEMMA RangeExact ==
  ASSUME NEW header, HeaderOf(header), NEW length \in Nat \ {0},
         NEW range, range = ParseRange(header, length)
  PROVE  Exact(header, range, length)
<1>1. CASE header[1] = "none"
  <2>1. range = [status |-> "full", first |-> 0, last |-> length - 1]
    BY <1>1 DEF ParseRange
  <2>2. Wanted(header, length) = 0..length - 1
    BY <1>1 DEF Wanted
  <2>3. range.first = 0 /\ range.last = length - 1 /\ range.status = "full"
    BY <2>1
  <2>4. 0 \in 0..length - 1
    OBVIOUS
  <2>5. Cardinality(0..length - 1) = length - 1 - 0 + 1
    BY Counted
  <2> QED
    BY <2>2, <2>3, <2>4, <2>5 DEF Exact, Served, ContentLength
<1>2. CASE header[1] \in {"malformed", "several"}
  <2>1. range = BadRequest
    BY <1>2 DEF ParseRange
  <2> QED
    BY <1>2, <2>1, BadExact
<1>3. CASE header[1] = "from" /\ header[2] \in Nat
  <2>1. PICK s : s = header[2]
    OBVIOUS
  <2>2. Wanted(header, length) = {b \in 0..length - 1 : s <= b}
    BY <1>3, <2>1 DEF Wanted
  <2>3. CASE s < length
    <3>1. range = Partial(s, length - 1)
      BY <1>3, <2>1, <2>3 DEF ParseRange
    <3>2. Wanted(header, length) = s..length - 1
      BY <1>3, <2>1, <2>2
    <3> QED
      BY <1>3, <2>1, <2>3, <3>1, <3>2, PartialExact
  <2>4. CASE ~ (s < length)
    <3>1. range = NotSatisfiable
      BY <1>3, <2>1, <2>4 DEF ParseRange
    <3>2. Wanted(header, length) = {}
      BY <1>3, <2>1, <2>2, <2>4
    <3> QED
      BY <1>3, <3>1, <3>2, RefusalExact
  <2> QED
    BY <2>3, <2>4
<1>4. CASE header[1] = "last" /\ header[2] \in Nat
  <2>1. PICK s : s = header[2]
    OBVIOUS
  <2>2. Wanted(header, length) = {b \in 0..length - 1 : length - b <= s}
    BY <1>4, <2>1 DEF Wanted
  <2>3. CASE s > 0
    <3>1. PICK a : a = length - Smaller(s, length)
      OBVIOUS
    <3>2. range = Partial(a, length - 1)
      BY <1>4, <2>1, <2>3, <3>1 DEF ParseRange
    <3>3. a \in Nat /\ a <= length - 1
      BY <1>4, <2>1, <2>3, <3>1 DEF Smaller
    <3>4. Wanted(header, length) = a..length - 1
      BY <1>4, <2>1, <2>2, <3>1 DEF Smaller
    <3> QED
      BY <3>2, <3>3, <3>4, PartialExact
  <2>4. CASE ~ (s > 0)
    <3>1. range = NotSatisfiable
      BY <1>4, <2>1, <2>4 DEF ParseRange
    <3>2. Wanted(header, length) = {}
      BY <1>4, <2>1, <2>2, <2>4
    <3> QED
      BY <1>4, <3>1, <3>2, RefusalExact
  <2> QED
    BY <2>3, <2>4
<1>5. CASE header[1] = "between" /\ header[2] \in Nat /\ header[3] \in Nat
  <2>1. PICK s, e : s = header[2] /\ e = header[3]
    OBVIOUS
  <2>2. Wanted(header, length) = {b \in 0..length - 1 : s <= b /\ b <= e}
    BY <1>5, <2>1 DEF Wanted
  <2>3. CASE s <= e /\ s < length
    <3>1. PICK z : z = Smaller(e, length - 1)
      OBVIOUS
    <3>2. range = Partial(s, z)
      BY <1>5, <2>1, <2>3, <3>1 DEF ParseRange
    <3>3. z \in Nat /\ s <= z
      BY <1>5, <2>1, <2>3, <3>1 DEF Smaller
    <3>4. Wanted(header, length) = s..z
      BY <1>5, <2>1, <2>2, <3>1 DEF Smaller
    <3> QED
      BY <1>5, <2>1, <3>2, <3>3, <3>4, PartialExact
  <2>4. CASE ~ (s <= e /\ s < length)
    <3>1. range = NotSatisfiable
      BY <1>5, <2>1, <2>4 DEF ParseRange
    <3>2. Wanted(header, length) = {}
      BY <1>5, <2>1, <2>2, <2>4
    <3> QED
      BY <1>5, <3>1, <3>2, RefusalExact
  <2> QED
    BY <2>3, <2>4
<1> QED
  BY <1>1, <1>2, <1>3, <1>4, <1>5 DEF HeaderOf

\* The headers of ProbedLayout are such.
LEMMA HeadersAre ==
  ASSUME NEW header \in Headers
  PROVE  HeaderOf(header)
BY ReleaseAssumption DEF HeaderOf


\* What is served was laid out by a preflight, and a request was answered with the
\* range it parses to.
ReadyToServe ==
  release.kind \in {"flat", "rar"} => Ready(release.kind, release.files, release.nzb, layout, total)

Answered ==
  answer # NoAnswer =>
    /\ release.kind \in {"flat", "rar"}
    /\ \E header \in Headers : answer = [header |-> header, range |-> ParseRange(header, total)]

ReleaseInv == ReadyToServe /\ Answered

\* Initially nothing is probed.
LEMMA ReleaseInit == ProbeInit => ReleaseInv
BY DEF ProbeInit, ReleaseInv, ReadyToServe, Answered, NoRelease

\* A probe of a flat release keeps the invariant,
LEMMA FlatStep ==
  ASSUME ReleaseInv, NEW v \in FlatFiles, NEW d \in Dressings, ProbeFlat(v, d)
  PROVE  ReleaseInv'
<1>1. PICK dressed : dressed = Dressed(<<Posted(v, 1)>>, 0, d)
  OBVIOUS
<1>2. PICK nzb : nzb = IF d.sample THEN Append(dressed, Extra("video", 1)) ELSE dressed
  OBVIOUS
<1>3. PICK chosen : chosen = PickMainFile(nzb)
  OBVIOUS
<1>4. PICK lay, length : lay = BuildFlatLayout(chosen.file) /\ length = lay.chunks[1].length
  OBVIOUS
<1>5. PICK files : files = <<Posted(v, 1)>>
  OBVIOUS
<1>6. /\ release = NoRelease
      /\ d.sample => ListedSize(v) > ListedSize(Extra("video", 1))
      /\ chosen.kind = "flat"
      /\ release' = [kind |-> "flat", files |-> files, nzb |-> nzb]
      /\ layout' = lay /\ total' = length /\ answer' = answer
  BY <1>1, <1>2, <1>3, <1>4, <1>5 DEF ProbeFlat
<1>7. Ready("flat", files, nzb, lay, length)
  BY <1>1, <1>2, <1>3, <1>4, <1>5, <1>6, FlatProbed
<1>8. release'.kind = "flat" /\ release'.files = files /\ release'.nzb = nzb
  BY <1>6
<1>9. ReadyToServe'
  BY <1>6, <1>7, <1>8 DEF ReadyToServe
<1>10. answer = NoAnswer
  BY <1>6 DEF ReleaseInv, Answered, NoRelease
<1>11. Answered'
  BY <1>6, <1>10 DEF Answered, NoAnswer
<1> QED
  BY <1>9, <1>11 DEF ReleaseInv

\* so does a probe of a RAR set, refused or not,
LEMMA RarStep ==
  ASSUME ReleaseInv, NEW volumes \in BoundedSeq(Volumes, MaxVolumes), NEW d \in Dressings,
         ProbeRar(volumes, d)
  PROVE  ReleaseInv'
<1>1. PICK files, whole :
        /\ files = [k \in DOMAIN volumes |-> Posted(volumes[k], k)]
        /\ whole = Sum([k \in DOMAIN volumes |-> volumes[k].data])
  OBVIOUS
<1>2. PICK nzb : nzb = Dressed(files, whole, d)
  OBVIOUS
<1>3. PICK found : found = FindRarVolumes(nzb)
  OBVIOUS
<1>4. PICK lay, length :
        lay = BuildRarLayout(PerVolume(found)) /\ length = MainEntry(found).unpacked
  OBVIOUS
<1>5. /\ release = NoRelease
      /\ whole > IF d.sample THEN 1 ELSE 0
      /\ PickMainFile(nzb).kind = "rar"
      /\ answer' = answer
      /\ \/ /\ release' = [kind |-> "rar", files |-> files, nzb |-> nzb]
            /\ layout' = lay /\ total' = length
         \/ release' = [kind |-> "refused", files |-> files, nzb |-> nzb]
  BY <1>1, <1>2, <1>3, <1>4 DEF ProbeRar
<1>6. Ready("rar", files, nzb, lay, length)
  BY <1>1, <1>2, <1>3, <1>4, <1>5, RarProbed
<1>7. ReadyToServe'
  <2>1. CASE /\ release' = [kind |-> "rar", files |-> files, nzb |-> nzb]
             /\ layout' = lay /\ total' = length
    <3>1. release'.kind = "rar" /\ release'.files = files /\ release'.nzb = nzb
      BY <2>1
    <3> QED
      BY <1>6, <2>1, <3>1 DEF ReadyToServe
  <2>2. CASE release' = [kind |-> "refused", files |-> files, nzb |-> nzb]
    <3>1. release'.kind = "refused"
      BY <2>2
    <3> QED
      BY <3>1 DEF ReadyToServe
  <2> QED
    BY <1>5, <2>1, <2>2
<1>8. answer = NoAnswer
  BY <1>5 DEF ReleaseInv, Answered, NoRelease
<1>9. Answered'
  BY <1>5, <1>8 DEF Answered, NoAnswer
<1> QED
  BY <1>7, <1>9 DEF ReleaseInv

\* and so does a request.
LEMMA AskStep ==
  ASSUME ReleaseInv, NEW header \in Headers, Ask(header)
  PROVE  ReleaseInv'
<1>1. ReadyToServe'
  BY DEF ReleaseInv, ReadyToServe, Ask
<1>2. Answered'
  BY DEF Answered, Ask
<1> QED
  BY <1>1, <1>2 DEF ReleaseInv

\* Every step keeps it.
LEMMA ReleaseStep == ReleaseInv /\ [ProbeNext]_probeVars => ReleaseInv'
<1> SUFFICES ASSUME ReleaseInv, [ProbeNext]_probeVars PROVE ReleaseInv'
  OBVIOUS
<1>1. ASSUME NEW v \in FlatFiles, NEW d \in Dressings, ProbeFlat(v, d) PROVE ReleaseInv'
  BY <1>1, FlatStep
<1>2. ASSUME NEW volumes \in BoundedSeq(Volumes, MaxVolumes), NEW d \in Dressings,
             ProbeRar(volumes, d)
      PROVE  ReleaseInv'
  BY <1>2, RarStep
<1>3. ASSUME NEW header \in Headers, Ask(header) PROVE ReleaseInv'
  BY <1>3, AskStep
<1>4. CASE UNCHANGED probeVars
  BY <1>4 DEF probeVars, ReleaseInv, ReadyToServe, Answered
<1> QED
  BY <1>1, <1>2, <1>3, <1>4 DEF ProbeNext

\* What it says of the layout is LayoutSound
LEMMA InvSound == ReleaseInv => LayoutSound
BY DEF ReleaseInv, ReadyToServe, Ready, Delivers, LayoutSound, Probed

\* and BytesLocated,
LEMMA InvLocated == ReleaseInv => BytesLocated
BY DEF ReleaseInv, ReadyToServe, Ready, Delivers, BytesLocated, Probed, Files

\* what it says of the document is CanariesCover,
LEMMA InvCovered == ReleaseInv => CanariesCover
BY DEF ReleaseInv, ReadyToServe, Ready, CanariesCover, Probed

\* and what it says of the answer, by what parse_range does, is AnswersExact.
LEMMA InvExact == ReleaseInv => AnswersExact
<1> SUFFICES ASSUME ReleaseInv, answer # NoAnswer
             PROVE  /\ ExactLength(release.kind, Files, total)
                    /\ LET wanted == Wanted(answer.header, total)
                           range  == answer.range
                       IN  /\ Served(range) =>
                                /\ wanted = range.first..range.last
                                /\ ContentLength(range) = Cardinality(wanted)
                                /\ \A b \in wanted : SegmentAt(layout, PlaceOf(layout, b)) # 0
                           /\ range.status = "not satisfiable" <=>
                                wanted = {} /\ answer.header[1] \notin {"malformed", "several"}
  BY DEF AnswersExact
<1>1. /\ Ready(release.kind, release.files, release.nzb, layout, total)
      /\ \E header \in Headers : answer = [header |-> header, range |-> ParseRange(header, total)]
  BY DEF ReleaseInv, ReadyToServe, Answered
<1>2. PICK header \in Headers : answer = [header |-> header, range |-> ParseRange(header, total)]
  BY <1>1
<1>3. PICK range : range = ParseRange(header, total)
  OBVIOUS
<1>4. answer.header = header /\ answer.range = range
  BY <1>2, <1>3
<1>5. /\ ExactLength(release.kind, release.files, total)
      /\ total \in Nat \ {0}
      /\ \A b \in 0..total - 1 : SegmentAt(layout, PlaceOf(layout, b)) # 0
  BY <1>1 DEF Ready, Delivers
<1>6. Exact(header, range, total)
  BY <1>3, <1>5, HeadersAre, RangeExact
<1>7. \A b \in Wanted(header, total) : SegmentAt(layout, PlaceOf(layout, b)) # 0
  <2>1. Wanted(header, total) \subseteq 0..total - 1
    BY DEF Wanted
  <2> QED
    BY <1>5, <2>1
<1> QED
  BY <1>4, <1>5, <1>6, <1>7 DEF Exact, Files

\* Whatever complete release a preflight lays out, however its articles are cut,
\* listed and encoded, and whether or not the yEnc headers give sizes: the layout
\* is one FileLayout can be searched by (build_segment_refs,
\* rebuild_for_decoded_stride, build_rar_layout).
THEOREM LayoutsAreSound == ProbeSpec => []LayoutSound
<1>1. QED
  BY ReleaseInit, ReleaseStep, InvSound, PTL DEF ProbeSpec

\* Every byte of the video is read from the article that was posted with it, at its
\* place there, through video_to_assembled and find_segment.
THEOREM BytesAreLocated == ProbeSpec => []BytesLocated
<1>1. QED
  BY ReleaseInit, ReleaseStep, InvLocated, PTL DEF ProbeSpec

\* Every request is answered with exactly the bytes it asks for, each of them in a
\* segment, with their number as Content-Length, and the total is that of the video
\* but for a flat release without a size (parse_range, video_route).
THEOREM AnswersAreExact == ProbeSpec => []AnswersExact
<1>1. QED
  BY ReleaseInit, ReleaseStep, InvExact, PTL DEF ProbeSpec

\* The first article a preflight fetches and the last one it lays out are among
\* those the availability check asks every server for (pick_canaries,
\* pick_main_file, find_rar_volumes).
THEOREM CanariesAreCovered == ProbeSpec => []CanariesCover
<1>1. QED
  BY ReleaseInit, ReleaseStep, InvCovered, PTL DEF ProbeSpec
================================================================================
