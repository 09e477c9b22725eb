----------------------------- MODULE NzbVerdicts -----------------------------
(***************************************************************************)
(* The two filters of a search and the preflight that follows it           *)
(* (src-rust/nzb_sanity.rs, nzb_availability.rs, cache.rs, and the fetch   *)
(* and the first article of streaming/preflight.rs), over NzbFetch.        *)
(*                                                                         *)
(* A search runs its candidates through the structure check and then       *)
(* through the availability check; each keeps its verdicts in a cache, the *)
(* good and the bad.  A preflight that finds the first article on no       *)
(* server invalidates the availability verdict.  Nothing orders a check    *)
(* and the insertion of its verdict against other tasks, the invalidation  *)
(* included, and a client that goes away drops its tasks at any await.     *)
(*                                                                         *)
(* What is asked of a document is whether it lists a video or an archive,  *)
(* which never changes.  A server holds the articles of a release or does  *)
(* not, all canaries alike; it may stop holding them and never starts.     *)
(***************************************************************************)
EXTENDS NzbFetch

CONSTANT NumServers  \* NNTP servers, asked in order

Servers == 1..NumServers

ASSUME VerdictsAssumption == NumServers \in Nat \ {0}

VARIABLES
  playable,   \* the documents that name a RAR set or a video, for good
  posted,     \* of each document, the servers that held it at first
  sanity,     \* SANITY_CACHE: of each document, "none", "ok" or "bad"
  available,  \* AVAILABILITY_CACHE
  held,       \* of each document, the servers that hold it now
  kind,       \* what each task is: "search" or "play"
  server,     \* the server it asks
  buried      \* history: documents found on no server, rightly, while no
              \* availability check of them was under way

releases == <<playable, posted>>
verdictVars == <<releases, sanity, available, held, kind, server, buried>>
vars == <<fetchVars, verdictVars>>

Verdicts == {"none", "ok", "bad"}

Init ==
  /\ FetchInit
  /\ sanity = [u \in Urls |-> "none"]
  /\ available = [u \in Urls |-> "none"]
  /\ playable \in SUBSET Urls
  /\ posted \in [Urls -> SUBSET Servers]
  /\ held = posted
  /\ kind = [t \in Tasks |-> "none"]
  /\ server = [t \in Tasks |-> 0]
  /\ buried = {}

-----------------------------------------------------------------------------
\* A task is over.
End(t) ==
  /\ Goto(t, "ended")
  /\ url' = [url EXCEPT ![t] = NoUrl]
  /\ got' = [got EXCEPT ![t] = "nothing"]
  /\ server' = [server EXCEPT ![t] = 0]
  /\ kind' = [kind EXCEPT ![t] = "none"]

\* A search comes upon a candidate and begins with the first of the two checks
\* its user has switched on.
Search(t, u) ==
  /\ pc[t] = "idle"
  /\ Goto(t, "sanity") \/ Goto(t, "avail")
  /\ url' = [url EXCEPT ![t] = u]
  /\ kind' = [kind EXCEPT ![t] = "search"]
  /\ UNCHANGED <<bytes, throttled, attempt, got, forgotten, early, releases,
                 sanity, available, held, server, buried>>

\* A preflight probes a candidate some search has listed: it fetches first.
Play(t, u) ==
  /\ pc[t] = "idle"
  /\ Goto(t, "lookup")
  /\ url' = [url EXCEPT ![t] = u]
  /\ kind' = [kind EXCEPT ![t] = "play"]
  /\ UNCHANGED <<bytes, throttled, attempt, got, forgotten, early, releases,
                 sanity, available, held, server, buried>>

\* check_nzb_sanity looks for a verdict, and fetches the document if it has
\* none.  A good one passes the candidate on to the availability check.
SanityLookup(t) ==
  /\ pc[t] = "sanity"
  /\ \/ sanity[url[t]] = "ok" /\ Goto(t, "avail") /\ UNCHANGED <<url, got, server, kind>>
     \/ sanity[url[t]] = "bad" /\ End(t)
     \/ sanity[url[t]] = "none" /\ Goto(t, "lookup") /\ UNCHANGED <<url, got, server, kind>>
  /\ UNCHANGED <<bytes, throttled, attempt, forgotten, early, releases,
                 sanity, available, held, buried>>

\* The verdict of probe_nzb is cached, whatever it rests on.
SanityVerdict(t) ==
  /\ pc[t] = "fetched" /\ kind[t] = "search"
  /\ \/ /\ got[t] = "ok" /\ url[t] \in playable
        /\ sanity' = [sanity EXCEPT ![url[t]] = "ok"]
        /\ Goto(t, "avail")
        /\ got' = [got EXCEPT ![t] = "nothing"]
        /\ UNCHANGED <<url, server, kind>>
     \/ /\ got[t] # "ok" \/ url[t] \notin playable
        /\ sanity' = [sanity EXCEPT ![url[t]] = "bad"]
        /\ End(t)
  /\ UNCHANGED <<bytes, throttled, attempt, forgotten, early, releases,
                 available, held, buried>>

\* check_nzb_availability looks for a verdict.
AvailabilityLookup(t) ==
  /\ pc[t] = "avail"
  /\ \/ available[url[t]] # "none" /\ End(t)
     \/ available[url[t]] = "none" /\ Goto(t, "get") /\ UNCHANGED <<url, got, server, kind>>
  /\ UNCHANGED <<bytes, throttled, attempt, forgotten, early, releases,
                 sanity, available, held, buried>>

\* Its probe downloads the document itself, past the byte cache and the
\* throttle, once; any failure is its verdict.
AvailabilityGet(t) ==
  /\ pc[t] = "get"
  /\ \/ Goto(t, "canary") /\ server' = [server EXCEPT ![t] = 1] /\ UNCHANGED got
     \/ Goto(t, "verdict") /\ got' = [got EXCEPT ![t] = "bad"] /\ UNCHANGED server
  /\ UNCHANGED <<bytes, throttled, url, attempt, forgotten, early, releases,
                 sanity, available, held, kind, buried>>

\* Slip: a server that lacks the canary is passed over
\* while another is left.
AvailabilityCanaryAny(t) ==
  /\ pc[t] = "canary"
  /\ \/ /\ server[t] < NumServers
        /\ server' = [server EXCEPT ![t] = @ + 1]
        /\ UNCHANGED <<pc, got>>
     \/ /\ server[t] = NumServers
        /\ Goto(t, "verdict")
        /\ got' = [got EXCEPT ![t] = IF server[t] \in held[url[t]] THEN "ok" ELSE "bad"]
        /\ UNCHANGED server
  /\ UNCHANGED <<bytes, throttled, url, attempt, forgotten, early, releases,
                 sanity, available, held, kind, buried>>

\* A canary is asked of one server: missing, or the question failed, or it is
\* there and the next server is asked.
AvailabilityCanary(t) ==
  /\ pc[t] = "canary"
  /\ \/ /\ server[t] \in held[url[t]] /\ server[t] < NumServers
        /\ server' = [server EXCEPT ![t] = @ + 1]
        /\ UNCHANGED <<pc, got>>
     \/ /\ server[t] \in held[url[t]] /\ server[t] = NumServers
        /\ Goto(t, "verdict")
        /\ got' = [got EXCEPT ![t] = "ok"]
        /\ UNCHANGED server
     \/ /\ Goto(t, "verdict")
        /\ got' = [got EXCEPT ![t] = "bad"]
        /\ UNCHANGED server
  /\ UNCHANGED <<bytes, throttled, url, attempt, forgotten, early, releases,
                 sanity, available, held, kind, buried>>

\* The verdict of the probe is cached.
AvailabilityVerdict(t) ==
  /\ pc[t] = "verdict"
  /\ available' = [available EXCEPT ![url[t]] = got[t]]
  /\ End(t)
  /\ UNCHANGED <<bytes, throttled, attempt, forgotten, early, releases,
                 sanity, held, buried>>

\* A preflight has the document; or it has not, or finds nothing to play in it,
\* and gives its candidate up.
PlayFetched(t) ==
  /\ pc[t] = "fetched" /\ kind[t] = "play"
  /\ \/ /\ got[t] = "ok"
        /\ Goto(t, "smoke")
        /\ got' = [got EXCEPT ![t] = "nothing"]
        /\ server' = [server EXCEPT ![t] = 1]
        /\ UNCHANGED <<url, kind>>
     \/ End(t)
  /\ UNCHANGED <<bytes, throttled, attempt, forgotten, early, releases,
                 sanity, available, held, buried>>

\* fetch_with_failover asks one server for the first article.  It is there and
\* the preflight goes on without the caches; or it is not, or the question
\* failed, and the next server is asked.
SmokeTry(t) ==
  /\ pc[t] = "smoke"
  /\ \/ server[t] \in held[url[t]] /\ End(t)
     \/ /\ server[t] < NumServers
        /\ server' = [server EXCEPT ![t] = @ + 1]
        /\ UNCHANGED <<pc, url, got, kind>>
     \/ server[t] = NumServers /\ Goto(t, "dead") /\ UNCHANGED <<url, got, server, kind>>
  /\ UNCHANGED <<bytes, throttled, attempt, forgotten, early, releases,
                 sanity, available, held, buried>>

\* The availability checks of a document under way, from reading the cache to
\* filling it.
Checking(u) == {t \in Tasks : pc[t] \in {"get", "canary", "verdict"} /\ url[t] = u}

\* Slip: the verdict stays.
InvalidateNothing(t) ==
  /\ pc[t] = "dead"
  /\ buried' = IF held[url[t]] = {} /\ Checking(url[t]) = {}
               THEN buried \cup {url[t]} ELSE buried
  /\ End(t)
  /\ UNCHANGED <<bytes, throttled, attempt, forgotten, early, releases,
                 sanity, available, held>>

\* invalidate_for: the verdict that the release is available goes.
Invalidate(t) ==
  /\ pc[t] = "dead"
  /\ available' = [available EXCEPT ![url[t]] = "none"]
  /\ buried' = IF held[url[t]] = {} /\ Checking(url[t]) = {}
               THEN buried \cup {url[t]} ELSE buried
  /\ End(t)
  /\ UNCHANGED <<bytes, throttled, attempt, forgotten, early, releases, sanity, held>>

\* The client goes away and its task is dropped where it is.
Leave(t) ==
  /\ pc[t] \notin {"idle", "ended"}
  /\ End(t)
  /\ attempt' = [attempt EXCEPT ![t] = 0]
  /\ UNCHANGED <<bytes, throttled, forgotten, early, releases,
                 sanity, available, held, buried>>

\* A server loses the articles of a release: age, or a takedown.
Vanish(u, s) ==
  /\ s \in held[u]
  /\ held' = [held EXCEPT ![u] = @ \ {s}]
  /\ UNCHANGED <<fetchVars, releases, sanity, available, kind, server, buried>>

\* A verdict is dropped, by age or because its cache is full.
SanityForget(u) ==
  /\ sanity[u] # "none"
  /\ sanity' = [sanity EXCEPT ![u] = "none"]
  /\ UNCHANGED <<fetchVars, releases, available, held, kind, server, buried>>

AvailabilityForget(u) ==
  /\ available[u] # "none"
  /\ available' = [available EXCEPT ![u] = "none"]
  /\ UNCHANGED <<fetchVars, releases, sanity, held, kind, server, buried>>

TaskStep(t) ==
  \/ FetchStep(t) /\ UNCHANGED verdictVars
  \/ SanityLookup(t) \/ SanityVerdict(t)
  \/ AvailabilityLookup(t) \/ AvailabilityGet(t)
  \/ AvailabilityCanary(t) \/ AvailabilityVerdict(t)
  \/ PlayFetched(t) \/ SmokeTry(t) \/ Invalidate(t)

Next ==
  \/ \E t \in Tasks : TaskStep(t) \/ Leave(t)
  \/ \E t \in Tasks, u \in Urls : Search(t, u) \/ Play(t, u)
  \/ \E h \in Hosts : CooldownEnds(h) /\ UNCHANGED verdictVars
  \/ \E u \in Urls : \/ BytesForget(u) /\ UNCHANGED verdictVars
                     \/ SanityForget(u)
                     \/ AvailabilityForget(u)
  \/ \E u \in Urls, s \in Servers : Vanish(u, s)

Spec == Init /\ [][Next]_vars

-----------------------------------------------------------------------------
Labels == {"idle", "sanity", "lookup", "gate", "send", "wait", "fetched",
           "avail", "get", "canary", "verdict", "smoke", "dead", "ended"}

CachesOK ==
  /\ bytes \subseteq Urls /\ forgotten \subseteq Urls /\ buried \subseteq Urls
  /\ throttled \subseteq Hosts
  /\ early \in [Hosts -> SUBSET Tasks]
  /\ sanity \in [Urls -> Verdicts] /\ available \in [Urls -> Verdicts]
  /\ playable \subseteq Urls
  /\ posted \in [Urls -> SUBSET Servers] /\ held \in [Urls -> SUBSET Servers]
  /\ \A u \in Urls : held[u] \subseteq posted[u]

TasksOK ==
  /\ pc \in [Tasks -> Labels]
  /\ url \in [Tasks -> Urls \cup {NoUrl}]
  /\ attempt \in [Tasks -> 0..RetryAttempts]
  /\ got \in [Tasks -> Answers \cup {"nothing", "bad"}]
  /\ kind \in [Tasks -> {"none", "search", "play"}]
  /\ server \in [Tasks -> 0..NumServers]
  /\ \A t \in Tasks :
       /\ url[t] = NoUrl <=> pc[t] \in {"idle", "ended"}
       /\ attempt[t] > 0 <=> pc[t] \in {"send", "wait"}
       /\ pc[t] = "verdict" => got[t] \in {"ok", "bad"}

\* Every variable has its type; a task has a document while it runs and
\* attempts while it fetches.
TypeOK == CachesOK /\ TasksOK

\* While a host cools down, fetch_nzb_xml sends it nothing but what is left of
\* the fetches that were asking it when the cooldown began, however the
\* cooldown is renewed by them.
QuietCooldown ==
  [][\A t \in Tasks :
       pc[t] = "send" /\ pc'[t] = "wait" /\ Host(t) \in throttled
         => t \in early[Host(t)]]_vars

\* A candidate with a good structure verdict can be played without asking its
\* indexer again, unless the byte cache has dropped the document meanwhile.
ListedIsFetched ==
  \A u \in Urls : sanity[u] = "ok" => u \in bytes \cup forgotten

\* Strict AND: no release is remembered as available that some server never
\* held, whatever vanishes while it is probed.
AvailableEverywhere ==
  \A u \in Urls : available[u] = "ok" => posted[u] = Servers

\* A release a preflight found dead, while nothing was checking it, is not
\* remembered as available again.
DeadStaysDead ==
  \A u \in buried : available[u] # "ok"
===============================================================================
