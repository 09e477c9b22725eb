------------------------------- MODULE NzbFetch -------------------------------
(***************************************************************************)
(* The shared fetcher of .nzb documents (src-rust/nzb_fetch.rs).           *)
(*                                                                         *)
(* A fetch looks in the byte cache, then at the throttle of the indexer's  *)
(* host, and then asks the indexer, again after a pause if the answer is a *)
(* server or network error.  What the cache and the throttle said may have *)
(* changed when the answer comes: other tasks fetch at the same time and   *)
(* the caches drop entries when they please.  Time is not counted: a       *)
(* cooldown lasts until CooldownEnds.                                      *)
(*                                                                         *)
(* A task is one candidate of a search, or one preflight.  The actions     *)
(* here are those of fetch_nzb_xml; NzbVerdicts has the callers.           *)
(***************************************************************************)
EXTENDS Naturals, FiniteSets

CONSTANTS
  Tasks,
  Urls,           \* addresses of .nzb documents
  Hosts,          \* hosts of indexers
  HostOf,         \* host_of
  RetryAttempts   \* RETRY_ATTEMPTS

NoUrl == "none"

ASSUME FetchAssumption ==
  /\ NoUrl \notin Urls
  /\ HostOf \in [Urls -> Hosts]
  /\ RetryAttempts \in Nat \ {0}

VARIABLES
  bytes,      \* NZB_BYTES_CACHE: the documents it holds
  throttled,  \* INDEXER_THROTTLE: the hosts in cooldown
  pc,         \* where each task is
  url,        \* the document it is about
  attempt,    \* the attempt it makes
  got,        \* what its last question was answered
  forgotten,  \* history: documents the byte cache has dropped since it had them
  early       \* history: of each host, the tasks asking it when its last
              \* cooldown began

fetchVars == <<bytes, throttled, pc, url, attempt, got, forgotten, early>>

Failures == {"network", "server_error"}        \* is_retryable
Answers == {"ok", "throttled", "refused"} \cup Failures

Host(t) == HostOf[url[t]]
Asking(h) == {t \in Tasks : pc[t] \in {"send", "wait"} /\ Host(t) = h}

FetchInit ==
  /\ bytes = {} /\ throttled = {}
  /\ pc = [t \in Tasks |-> "idle"]
  /\ url = [t \in Tasks |-> NoUrl]
  /\ attempt = [t \in Tasks |-> 0]
  /\ got = [t \in Tasks |-> "nothing"]
  /\ forgotten = {}
  /\ early = [h \in Hosts |-> {}]

Goto(t, label) == pc' = [pc EXCEPT ![t] = label]

\* The fetch is over and its caller has the answer.
Return(t, answer) ==
  /\ Goto(t, "fetched")
  /\ got' = [got EXCEPT ![t] = answer]
  /\ attempt' = [attempt EXCEPT ![t] = 0]

\* A document in the byte cache is returned at once.
FetchLookup(t) ==
  /\ pc[t] = "lookup"
  /\ \/ url[t] \in bytes /\ Return(t, "ok")
     \/ url[t] \notin bytes /\ Goto(t, "gate") /\ UNCHANGED <<attempt, got>>
  /\ UNCHANGED <<bytes, throttled, url, forgotten, early>>

\* Slip: the throttle is armed but not consulted.
FetchGateOpen(t) ==
  /\ pc[t] = "gate"
  /\ Goto(t, "send")
  /\ attempt' = [attempt EXCEPT ![t] = 1]
  /\ UNCHANGED <<bytes, throttled, url, got, forgotten, early>>

\* A host in cooldown is not asked.
FetchGate(t) ==
  /\ pc[t] = "gate"
  /\ \/ Host(t) \in throttled /\ Return(t, "throttled")
     \/ /\ Host(t) \notin throttled
        /\ Goto(t, "send")
        /\ attempt' = [attempt EXCEPT ![t] = 1]
        /\ UNCHANGED got
  /\ UNCHANGED <<bytes, throttled, url, forgotten, early>>

\* try_once sends the request; before all but the first, fetch_with_retry has
\* slept.  The throttle is not looked at again.
Send(t) ==
  /\ pc[t] = "send"
  /\ Goto(t, "wait")
  /\ UNCHANGED <<bytes, throttled, url, attempt, got, forgotten, early>>

\* Slip: the document is not cached.
DeliverUncached(t) ==
  /\ pc[t] = "wait"
  /\ Return(t, "ok")
  /\ UNCHANGED <<bytes, throttled, url, forgotten, early>>

\* The document arrives, and is cached.
Deliver(t) ==
  /\ pc[t] = "wait"
  /\ bytes' = bytes \cup {url[t]}
  /\ forgotten' = forgotten \ {url[t]}
  /\ Return(t, "ok")
  /\ UNCHANGED <<throttled, url, early>>

\* A client error, or a document that is too large: no retry.
Refuse(t) ==
  /\ pc[t] = "wait"
  /\ Return(t, "refused")
  /\ UNCHANGED <<bytes, throttled, url, forgotten, early>>

\* A server error, a lost connection or the timeout of 5 s: another attempt,
\* while there is one.
Retry(t) ==
  /\ pc[t] = "wait" /\ attempt[t] < RetryAttempts
  /\ attempt' = [attempt EXCEPT ![t] = @ + 1]
  /\ Goto(t, "send")
  /\ UNCHANGED <<bytes, throttled, url, got, forgotten, early>>

\* The last attempt fails.  If it fails with a server error the host's
\* cooldown begins.
GiveUp(t, why) ==
  /\ pc[t] = "wait" /\ attempt[t] = RetryAttempts
  /\ Return(t, why)
  /\ \/ /\ why = "server_error"
        /\ throttled' = throttled \cup {Host(t)}
        /\ early' = [early EXCEPT ![Host(t)] = Asking(Host(t)) \ {t}]
     \/ why = "network" /\ UNCHANGED <<throttled, early>>
  /\ UNCHANGED <<bytes, url, forgotten>>

FetchStep(t) ==
  \/ FetchLookup(t)
  \/ FetchGate(t)
  \/ Send(t)
  \/ Deliver(t)
  \/ Refuse(t)
  \/ Retry(t)
  \/ \E why \in Failures : GiveUp(t, why)

\* THROTTLE_DURATION is over: the entry expires and the comparison with the
\* present fails.
CooldownEnds(h) ==
  /\ h \in throttled
  /\ throttled' = throttled \ {h}
  /\ UNCHANGED <<bytes, pc, url, attempt, got, forgotten, early>>

\* The byte cache drops a document, by age or because it is full.
BytesForget(u) ==
  /\ u \in bytes
  /\ bytes' = bytes \ {u}
  /\ forgotten' = forgotten \cup {u}
  /\ UNCHANGED <<throttled, pc, url, attempt, got, early>>
===============================================================================
