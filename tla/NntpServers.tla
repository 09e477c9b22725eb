----------------------------- MODULE NntpServers -----------------------------
(***************************************************************************)
(* Connections to NNTP servers (src-rust/streaming/nntp.rs): fetches take  *)
(* them from a pool per server, walk from server to server, and give them  *)
(* back or throw them away; availability probes                            *)
(* (src-rust/nzb_availability.rs) open connections of their own.           *)
(*                                                                         *)
(* A pooled connection is the sequence of articles asked for on it whose   *)
(* replies have not been read.  ConnectionPool and the servers are         *)
(* external: acquire waits for one of the connections configured, reuses   *)
(* an idle one or opens one, and a connection that is dropped is closed.   *)
(***************************************************************************)
EXTENDS BodyProbe, FiniteSets

CONSTANTS
  Fetches,      \* tasks that fetch an article
  Articles,
  NumServers,
  Connections,  \* ServerConfig.connections, of each server
  Admitted      \* how many connections each server admits

Servers == 1..NumServers

ASSUME ServersAssumption ==
  /\ IsFiniteSet(Fetches) /\ NumServers \in Nat \ {0}
  /\ Connections \in [Servers -> Nat \ {0}] /\ Admitted \in [Servers -> Nat]

VARIABLES
  holds,    \* server |-> the articles it has
  wanted,   \* fetch |-> its article
  at,       \* fetch |-> "new", "acquiring", "fetching", "done", "failed", "gone"
  order,    \* fetch |-> the servers not yet given up
  tried,    \* fetch |-> history: the servers given up, in order
  conn,     \* fetch |-> its connection while it is fetching
  idle,     \* server |-> the connections released
  lent,     \* server |-> the permits of its pool in use
  got,      \* fetch |-> the article whose bytes it returned, or Nothing
  probed    \* the server and article that are probed

articleVars == <<holds, wanted, probed>>
poolVars == <<articleVars, at, order, tried, conn, idle, lent, got>>
vars == <<poolVars, probeVars>>

Nothing == "nothing"
Closed == <<>>

\* The fetches that hold a connection of a server.
Holders(s) == {t \in Fetches : at[t] = "fetching" /\ Head(order[t]) = s}
\* All connections open to a server.
Open(s) == Cardinality(Holders(s)) + Len(idle[s]) + (IF probed.server = s /\ session \notin {"none", "closed"} THEN 1 ELSE 0)

\* Slip: the preferred server is put first and its place is not given up.
WalkCopied(preferred) == [[i \in Servers |-> i] EXCEPT ![1] = preferred]

\* order.swap(0, preferred): the first server takes the preferred one's place.
Walk(preferred) == [[i \in Servers |-> i] EXCEPT ![1] = preferred, ![preferred] = 1]
-----------------------------------------------------------------------------
(* fetch_with_failover, and ensure_segment_cached, which walks alike.      *)

Begin(t) ==
  /\ at[t] = "new"
  /\ at' = [at EXCEPT ![t] = "acquiring"]
  /\ \E preferred \in Servers : order' = [order EXCEPT ![t] = Walk(preferred)]
  /\ UNCHANGED <<articleVars, tried, conn, idle, lent, got, probeVars>>

\* The server at the head has failed: the next one is tried, or none is left.
NextServer(t) ==
  /\ tried' = [tried EXCEPT ![t] = Append(@, Head(order[t]))]
  /\ order' = [order EXCEPT ![t] = Tail(@)]
  /\ at' = [at EXCEPT ![t] = IF Len(order[t]) > 1 THEN "acquiring" ELSE "failed"]

\* ConnectionPool::acquire, and the article is asked for.
Acquire(t) ==
  LET s == Head(order[t])
  IN  /\ at[t] = "acquiring"
      /\ lent[s] < Connections[s]
      /\ lent' = [lent EXCEPT ![s] = @ + 1]
      /\ \/ /\ idle[s] # <<>>
            /\ conn' = [conn EXCEPT ![t] = Append(Head(idle[s]), wanted[t])]
            /\ idle' = [idle EXCEPT ![s] = Tail(@)]
         \/ /\ idle[s] = <<>> /\ Open(s) < Admitted[s]
            /\ conn' = [conn EXCEPT ![t] = <<wanted[t]>>]
            /\ UNCHANGED idle
      /\ at' = [at EXCEPT ![t] = "fetching"]
      /\ UNCHANGED <<articleVars, order, tried, got, probeVars>>

\* The server cannot be reached, refuses, or no connection is free in time.
AcquireFails(t) ==
  /\ at[t] = "acquiring"
  /\ NextServer(t)
  /\ UNCHANGED <<articleVars, conn, idle, lent, got, probeVars>>

\* pool.release: the connection is there for the next, as it is.
Release(t, left) ==
  /\ idle' = [idle EXCEPT ![Head(order[t])] = Append(@, left)]
  /\ lent' = [lent EXCEPT ![Head(order[t])] = @ - 1]
  /\ conn' = [conn EXCEPT ![t] = Closed]

\* Slip: a connection is given back that has a reply to come.
DiscardToPool(t) == Release(t, conn[t])

\* Slip: the connection is thrown away and its permit with it.
DiscardWithPermit(t) ==
  /\ conn' = [conn EXCEPT ![t] = Closed]
  /\ UNCHANGED <<idle, lent>>

\* pool.discard, or the connection is dropped: closed, and its permit returned.
Discard(t) ==
  /\ conn' = [conn EXCEPT ![t] = Closed]
  /\ lent' = [lent EXCEPT ![Head(order[t])] = @ - 1]
  /\ UNCHANGED idle

\* The next reply on the connection is the article.
Deliver(t) ==
  LET reply == Head(conn[t])
  IN  /\ at[t] = "fetching" /\ reply \in holds[Head(order[t])]
      /\ got' = [got EXCEPT ![t] = reply]
      /\ at' = [at EXCEPT ![t] = "done"]
      /\ Release(t, Tail(conn[t]))
      /\ UNCHANGED <<articleVars, order, tried, probeVars>>

\* The next reply is that there is no such article; or it cannot be decoded, of
\* which only ensure_segment_cached knows.
Decline(t) ==
  /\ at[t] = "fetching"
  /\ Release(t, Tail(conn[t]))
  /\ NextServer(t)
  /\ UNCHANGED <<articleVars, got, probeVars>>

\* The transport fails.
Break(t) ==
  /\ at[t] = "fetching"
  /\ Discard(t)
  /\ NextServer(t)
  /\ UNCHANGED <<articleVars, got, probeVars>>

\* Slip: nothing bounds the wait for a reply.
TimeoutNever(t) == FALSE /\ UNCHANGED vars

\* No reply within 30 s.
Timeout(t) ==
  /\ at[t] = "fetching"
  /\ Discard(t)
  /\ NextServer(t)
  /\ UNCHANGED <<articleVars, got, probeVars>>

\* The stream or the preflight that wanted the article is dropped.
Abort(t) ==
  /\ \/ at[t] = "acquiring" /\ UNCHANGED <<conn, idle, lent>>
     \/ at[t] = "fetching" /\ Discard(t)
  /\ at' = [at EXCEPT ![t] = "gone"]
  /\ UNCHANGED <<articleVars, order, tried, got, probeVars>>

FetchStep(t) ==
  Begin(t) \/ Acquire(t) \/ AcquireFails(t) \/ Deliver(t) \/ Decline(t) \/ Break(t) \/ Timeout(t)
\* The server closes a connection nobody uses.
Expire(s) ==
  /\ idle[s] # <<>>
  /\ idle' = [idle EXCEPT ![s] = Tail(@)]
  /\ UNCHANGED <<articleVars, at, order, tried, conn, lent, got, probeVars>>
-----------------------------------------------------------------------------
Init ==
  /\ holds \in [Servers -> SUBSET Articles]
  /\ wanted \in [Fetches -> Articles]
  /\ probed \in [server : Servers, article : Articles]
  /\ at = [t \in Fetches |-> "new"]
  /\ order = [t \in Fetches |-> <<>>]
  /\ tried = [t \in Fetches |-> <<>>]
  /\ conn = [t \in Fetches |-> Closed]
  /\ idle = [s \in Servers |-> <<>>]
  /\ lent = [s \in Servers |-> 0]
  /\ got = [t \in Fetches |-> Nothing]
  /\ ProbeInit

\* The probe's connection is none of the pool's: its server counts them together.
Probe ==
  /\ \/ ProbeStep
     \/ ServerStep(probed.article \in holds[probed.server],
                   Open(probed.server) > Admitted[probed.server])
  /\ UNCHANGED poolVars

Next ==
  \/ \E t \in Fetches : FetchStep(t) \/ Abort(t)
  \/ \E s \in Servers : Expire(s)
  \/ Probe

Spec == Init /\ [][Next]_vars

(* Every wait of a fetch is bounded by a timeout of tokio; nothing is       *)
(* assumed of servers, of probes or of those who abort.                     *)
Waits(t) == Begin(t) \/ AcquireFails(t) \/ Timeout(t)
FairSpec == Spec /\ \A t \in Fetches : WF_vars(Waits(t))
-----------------------------------------------------------------------------
\* The fetches and the pools are well formed.
TypeOK ==
  /\ holds \in [Servers -> SUBSET Articles]
  /\ wanted \in [Fetches -> Articles]
  /\ at \in [Fetches -> {"new", "acquiring", "fetching", "done", "failed", "gone"}]
  /\ order \in [Fetches -> Seq(Servers)]
  /\ tried \in [Fetches -> Seq(Servers)]
  /\ conn \in [Fetches -> Seq(Articles)]
  /\ idle \in [Servers -> Seq(Seq(Articles))]
  /\ lent \in [Servers -> Nat]
  /\ got \in [Fetches -> Articles \cup {Nothing}]

\* Whether a fetch succeeds, fails, waits too long or is abandoned, its permit
\* comes back: a pool has lent what fetches hold, never keeps a permit for good,
\* and never has more connections, idle or in use, than are configured.
PermitsReturned ==
  \A s \in Servers :
    /\ lent[s] = Cardinality(Holders(s))
    /\ lent[s] + Len(idle[s]) <= Connections[s]

\* The bytes a fetch returns are those of the article it asked for, on a
\* connection that other fetches have used, given up and abandoned before.
RightArticle == \A t \in Fetches : got[t] \in {Nothing, wanted[t]}

\* A fetch fails only after it has given every server one chance.
FailsAfterAll ==
  \A t \in Fetches : at[t] = "failed" =>
    /\ Len(tried[t]) = NumServers
    /\ \A s \in Servers : \E i \in DOMAIN tried[t] : tried[t][i] = s

\* A verdict of the probe is true of the article.
ProbeTrue == VerdictTrue(probed.article \in holds[probed.server])

\* A fetch ends: with the article, without it, or with those who wanted it.
EveryFetchEnds ==
  \A t \in Fetches : at[t] = "acquiring" ~> at[t] \in {"done", "failed", "gone"}
=============================================================================
