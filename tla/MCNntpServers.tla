---------------------------- MODULE MCNntpServers ----------------------------
(* Two fetches and a probe of two servers with a connection each for the pools.  *)
EXTENDS NntpServers, TLC

CONSTANTS f1, f2, x, y

\* The first server is full with its pool's one connection, the second admits
\* a probe beside it.
MCConnections == <<1, 1>>
MCAdmitted == <<1, 2>>

\* The second server has x and not y, the first the other way round or nothing;
\* no server is content with half of the credentials.
MCInit ==
  /\ Init
  /\ holds[2] = {x} /\ holds[1] \in {{}, {y}}
  /\ wanted = (f1 :> x @@ f2 :> y) /\ probed.article = x
  /\ account # "both" => ~ welcome
MCSpec == MCInit /\ [][Next]_vars /\ \A t \in Fetches : WF_vars(Waits(t))
==============================================================================
