---------------------------- MODULE MCNzbVerdicts ----------------------------
EXTENDS NzbVerdicts, TLC

CONSTANTS u1, u2, h1, a, b, c

\* One indexer serves every document.
SameHost == [u \in Urls |-> h1]

\* A release that the last server holds and the first may lack, beside an upload
\* that is no video and on no server.
MCInit == Init /\ playable = {u1} /\ NumServers \in posted[u1] /\ posted[u2] = {}
MCSpec == MCInit /\ [][Next]_vars

Symmetry == Permutations(Tasks)
==============================================================================
