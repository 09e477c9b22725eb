---------------------------- MODULE VideoSessions ----------------------------
(***************************************************************************)
(* Stream sessions and the requests for them (src-rust/streaming/          *)
(* session.rs and video_route of src-rust/main.rs).                        *)
(*                                                                         *)
(* The stream list registers a session for each group of candidates.  A    *)
(* request for its token touches it and runs the preflight, once: the      *)
(* OnceCell lets one request probe the candidates in order while the       *)
(* others wait, and hands the turn on if that request fails or goes away.  *)
(* A successful preflight creates the session's cache file.  Requests hold *)
(* the session itself, so they go on after it has left the registry.       *)
(* What serving does within a file is the subject of ServePipeline; here a *)
(* file is the number of blocks it occupies.                               *)
(***************************************************************************)
EXTENDS Integers, FiniteSets, Functions

CONSTANTS
  Tokens,         \* tokens of sessions, each registered at most once
  Requests,       \* requests, each made at most once
  NumCandidates,  \* length of a session's candidate list
  MaxClock,       \* bound: the last tick of the clock
  MaxFile         \* bound: the most blocks a file occupies

ASSUME SessionsAssumption ==
  /\ NumCandidates \in Nat \ {0}
  /\ MaxClock \in Nat /\ MaxFile \in Nat

VARIABLES
  clock,       \* now_ms, in ticks
  session,     \* of each token: "unborn", "registered", "dropped"
  lastAccess,  \* last_access
  cell,        \* the candidate each session committed to, 0 before
  dir,         \* the cache directory: tokens with a file |-> blocks it occupies
  pc,          \* where each request is
  of,          \* the token it is for
  candidate,   \* the candidate it probes
  strays       \* history: tokens whose file was created, or not removed,
               \* after their session was dropped

reqVars == <<pc, of, candidate>>
sessionVars == <<clock, session, lastAccess, cell, dir, reqVars, strays>>

NoToken == "none"
Registered == {t \in Tokens : session[t] = "registered"}

SessionsInit ==
  /\ clock = 0
  /\ session = [t \in Tokens |-> "unborn"]
  /\ lastAccess = [t \in Tokens |-> 0]
  /\ cell = [t \in Tokens |-> 0]
  /\ dir = [t \in {} |-> 0]
  /\ pc = [r \in Requests |-> "idle"]
  /\ of = [r \in Requests |-> NoToken]
  /\ candidate = [r \in Requests |-> 0]
  /\ strays = {}

\* Time passes while anything else goes on.
Tick ==
  /\ clock < MaxClock
  /\ clock' = clock + 1
  /\ UNCHANGED <<session, lastAccess, cell, dir, reqVars, strays>>

\* register_group.
Register(t) ==
  /\ session[t] = "unborn"
  /\ session' = [session EXCEPT ![t] = "registered"]
  /\ lastAccess' = [lastAccess EXCEPT ![t] = clock]
  /\ UNCHANGED <<clock, cell, dir, reqVars, strays>>

\* A request is over: answered in full, refused, or its client has left.
EndRequest(r) ==
  /\ pc' = [pc EXCEPT ![r] = "ended"]
  /\ of' = [of EXCEPT ![r] = NoToken]
  /\ candidate' = [candidate EXCEPT ![r] = 0]

\* A request comes in.  An unknown token is not found; a known one is touched,
\* and the request refused if no server is configured.
Arrive(r, t) ==
  /\ pc[r] = "idle" /\ session[t] # "unborn"
  /\ \/ /\ t \in Registered
        /\ pc' = [pc EXCEPT ![r] = "waiting"]
        /\ of' = [of EXCEPT ![r] = t]
        /\ UNCHANGED candidate
     \/ EndRequest(r)
  /\ lastAccess' = IF t \in Registered THEN [lastAccess EXCEPT ![t] = clock] ELSE lastAccess
  /\ UNCHANGED <<clock, session, cell, dir, strays>>

\* get_or_try_init: the cell is empty and no other request is filling it.
BeginProbe(r) ==
  /\ pc[r] = "waiting" /\ cell[of[r]] = 0
  /\ \A other \in Requests : pc[other] \in {"probing", "opened"} => of[other] # of[r]
  /\ pc' = [pc EXCEPT ![r] = "probing"]
  /\ candidate' = [candidate EXCEPT ![r] = 1]
  /\ UNCHANGED <<clock, session, lastAccess, cell, dir, of, strays>>

\* Slip: after the last candidate the walk begins again.
ProbeFailsAround(r) ==
  /\ pc[r] = "probing"
  /\ candidate' = [candidate EXCEPT ![r] = (@ % NumCandidates) + 1]
  /\ UNCHANGED <<clock, session, lastAccess, cell, dir, pc, of, strays>>

\* probe_candidate fails: on to the next candidate; after the last one the
\* request is answered with the error and the cell stays empty.
ProbeFails(r) ==
  /\ pc[r] = "probing"
  /\ IF candidate[r] < NumCandidates
     THEN candidate' = [candidate EXCEPT ![r] = @ + 1] /\ UNCHANGED <<pc, of>>
     ELSE EndRequest(r)
  /\ UNCHANGED <<clock, session, lastAccess, cell, dir, strays>>

\* The last step of a successful probe opens or creates the cache file,
\* whether or not the session is still registered.
ProbeOpens(r) ==
  LET t == of[r]
  IN  /\ pc[r] = "probing"
      /\ dir' = [x \in DOMAIN dir \cup {t} |-> IF x \in DOMAIN dir THEN dir[x] ELSE 0]
      /\ strays' = IF t \in Registered THEN strays ELSE strays \cup {t}
      /\ pc' = [pc EXCEPT ![r] = "opened"]
      /\ UNCHANGED <<clock, session, lastAccess, cell, of, candidate>>

\* The cell is set; all requests that wait for it go on.
ProbeCommits(r) ==
  /\ pc[r] = "opened"
  /\ cell' = [cell EXCEPT ![of[r]] = candidate[r]]
  /\ pc' = [pc EXCEPT ![r] = "waiting"]
  /\ candidate' = [candidate EXCEPT ![r] = 0]
  /\ UNCHANGED <<clock, session, lastAccess, dir, of, strays>>

\* The stream is known: its range is served, or refused.
Answer(r) ==
  /\ pc[r] = "waiting" /\ cell[of[r]] # 0
  /\ \/ pc' = [pc EXCEPT ![r] = "streaming"] /\ UNCHANGED <<of, candidate>>
     \/ EndRequest(r)
  /\ UNCHANGED <<clock, session, lastAccess, cell, dir, strays>>

\* A stream fills blocks of its file, or punches them.  If the file has been
\* removed the stream goes on with the open handle, and the directory shows
\* nothing of it.
FileGrows(r) ==
  LET t == of[r]
  IN  /\ pc[r] = "streaming" /\ t \in DOMAIN dir /\ dir[t] < MaxFile
      /\ dir' = [dir EXCEPT ![t] = @ + 1]
      /\ UNCHANGED <<clock, session, lastAccess, cell, reqVars, strays>>

FileShrinks(r) ==
  LET t == of[r]
  IN  /\ pc[r] = "streaming" /\ t \in DOMAIN dir /\ dir[t] > 0
      /\ dir' = [dir EXCEPT ![t] = @ - 1]
      /\ UNCHANGED <<clock, session, lastAccess, cell, reqVars, strays>>

\* The body is finished, or the client goes away: the request is dropped
\* wherever it is, in the middle of a probe too.
Leave(r) ==
  /\ pc[r] \notin {"idle", "ended"}
  /\ EndRequest(r)
  /\ UNCHANGED <<clock, session, lastAccess, cell, dir, strays>>

\* What a request does by itself until it is answered.
RequestStep(r) ==
  BeginProbe(r) \/ ProbeFails(r) \/ ProbeOpens(r) \/ ProbeCommits(r) \/ Answer(r)

SessionsTypeOK ==
  /\ clock \in 0 .. MaxClock
  /\ session \in [Tokens -> {"unborn", "registered", "dropped"}]
  /\ lastAccess \in [Tokens -> 0 .. MaxClock]
  /\ cell \in [Tokens -> 0 .. NumCandidates]
  /\ DOMAIN dir \subseteq Tokens
  /\ dir \in [DOMAIN dir -> 0 .. MaxFile]
  /\ pc \in [Requests ->
       {"idle", "waiting", "probing", "opened", "streaming", "ended"}]
  /\ of \in [Requests -> Tokens \cup {NoToken}]
  /\ candidate \in [Requests -> 0 .. NumCandidates]
  /\ strays \subseteq Tokens
=============================================================================
