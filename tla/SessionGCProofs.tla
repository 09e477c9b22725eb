--------------------------- MODULE SessionGCProofs ---------------------------
(***************************************************************************)
(* What becomes of cache files, for any tokens, requests and windows: one  *)
(* outlives its session only for a known reason, whoever was accessed      *)
(* recently stays, and a pass brings the disk down to its cap.             *)
(***************************************************************************)
EXTENDS SessionGC, FiniteLemmas, TLAPS

\* A request under way is for a token, and so is an eviction.
Placed ==
  /\ \A r \in Requests : pc[r] \notin {"idle", "ended"} => of[r] \in Tokens
  /\ gcAt \in {"drop", "unlink"} => target \in Tokens

Tidy == TypeOK /\ Placed /\ NoStrayFiles

\* The parts of the type invariant that are the requests', and the others.
RequestsTyped ==
  /\ pc \in [Requests -> {"idle", "waiting", "probing", "opened", "streaming", "ended"}]
  /\ of \in [Requests -> Tokens \cup {NoToken}]
  /\ candidate \in [Requests -> 0 .. NumCandidates]
  /\ \A r \in Requests : pc[r] \notin {"idle", "ended"} => of[r] \in Tokens

SessionsTyped ==
  /\ clock \in 0 .. MaxClock
  /\ session \in [Tokens -> {"unborn", "registered", "dropped"}]
  /\ lastAccess \in [Tokens -> 0 .. MaxClock]
  /\ cell \in [Tokens -> 0 .. NumCandidates]

FilesTyped ==
  /\ DOMAIN dir \subseteq Tokens /\ dir \in [DOMAIN dir -> 0 .. MaxFile]
  /\ strays \subseteq Tokens

CollectorTyped ==
  /\ gcAt \in {"asleep", "choose", "drop", "unlink"} /\ phase \in {"idle", "cap"}
  /\ gcNow \in 0 .. MaxClock
  /\ DOMAIN victims \subseteq Tokens /\ victims \in [DOMAIN victims -> 0 .. MaxClock]
  /\ target \in Tokens \cup {NoToken}
  /\ measured \in Nat /\ unseen \in Nat
  /\ gcAt \in {"drop", "unlink"} => target \in Tokens

LEMMA TidyParts ==
  Tidy <=> RequestsTyped /\ SessionsTyped /\ FilesTyped /\ CollectorTyped /\ NoStrayFiles
  BY DEF Tidy, TypeOK, SessionsTypeOK, Placed, RequestsTyped, SessionsTyped, FilesTyped, CollectorTyped

LEMMA TidyParts1 ==
  ASSUME RequestsTyped', SessionsTyped', FilesTyped', CollectorTyped', NoStrayFiles'
  PROVE  Tidy'
  BY DEF Tidy, TypeOK, SessionsTypeOK, Placed, RequestsTyped, SessionsTyped, FilesTyped, CollectorTyped

\* Where no file appears and no session goes, no file becomes a stray.
LEMMA NoNewStray ==
  ASSUME NoStrayFiles, DOMAIN dir' \subseteq DOMAIN dir, Registered \subseteq Registered',
         strays \subseteq strays', UNCHANGED <<gcAt, target>>
  PROVE  NoStrayFiles'
  BY DEF NoStrayFiles

LEMMA EndTyped ==
  ASSUME RequestsTyped, NEW r \in Requests, EndRequest(r)
  PROVE  RequestsTyped'
<1>1. 0 \in 0 .. NumCandidates
  BY SessionsAssumption
<1> QED
  BY <1>1 DEF EndRequest, RequestsTyped

\* What a request does by itself, and its end.
LEMMA TidyRequest ==
  ASSUME Tidy, NEW r \in Requests, RequestStep(r) \/ Leave(r), UNCHANGED gcVars
  PROVE  Tidy'
<1>1. RequestsTyped /\ SessionsTyped /\ FilesTyped /\ CollectorTyped /\ NoStrayFiles
  BY TidyParts
<1>2. CollectorTyped'
  BY <1>1 DEF gcVars, CollectorTyped
<1>3. UNCHANGED <<gcAt, target>>
  BY DEF gcVars
<1>4. ASSUME UNCHANGED <<clock, session, lastAccess, dir, strays>>
      PROVE  FilesTyped' /\ NoStrayFiles'
  BY <1>1, <1>3, <1>4 DEF FilesTyped, NoStrayFiles, Registered
<1>5. CASE BeginProbe(r)
  <2>1. RequestsTyped'
    <3>1. 1 \in 0 .. NumCandidates
      BY SessionsAssumption
    <3> QED
      BY <1>1, <1>5, <3>1 DEF BeginProbe, RequestsTyped
  <2>2. SessionsTyped'
    BY <1>1, <1>5 DEF BeginProbe, SessionsTyped
  <2> QED
    BY <1>2, <1>4, <1>5, <2>1, <2>2, TidyParts1 DEF BeginProbe
<1>6. CASE ProbeFails(r)
  <2>1. RequestsTyped'
    <3>1. CASE candidate[r] < NumCandidates
      <4>1. candidate[r] + 1 \in 0 .. NumCandidates
        BY <1>1, <3>1, SessionsAssumption DEF RequestsTyped
      <4> QED
        BY <1>1, <1>6, <3>1, <4>1 DEF ProbeFails, RequestsTyped
    <3>2. CASE ~ candidate[r] < NumCandidates
      BY <1>1, <1>6, <3>2, EndTyped DEF ProbeFails
    <3> QED
      BY <3>1, <3>2
  <2>2. SessionsTyped'
    BY <1>1, <1>6 DEF ProbeFails, SessionsTyped
  <2> QED
    BY <1>2, <1>4, <1>6, <2>1, <2>2, TidyParts1 DEF ProbeFails
<1>7. CASE ProbeOpens(r)
  <2>1. of[r] \in Tokens
    BY <1>1, <1>7 DEF ProbeOpens, RequestsTyped
  <2>2. RequestsTyped'
    BY <1>1, <1>7 DEF ProbeOpens, RequestsTyped
  <2>3. SessionsTyped'
    BY <1>1, <1>7 DEF ProbeOpens, SessionsTyped
  <2>4. FilesTyped'
    <3>1. 0 \in 0 .. MaxFile
      BY SessionsAssumption
    <3> QED
      BY <1>1, <1>7, <2>1, <3>1 DEF ProbeOpens, FilesTyped
  <2>5. NoStrayFiles'
    <3>1. DOMAIN dir' = DOMAIN dir \cup {of[r]} /\ Registered' = Registered
          /\ strays \subseteq strays' /\ (of[r] \in Registered \/ of[r] \in strays')
      BY <1>7 DEF ProbeOpens, Registered
    <3> QED
      BY <1>1, <1>3, <3>1 DEF NoStrayFiles
  <2> QED
    BY <1>2, <2>2, <2>3, <2>4, <2>5, TidyParts1
<1>8. CASE ProbeCommits(r)
  <2>1. RequestsTyped'
    <3>1. 0 \in 0 .. NumCandidates
      BY SessionsAssumption
    <3> QED
      BY <1>1, <1>8, <3>1 DEF ProbeCommits, RequestsTyped
  <2>2. SessionsTyped'
    <3>1. candidate[r] \in 0 .. NumCandidates
      BY <1>1 DEF RequestsTyped
    <3> QED
      BY <1>1, <1>8, <3>1 DEF ProbeCommits, SessionsTyped
  <2> QED
    BY <1>2, <1>4, <1>8, <2>1, <2>2, TidyParts1 DEF ProbeCommits
<1>9. CASE Answer(r)
  <2>1. RequestsTyped'
    <3>1. CASE EndRequest(r)
      BY <1>1, <3>1, EndTyped
    <3>2. CASE pc' = [pc EXCEPT ![r] = "streaming"] /\ UNCHANGED <<of, candidate>>
      BY <1>1, <1>9, <3>2 DEF Answer, RequestsTyped
    <3> QED
      BY <1>9, <3>1, <3>2 DEF Answer
  <2>2. SessionsTyped'
    BY <1>1, <1>9 DEF Answer, SessionsTyped
  <2> QED
    BY <1>2, <1>4, <1>9, <2>1, <2>2, TidyParts1 DEF Answer
<1>10. CASE Leave(r)
  <2>1. RequestsTyped'
    BY <1>1, <1>10, EndTyped DEF Leave
  <2>2. SessionsTyped'
    BY <1>1, <1>10 DEF Leave, SessionsTyped
  <2> QED
    BY <1>2, <1>4, <1>10, <2>1, <2>2, TidyParts1 DEF Leave
<1> QED
  BY <1>5, <1>6, <1>7, <1>8, <1>9, <1>10 DEF RequestStep

\* What comes from outside: sessions, requests, the clock, and blocks of files.
LEMMA TidyOutside ==
  ASSUME Tidy,
         \/ \E t \in Tokens : Register(t) /\ UNCHANGED gcVars
         \/ \E r \in Requests, t \in Tokens : Arrive(r, t) /\ UNCHANGED gcVars
         \/ Tick /\ UNCHANGED gcVars
         \/ \E r \in Requests : Serve(r) /\ UNCHANGED <<gcAt, phase, gcNow, victims, target, measured, over>>
  PROVE  Tidy'
<1>1. RequestsTyped /\ SessionsTyped /\ FilesTyped /\ CollectorTyped /\ NoStrayFiles
  BY TidyParts
<1>2. UNCHANGED gcVars => CollectorTyped' /\ UNCHANGED <<gcAt, target>>
  BY <1>1 DEF gcVars, CollectorTyped
<1>3. CASE \E t \in Tokens : Register(t) /\ UNCHANGED gcVars
  <2>1. PICK t \in Tokens : Register(t)
    BY <1>3
  <2>2. RequestsTyped'
    BY <1>1, <2>1 DEF Register, reqVars, RequestsTyped
  <2>3. SessionsTyped'
    BY <1>1, <2>1 DEF Register, SessionsTyped
  <2>4. FilesTyped'
    BY <1>1, <2>1 DEF Register, FilesTyped
  <2>5. Registered \subseteq Registered'
    BY <1>1, <2>1 DEF Register, Registered, SessionsTyped
  <2>6. NoStrayFiles'
    BY <1>1, <1>2, <1>3, <2>1, <2>5, NoNewStray DEF Register
  <2> QED
    BY <1>2, <1>3, <2>2, <2>3, <2>4, <2>6, TidyParts1
<1>4. CASE \E r \in Requests, t \in Tokens : Arrive(r, t) /\ UNCHANGED gcVars
  <2>1. PICK r \in Requests, t \in Tokens : Arrive(r, t)
    BY <1>4
  <2>2. RequestsTyped'
    <3>1. CASE EndRequest(r)
      BY <1>1, <3>1, EndTyped
    <3>2. CASE pc' = [pc EXCEPT ![r] = "waiting"] /\ of' = [of EXCEPT ![r] = t] /\ UNCHANGED candidate
      BY <1>1, <3>2 DEF RequestsTyped
    <3> QED
      BY <2>1, <3>1, <3>2 DEF Arrive
  <2>3. SessionsTyped'
    BY <1>1, <2>1 DEF Arrive, SessionsTyped
  <2>4. FilesTyped' /\ NoStrayFiles'
    BY <1>1, <1>2, <1>4, <2>1 DEF Arrive, FilesTyped, NoStrayFiles, Registered
  <2> QED
    BY <1>2, <1>4, <2>2, <2>3, <2>4, TidyParts1
<1>5. CASE Tick /\ UNCHANGED gcVars
  <2>1. RequestsTyped'
    BY <1>1, <1>5 DEF Tick, reqVars, RequestsTyped
  <2>2. SessionsTyped'
    <3>1. clock + 1 \in 0 .. MaxClock
      BY <1>1, <1>5, SessionsAssumption DEF Tick, SessionsTyped
    <3> QED
      BY <1>1, <1>5, <3>1 DEF Tick, SessionsTyped
  <2>3. FilesTyped' /\ NoStrayFiles'
    BY <1>1, <1>2, <1>5 DEF Tick, FilesTyped, NoStrayFiles, Registered
  <2> QED
    BY <1>2, <1>5, <2>1, <2>2, <2>3, TidyParts1
<1>6. CASE \E r \in Requests : Serve(r) /\ UNCHANGED <<gcAt, phase, gcNow, victims, target, measured, over>>
  <2>1. PICK r \in Requests : Serve(r)
    BY <1>6
  <2>2. PICK n \in 0 .. MaxFile : of[r] \in DOMAIN dir /\ dir' = [dir EXCEPT ![of[r]] = n]
    <3>1. \A t \in DOMAIN dir : dir[t] \in 0 .. MaxFile
      BY <1>1 DEF FilesTyped
    <3>2. CASE FileGrows(r)
      <4>1. of[r] \in DOMAIN dir /\ dir[of[r]] + 1 \in 0 .. MaxFile
        BY <3>1, <3>2, SessionsAssumption DEF FileGrows
      <4> QED
        BY <3>2, <4>1 DEF FileGrows
    <3>3. CASE FileShrinks(r)
      <4>1. of[r] \in DOMAIN dir /\ dir[of[r]] - 1 \in 0 .. MaxFile
        BY <3>1, <3>3, SessionsAssumption DEF FileShrinks
      <4> QED
        BY <3>3, <4>1 DEF FileShrinks
    <3> QED
      BY <2>1, <3>2, <3>3 DEF Serve
  <2>3. UNCHANGED <<clock, session, lastAccess, cell, reqVars, strays>> /\ unseen' \in {unseen, unseen + 1, 0}
    BY <2>1 DEF Serve, FileGrows, FileShrinks
  <2>4. RequestsTyped'
    BY <1>1, <2>3 DEF reqVars, RequestsTyped
  <2>5. SessionsTyped'
    BY <1>1, <2>3 DEF SessionsTyped
  <2>6. FilesTyped'
    BY <1>1, <2>2, <2>3 DEF FilesTyped
  <2>7. NoStrayFiles'
    <3>1. DOMAIN dir' = DOMAIN dir
      BY <1>1, <2>2 DEF FilesTyped
    <3> QED
      BY <1>1, <1>6, <2>3, <3>1 DEF NoStrayFiles, Registered
  <2>8. CollectorTyped'
    <3>1. unseen' \in Nat
      BY <1>1, <2>3 DEF CollectorTyped
    <3> QED
      BY <1>1, <1>6, <3>1 DEF CollectorTyped
  <2> QED
    BY <2>4, <2>5, <2>6, <2>7, <2>8, TidyParts1
<1> QED
  BY <1>3, <1>4, <1>5, <1>6

\* What the collector does.  Between a drop and the removal that follows, the
\* file of its target is the only one without a session.
LEMMA TidyCollect == ASSUME Tidy, Collect PROVE Tidy'
<1>1. RequestsTyped /\ SessionsTyped /\ FilesTyped /\ CollectorTyped /\ NoStrayFiles
  BY TidyParts
<1>2. ASSUME UNCHANGED reqVars PROVE RequestsTyped'
  BY <1>1, <1>2 DEF reqVars, RequestsTyped
<1>3. ASSUME UNCHANGED <<clock, session, lastAccess, cell>> PROVE SessionsTyped'
  BY <1>1, <1>3 DEF SessionsTyped
<1>4. ASSUME UNCHANGED sessionVars PROVE RequestsTyped' /\ SessionsTyped' /\ FilesTyped'
  BY <1>1, <1>2, <1>3, <1>4 DEF sessionVars, FilesTyped
<1>5. ASSUME UNCHANGED sessionVars, gcAt # "unlink" PROVE NoStrayFiles'
  BY <1>1, <1>5 DEF sessionVars, NoStrayFiles, Registered
<1>6. Nobody \in [DOMAIN Nobody -> 0 .. MaxClock] /\ DOMAIN Nobody \subseteq Tokens
  BY DEF Nobody
<1>7. \A t \in Tokens : lastAccess[t] \in 0 .. MaxClock
  BY <1>1 DEF SessionsTyped
<1>8. CASE GcStart
  <2>1. CollectorTyped'
    BY <1>1, <1>7, <1>8 DEF GcStart, CollectorTyped, SessionsTyped, Registered
  <2> QED
    BY <1>4, <1>5, <1>8, <2>1, TidyParts1 DEF GcStart
<1>9. CASE GcSumUp
  <2>1. CollectorTyped'
    <3>1. 0 \in 0 .. MaxClock
      BY SessionsAssumption
    <3>2. CASE DirTotal <= MaxBytes
      BY <1>1, <1>9, <3>1, <3>2 DEF GcSumUp, CollectorTyped
    <3>3. CASE ~ DirTotal <= MaxBytes
      <4>1. CapVictims(gcNow) \subseteq Tokens
        BY DEF CapVictims, Registered
      <4> QED
        BY <1>1, <1>7, <1>9, <3>3, <4>1 DEF GcSumUp, CollectorTyped
    <3> QED
      BY <3>2, <3>3
  <2> QED
    BY <1>4, <1>5, <1>9, <2>1, TidyParts1 DEF GcSumUp
<1>10. CASE \E t \in Tokens : GcChoose(t)
  <2>1. PICK t \in Tokens : GcChoose(t)
    BY <1>10
  <2>2. measured' \in Nat
    <3>1. FileBytes(t) \in Nat
      BY <1>1, SessionsAssumption DEF FileBytes, FilesTyped
    <3> QED
      BY <2>1, <3>1 DEF GcChoose
  <2>3. CollectorTyped'
    BY <1>1, <2>1, <2>2 DEF GcChoose, CollectorTyped, Restrict
  <2> QED
    BY <1>4, <1>5, <2>1, <2>3, TidyParts1 DEF GcChoose
<1>11. CASE GcDrop
  <2>1. target \in Tokens
    BY <1>1, <1>11 DEF GcDrop, CollectorTyped
  <2>2. SessionsTyped'
    BY <1>1, <1>11 DEF GcDrop, SessionsTyped
  <2>3. FilesTyped'
    BY <1>1, <1>11 DEF GcDrop, FilesTyped
  <2>4. CollectorTyped'
    BY <1>1, <1>11, <2>1 DEF GcDrop, CollectorTyped
  <2>5. NoStrayFiles'
    <3>1. Registered \ {target} \subseteq Registered'
      BY <1>1, <1>11 DEF GcDrop, Registered, SessionsTyped
    <3> QED
      BY <1>1, <1>11, <3>1 DEF GcDrop, NoStrayFiles
  <2> QED
    BY <1>2, <1>11, <2>2, <2>3, <2>4, <2>5, TidyParts1 DEF GcDrop
<1>12. CASE GcUnlink
  <2>1. FilesTyped'
    BY <1>1, <1>12 DEF GcUnlink, FilesTyped, Restrict
  <2>2. CollectorTyped'
    BY <1>1, <1>12 DEF GcUnlink, GcNext, CollectorTyped
  <2>3. NoStrayFiles'
    BY <1>1, <1>12 DEF GcUnlink, NoStrayFiles, Registered, Restrict
  <2> QED
    BY <1>2, <1>3, <1>12, <2>1, <2>2, <2>3, TidyParts1 DEF GcUnlink
<1>13. CASE GcUnlinkFails
  <2>1. FilesTyped'
    BY <1>1, <1>13 DEF GcUnlinkFails, FilesTyped
  <2>2. CollectorTyped'
    BY <1>1, <1>13 DEF GcUnlinkFails, GcNext, CollectorTyped
  <2>3. NoStrayFiles'
    BY <1>1, <1>13 DEF GcUnlinkFails, NoStrayFiles, Registered
  <2> QED
    BY <1>2, <1>3, <1>13, <2>1, <2>2, <2>3, TidyParts1 DEF GcUnlinkFails
<1>14. CASE GcFinish
  <2>1. CollectorTyped'
    <3>1. 0 \in 0 .. MaxClock
      BY SessionsAssumption
    <3> QED
      BY <1>1, <1>6, <1>14, <3>1 DEF GcFinish, CollectorTyped
  <2> QED
    BY <1>4, <1>5, <1>14, <2>1, TidyParts1 DEF GcFinish
<1> QED
  BY <1>8, <1>9, <1>10, <1>11, <1>12, <1>13, <1>14 DEF Collect

\* A restart keeps the files it cannot remove.
LEMMA TidyRestart == ASSUME Tidy, Restart PROVE Tidy'
<1>1. RequestsTyped /\ SessionsTyped /\ FilesTyped /\ CollectorTyped /\ NoStrayFiles
  BY TidyParts
<1>2. 0 \in 0 .. NumCandidates /\ 0 \in 0 .. MaxClock
  BY SessionsAssumption
<1>3. RequestsTyped'
  BY <1>1, <1>2 DEF Restart, RequestsTyped
<1>4. SessionsTyped'
  BY <1>1, <1>2 DEF Restart, SessionsTyped
<1>5. PICK kept \in SUBSET DOMAIN dir : dir' = Restrict(dir, kept) /\ strays' = strays \cup kept
  BY DEF Restart
<1>6. FilesTyped'
  BY <1>1, <1>5 DEF FilesTyped, Restrict
<1>7. CollectorTyped'
  BY <1>1, <1>2 DEF Restart, CollectorTyped, Nobody
<1>8. NoStrayFiles'
  BY <1>5 DEF NoStrayFiles, Restrict
<1> QED
  BY <1>3, <1>4, <1>6, <1>7, <1>8, TidyParts1

LEMMA TidyInit == ASSUME Init PROVE Tidy
<1>1. 0 \in 0 .. NumCandidates /\ 0 \in 0 .. MaxClock
  BY SessionsAssumption
<1>2. RequestsTyped
  BY <1>1 DEF Init, SessionsInit, RequestsTyped
<1>3. SessionsTyped
  BY <1>1 DEF Init, SessionsInit, SessionsTyped
<1>4. FilesTyped /\ NoStrayFiles
  BY DEF Init, SessionsInit, FilesTyped, NoStrayFiles
<1>5. CollectorTyped
  BY <1>1 DEF Init, CollectorTyped, Nobody
<1> QED
  BY <1>2, <1>3, <1>4, <1>5, TidyParts

\* It is inductive.
LEMMA AlwaysTidy == Spec => []Tidy
<1>1. Tidy /\ [Next]_vars => Tidy'
  <2> SUFFICES ASSUME Tidy, [Next]_vars PROVE Tidy'
    OBVIOUS
  <2>1. CASE UNCHANGED vars
    BY <2>1 DEF vars, sessionVars, reqVars, gcVars, Tidy, TypeOK, SessionsTypeOK, Placed, NoStrayFiles, Registered
  <2> QED
    BY <2>1, TidyRequest, TidyOutside, TidyCollect, TidyRestart DEF Next
<1> QED
  BY <1>1, TidyInit, PTL DEF Spec

\* Wherever requests go away, sessions are evicted and the process restarts, a
\* cache file without a session is one that a late probe created or that could
\* not be removed (evict_session, clear_cache_dir).
THEOREM FilesHaveSessions == Spec => [](TypeOK /\ NoStrayFiles)
<1>1. Tidy => TypeOK /\ NoStrayFiles
  BY DEF Tidy
<1> QED
  BY <1>1, AlwaysTidy, PTL
------------------------------------------------------------------------------
(* Whom the collector takes.                                                *)

\* Since the pass began the session was touched, or before it for long not.
Silent(t) == gcNow - lastAccess[t] >= Grace \/ lastAccess[t] >= gcNow

Listed ==
  /\ gcNow <= clock
  /\ \A t \in DOMAIN victims : Silent(t)
  /\ gcAt = "drop" => Silent(target)

LEMMA ListedInit == ASSUME Init PROVE Listed
  BY DEF Init, SessionsInit, Listed, Nobody

\* A list is of sessions whose silence exceeds a window no shorter than Grace.
LEMMA ListedBySilence ==
  ASSUME TypeOK, NEW t \in Tokens, NEW now \in 0 .. MaxClock, NEW window \in Nat,
         Grace <= window, ~ Minus(now, lastAccess[t]) < window
  PROVE  now - lastAccess[t] >= Grace \/ lastAccess[t] >= now
<1>1. lastAccess[t] \in Nat /\ now \in Nat /\ Grace \in Nat
  BY SessionsAssumption, GCAssumption DEF TypeOK, SessionsTypeOK, Grace
<1> QED
  BY <1>1 DEF Minus

LEMMA ListedNext == ASSUME TypeOK, Placed, Listed, [Next]_vars PROVE Listed'
<1>1. /\ clock \in Nat /\ gcNow \in Nat /\ gcNow <= clock
      /\ \A t \in Tokens : lastAccess[t] \in Nat
      /\ DOMAIN victims \subseteq Tokens
      /\ gcAt \in {"drop", "unlink"} => target \in Tokens
      /\ Grace \in Nat /\ Grace <= IdleTimeout /\ Grace <= ProtectWindow
  BY SessionsAssumption, GCAssumption DEF TypeOK, SessionsTypeOK, Listed, Placed, Grace
<1>2. ASSUME UNCHANGED <<clock, lastAccess, gcNow>>, DOMAIN victims' \subseteq DOMAIN victims,
             gcAt' = "drop" => target' \in DOMAIN victims \/ (gcAt = "drop" /\ target' = target)
      PROVE  Listed'
  BY <1>2 DEF Listed, Silent
<1>3. ASSUME UNCHANGED gcVars, clock' \in {clock, clock + 1},
             lastAccess' \in [Tokens -> Nat],
             \A t \in Tokens : lastAccess'[t] \in {lastAccess[t], clock}
      PROVE  Listed'
  <2>1. UNCHANGED <<victims, gcAt, target, gcNow>> /\ gcNow <= clock'
    BY <1>1, <1>3 DEF gcVars
  <2>2. ASSUME NEW t \in Tokens, Silent(t) PROVE Silent(t)'
    BY <1>1, <1>3, <2>1, <2>2 DEF Silent
  <2>3. \A t \in DOMAIN victims' : Silent(t)'
    <3>1. \A t \in DOMAIN victims : Silent(t)
      BY Zenon DEF Listed
    <3>2. DOMAIN victims' = DOMAIN victims
      BY <2>1
    <3> QED
      BY <1>1, <2>2, <3>1, <3>2, Zenon
  <2>4. ASSUME gcAt' = "drop" PROVE Silent(target)'
    <3>1. target \in Tokens /\ Silent(target)
      <4>1. gcAt = "drop"
        BY <2>1, <2>4
      <4> QED
        BY <1>1, <4>1, Zenon DEF Listed
    <3>2. lastAccess'[target] \in {lastAccess[target], clock} /\ lastAccess[target] \in Nat
      BY <1>1, <1>3, <3>1
    <3> QED
      BY <1>1, <2>1, <3>1, <3>2 DEF Silent
  <2> QED
    BY <2>1, <2>3, <2>4 DEF Listed
<1>4. lastAccess \in [Tokens -> Nat]
  BY <1>1 DEF TypeOK, SessionsTypeOK
<1>5. CASE \E t \in Tokens : Register(t) /\ UNCHANGED gcVars
  BY <1>1, <1>3, <1>4, <1>5 DEF Register
<1>6. CASE \E r \in Requests, t \in Tokens : Arrive(r, t) /\ UNCHANGED gcVars
  BY <1>1, <1>3, <1>4, <1>6 DEF Arrive
<1>7. CASE Tick /\ UNCHANGED gcVars
  BY <1>3, <1>4, <1>7 DEF Tick
<1>8. CASE \E r \in Requests : (RequestStep(r) \/ Leave(r)) /\ UNCHANGED gcVars
  BY <1>3, <1>4, <1>8 DEF RequestStep, Leave, BeginProbe, ProbeFails, ProbeOpens, ProbeCommits, Answer
<1>9. CASE \E r \in Requests : Serve(r) /\ UNCHANGED <<gcAt, phase, gcNow, victims, target, measured, over>>
  BY <1>2, <1>9 DEF Serve, FileGrows, FileShrinks
<1>10. CASE GcStart
  <2>1. ASSUME NEW t \in DOMAIN victims' PROVE clock - lastAccess[t] >= Grace \/ lastAccess[t] >= clock
    <3>1. t \in Tokens /\ Minus(clock, lastAccess[t]) >= IdleTimeout
      BY <1>10 DEF GcStart, Registered
    <3>2. ~ Minus(clock, lastAccess[t]) < IdleTimeout
      BY <1>1, <3>1, GCAssumption DEF Minus
    <3> QED
      BY <1>1, <3>1, <3>2, ListedBySilence, GCAssumption DEF TypeOK, SessionsTypeOK
  <2> QED
    BY <1>1, <1>10, <2>1 DEF GcStart, sessionVars, Listed, Silent
<1>11. CASE GcSumUp
  <2>1. CASE DirTotal <= MaxBytes
    BY <1>1, <1>11, <2>1 DEF GcSumUp, sessionVars, Listed, Silent, Nobody
  <2>2. CASE ~ DirTotal <= MaxBytes
    <3>1. /\ victims' = [t \in CapVictims(gcNow) |-> lastAccess[t]] /\ gcAt' = "choose"
          /\ UNCHANGED <<clock, lastAccess, gcNow>>
      BY <1>11, <2>2 DEF GcSumUp, sessionVars
    <3>2. ASSUME NEW t \in CapVictims(gcNow) PROVE Silent(t)
      <4>1. t \in Tokens /\ ~ Minus(gcNow, lastAccess[t]) < ProtectWindow
        BY DEF CapVictims, Registered
      <4> QED
        BY <1>1, <4>1, ListedBySilence, GCAssumption DEF TypeOK, Silent
    <3> QED
      BY <1>1, <3>1, <3>2 DEF Listed, Silent
  <2> QED
    BY <2>1, <2>2
<1>12. CASE \E t \in Tokens : GcChoose(t)
  <2>1. PICK t \in Tokens : GcChoose(t)
    BY <1>12
  <2>2. DOMAIN victims' = DOMAIN victims \ {t}
    BY <2>1 DEF GcChoose, Restrict
  <2>3. t \in DOMAIN victims /\ target' = t /\ UNCHANGED <<clock, lastAccess, gcNow>>
    BY <2>1 DEF GcChoose, NextVictims, sessionVars
  <2>4. DOMAIN victims' \subseteq DOMAIN victims /\ target' \in DOMAIN victims
    BY <2>2, <2>3
  <2>5. UNCHANGED <<clock, lastAccess, gcNow>>
    BY <2>3
  <2> QED
    BY <1>2, <2>4, <2>5, Zenon
<1>13. CASE GcDrop
  BY <1>2, <1>13 DEF GcDrop
<1>14. CASE GcUnlink \/ GcUnlinkFails
  BY <1>2, <1>14 DEF GcUnlink, GcUnlinkFails, GcNext
<1>15. CASE GcFinish \/ Restart
  BY <1>1, <1>15 DEF GcFinish, Restart, sessionVars, Listed, Nobody
<1>16. CASE UNCHANGED vars
  BY <1>2, <1>16 DEF vars, sessionVars, gcVars
<1> QED
  BY <1>5, <1>6, <1>7, <1>8, <1>9, <1>10, <1>11, <1>12, <1>13, <1>14, <1>15, <1>16 DEF Next, Collect

\* The collector evicts only what it took up.
LEMMA EvictedIsTarget ==
  ASSUME [Next]_vars, NEW t \in Tokens, Evicted(t)
  PROVE  gcAt = "drop" /\ t = target /\ UNCHANGED <<gcNow, lastAccess>>
<1>1. session' # session /\ gcAt' = "unlink"
  BY DEF Evicted, Registered
<1>2. GcDrop
  <2>1. \/ GcDrop
        \/ Restart
        \/ \E x \in Tokens : Register(x) /\ UNCHANGED gcVars
    BY <1>1 DEF Next, Collect, vars, sessionVars, RequestStep, Leave, BeginProbe, ProbeFails, ProbeOpens,
         ProbeCommits, Answer, Arrive, Tick, Serve, FileGrows, FileShrinks, GcStart, GcSumUp, GcChoose,
         GcUnlink, GcUnlinkFails, GcFinish
  <2>2. ~ Restart
    BY <1>1 DEF Restart
  <2>3. ASSUME NEW x \in Tokens, Register(x) PROVE FALSE
    BY <2>3 DEF Register, Evicted, Registered
  <2> QED
    BY <2>1, <2>2, <2>3
<1> QED
  BY <1>2 DEF GcDrop, Evicted, Registered

\* The collector takes no session that was accessed, when the pass began, within
\* both windows (run_once), however requests touch and register meanwhile.
THEOREM RecentlyUsedStay == Spec => RecentlyUsedSurvives
<1>1. Tidy => TypeOK /\ Placed
  BY DEF Tidy
<1>2. TypeOK /\ Placed /\ Listed /\ [Next]_vars => Listed'
  BY ListedNext
<1>3. TypeOK /\ Listed /\ [Next]_vars =>
        \A t \in Tokens : Evicted(t) => gcNow - lastAccess[t] >= Grace \/ lastAccess[t] >= gcNow
  BY EvictedIsTarget DEF Listed, Silent
<1>4. Init => Listed
  BY ListedInit
<1> QED
  BY <1>1, <1>2, <1>3, <1>4, AlwaysTidy, PTL DEF Spec, RecentlyUsedSurvives
------------------------------------------------------------------------------
(* The disk and its cap.                                                     *)

\* One file changes by d blocks, or one appears with none.
Changed(F, G, t, d) ==
  /\ Summable(F) /\ Summable(G)
  /\ t \in DOMAIN F /\ DOMAIN G = DOMAIN F
  /\ G[t] = F[t] + d
  /\ \A x \in DOMAIN F \ {t} : G[x] = F[x]

Added(F, G, t) ==
  /\ Summable(F) /\ Summable(G)
  /\ t \notin DOMAIN F /\ DOMAIN G = DOMAIN F \cup {t}
  /\ G[t] = 0
  /\ \A x \in DOMAIN F : G[x] = F[x]

LEMMA ChangedTotal ==
  ASSUME NEW F, NEW G, NEW t, NEW d \in Int, Changed(F, G, t, d)
  PROVE  SumFunction(F) \in Int /\ SumFunction(G) = SumFunction(F) + d /\ Rest(G, t) = Rest(F, t)
<1>1. /\ F \in [DOMAIN F -> Int] /\ G \in [DOMAIN F -> Int] /\ Summable(F) /\ Summable(G)
      /\ t \in DOMAIN F /\ DOMAIN G = DOMAIN F
      /\ G[t] = F[t] + d
      /\ \A x \in DOMAIN F \ {t} : G[x] = F[x]
  BY DEF Changed, Summable
<1>2. Rest(G, t) = Rest(F, t)
  BY <1>1 DEF Rest, Restrict
<1>3. SumFunction(F) = F[t] + SumFunction(Rest(F, t)) /\ SumFunction(Rest(F, t)) \in Int /\ SumFunction(F) \in Int
  BY <1>1, SumParts
<1>4. SumFunction(G) = G[t] + SumFunction(Rest(G, t))
  BY <1>1, SumParts
<1>5. F[t] \in Int
  BY <1>1
<1> QED
  BY <1>1, <1>2, <1>3, <1>4, <1>5

LEMMA AddedTotal ==
  ASSUME NEW F, NEW G, NEW t, Added(F, G, t)
  PROVE  SumFunction(G) = SumFunction(F)
<1>1. /\ F \in [DOMAIN F -> Int] /\ G \in [DOMAIN F \cup {t} -> Int] /\ Summable(F) /\ Summable(G)
      /\ t \notin DOMAIN F /\ DOMAIN G = DOMAIN F \cup {t} /\ t \in DOMAIN G
      /\ G[t] = 0
      /\ \A x \in DOMAIN F : G[x] = F[x]
  BY DEF Added, Summable
<1>2. Rest(G, t) = F
  <2>1. DOMAIN G \ {t} = DOMAIN F
    BY <1>1
  <2> QED
    BY <1>1, <2>1 DEF Rest, Restrict
<1>3. SumFunction(G) = G[t] + SumFunction(Rest(G, t))
  BY <1>1, SumParts
<1>4. SumFunction(F) \in Int
  BY <1>1, SumParts
<1> QED
  BY <1>1, <1>2, <1>3, <1>4

LEMMA SummableRest == ASSUME NEW F, Summable(F), NEW x PROVE Summable(Rest(F, x))
<1>1. DOMAIN Rest(F, x) = DOMAIN F \ {x} /\ Rest(F, x) \in [DOMAIN F \ {x} -> Int]
  BY DEF Rest, Restrict, Summable
<1>2. IsFiniteSet(DOMAIN F \ {x})
  BY FS_Subset DEF Summable
<1> QED
  BY <1>1, <1>2 DEF Summable

\* What the other files occupy changes with the one that does.
LEMMA ChangedRest ==
  ASSUME NEW F, NEW G, NEW t, NEW d \in Int, Changed(F, G, t, d), NEW x
  PROVE  /\ SumFunction(Rest(F, x)) \in Int
         /\ SumFunction(Rest(G, x)) = IF x = t THEN SumFunction(Rest(F, x)) ELSE SumFunction(Rest(F, x)) + d
<1>1. Summable(F) /\ Summable(G) /\ DOMAIN G = DOMAIN F /\ t \in DOMAIN F /\ G[t] = F[t] + d
      /\ \A y \in DOMAIN F \ {t} : G[y] = F[y]
  BY DEF Changed
<1>2. Summable(Rest(F, x)) /\ Summable(Rest(G, x))
  BY <1>1, SummableRest
<1>3. CASE x = t
  BY <1>1, <1>3, SumParts, ChangedTotal
<1>4. CASE x # t
  <2>1. Changed(Rest(F, x), Rest(G, x), t, d)
    BY <1>1, <1>2, <1>4 DEF Changed, Rest, Restrict
  <2> QED
    BY <1>4, <2>1, ChangedTotal
<1> QED
  BY <1>3, <1>4

LEMMA AddedRest ==
  ASSUME NEW F, NEW G, NEW t, Added(F, G, t), NEW x
  PROVE  SumFunction(Rest(G, x)) = SumFunction(Rest(F, x))
<1>1. Summable(F) /\ Summable(G) /\ DOMAIN G = DOMAIN F \cup {t} /\ t \notin DOMAIN F /\ G[t] = 0
      /\ \A y \in DOMAIN F : G[y] = F[y]
  BY DEF Added
<1>2. Summable(Rest(F, x)) /\ Summable(Rest(G, x))
  BY <1>1, SummableRest
<1>3. CASE x = t
  <2>1. Rest(G, x) = Rest(F, x)
    <3>1. DOMAIN G \ {t} = DOMAIN F \ {t}
      BY <1>1
    <3> QED
      BY <1>1, <1>3, <3>1 DEF Rest, Restrict
  <2> QED
    BY <2>1
<1>4. CASE x # t
  <2>1. Added(Rest(F, x), Rest(G, x), t)
    <3>1. DOMAIN Rest(G, x) = DOMAIN G \ {x} /\ DOMAIN Rest(F, x) = DOMAIN F \ {x}
          /\ (\A y \in DOMAIN G \ {x} : Rest(G, x)[y] = G[y])
          /\ (\A y \in DOMAIN F \ {x} : Rest(F, x)[y] = F[y])
      BY DEF Rest, Restrict
    <3> QED
      BY <1>1, <1>2, <1>4, <3>1 DEF Added
  <2> QED
    BY <2>1, AddedTotal
<1> QED
  BY <1>3, <1>4

\* The excess left covers what the disk holds over the cap, but for the blocks
\* unseen; with the file of the session being evicted gone, it still does when
\* what was measured of that file is taken off.
WithinExcess ==
  /\ over \in Nat
  /\ SumFunction(dir) <= MaxBytes + over + unseen
  /\ gcAt \in {"drop", "unlink"} =>
       SumFunction(Rest(dir, target)) <= MaxBytes + over + unseen - measured

\* Nobody who may be evicted has been forgotten.
NobodyMissed ==
  \A t \in Registered :
    t \in DOMAIN victims \/ (gcAt = "drop" /\ t = target) \/ Protected(t)

Capping ==
  /\ IsFiniteSet(DOMAIN dir)
  /\ phase = "cap" => WithinExcess /\ NobodyMissed

\* Files that change or appear.
LEMMA CapFiles ==
  ASSUME Tidy, Tidy', Capping, NEW t, NEW d \in Int,
         \/ Changed(dir, dir', t, d)
         \/ Added(dir, dir', t) /\ d = 0
         \/ Summable(dir) /\ dir' = dir /\ d = 0,
         UNCHANGED <<gcAt, phase, target, measured, over>>,
         phase = "cap" => unseen' \in Nat /\ unseen' >= unseen + d /\ unseen' >= unseen
  PROVE  phase' = "cap" => WithinExcess'
<1>1. Tidy => measured \in Nat /\ unseen \in Nat
  BY DEF Tidy, TypeOK
<1> SUFFICES ASSUME phase = "cap" PROVE WithinExcess'
  OBVIOUS
<1>2. /\ over \in Nat /\ MaxBytes \in Nat /\ measured \in Nat /\ unseen \in Nat
      /\ SumFunction(dir) <= MaxBytes + over + unseen
      /\ gcAt \in {"drop", "unlink"} =>
           SumFunction(Rest(dir, target)) <= MaxBytes + over + unseen - measured
  BY <1>1, GCAssumption DEF Capping, WithinExcess
<1>3. unseen' \in Nat /\ unseen' >= unseen + d /\ unseen' >= unseen
  OBVIOUS
<1>4. PICK s, r : s = SumFunction(dir) /\ r = SumFunction(Rest(dir, target))
  OBVIOUS
<1>5. PICK s1, r1 : s1 = SumFunction(dir') /\ r1 = SumFunction(Rest(dir', target))
  OBVIOUS
<1>6. s \in Int /\ r \in Int /\ s1 \in Int /\ r1 \in Int /\ s1 \in {s, s + d} /\ r1 \in {r, r + d}
  <2>1. CASE Changed(dir, dir', t, d)
    <3>1. s \in Int /\ s1 = s + d
      BY <1>4, <1>5, <2>1, ChangedTotal
    <3>2. r \in Int /\ r1 = IF target = t THEN r ELSE r + d
      BY <1>4, <1>5, <2>1, ChangedRest
    <3> QED
      BY <3>1, <3>2
  <2>2. CASE Added(dir, dir', t) /\ d = 0
    <3>1. Summable(dir)
      BY <2>2 DEF Added
    <3>2. s \in Int /\ r \in Int
      BY <1>4, <3>1, SumParts
    <3>3. s1 = s /\ r1 = r
      BY <1>4, <1>5, <2>2, AddedTotal, AddedRest
    <3> QED
      BY <3>2, <3>3
  <2>3. CASE Summable(dir) /\ dir' = dir /\ d = 0
    <3>2. s \in Int /\ r \in Int
      BY <1>4, <2>3, SumParts
    <3>3. s1 = s /\ r1 = r
      BY <1>4, <1>5, <2>3
    <3> QED
      BY <3>2, <3>3
  <2> QED
    BY <2>1, <2>2, <2>3
<1>7. s <= MaxBytes + over + unseen
      /\ (gcAt \in {"drop", "unlink"} => r <= MaxBytes + over + unseen - measured)
  BY <1>2, <1>4
<1>8. s1 <= MaxBytes + over + unseen'
      /\ (gcAt \in {"drop", "unlink"} => r1 <= MaxBytes + over + unseen' - measured)
  <2>1. PICK c, u, v \in Int : c = MaxBytes + over /\ u = unseen /\ v = unseen'
    BY <1>2, <1>3
  <2>2. PICK m \in Nat : m = measured
    BY <1>2
  <2>3. s1 <= c + v
    <3>1. s <= c + u /\ v >= u /\ v >= u + d
      BY <1>3, <1>7, <2>1
    <3> QED
      BY <1>6, <3>1
  <2>4. ASSUME gcAt \in {"drop", "unlink"} PROVE r1 <= c + v - m
    <3>1. r <= c + u - m /\ v >= u /\ v >= u + d
      BY <1>3, <1>7, <2>1, <2>2, <2>4
    <3> QED
      BY <1>6, <3>1
  <2> QED
    BY <2>1, <2>2, <2>3, <2>4
<1>9. UNCHANGED <<gcAt, target, measured, over>>
  OBVIOUS
<1>10. target' = target /\ Rest(dir', target) = Rest(dir, target)'
  BY <1>9
<1> QED
  BY <1>2, <1>5, <1>8, <1>9, <1>10 DEF WithinExcess

\* The clock only adds to the silence of whoever is not touched.
LEMMA CapSessions ==
  ASSUME Tidy, NobodyMissed, gcNow <= clock,
         UNCHANGED <<gcAt, target, gcNow, victims>>,
         \A t \in Registered' : (t \in Registered /\ lastAccess'[t] = lastAccess[t]) \/ lastAccess'[t] = clock
  PROVE  NobodyMissed'
<1>1. clock \in Nat /\ gcNow \in Nat
  BY SessionsAssumption DEF Tidy, TypeOK, SessionsTypeOK
<1>2. ASSUME NEW t \in Registered'
      PROVE  t \in DOMAIN victims \/ (gcAt = "drop" /\ t = target) \/ Protected(t)'
  <2>1. CASE t \in Registered /\ lastAccess'[t] = lastAccess[t]
    <3>1. t \in DOMAIN victims \/ (gcAt = "drop" /\ t = target) \/ Protected(t)
      BY <2>1 DEF NobodyMissed
    <3>2. Protected(t) => Protected(t)'
      BY <2>1 DEF Protected
    <3> QED
      BY <3>1, <3>2
  <2>2. CASE lastAccess'[t] = clock
    BY <1>1, <2>2 DEF Protected
  <2> QED
    BY <1>2, <2>1, <2>2
<1> QED
  BY <1>2 DEF NobodyMissed

LEMMA CapNext == ASSUME Tidy, Tidy', gcNow <= clock, Capping, [Next]_vars PROVE Capping'
<1>1. /\ clock \in Nat /\ gcNow \in 0 .. MaxClock /\ measured \in Nat /\ unseen \in Nat
      /\ session \in [Tokens -> {"unborn", "registered", "dropped"}]
      /\ lastAccess \in [Tokens -> 0 .. MaxClock]
      /\ DOMAIN victims \subseteq Tokens
      /\ gcAt \in {"drop", "unlink"} => target \in Tokens
      /\ MaxBytes \in Nat /\ MaxUnseen \in Nat /\ MaxClock \in Nat
  BY SessionsAssumption, GCAssumption DEF Tidy, TypeOK, SessionsTypeOK, Placed
<1>2. Summable(dir)
  <2>1. \A n \in 0 .. MaxFile : n \in Int
    BY SessionsAssumption
  <2>2. dir \in [DOMAIN dir -> Int]
    BY <2>1 DEF Tidy, TypeOK, SessionsTypeOK
  <2> QED
    BY <2>2 DEF Capping, Summable
<1>3. IsFiniteSet(DOMAIN dir')
  <2>1. CASE \E t : DOMAIN dir' \subseteq DOMAIN dir \cup {t}
    <3>1. PICK t : DOMAIN dir' \subseteq DOMAIN dir \cup {t}
      BY <2>1
    <3>2. IsFiniteSet(DOMAIN dir \cup {t})
      BY FS_AddElement DEF Capping
    <3> QED
      BY <3>1, <3>2, FS_Subset
  <2>2. \E t : DOMAIN dir' \subseteq DOMAIN dir \cup {t}
    BY DEF Next, Collect, vars, sessionVars, RequestStep, Leave, BeginProbe, ProbeFails, ProbeOpens,
         ProbeCommits, Answer, Arrive, Tick, Register, Serve, FileGrows, FileShrinks, GcStart, GcSumUp, GcChoose,
         GcDrop, GcUnlink, GcUnlinkFails, GcFinish, Restart, Restrict
  <2> QED
    BY <2>1, <2>2
<1>4. Summable(dir')
  <2>1. \A n \in 0 .. MaxFile : n \in Int
    BY SessionsAssumption
  <2>2. dir' \in [DOMAIN dir' -> 0 .. MaxFile]
    BY DEF Tidy, TypeOK, SessionsTypeOK
  <2>3. dir' \in [DOMAIN dir' -> Int]
    BY <2>1, <2>2
  <2> QED
    BY <1>3, <2>3 DEF Summable
<1>5. phase = "cap" => WithinExcess /\ NobodyMissed
  BY DEF Capping
<1>6. ASSUME phase' = "cap" => WithinExcess' /\ NobodyMissed' PROVE Capping'
  BY <1>3, <1>6 DEF Capping
\* No file changes.
<1>7. ASSUME UNCHANGED <<dir, gcVars>> PROVE phase' = "cap" => WithinExcess'
  BY <1>5, <1>7 DEF gcVars, WithinExcess
<1>8. CASE \E t \in Tokens : Register(t) /\ UNCHANGED gcVars
  <2>1. \A t \in Registered' : (t \in Registered /\ lastAccess'[t] = lastAccess[t]) \/ lastAccess'[t] = clock
    BY <1>1, <1>8 DEF Register, Registered
  <2> QED
    BY <1>5, <1>6, <1>7, <1>8, <2>1, CapSessions DEF Register, gcVars
<1>9. CASE \E r \in Requests, t \in Tokens : Arrive(r, t) /\ UNCHANGED gcVars
  <2>1. \A t \in Registered' : (t \in Registered /\ lastAccess'[t] = lastAccess[t]) \/ lastAccess'[t] = clock
    BY <1>1, <1>9 DEF Arrive, Registered
  <2> QED
    BY <1>5, <1>6, <1>7, <1>9, <2>1, CapSessions DEF Arrive, gcVars
<1>10. ASSUME UNCHANGED <<session, lastAccess, gcAt, phase, gcNow, victims, target>>
       PROVE  phase' = "cap" => NobodyMissed'
  BY <1>5, <1>10 DEF NobodyMissed, Registered, Protected
<1>11. CASE Tick /\ UNCHANGED gcVars
  BY <1>6, <1>7, <1>10, <1>11 DEF Tick, gcVars
<1>12. CASE \E r \in Requests : (RequestStep(r) \/ Leave(r)) /\ UNCHANGED gcVars
  <2>1. PICK r \in Requests : RequestStep(r) \/ Leave(r)
    BY <1>12
  <2>2. UNCHANGED <<session, lastAccess, gcAt, phase, gcNow, victims, target, measured, over, unseen>>
    BY <1>12, <2>1 DEF gcVars, RequestStep, Leave, BeginProbe, ProbeFails, ProbeOpens, ProbeCommits, Answer
  <2>3. CASE ProbeOpens(r)
    <3>1. dir' = [x \in DOMAIN dir \cup {of[r]} |-> IF x \in DOMAIN dir THEN dir[x] ELSE 0]
      BY <2>3 DEF ProbeOpens
    <3>2. CASE of[r] \in DOMAIN dir
      <4>1. dir' = dir
        BY <1>2, <3>1, <3>2 DEF Summable
      <4> QED
        BY <1>6, <1>7, <1>10, <1>12, <2>2, <4>1
    <3>3. CASE of[r] \notin DOMAIN dir
      <4>1. Added(dir, dir', of[r])
        BY <1>2, <1>4, <3>1, <3>3 DEF Added
      <4>2. phase' = "cap" => WithinExcess'
        <5>1. unseen' \in Nat /\ unseen' >= unseen + 0 /\ unseen' >= unseen
          BY <1>1, <2>2
        <5> QED
          BY <2>2, <4>1, <5>1, CapFiles
      <4> QED
        BY <1>6, <1>10, <2>2, <4>2
    <3> QED
      BY <3>2, <3>3
  <2>4. CASE ~ ProbeOpens(r)
    <3>1. dir' = dir
      BY <2>1, <2>4 DEF RequestStep, Leave, BeginProbe, ProbeFails, ProbeCommits, Answer
    <3> QED
      BY <1>6, <1>7, <1>10, <1>12, <2>2, <3>1
  <2> QED
    BY <2>3, <2>4
<1>13. CASE \E r \in Requests : Serve(r) /\ UNCHANGED <<gcAt, phase, gcNow, victims, target, measured, over>>
  <2>1. PICK r \in Requests : Serve(r)
    BY <1>13
  <2>2. UNCHANGED <<session, lastAccess>>
    BY <2>1 DEF Serve, FileGrows, FileShrinks
  <2>3. \A t \in DOMAIN dir : dir[t] \in Int
    BY <1>2 DEF Summable
  <2>4. phase' = "cap" => WithinExcess'
    <3>1. CASE FileGrows(r) /\ unseen' = IF phase = "cap" THEN unseen + 1 ELSE 0
      <4>1. Changed(dir, dir', of[r], 1)
        BY <1>2, <1>4, <2>3, <3>1 DEF FileGrows, Changed
      <4>2. phase = "cap" => unseen' \in Nat /\ unseen' >= unseen + 1 /\ unseen' >= unseen
        BY <1>1, <3>1
      <4> QED
        BY <1>13, <4>1, <4>2, CapFiles
    <3>2. CASE FileShrinks(r) /\ UNCHANGED unseen
      <4>1. Changed(dir, dir', of[r], -1)
        <5>1. of[r] \in DOMAIN dir /\ dir' = [dir EXCEPT ![of[r]] = @ - 1] /\ dir[of[r]] \in Int
          BY <2>3, <3>2 DEF FileShrinks
        <5>2. dir'[of[r]] = dir[of[r]] + (-1)
          BY <5>1
        <5> QED
          BY <1>2, <1>4, <5>1, <5>2 DEF Changed
      <4>2. phase = "cap" => unseen' \in Nat /\ unseen' >= unseen + (-1) /\ unseen' >= unseen
        BY <1>1, <3>2
      <4>3. -1 \in Int
        OBVIOUS
      <4> QED
        BY <1>13, <4>1, <4>2, <4>3, CapFiles
    <3> QED
      BY <2>1, <3>1, <3>2 DEF Serve
  <2> QED
    BY <1>6, <1>10, <1>13, <2>2, <2>4
<1>14. CASE GcStart \/ GcFinish \/ Restart
  <2>1. phase' = "idle"
    BY <1>14 DEF GcStart, GcFinish, Restart
  <2> QED
    BY <1>6, <2>1
<1>15. CASE GcSumUp
  <2>1. CASE DirTotal <= MaxBytes
    <3>1. phase' = "idle"
      BY <1>15, <2>1 DEF GcSumUp
    <3> QED
      BY <1>6, <3>1
  <2>2. CASE ~ DirTotal <= MaxBytes
    <3>1. SumFunction(dir) \in Int
      BY <1>2, SumParts
    <3>2. /\ over' = SumFunction(dir) - MaxBytes /\ unseen' = 0 /\ dir' = dir
          /\ victims' = [t \in CapVictims(gcNow) |-> lastAccess[t]]
          /\ gcAt' = "choose" /\ ~ SumFunction(dir) <= MaxBytes
          /\ UNCHANGED <<session, lastAccess, gcNow>>
      BY <1>15, <2>2 DEF GcSumUp, DirTotal, sessionVars
    <3>3. over' \in Nat /\ SumFunction(dir') <= MaxBytes + over' + unseen'
      BY <1>1, <3>1, <3>2
    <3>4. WithinExcess'
      BY <3>2, <3>3 DEF WithinExcess
    <3>5. ASSUME NEW t \in Registered PROVE t \in CapVictims(gcNow) \/ Protected(t)
      <4>1. t \in Tokens /\ lastAccess[t] \in Nat /\ gcNow \in Nat /\ ProtectWindow \in Nat
        BY <1>1, GCAssumption DEF Registered
      <4>2. CASE Minus(gcNow, lastAccess[t]) < ProtectWindow
        BY <4>1, <4>2 DEF Minus, Protected
      <4> QED
        BY <3>5, <4>2 DEF CapVictims
    <3>6. NobodyMissed'
      BY <3>2, <3>5 DEF NobodyMissed, Registered, Protected
    <3> QED
      BY <1>6, <3>4, <3>6
  <2> QED
    BY <2>1, <2>2
<1>16. CASE \E t \in Tokens : GcChoose(t)
  <2> SUFFICES ASSUME phase' = "cap" PROVE WithinExcess' /\ NobodyMissed'
    BY <1>6
  <2>1. PICK t \in Tokens : GcChoose(t)
    BY <1>16
  <2>2. /\ t \in DOMAIN victims /\ measured' = FileBytes(t) /\ gcAt' = "drop" /\ target' = t
        /\ DOMAIN victims' = DOMAIN victims \ {t}
        /\ UNCHANGED <<dir, session, lastAccess, phase, gcNow, over, unseen>> /\ phase = "cap" /\ gcAt = "choose"
    BY <2>1 DEF GcChoose, NextVictims, Restrict, sessionVars
  <2>3. over \in Nat /\ SumFunction(dir) <= MaxBytes + over + unseen
    BY <1>5, <2>2 DEF WithinExcess
  <2>4. SumFunction(Rest(dir, t)) <= MaxBytes + over + unseen - FileBytes(t)
    <3>1. SumFunction(dir) \in Int /\ SumFunction(Rest(dir, t)) \in Int
      BY <1>2, SumParts
    <3>2. CASE t \in DOMAIN dir
      <4>1. SumFunction(dir) = dir[t] + SumFunction(Rest(dir, t)) /\ FileBytes(t) = dir[t]
        BY <1>2, <3>2, SumParts DEF FileBytes
      <4>2. dir[t] \in Int
        BY <1>2, <3>2 DEF Summable
      <4> QED
        BY <1>1, <2>3, <3>1, <4>1, <4>2
    <3>3. CASE t \notin DOMAIN dir
      <4>1. Rest(dir, t) = dir /\ FileBytes(t) = 0
        BY <1>2, <3>3, SumParts DEF FileBytes
      <4> QED
        BY <1>1, <2>3, <3>1, <4>1
    <3> QED
      BY <3>2, <3>3
  <2>5. WithinExcess'
    BY <2>2, <2>3, <2>4 DEF WithinExcess
  <2>6. NobodyMissed'
    <3>1. \A x \in Registered : x \in DOMAIN victims \/ Protected(x)
      BY <1>5, <2>2 DEF NobodyMissed
    <3> QED
      BY <2>2, <3>1 DEF NobodyMissed, Registered, Protected
  <2> QED
    BY <2>5, <2>6
<1>17. CASE GcDrop
  <2>1. /\ gcAt = "drop" /\ gcAt' = "unlink" /\ session' = [session EXCEPT ![target] = "dropped"]
        /\ UNCHANGED <<dir, lastAccess, phase, gcNow, victims, target, measured, over, unseen>>
    BY <1>17 DEF GcDrop
  <2>2. phase' = "cap" => WithinExcess'
    BY <1>5, <2>1 DEF WithinExcess
  <2>3. Registered' = Registered \ {target}
    BY <1>1, <2>1 DEF Registered
  <2>4. phase' = "cap" => NobodyMissed'
    BY <1>5, <2>1, <2>3 DEF NobodyMissed, Protected
  <2> QED
    BY <1>6, <2>2, <2>4
<1>18. CASE GcUnlink \/ GcUnlinkFails
  <2> SUFFICES ASSUME phase' = "cap" PROVE WithinExcess' /\ NobodyMissed'
    BY <1>6
  <2>1. /\ gcAt = "unlink" /\ gcAt' = "choose" /\ over' = Minus(over, measured)
        /\ UNCHANGED <<session, lastAccess, phase, gcNow, victims>> /\ phase = "cap"
    BY <1>18 DEF GcUnlink, GcUnlinkFails, GcNext
  <2>2. NobodyMissed'
    BY <1>5, <2>1 DEF NobodyMissed, Registered, Protected
  <2>3. /\ over \in Nat /\ SumFunction(dir) <= MaxBytes + over + unseen
        /\ SumFunction(Rest(dir, target)) <= MaxBytes + over + unseen - measured
    BY <1>5, <2>1 DEF WithinExcess
  <2>4. /\ SumFunction(dir) \in Int /\ SumFunction(Rest(dir, target)) \in Int
    BY <1>2, SumParts
  <2>5. over' \in Nat /\ over' >= over - measured
    BY <1>1, <2>1, <2>3 DEF Minus
  <2>6. SumFunction(dir') <= MaxBytes + over' + unseen'
    <3>1. CASE GcUnlink
      <4>1. dir' = Rest(dir, target) /\ unseen' = unseen
        BY <3>1 DEF GcUnlink, Rest
      <4> QED
        BY <1>1, <2>3, <2>4, <2>5, <4>1
    <3>2. CASE GcUnlinkFails
      <4>1. dir' = dir /\ unseen' = unseen + measured
        BY <3>2 DEF GcUnlinkFails
      <4> QED
        BY <1>1, <2>3, <2>4, <2>5, <4>1
    <3> QED
      BY <1>18, <3>1, <3>2
  <2> QED
    BY <2>1, <2>2, <2>5, <2>6 DEF WithinExcess
<1>19. CASE UNCHANGED vars
  BY <1>6, <1>7, <1>10, <1>19 DEF vars, sessionVars, gcVars
<1> QED
  BY <1>8, <1>9, <1>11, <1>12, <1>13, <1>14, <1>15, <1>16, <1>17, <1>18, <1>19 DEF Next, Collect

LEMMA CapInit == ASSUME Init PROVE Capping
<1>1. IsFiniteSet(DOMAIN dir)
  BY FS_EmptySet DEF Init, SessionsInit
<1> QED
  BY <1>1 DEF Init, Capping

\* A step that ends the pass.
LEMMA CapEnds ==
  ASSUME Tidy, Capping, [Next]_vars, gcAt = "choose", phase = "cap", gcAt' = "asleep"
  PROVE  \/ SumFunction(dir') <= MaxBytes + unseen
         \/ \A t \in Registered' : Protected(t)
<1>1. GcFinish \/ Restart
  BY DEF Next, Collect, vars, sessionVars, gcVars, Serve, GcStart, GcSumUp, GcChoose, GcDrop, GcUnlink,
       GcUnlinkFails
<1>2. CASE GcFinish
  <2>1. dir' = dir /\ session' = session /\ (over = 0 \/ victims = Nobody)
    BY <1>2 DEF GcFinish, sessionVars
  <2>2. WithinExcess /\ NobodyMissed
    BY DEF Capping
  <2>3. CASE over = 0
    <3>1. SumFunction(dir) <= MaxBytes + 0 + unseen /\ MaxBytes \in Nat /\ unseen \in Nat
      BY <2>2, <2>3, GCAssumption DEF WithinExcess, Tidy, TypeOK
    <3>2. MaxBytes + 0 + unseen = MaxBytes + unseen
      BY <3>1
    <3> QED
      BY <2>1, <3>1, <3>2
  <2>4. CASE victims = Nobody
    <3>1. DOMAIN victims = {}
      BY <2>4 DEF Nobody
    <3>2. Registered' = Registered
      BY <2>1 DEF Registered
    <3> QED
      BY <2>2, <3>1, <3>2 DEF NobodyMissed
  <2> QED
    BY <2>1, <2>3, <2>4
<1>3. CASE Restart
  <2>1. session' = [t \in Tokens |-> IF t \in Registered THEN "dropped" ELSE session[t]]
    BY <1>3 DEF Restart
  <2>2. Registered' = {}
    BY <2>1 DEF Registered
  <2> QED
    BY <2>2
<1> QED
  BY <1>1, <1>2, <1>3

\* A pass over the cap (run_once) ends with the disk within it, but for what came
\* while it evicted, or with none left but sessions it must protect: though the
\* excess is counted down by what each file held before it was removed, while
\* streams write and punch, sessions come, and removals fail.
THEOREM PassesReachTheCap == Spec => CapReached
<1>1. Tidy => TypeOK /\ Placed
  BY DEF Tidy
<1>2. TypeOK /\ Placed /\ Listed /\ [Next]_vars => Listed'
  BY ListedNext
<1>3. Init => Listed /\ Capping
  BY ListedInit, CapInit
<1>4. Tidy /\ Tidy' /\ Listed /\ Capping /\ [Next]_vars => Capping'
  <2>1. Listed => gcNow <= clock
    BY DEF Listed
  <2> QED
    BY <2>1, CapNext
<1>5. Tidy /\ Capping /\ [Next]_vars =>
        (gcAt = "choose" /\ phase = "cap" /\ gcAt' = "asleep"
           => \/ SumFunction(dir') <= MaxBytes + unseen
              \/ \A t \in Registered' : Protected(t))
  BY CapEnds
<1> QED
  BY <1>1, <1>2, <1>3, <1>4, <1>5, AlwaysTidy, PTL DEF Spec, CapReached
==============================================================================
