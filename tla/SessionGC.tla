------------------------------ MODULE SessionGC ------------------------------
(***************************************************************************)
(* The garbage collector of sessions and cache files                       *)
(* (src-rust/streaming/gc.rs) among the requests of VideoSessions.         *)
(*                                                                         *)
(* One pass reads the clock once, lists the idle sessions and drops them   *)
(* one by one, then compares the blocks on disk with the cap and, if they  *)
(* exceed it, lists the unprotected sessions and drops them, oldest access *)
(* first, until the excess is gone.  Between any two of its awaits         *)
(* requests come, touch and go.                                            *)
(***************************************************************************)
EXTENDS VideoSessions

CONSTANTS
  IdleTimeout,    \* GcConfig.idle_timeout, in ticks
  ProtectWindow,  \* GcConfig.protect_window, in ticks
  MaxBytes,       \* GcConfig.max_bytes, in blocks
  MaxUnseen,      \* bound: the most blocks written while one pass evicts
  UnlinkMayFail   \* whether the file system may refuse to remove a file

ASSUME GCAssumption ==
  /\ IdleTimeout \in Nat /\ ProtectWindow \in Nat /\ MaxBytes \in Nat
  /\ MaxUnseen \in Nat /\ UnlinkMayFail \in BOOLEAN

VARIABLES
  gcAt,      \* "asleep", "choose", "drop", "unlink"
  phase,     \* "idle" or "cap"
  gcNow,     \* now, read when the pass began
  victims,   \* the sessions listed and not yet taken up |-> last access listed
  target,    \* the session being evicted
  measured,  \* the blocks of its file, measured before it is evicted
  over,      \* the excess that is left
  unseen     \* history: blocks that came, or failed to go, since the total was taken

gcVars == <<gcAt, phase, gcNow, victims, target, measured, over, unseen>>
vars == <<sessionVars, gcVars>>

Nobody == [t \in {} |-> 0]
DirTotal == SumFunction(dir)

\* saturating_sub.
Minus(a, b) == IF a > b THEN a - b ELSE 0

Init ==
  /\ SessionsInit
  /\ gcAt = "asleep" /\ phase = "idle"
  /\ gcNow = 0
  /\ victims = Nobody
  /\ target = NoToken /\ measured = 0
  /\ over = 0 /\ unseen = 0

\* A pass begins: the clock is read and the idle sessions are listed.
GcStart ==
  /\ gcAt = "asleep"
  /\ gcAt' = "choose" /\ phase' = "idle"
  /\ gcNow' = clock
  /\ victims' = [t \in {x \in Registered : Minus(clock, lastAccess[x]) >= IdleTimeout}
                   |-> lastAccess[t]]
  /\ UNCHANGED <<sessionVars, target, measured, over, unseen>>

\* Slip: the protect window is not looked at.
CapVictimsUnprotected(now) == Registered

\* The sessions the cap may take.
CapVictims(now) == {t \in Registered : ~ Minus(now, lastAccess[t]) < ProtectWindow}

\* The idle ones are gone: the total is taken and, if it exceeds the cap, the
\* unprotected sessions are listed, by the time the pass began.
GcSumUp ==
  /\ gcAt = "choose" /\ phase = "idle" /\ victims = Nobody
  /\ IF DirTotal <= MaxBytes
     THEN gcAt' = "asleep" /\ gcNow' = 0 /\ UNCHANGED <<phase, victims, over, unseen>>
     ELSE /\ phase' = "cap"
          /\ over' = DirTotal - MaxBytes
          /\ victims' = [t \in CapVictims(gcNow) |-> lastAccess[t]]
          /\ unseen' = 0
          /\ UNCHANGED <<gcAt, gcNow>>
  /\ UNCHANGED <<sessionVars, target, measured>>

\* Slip: the length of the sparse file instead of the blocks it occupies.
FileBytesLogical(t) == MaxFile

FileBytes(t) == IF t \in DOMAIN dir THEN dir[t] ELSE 0

\* The listed sessions in the order of their last access; ties in any order.
NextVictims ==
  {t \in DOMAIN victims : \A x \in DOMAIN victims : victims[t] <= victims[x]}

\* The loop takes up a session, in the cap phase only while there is an excess.
GcChoose(t) ==
  /\ gcAt = "choose"
  /\ IF phase = "idle" THEN t \in DOMAIN victims /\ measured' = 0
     ELSE over > 0 /\ t \in NextVictims /\ measured' = FileBytes(t)
  /\ gcAt' = "drop"
  /\ target' = t
  /\ victims' = Restrict(victims, DOMAIN victims \ {t})
  /\ UNCHANGED <<sessionVars, phase, gcNow, over, unseen>>

\* evict_session: first the registry forgets it,
GcDrop ==
  /\ gcAt = "drop"
  /\ session' = [session EXCEPT ![target] = "dropped"]
  /\ gcAt' = "unlink"
  /\ UNCHANGED <<clock, lastAccess, cell, dir, reqVars, strays>>
  /\ UNCHANGED <<phase, gcNow, victims, target, measured, over, unseen>>

\* The excess is less by what was measured, whatever became of the file.
GcNext ==
  /\ over' = Minus(over, measured)
  /\ gcAt' = "choose"
  /\ target' = NoToken
  /\ measured' = 0
  /\ UNCHANGED <<phase, gcNow, victims>>

\* Slip: the file is forgotten with the session.
GcUnlinkNothing ==
  /\ gcAt = "unlink"
  /\ GcNext
  /\ UNCHANGED <<sessionVars, unseen>>

\* then the file is removed, if there is one.
GcUnlink ==
  /\ gcAt = "unlink"
  /\ dir' = Restrict(dir, DOMAIN dir \ {target})
  /\ GcNext
  /\ UNCHANGED <<clock, session, lastAccess, cell, reqVars, strays, unseen>>

\* remove_file fails: logged, and the pass goes on.
GcUnlinkFails ==
  /\ UnlinkMayFail
  /\ gcAt = "unlink" /\ target \in DOMAIN dir
  /\ strays' = strays \cup {target}
  /\ unseen' = unseen + measured
  /\ GcNext
  /\ UNCHANGED <<clock, session, lastAccess, cell, dir, reqVars>>

\* The excess is gone or nobody is left to evict.
GcFinish ==
  /\ gcAt = "choose" /\ phase = "cap"
  /\ over = 0 \/ victims = Nobody
  /\ gcAt' = "asleep" /\ phase' = "idle" /\ gcNow' = 0
  /\ victims' = Nobody
  /\ over' = 0 /\ unseen' = 0
  /\ UNCHANGED <<sessionVars, target, measured>>

\* The process stops and starts again: sessions and requests are gone and
\* clear_cache_dir removes the files it can.
Restart ==
  /\ \E kept \in IF UnlinkMayFail THEN SUBSET DOMAIN dir ELSE {{}} :
       /\ dir' = Restrict(dir, kept)
       /\ strays' = strays \cup kept
  /\ session' = [t \in Tokens |-> IF t \in Registered THEN "dropped" ELSE session[t]]
  /\ cell' = [t \in Tokens |-> 0]
  /\ pc' = [r \in Requests |-> IF pc[r] = "idle" THEN "idle" ELSE "ended"]
  /\ candidate' = [r \in Requests |-> 0]
  /\ gcAt' = "asleep" /\ phase' = "idle" /\ gcNow' = 0
  /\ victims' = Nobody /\ target' = NoToken
  /\ measured' = 0 /\ over' = 0 /\ unseen' = 0
  /\ of' = [r \in Requests |-> NoToken]
  /\ UNCHANGED <<clock, lastAccess>>

Collect ==
  \/ GcStart \/ GcSumUp \/ \E t \in Tokens : GcChoose(t)
  \/ GcDrop \/ GcUnlink \/ GcUnlinkFails \/ GcFinish

\* A block more is unseen by a pass that has taken its total.
Serve(r) ==
  \/ FileGrows(r) /\ unseen < MaxUnseen /\ unseen' = IF phase = "cap" THEN unseen + 1 ELSE 0
  \/ FileShrinks(r) /\ UNCHANGED unseen

Next ==
  \/ \E t \in Tokens : Register(t) /\ UNCHANGED gcVars
  \/ \E r \in Requests :
       \/ /\ \/ \E t \in Tokens : Arrive(r, t)
             \/ RequestStep(r)
             \/ Leave(r)
          /\ UNCHANGED gcVars
       \/ /\ Serve(r)
          /\ UNCHANGED <<gcAt, phase, gcNow, victims, target, measured, over>>
  \/ Tick /\ UNCHANGED gcVars
  \/ Collect
  \/ Restart

Spec == Init /\ [][Next]_vars

(* A request's task runs whenever it can; every HTTP and NNTP wait of a     *)
(* probe has a timeout and the lists it walks are finite.  Nothing is       *)
(* assumed of the collector, the clock or the clients.                      *)
FairSpec == Spec /\ \A r \in Requests : WF_vars(RequestStep(r) /\ UNCHANGED gcVars)

-----------------------------------------------------------------------------
(* Properties. *)

TypeOK ==
  /\ SessionsTypeOK
  /\ gcAt \in {"asleep", "choose", "drop", "unlink"}
  /\ phase \in {"idle", "cap"}
  /\ gcNow \in 0 .. MaxClock
  /\ DOMAIN victims \subseteq Tokens
  /\ victims \in [DOMAIN victims -> 0 .. MaxClock]
  /\ target \in Tokens \cup {NoToken}
  /\ measured \in Nat /\ unseen \in Nat

\* The step evicts the session: the collector's, not a restart.
Evicted(t) == t \in Registered /\ t \notin Registered' /\ gcAt' = "unlink"

\* The collector takes no session that was accessed, when the pass began,
\* within both windows: of such a session it knows a longer silence, unless it
\* was touched after it was listed.
Grace == IF IdleTimeout < ProtectWindow THEN IdleTimeout ELSE ProtectWindow
RecentlyUsedSurvives ==
  [][\A t \in Tokens : Evicted(t)
       => gcNow - lastAccess[t] >= Grace \/ lastAccess[t] >= gcNow]_vars

\* Accessed within the protect window, or since the pass began.
Protected(t) == gcNow - lastAccess[t] < ProtectWindow \/ lastAccess[t] >= gcNow

\* A pass that ends has brought the disk down to the cap, but for what was
\* written meanwhile, or it has left only sessions accessed recently.
CapReached ==
  [][gcAt = "choose" /\ phase = "cap" /\ gcAt' = "asleep"
       => \/ SumFunction(dir') <= MaxBytes + unseen
          \/ \A t \in Registered' : Protected(t)]_vars

\* A file outlives its session only if a probe under way created it after the
\* session was dropped, or if it could not be removed.
NoStrayFiles ==
  \A t \in DOMAIN dir :
    t \in Registered \/ t \in strays \/ (gcAt = "unlink" /\ target = t)

\* A request that waits for the preflight, its own or another's, is answered,
\* even if the one that probes fails or goes away.
RequestsAnswered ==
  \A r \in Requests :
    pc[r] \in {"waiting", "probing", "opened"} ~> pc[r] \in {"streaming", "ended"}

\* A session that is being played stays registered.
PlayingSurvives == \A r \in Requests : pc[r] = "streaming" => of[r] \in Registered
=============================================================================
