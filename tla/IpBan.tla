-------------------------------- MODULE IpBan --------------------------------
(***************************************************************************)
(* The ban list (src-rust/ip_ban.rs) and the requests that pass it.  A     *)
(* request is checked when it arrives (is_banned); later, after other      *)
(* requests had their turn, it may turn out to bear a bad token, which is  *)
(* recorded against its address (record_failure).                          *)
(*                                                                         *)
(* Both calls are synchronous and take no time.  A failure is kept as the  *)
(* request that failed: its Instant is failedAt of that request.           *)
(***************************************************************************)
EXTENDS Integers, FiniteSets

CONSTANTS
  Requests,     \* the requests of a behaviour
  Addresses,    \* client addresses
  Threshold,    \* failure_threshold; 0 disables the list
  Window,       \* window, in ticks
  BanDuration,  \* ban_duration, in ticks
  MaxTime       \* bound on the clock

\* A ban of no length never stands; the code admits it, nobody configures it.
ASSUME BanAssumption ==
  /\ IsFiniteSet(Requests)
  /\ Threshold \in Nat /\ Window \in Nat /\ BanDuration \in Nat \ {0} /\ MaxTime \in Nat

VARIABLES
  now,          \* the clock, from 1 on
  failures,     \* address |-> the failed requests remembered
  bannedUntil,  \* address |-> end of the ban, or NoBan
  stage,        \* request |-> "coming", "refused", "passed", "rejected", "served"
  address,      \* request |-> the address it is counted under
  checkedAt,    \* request |-> when it passed the check
  failedAt,     \* request |-> when its bad token was recorded
  lastEnd       \* history: address |-> end of the latest ban, 0 without one

banVars == <<now, failures, bannedUntil, stage, address, checkedAt, failedAt, lastEnd>>

NoBan == 0
Stages == {"coming", "refused", "passed", "rejected", "served"}

Enabled == Threshold > 0
Standing(a) == bannedUntil[a] # NoBan /\ now < bannedUntil[a]

BanInit ==
  /\ now = 1
  /\ failures = [a \in Addresses |-> {}]
  /\ bannedUntil = [a \in Addresses |-> NoBan]
  /\ stage = [r \in Requests |-> "coming"]
  /\ address \in [Requests -> Addresses]
  /\ checkedAt = [r \in Requests |-> 0]
  /\ failedAt = [r \in Requests |-> 0]
  /\ lastEnd = [a \in Addresses |-> 0]

\* is_banned finds a ban that stands: 403.
Refuse(r) ==
  /\ stage[r] = "coming"
  /\ Enabled /\ Standing(address[r])
  /\ stage' = [stage EXCEPT ![r] = "refused"]
  /\ UNCHANGED <<now, failures, bannedUntil, address, checkedAt, failedAt, lastEnd>>

\* Slip: whatever was recorded is forgotten on every check.
PassForgetting(r) ==
  /\ stage[r] = "coming"
  /\ ~ (Enabled /\ Standing(address[r]))
  /\ stage' = [stage EXCEPT ![r] = "passed"]
  /\ checkedAt' = [checkedAt EXCEPT ![r] = now]
  /\ bannedUntil' = [bannedUntil EXCEPT ![address[r]] = NoBan]
  /\ failures' = [failures EXCEPT ![address[r]] = {}]
  /\ UNCHANGED <<now, address, failedAt, lastEnd>>

\* is_banned finds none: an expired ban is cleared with what was recorded.
Pass(r) ==
  LET a       == address[r]
      expired == Enabled /\ bannedUntil[a] # NoBan
  IN  /\ stage[r] = "coming"
      /\ ~ (Enabled /\ Standing(a))
      /\ stage' = [stage EXCEPT ![r] = "passed"]
      /\ checkedAt' = [checkedAt EXCEPT ![r] = now]
      /\ bannedUntil' = [bannedUntil EXCEPT ![a] = IF expired THEN NoBan ELSE @]
      /\ failures' = [failures EXCEPT ![a] = IF expired THEN {} ELSE @]
      /\ UNCHANGED <<now, address, failedAt, lastEnd>>

\* The request is answered.
Accept(r) ==
  /\ stage[r] = "passed"
  /\ stage' = [stage EXCEPT ![r] = "served"]
  /\ UNCHANGED <<now, failures, bannedUntil, address, checkedAt, failedAt, lastEnd>>

\* Slip: failures outside the window are kept.
RecentUnpruned(a) == failures[a]

\* What is left of the failures of an address once the stale ones are dropped.
\* (The clock always reaches back over the window, so that its fallback to the
\* present moment is never taken.)
Recent(a) == {f \in failures[a] : failedAt[f] >= now - Window}

\* record_failure, where a ban stands or the list is disabled.
RejectQuietly(r) ==
  /\ stage[r] = "passed"
  /\ ~ Enabled \/ Standing(address[r])
  /\ stage' = [stage EXCEPT ![r] = "rejected"]
  /\ failedAt' = [failedAt EXCEPT ![r] = now]
  /\ UNCHANGED <<now, failures, bannedUntil, address, checkedAt, lastEnd>>

Full(counted) == Cardinality(counted) >= Threshold

\* record_failure: the failure is counted and may be the one that bans.
RejectCounted(r) ==
  LET a       == address[r]
      counted == Recent(a) \cup {r}
  IN  /\ stage[r] = "passed"
      /\ Enabled /\ ~ Standing(a)
      /\ stage' = [stage EXCEPT ![r] = "rejected"]
      /\ failedAt' = [failedAt EXCEPT ![r] = now]
      /\ failures' = [failures EXCEPT ![a] = IF Full(counted) THEN {} ELSE counted]
      /\ bannedUntil' = [bannedUntil EXCEPT ![a] = IF Full(counted) THEN now + BanDuration ELSE @]
      /\ lastEnd' = [lastEnd EXCEPT ![a] = IF Full(counted) THEN now + BanDuration ELSE @]
      /\ UNCHANGED <<now, address, checkedAt>>

Tick ==
  /\ now < MaxTime
  /\ now' = now + 1
  /\ UNCHANGED <<failures, bannedUntil, stage, address, checkedAt, failedAt, lastEnd>>

BanStep(r) ==
  Refuse(r) \/ Pass(r) \/ Accept(r) \/ RejectQuietly(r) \/ RejectCounted(r)

BanNext == Tick \/ \E r \in Requests : BanStep(r)

BanSpec == BanInit /\ [][BanNext]_banVars
-----------------------------------------------------------------------------
Rejected(a) == {r \in Requests : stage[r] = "rejected" /\ address[r] = a}

\* The list and the requests are well formed, and an address without a ban has
\* fewer failures remembered than ban it: what is kept per address is bounded.
BanTypeOK ==
  /\ now \in Nat \ {0}
  /\ failures \in [Addresses -> SUBSET Requests]
  /\ bannedUntil \in [Addresses -> Nat]
  /\ stage \in [Requests -> Stages]
  /\ address \in [Requests -> Addresses]
  /\ checkedAt \in [Requests -> Nat]
  /\ failedAt \in [Requests -> Nat]
  /\ lastEnd \in [Addresses -> Nat]
  /\ Enabled => \A a \in Addresses : Cardinality(failures[a]) < Threshold

\* The bad tokens a ban rests on: those of one window, up to when it began.
Grounds(a) ==
  LET began == bannedUntil[a] - BanDuration
  IN  {r \in Rejected(a) : began - Window <= failedAt[r] /\ failedAt[r] <= began}

\* Every ban was earned: as many bad tokens as the threshold came from its
\* address within one window, the last of them when the ban began.
BanEarned ==
  \A a \in Addresses : bannedUntil[a] # NoBan => Cardinality(Grounds(a)) >= Threshold

\* No offender is overlooked: while no ban stands, fewer bad tokens than the
\* threshold lie within the window, of the requests that came since the last
\* ban ended.  Lists are pruned and bans cleared only when touched, and never
\* lose a failure that counts.
NoneOverlooked ==
  \A a \in Addresses : Enabled /\ ~ Standing(a) =>
    Cardinality({r \in Rejected(a) : checkedAt[r] >= lastEnd[a] /\ failedAt[r] >= now - Window})
      < Threshold
=============================================================================
