---------------------------- MODULE GatewayProofs ----------------------------
(***************************************************************************)
(* What the ban list promises, for any requests, addresses and settings,   *)
(* and what the gateway promises that consults it, for any configuration   *)
(* file besides.                                                           *)
(***************************************************************************)
EXTENDS Gateway, FiniteSetTheorems, TLAPS

-----------------------------------------------------------------------------
(* The ban list by itself.                                                 *)

\* What an address has against it is what came from it; nothing is dated after
\* the clock; and whoever passes the check clears the ban that has ended, so
\* that a ban is later than every check of its address.
Dated ==
  /\ \A a \in Addresses : failures[a] \subseteq Rejected(a)
  /\ \A r \in Requests : checkedAt[r] <= now /\ failedAt[r] <= now
  /\ \A a \in Addresses : bannedUntil[a] # NoBan =>
       /\ Enabled /\ bannedUntil[a] = lastEnd[a]
       /\ \A r \in Requests : address[r] = a => checkedAt[r] < lastEnd[a]

\* Every failure that may still count towards a ban is remembered.
Remembered ==
  Enabled => \A a \in Addresses : \A r \in Rejected(a) :
    checkedAt[r] >= lastEnd[a] /\ failedAt[r] >= now - Window => r \in failures[a]

\* A set of requests has a size, and no smaller than that of a part of it.
LEMMA SetsOfRequests ==
  ASSUME NEW S \in SUBSET Requests, NEW T \in SUBSET S
  PROVE  /\ IsFiniteSet(S) /\ Cardinality(S) \in Nat /\ Cardinality(T) \in Nat
         /\ Cardinality(T) <= Cardinality(S)
<1>1. IsFiniteSet(S) /\ IsFiniteSet(T)
  BY BanAssumption, FS_Subset
<1>2. QED
  BY <1>1, FS_Subset, FS_CardinalityType

\* The list starts empty.
LEMMA BanInitially == BanInit => BanTypeOK /\ Dated /\ Remembered /\ BanEarned
<1> SUFFICES ASSUME BanInit PROVE BanTypeOK /\ Dated /\ Remembered /\ BanEarned
  OBVIOUS
<1>1. Enabled => Cardinality({}) < Threshold
  BY BanAssumption, FS_EmptySet DEF Enabled
<1> QED
  BY <1>1, BanAssumption
     DEF BanInit, BanTypeOK, Dated, Remembered, BanEarned, Rejected, Stages, NoBan

\* What counts against an address is fewer than the failures that are kept.
LEMMA Overlooked ==
  ASSUME BanTypeOK, Remembered
  PROVE  NoneOverlooked
<1> SUFFICES ASSUME NEW a \in Addresses, Enabled
    PROVE  Cardinality({r \in Rejected(a) : checkedAt[r] >= lastEnd[a] /\ failedAt[r] >= now - Window})
             < Threshold
  BY DEF NoneOverlooked
<1> DEFINE C == {r \in Rejected(a) : checkedAt[r] >= lastEnd[a] /\ failedAt[r] >= now - Window}
<1>1. C \subseteq failures[a] /\ failures[a] \subseteq Requests
  BY DEF Remembered, BanTypeOK
<1>2. Cardinality(C) <= Cardinality(failures[a])
  <2> HIDE DEF C
  <2> QED  BY <1>1, SetsOfRequests
<1>3. Cardinality(C) \in Nat /\ Cardinality(failures[a]) \in Nat /\ Cardinality(failures[a]) < Threshold
  <2> HIDE DEF C
  <2> QED  BY <1>1, SetsOfRequests DEF BanTypeOK
<1> QED
  BY <1>2, <1>3, BanAssumption

\* A step that records nothing.
LEMMA QuietStep ==
  ASSUME BanTypeOK, Dated, Remembered, BanEarned, NEW r \in Requests,
         Refuse(r) \/ Accept(r) \/ RejectQuietly(r)
  PROVE  BanTypeOK' /\ Dated' /\ Remembered' /\ BanEarned'
<1>1. BanTypeOK'
  BY DEF BanTypeOK, Refuse, Accept, RejectQuietly, Stages, Enabled
<1>2. \A a \in Addresses : Rejected(a) \subseteq Rejected(a)'
  BY DEF Rejected, Refuse, Accept, RejectQuietly, BanTypeOK
<1>3. Dated'
  BY <1>2 DEF Dated, Refuse, Accept, RejectQuietly, BanTypeOK, NoBan, Enabled
<1>4. Remembered'
  <2>1. CASE Refuse(r) \/ Accept(r)
    <3>1. \A a \in Addresses : Rejected(a)' = Rejected(a)
      BY <2>1 DEF Rejected, Refuse, Accept, BanTypeOK
    <3> QED
      BY <2>1, <3>1 DEF Remembered, Refuse, Accept, Enabled
  <2>2. CASE RejectQuietly(r)
    <3> SUFFICES ASSUME Enabled, NEW a \in Addresses, NEW x \in Rejected(a)',
                        checkedAt[x] >= lastEnd[a], failedAt'[x] >= now - Window
        PROVE  x \in failures[a]
      BY <2>2 DEF Remembered, RejectQuietly, Enabled
    <3>1. CASE x = r
      <4>1. Standing(a) /\ address[r] = a
        BY <2>2, <3>1 DEF RejectQuietly, Rejected
      <4>2. checkedAt[r] < lastEnd[a]
        BY <4>1 DEF Standing, Dated
      <4> QED
        BY <3>1, <4>2 DEF BanTypeOK
    <3>2. CASE x # r
      <4>1. x \in Rejected(a) /\ failedAt'[x] = failedAt[x]
        BY <2>2, <3>2 DEF RejectQuietly, Rejected, BanTypeOK
      <4> QED
        BY <4>1 DEF Remembered
    <3> QED
      BY <3>1, <3>2
  <2> QED
    BY <2>1, <2>2
<1>5. BanEarned'
  <2>1. ASSUME NEW a \in Addresses PROVE Grounds(a) \subseteq Grounds(a)' /\ Grounds(a)' \subseteq Requests
    <3>1. ASSUME NEW x \in Rejected(a) PROVE failedAt'[x] = failedAt[x]
      BY DEF Rejected, Refuse, Accept, RejectQuietly, BanTypeOK
    <3>2. bannedUntil' = bannedUntil
      BY DEF Refuse, Accept, RejectQuietly
    <3> QED
      BY <1>2, <3>1, <3>2 DEF Grounds, Rejected
  <2>2. ASSUME NEW a \in Addresses PROVE Cardinality(Grounds(a)) <= Cardinality(Grounds(a)')
                                        /\ Cardinality(Grounds(a)) \in Nat /\ Cardinality(Grounds(a)') \in Nat
    BY <2>1, SetsOfRequests
  <2>3. bannedUntil' = bannedUntil
    BY DEF Refuse, Accept, RejectQuietly
  <2>4. \A a \in Addresses : bannedUntil'[a] # NoBan => Cardinality(Grounds(a)') >= Threshold
    BY <2>2, <2>3, BanAssumption DEF BanEarned
  <2> QED
    BY <2>3, <2>4 DEF BanEarned
<1> QED
  BY <1>1, <1>3, <1>4, <1>5

\* A request that passes clears a ban that has ended, and with it no failure
\* that counts: all are of requests checked before that ban ended.
LEMMA PassStep ==
  ASSUME BanTypeOK, Dated, Remembered, BanEarned, NEW r \in Requests, Pass(r)
  PROVE  BanTypeOK' /\ Dated' /\ Remembered' /\ BanEarned'
<1> DEFINE a == address[r]
<1>a. a \in Addresses
  BY DEF BanTypeOK
<1>1. BanTypeOK'
  <2>1. Enabled => Cardinality({}) < Threshold
    BY BanAssumption, FS_EmptySet DEF Enabled
  <2> QED
    BY <2>1, <1>a DEF BanTypeOK, Pass, Stages, Enabled, NoBan
<1>2. \A b \in Addresses : Rejected(b)' = Rejected(b)
  BY DEF Rejected, Pass, BanTypeOK
<1>3. Dated'
  <2>1. \A b \in Addresses : failures'[b] \subseteq Rejected(b)'
    BY <1>2 DEF Dated, Pass, BanTypeOK
  <2>2. \A x \in Requests : checkedAt'[x] <= now /\ failedAt'[x] <= now
    BY DEF Dated, Pass, BanTypeOK
  <2>3. ASSUME NEW b \in Addresses, bannedUntil'[b] # NoBan
        PROVE  Enabled /\ bannedUntil'[b] = lastEnd[b] /\ \A x \in Requests : address[x] = b => checkedAt'[x] < lastEnd[b]
    <3>1. bannedUntil'[b] = bannedUntil[b] /\ bannedUntil[b] # NoBan
      BY <2>3 DEF Pass, BanTypeOK
    <3>2. b # a
      BY <2>3, <3>1, <1>a DEF Pass, BanTypeOK, Enabled, Standing, Dated
    <3> QED
      BY <3>1, <3>2 DEF Dated, Pass, BanTypeOK
  <2> QED
    BY <2>1, <2>2, <2>3 DEF Dated, Pass, Enabled
<1>4. Remembered'
  <2> SUFFICES ASSUME Enabled, NEW b \in Addresses, NEW x \in Rejected(b),
                      checkedAt'[x] >= lastEnd[b], failedAt[x] >= now - Window
      PROVE  x \in failures'[b]
    BY <1>2 DEF Remembered, Pass, Enabled
  <2>1. x # r /\ x \in Requests /\ address[x] = b
    BY DEF Rejected, Pass
  <2>2. checkedAt'[x] = checkedAt[x]
    BY <2>1 DEF Pass, BanTypeOK
  <2>3. x \in failures[b]
    BY <2>2 DEF Remembered
  <2>4. CASE b = a /\ bannedUntil[a] # NoBan
    <3>1. checkedAt[x] < lastEnd[b]
      BY <2>4, <2>1 DEF Dated
    <3> QED
      BY <3>1, <2>1, <2>2 DEF BanTypeOK
  <2>5. CASE ~ (b = a /\ bannedUntil[a] # NoBan)
    BY <2>5, <2>3 DEF Pass, BanTypeOK
  <2> QED
    BY <2>4, <2>5
<1>5. BanEarned'
  <2> SUFFICES ASSUME NEW b \in Addresses, bannedUntil'[b] # NoBan
      PROVE  Cardinality(Grounds(b)') >= Threshold
    BY DEF BanEarned
  <2>1. bannedUntil'[b] = bannedUntil[b]
    BY DEF Pass, BanTypeOK
  <2>2. Grounds(b)' = Grounds(b)
    BY <1>2, <2>1 DEF Grounds, Pass
  <2> QED
    BY <2>1, <2>2 DEF BanEarned
<1> QED
  BY <1>1, <1>3, <1>4, <1>5

\* A failure that is counted is remembered, or is the last one of a ban.
LEMMA CountedStep ==
  ASSUME BanTypeOK, Dated, Remembered, BanEarned, NEW r \in Requests, RejectCounted(r)
  PROVE  BanTypeOK' /\ Dated' /\ Remembered' /\ BanEarned'
<1> DEFINE a == address[r]
           counted == Recent(a) \cup {r}
<1>a. a \in Addresses /\ counted \in SUBSET Requests
  BY DEF BanTypeOK, Recent
<1>b. Cardinality(counted) \in Nat
  BY <1>a, SetsOfRequests
<1>c. /\ failedAt' = [failedAt EXCEPT ![r] = now]
      /\ stage' = [stage EXCEPT ![r] = "rejected"]
      /\ UNCHANGED <<now, address, checkedAt>>
  BY DEF RejectCounted
<1>d. /\ failures' = [failures EXCEPT ![a] = IF Full(counted) THEN {} ELSE counted]
      /\ bannedUntil' = [bannedUntil EXCEPT ![a] = IF Full(counted) THEN now + BanDuration ELSE @]
      /\ lastEnd' = [lastEnd EXCEPT ![a] = IF Full(counted) THEN now + BanDuration ELSE @]
      /\ Enabled /\ ~ Standing(a) /\ stage[r] = "passed"
  BY DEF RejectCounted
<1>e. now + BanDuration \in Nat /\ now + BanDuration > now /\ now + BanDuration # NoBan /\ now \in Nat
  BY BanAssumption DEF BanTypeOK, NoBan
<1> HIDE DEF counted
<1>1. BanTypeOK'
  <2>1. Enabled => Cardinality({}) < Threshold
    BY BanAssumption, FS_EmptySet DEF Enabled
  <2>2. failures' \in [Addresses -> SUBSET Requests]
    BY <1>a, <1>d DEF BanTypeOK
  <2>3. bannedUntil' \in [Addresses -> Nat] /\ lastEnd' \in [Addresses -> Nat]
    BY <1>a, <1>d, <1>e DEF BanTypeOK
  <2>4. \A b \in Addresses : Cardinality(failures'[b]) < Threshold
    <3> TAKE b \in Addresses
    <3>1. CASE b # a
      BY <3>1, <1>d DEF BanTypeOK
    <3>2. CASE b = a /\ Full(counted)
      BY <3>2, <2>1, <1>d DEF BanTypeOK
    <3>3. CASE b = a /\ ~ Full(counted)
      <4>1. failures'[b] = counted
        BY <3>3, <1>a, <1>d DEF BanTypeOK
      <4> QED
        BY <4>1, <3>3, <1>b, BanAssumption DEF Full
    <3> QED
      BY <3>1, <3>2, <3>3
  <2>5. /\ now' \in Nat \ {0} /\ stage' \in [Requests -> Stages] /\ address' \in [Requests -> Addresses]
        /\ checkedAt' \in [Requests -> Nat] /\ failedAt' \in [Requests -> Nat]
    BY <1>c, <1>e DEF BanTypeOK, Stages
  <2> QED
    BY <2>2, <2>3, <2>4, <2>5 DEF BanTypeOK
<1>2. /\ \A b \in Addresses : Rejected(b) \subseteq Rejected(b)'
      /\ \A b \in Addresses : \A x \in Rejected(b)' : (x = r /\ b = a) \/ (x # r /\ x \in Rejected(b))
      /\ r \in Rejected(a)'
      /\ \A b \in Addresses : \A x \in Rejected(b) : failedAt'[x] = failedAt[x] /\ x # r
  BY <1>c, <1>d DEF Rejected, BanTypeOK
<1>3. counted \subseteq Rejected(a)'
  BY <1>a, <1>c, <1>d DEF counted, Recent, Dated, Rejected, BanTypeOK
<1>4. Dated'
  <2>1. \A b \in Addresses : failures'[b] \subseteq Rejected(b)'
    BY <1>2, <1>3, <1>c, <1>d DEF Dated, BanTypeOK, Rejected
  <2>2. \A x \in Requests : checkedAt'[x] <= now' /\ failedAt'[x] <= now'
    BY <1>c, <1>e DEF Dated, BanTypeOK
  <2>3. ASSUME NEW b \in Addresses, bannedUntil'[b] # NoBan
        PROVE  Enabled /\ bannedUntil'[b] = lastEnd'[b] /\ \A x \in Requests : address'[x] = b => checkedAt'[x] < lastEnd'[b]
    <3>1. CASE b = a /\ Full(counted)
      <4>1. bannedUntil'[b] = now + BanDuration /\ lastEnd'[b] = now + BanDuration
        BY <3>1, <1>d DEF BanTypeOK
      <4>2. \A x \in Requests : checkedAt'[x] < now + BanDuration
        BY <1>c, <1>e DEF Dated, BanTypeOK
      <4> QED
        BY <4>1, <4>2, <1>c, <1>d
    <3>2. CASE ~ (b = a /\ Full(counted))
      BY <3>2, <2>3, <1>c, <1>d DEF Dated, BanTypeOK
    <3> QED
      BY <3>1, <3>2
  <2> QED
    BY <2>1, <2>2, <2>3 DEF Dated, Enabled
<1>5. Remembered'
  <2> SUFFICES ASSUME NEW b \in Addresses, NEW x \in Rejected(b)',
                      checkedAt[x] >= lastEnd'[b], failedAt'[x] >= now - Window
      PROVE  x \in failures'[b]
    BY <1>c DEF Remembered
  <2>0. x \in Requests
    BY DEF Rejected
  <2>1. CASE b = a /\ Full(counted)
    <3>1. lastEnd'[b] = now + BanDuration
      BY <2>1, <1>d DEF BanTypeOK
    <3>2. checkedAt[x] <= now /\ checkedAt[x] \in Nat
      BY <2>0 DEF Dated, BanTypeOK
    <3> QED
      BY <3>1, <3>2, <1>e
  <2>2. CASE b = a /\ ~ Full(counted)
    <3>1. failures'[b] = counted /\ lastEnd'[b] = lastEnd[b]
      BY <2>2, <1>d DEF BanTypeOK
    <3>2. CASE x = r
      BY <3>1, <3>2 DEF counted
    <3>3. CASE x # r
      <4>1. x \in Rejected(b) /\ failedAt[x] >= now - Window
        BY <3>3, <1>2
      <4>2. x \in failures[b]
        BY <4>1, <3>1, <1>d DEF Remembered
      <4> QED
        BY <4>1, <4>2, <3>1, <2>2 DEF counted, Recent
    <3> QED
      BY <3>2, <3>3
  <2>3. CASE b # a
    <3>1. failures'[b] = failures[b] /\ lastEnd'[b] = lastEnd[b]
      BY <2>3, <1>d DEF BanTypeOK
    <3>2. x \in Rejected(b) /\ failedAt'[x] = failedAt[x]
      BY <2>3, <1>2
    <3> QED
      BY <3>1, <3>2, <1>d DEF Remembered
  <2> QED
    BY <2>1, <2>2, <2>3
<1>6. BanEarned'
  <2> SUFFICES ASSUME NEW b \in Addresses, bannedUntil'[b] # NoBan
      PROVE  Cardinality(Grounds(b)') >= Threshold
    BY DEF BanEarned
  <2>0. Grounds(b)' \in SUBSET Requests
    BY DEF Grounds, Rejected
  <2>1. CASE b = a /\ Full(counted)
    <3>1. bannedUntil'[b] - BanDuration = now
      BY <2>1, <1>d, <1>e, BanAssumption DEF BanTypeOK
    <3>2. \A x \in counted : now - Window <= failedAt'[x] /\ failedAt'[x] <= now
      BY <1>c, <1>e, <1>a, BanAssumption DEF counted, Recent, Dated, BanTypeOK
    <3>3. counted \in SUBSET (Grounds(b)')
      <4> SUFFICES ASSUME NEW x \in counted PROVE x \in Grounds(b)'
        OBVIOUS
      <4>1. x \in Requests /\ stage'[x] = "rejected" /\ address'[x] = b
        BY <1>3, <2>1, <1>c DEF Rejected
      <4> QED
        BY <3>1, <3>2, <4>1 DEF Grounds, Rejected
    <3>4. Cardinality(counted) <= Cardinality(Grounds(b)') /\ Cardinality(Grounds(b)') \in Nat
      BY <3>3, <2>0, SetsOfRequests
    <3> QED
      BY <3>4, <1>b, <2>1, BanAssumption DEF Full
  <2>2. CASE ~ (b = a /\ Full(counted))
    <3>1. bannedUntil'[b] = bannedUntil[b]
      BY <2>2, <1>d DEF BanTypeOK
    <3>2. Grounds(b) \in SUBSET (Grounds(b)')
      BY <3>1, <1>2 DEF Grounds
    <3>3. Cardinality(Grounds(b)) <= Cardinality(Grounds(b)')
          /\ Cardinality(Grounds(b)') \in Nat /\ Cardinality(Grounds(b)) \in Nat
      BY <3>2, <2>0, SetsOfRequests
    <3> QED
      BY <2>1, <3>1, <3>3, BanAssumption DEF BanEarned
  <2> QED
    BY <2>1, <2>2
<1> QED
  BY <1>1, <1>4, <1>5, <1>6

\* Time makes failures count no more, and never again.
LEMMA TickStep ==
  ASSUME BanTypeOK, Dated, Remembered, BanEarned, Tick
  PROVE  BanTypeOK' /\ Dated' /\ Remembered' /\ BanEarned'
<1>1. BanTypeOK'
  BY DEF Tick, BanTypeOK, Stages, Enabled
<1>2. \A a \in Addresses : Rejected(a)' = Rejected(a)
  BY DEF Tick, Rejected
<1>3. Dated'
  BY <1>2 DEF Tick, Dated, BanTypeOK, NoBan, Enabled
<1>4. Remembered'
  <2> SUFFICES ASSUME Enabled, NEW a \in Addresses, NEW x \in Rejected(a),
                      checkedAt[x] >= lastEnd[a], failedAt[x] >= now' - Window
      PROVE  x \in failures[a]
    BY DEF Tick, Remembered, Enabled, Rejected
  <2>1. failedAt[x] >= now - Window
    BY BanAssumption DEF BanTypeOK, Rejected, Tick
  <2> QED
    BY <2>1 DEF Remembered
<1>5. BanEarned'
  BY <1>2 DEF Tick, BanEarned, Grounds
<1> QED
  BY <1>1, <1>3, <1>4, <1>5

\* The list keeps its promises in every step.
LEMMA BanPreserved ==
  BanTypeOK /\ Dated /\ Remembered /\ BanEarned /\ [BanNext]_banVars
    => (BanTypeOK /\ Dated /\ Remembered /\ BanEarned)'
<1> SUFFICES ASSUME BanTypeOK, Dated, Remembered, BanEarned, [BanNext]_banVars
    PROVE  (BanTypeOK /\ Dated /\ Remembered /\ BanEarned)'
  OBVIOUS
<1>1. CASE Tick
  BY <1>1, TickStep
<1>2. ASSUME NEW r \in Requests, BanStep(r)
      PROVE  (BanTypeOK /\ Dated /\ Remembered /\ BanEarned)'
  BY <1>2, QuietStep, PassStep, CountedStep DEF BanStep
<1>3. CASE UNCHANGED banVars
  BY <1>3 DEF banVars, BanTypeOK, Dated, Remembered, BanEarned, Rejected, Enabled, Grounds
<1> QED
  BY <1>1, <1>2, <1>3 DEF BanNext

\* Every ban was earned, and no offender is overlooked, for any threshold,
\* window and duration and any number of clients.
THEOREM BansAreExact == BanSpec => [](BanTypeOK /\ BanEarned /\ NoneOverlooked)
<1> DEFINE I == BanTypeOK /\ Dated /\ Remembered /\ BanEarned
<1>1. BanInit => I
  BY BanInitially
<1>2. I /\ [BanNext]_banVars => I'
  BY BanPreserved
<1>3. I => BanTypeOK /\ BanEarned /\ NoneOverlooked
  BY Overlooked
<1> HIDE DEF I
<1> QED
  BY <1>1, <1>2, <1>3, PTL DEF BanSpec
-----------------------------------------------------------------------------
(* The gateway.                                                            *)

\* The steps of the gateway by what they do to the ban list: a step that
\* answers a request with a status, and perhaps serves it, or one of none.
LEMMA GatewaySteps ==
  ASSUME Next
  PROVE  \/ Boot
         \/ TimePasses
         \/ \E r \in Requests : \/ Refuse(r) /\ Answered(r, "403") /\ process = "serving" /\ UNCHANGED <<site, servedTo>>
                                \/ Pass(r) /\ process = "serving" /\ UNCHANGED <<site, servedTo, answer>>
                                \/ Open(r) \/ Unrouted(r) \/ Serve(r) \/ Limited(r) \/ Deny(r)
  BY Zenon DEF Next, Arrive

\* Every step of the gateway is one of the ban list, or leaves it alone.
LEMMA GatewayBanStep == [Next]_vars => [BanNext]_banVars
<1> SUFFICES ASSUME [Next]_vars PROVE [BanNext]_banVars
  OBVIOUS
<1>1. CASE Boot
  BY <1>1 DEF Boot
<1>2. CASE TimePasses
  BY <1>2 DEF TimePasses, BanNext
<1>3. ASSUME NEW r \in Requests,
             Arrive(r) \/ Open(r) \/ Unrouted(r) \/ Serve(r) \/ Limited(r) \/ Deny(r)
      PROVE  BanStep(r)
  BY <1>3, Zenon DEF Arrive, Open, Unrouted, Serve, Limited, Deny, BanStep
<1>4. CASE UNCHANGED vars
  BY <1>4 DEF vars
<1> QED
  BY <1>1, <1>2, <1>3, <1>4 DEF Next, BanNext

\* The gateway drives the ban list as its specification allows.
THEOREM GatewayImplementsBans == Spec => BanSpec
<1>1. Init => BanInit
  BY DEF Init
<1> QED
  BY <1>1, GatewayBanStep, PTL DEF Spec, BanSpec

\* So its bans are earned and it overlooks none.
THEOREM GatewayBans == Spec => [](BanTypeOK /\ BanEarned /\ NoneOverlooked)
  BY GatewayImplementsBans, BansAreExact, PTL

\* Nothing passes the check before the process serves, and it serves only with
\* a valid configuration made of the file, behind the token where that demands.
Booted ==
  /\ process \in {"booting", "serving", "exited"}
  /\ process # "serving" => \A r \in Requests : stage[r] = "coming"
  /\ process = "serving" => /\ file.found = "parsed" /\ cfg \in Normalized(file.config)
                            /\ Valid(cfg) /\ gated = RequiresAuth(cfg)

\* A request is counted under the client's address that its headers give.
Addressed ==
  /\ sent \in [Requests -> Sendable]
  /\ address = [r \in Requests |-> ClientIp(sent[r])]
  /\ answer \in [Requests -> {"none", "200", "403", "404", "429"}]
  /\ servedTo = [r \in Requests |-> servedTo[r]]

\* The gateway starts so.
LEMMA GatewayInitially == Init => Booted /\ Addressed
  BY DEF Init, BanInit, Booted, Addressed

\* An empty configuration is not valid, so that a process that serves has read
\* the file.
LEMMA BootStep ==
  ASSUME Booted, Boot
  PROVE  Booted'
<1>1. ~ Valid(Empty)
  BY DEF Valid, Empty, NoSettings, Lists
<1>2. PICK loaded \in Loaded :
        /\ cfg' = loaded
        /\ process' = IF Valid(loaded) THEN "serving" ELSE "exited"
        /\ gated' = RequiresAuth(loaded)
  BY DEF Boot
<1>3. Valid(loaded) => file.found = "parsed" /\ loaded \in Normalized(file.config)
  BY <1>1 DEF Loaded
<1>4. file' = file /\ stage' = stage /\ process = "booting"
  BY DEF Boot, banVars
<1>5. \A r \in Requests : stage'[r] = "coming"
  BY <1>4 DEF Booted
<1>6. process' = "serving" => /\ file'.found = "parsed" /\ cfg' \in Normalized(file'.config)
                              /\ Valid(cfg') /\ gated' = RequiresAuth(cfg')
  BY <1>2, <1>3, <1>4
<1>7. process' \in {"booting", "serving", "exited"}
  BY <1>2
<1> QED
  BY <1>5, <1>6, <1>7 DEF Booted

\* The process and what it runs with stay once it serves.
LEMMA BootedNext == Booted /\ BanTypeOK /\ [Next]_vars => Booted'
<1> SUFFICES ASSUME Booted, BanTypeOK, [Next]_vars PROVE Booted'
  OBVIOUS
<1>1. CASE Boot
  BY <1>1, BootStep
<1>2. CASE ~ Boot
  <2>1. /\ UNCHANGED <<file, process, cfg, gated>>
        /\ process = "serving" \/ UNCHANGED stage
    <3>1. CASE TimePasses
      BY <3>1 DEF TimePasses, Tick, site
    <3>2. ASSUME NEW r \in Requests,
                 Arrive(r) \/ Open(r) \/ Unrouted(r) \/ Serve(r) \/ Limited(r) \/ Deny(r)
          PROVE  UNCHANGED <<file, process, cfg, gated>> /\ process = "serving"
      <4>1. UNCHANGED site /\ (process = "serving" \/ stage[r] = "passed")
        BY <3>2, Zenon DEF Arrive, Open, Unrouted, Serve, Limited, Deny, Accept, RejectQuietly, RejectCounted
      <4> QED
        BY <4>1 DEF site, Booted
    <3>3. CASE UNCHANGED vars
      BY <3>3 DEF vars, banVars
    <3> QED
      BY <1>2, <3>1, <3>2, <3>3 DEF Next
  <2> QED
    BY <2>1 DEF Booted
<1> QED
  BY <1>1, <1>2

\* What was sent, and the address it counts under, never change.
LEMMA SentStays == [Next]_vars => UNCHANGED <<sent, address>>
<1> SUFFICES ASSUME [Next]_vars PROVE UNCHANGED <<sent, address>>
  OBVIOUS
<1>1. CASE Boot
  BY <1>1 DEF Boot, banVars
<1>2. CASE TimePasses
  BY <1>2 DEF TimePasses, Tick, site
<1>3. ASSUME NEW r \in Requests,
             Arrive(r) \/ Open(r) \/ Unrouted(r) \/ Serve(r) \/ Limited(r) \/ Deny(r)
      PROVE  UNCHANGED <<sent, address>>
  <2>1. UNCHANGED site
    BY <1>3, Zenon DEF Arrive, Open, Unrouted, Serve, Limited, Deny
  <2>2. BanStep(r)
    BY <1>3, Zenon DEF Arrive, Open, Unrouted, Serve, Limited, Deny, BanStep
  <2> QED
    BY <2>1, <2>2 DEF site, BanStep, Refuse, Pass, Accept, RejectQuietly, RejectCounted
<1>4. CASE UNCHANGED vars
  BY <1>4 DEF vars, banVars
<1> QED
  BY <1>1, <1>2, <1>3, <1>4 DEF Next

\* The answers stay answers.
LEMMA AddressedNext == Addressed /\ [Next]_vars => Addressed'
<1> SUFFICES ASSUME Addressed, [Next]_vars PROVE Addressed'
  OBVIOUS
<1>1. UNCHANGED <<sent, address>>
  BY SentStays
<1>2. /\ answer' \in [Requests -> {"none", "200", "403", "404", "429"}]
      /\ servedTo' = [r \in Requests |-> servedTo'[r]]
  <2>1. CASE Boot \/ TimePasses \/ UNCHANGED vars
    BY <2>1 DEF Boot, TimePasses, vars, Addressed
  <2>2. ASSUME NEW r \in Requests, Arrive(r) PROVE <1>2!1 /\ <1>2!2
    BY <2>2 DEF Arrive, Answered, Addressed
  <2>3. ASSUME NEW r \in Requests, Open(r) \/ Unrouted(r) \/ Limited(r) \/ Deny(r) PROVE <1>2!1 /\ <1>2!2
    BY <2>3 DEF Open, Unrouted, Limited, Deny, Answered, Addressed
  <2>4. ASSUME NEW r \in Requests, Serve(r) PROVE <1>2!1 /\ <1>2!2
    BY <2>4 DEF Serve, Answered, Addressed
  <2> QED
    BY <2>1, <2>2, <2>3, <2>4 DEF Next
<1> QED
  BY <1>1, <1>2 DEF Addressed, ClientIp

\* Booted and Addressed hold throughout.
THEOREM GatewayStaysWell == Spec => [](Booted /\ Addressed)
<1>1. Init => Booted /\ Addressed
  BY GatewayInitially
<1>2. Booted /\ Addressed /\ BanTypeOK /\ [Next]_vars => (Booted /\ Addressed)'
  BY BootedNext, AddressedNext
<1> QED
  BY <1>1, <1>2, GatewayBans, PTL DEF Spec

\* An answer comes with the step that gives it, and no step takes one back.
LEMMA NewAnswer ==
  ASSUME Addressed, [Next]_vars, NEW r \in Requests, answer'[r] # answer[r]
  PROVE  \/ Refuse(r) /\ answer'[r] = "403"
         \/ sent[r].path = "open" /\ answer'[r] = "200"
         \/ answer'[r] \in {"404", "429"}
         \/ Serve(r) /\ answer'[r] = "200"
<1>1. CASE Boot \/ TimePasses \/ UNCHANGED vars
  BY <1>1 DEF Boot, TimePasses, vars
<1>2. ASSUME NEW q \in Requests, Arrive(q) PROVE Refuse(r) /\ answer'[r] = "403"
  BY <1>2 DEF Arrive, Answered, Addressed
<1>3. ASSUME NEW q \in Requests, Open(q) PROVE sent[r].path = "open" /\ answer'[r] = "200"
  BY <1>3 DEF Open, Answered, Addressed
<1>4. ASSUME NEW q \in Requests, Unrouted(q) \/ Limited(q) \/ Deny(q) PROVE answer'[r] \in {"404", "429"}
  BY <1>4 DEF Unrouted, Limited, Deny, Answered, Addressed
<1>5. ASSUME NEW q \in Requests, Serve(q) PROVE Serve(r) /\ answer'[r] = "200"
  BY <1>5 DEF Serve, Answered, Addressed
<1> QED
  BY <1>1, <1>2, <1>3, <1>4, <1>5 DEF Next

\* The bad tokens of a client.
Offences(c) == {x \in Requests : stage[x] = "rejected" /\ sent[x].client = c}

\* No step forgets that a request was rejected.
LEMMA OffencesStay ==
  ASSUME BanTypeOK, [Next]_vars, NEW c
  PROVE  Offences(c) \subseteq Offences(c)'
<1>1. sent' = sent
  BY SentStays
<1>2. \A x \in Requests : stage[x] = "rejected" => stage'[x] = "rejected"
  <2>1. [BanNext]_banVars
    BY GatewayBanStep
  <2>2. ASSUME NEW r \in Requests, BanStep(r) PROVE <1>2
    BY <2>2 DEF BanStep, Refuse, Pass, Accept, RejectQuietly, RejectCounted, BanTypeOK
  <2>3. CASE Tick \/ UNCHANGED banVars
    BY <2>3 DEF Tick, banVars
  <2> QED
    BY <2>1, <2>2, <2>3 DEF BanNext
<1> QED
  BY <1>1, <1>2 DEF Offences

\* Where headers tell the client, nobody is refused for the bad tokens of others.
THEOREM InnocentsPass ==
  ASSUME \A q \in Sendable : ClientIp(q) = q.client
  PROVE  Spec => []InnocentAdmitted
<1>1. Init => InnocentAdmitted
  BY DEF Init, InnocentAdmitted
<1>2. InnocentAdmitted /\ Addressed /\ BanTypeOK /\ BanEarned /\ [Next]_vars => InnocentAdmitted'
  <2> SUFFICES ASSUME InnocentAdmitted, Addressed, BanTypeOK, BanEarned, [Next]_vars,
                      NEW r \in Requests, answer'[r] = "403", NEW c, c = sent[r].client
      PROVE  Cardinality(Offences(c)') >= Threshold
    BY SentStays DEF InnocentAdmitted, Offences
  <2>1. Offences(c) \in SUBSET (Offences(c)') /\ Offences(c)' \in SUBSET Requests
    BY OffencesStay DEF Offences
  <2>2. Cardinality(Offences(c)) >= Threshold
    <3>1. CASE answer[r] = "403"
      BY <3>1 DEF InnocentAdmitted, Offences
    <3>2. CASE answer[r] # "403"
      <4>1. Refuse(r)
        BY <3>2, NewAnswer, SentStays
      <4>2. Grounds(address[r]) \in SUBSET Offences(c)
        BY DEF Grounds, Rejected, Offences, Addressed
      <4>3. Cardinality(Grounds(address[r])) >= Threshold
        BY <4>1 DEF Refuse, Standing, BanEarned, BanTypeOK
      <4> QED
        BY <4>2, <4>3, SetsOfRequests, BanAssumption DEF Offences
    <3> QED
      BY <3>1, <3>2
  <2> QED
    BY <2>1, <2>2, SetsOfRequests, BanAssumption
<1> QED
  BY <1>1, <1>2, GatewayBans, GatewayStaysWell, PTL DEF Spec

\* The names of the users of a file, trimmed.
Names(f) == {Trim(n) : n \in DOMAIN f.users} \ {""}

\* What normalize makes of a file, user by user.
LEMMA NormalizedFile ==
  ASSUME NEW f, NEW c \in Normalized(f)
  PROVE  /\ c.requireAuth = f.requireAuth
         /\ c.defaults = NormalizeSettings(f.defaults)
         /\ \E pick \in [Names(f) -> DOMAIN f.users] :
              /\ \A n \in Names(f) : Trim(pick[n]) = n
              /\ c.users = [n \in Names(f) |-> NormalizeSettings(f.users[pick[n]])]
<1>1. PICK pick \in [Names(f) -> DOMAIN f.users] :
        /\ \A n \in Names(f) : Trim(pick[n]) = n
        /\ c = [requireAuth |-> f.requireAuth,
                defaults    |-> NormalizeSettings(f.defaults),
                users       |-> [n \in Names(f) |-> NormalizeSettings(f.users[pick[n]])]]
  BY Zenon DEF Normalized, Names
<1>2. /\ c.requireAuth = f.requireAuth
      /\ c.defaults = NormalizeSettings(f.defaults)
      /\ c.users = [n \in Names(f) |-> NormalizeSettings(f.users[pick[n]])]
  BY <1>1
<1> QED
  BY <1>1, <1>2, Zenon

\* normalize trims keys.
LEMMA NormalizedKey == \A s : NormalizeSettings(s).key = Trim(s.key)
<1> TAKE s
<1> DEFINE lists == [indexers  |-> TrimmedIndexers(s.lists.indexers),
                servers   |-> TrimmedServers(s.lists.servers),
                languages |-> Distinct([i \in DOMAIN s.lists.languages |->
                                          NormalizeLanguage(s.lists.languages[i])])]
          options == [s.options EXCEPT !.exclude_regex =
                  IF @ = Unset \/ Trim(@) = "" THEN Unset ELSE Trim(@)]
<1>1. NormalizeSettings(s) = [key |-> Trim(s.key), lists |-> lists, options |-> options]
  BY Zenon DEF NormalizeSettings
<1> HIDE DEF lists, options
<1> QED
  BY <1>1

\* What is mounted behind the token is served to users: their settings stand in
\* the configuration under the name of a user of the file, with that user's key.
LEMMA UserOfFile ==
  ASSUME Booted, process = "serving", NEW token, NEW u \in UsersForKey(cfg, token)
  PROVE  \E n \in Named : Trim(n) = u /\ token = Trim(file.config.users[n].key)
                         /\ cfg.users[u] = NormalizeSettings(file.config.users[n])
<1> DEFINE f == file.config
<1>1. cfg \in Normalized(file.config) /\ u \in DOMAIN cfg.users /\ cfg.users[u].key = token
  BY DEF Booted, UsersForKey
<1>2. PICK pick \in [Names(f) -> DOMAIN f.users] :
        /\ \A n \in Names(f) : Trim(pick[n]) = n
        /\ cfg.users = [n \in Names(f) |-> NormalizeSettings(f.users[pick[n]])]
  BY <1>1, NormalizedFile
<1>3. u \in Names(f) /\ pick[u] \in DOMAIN f.users /\ Trim(pick[u]) = u /\ u # ""
  BY <1>1, <1>2 DEF Names
<1>4. cfg.users[u] = NormalizeSettings(f.users[pick[u]])
  BY <1>2, <1>3
<1>5. token = Trim(f.users[pick[u]].key)
  BY <1>1, <1>4, NormalizedKey
<1> QED
  BY <1>3, <1>4, <1>5 DEF Named

\* A file that demands authentication or names a user gates the addon routes.
LEMMA GatedByFile ==
  ASSUME Booted, process = "serving", file.config.requireAuth \/ Named # {}
  PROVE  gated
<1>1. cfg \in Normalized(file.config) /\ gated = RequiresAuth(cfg)
  BY DEF Booted
<1>2. cfg.requireAuth = file.config.requireAuth
  BY <1>1, NormalizedFile
<1>3. DOMAIN cfg.users = Names(file.config)
  BY <1>1, NormalizedFile
<1>4. Named # {} => DOMAIN cfg.users # {}
  BY <1>3 DEF Named, Names
<1> QED
  BY <1>1, <1>2, <1>4 DEF RequiresAuth

\* The file does not change under the process.
LEMMA FileStays == [Next]_vars => UNCHANGED file
<1>1. ASSUME NEW r \in Requests,
             Arrive(r) \/ Open(r) \/ Unrouted(r) \/ Serve(r) \/ Limited(r) \/ Deny(r)
      PROVE  UNCHANGED site
  BY <1>1, Zenon DEF Arrive, Open, Unrouted, Serve, Limited, Deny
<1> QED
  BY <1>1 DEF Next, Boot, TimePasses, site, vars

\* Only stream_route says whom a request is served as.
LEMMA NewlyServed ==
  ASSUME Addressed, [Next]_vars, NEW r \in Requests, servedTo'[r] # servedTo[r]
  PROVE  Serve(r)
<1>1. ASSUME NEW q \in Requests,
             Arrive(q) \/ Open(q) \/ Unrouted(q) \/ Limited(q) \/ Deny(q)
      PROVE  FALSE
  BY <1>1 DEF Arrive, Open, Unrouted, Limited, Deny
<1>2. ASSUME NEW q \in Requests, Serve(q) PROVE q = r
  BY <1>2 DEF Serve, Addressed
<1> QED
  BY <1>1, <1>2 DEF Next, Boot, TimePasses, vars

\* A user whose name no other differs from in blanks only is in use as written.
LEMMA NamedInUse ==
  ASSUME Booted, process = "serving", NEW n \in Named, OneOfAName(n)
  PROVE  Trim(n) \in DOMAIN cfg.users /\ cfg.users[Trim(n)] = NormalizeSettings(file.config.users[n])
<1> DEFINE f == file.config
<1>1. PICK pick \in [Names(f) -> DOMAIN f.users] :
        /\ \A m \in Names(f) : Trim(pick[m]) = m
        /\ cfg.users = [m \in Names(f) |-> NormalizeSettings(f.users[pick[m]])]
  BY NormalizedFile DEF Booted
<1>2. Trim(n) \in Names(f)
  BY DEF Named, Names
<1>3. pick[Trim(n)] \in Named /\ Trim(pick[Trim(n)]) = Trim(n)
  BY <1>1, <1>2 DEF Named, Names
<1>4. pick[Trim(n)] = n
  BY <1>3 DEF OneOfAName
<1> QED
  BY <1>1, <1>2, <1>4

\* No addon route answers without the key of a named user, whatever the file
\* says, where it demands authentication or names a user.
THEOREM RoutesAreGuarded == Spec => []RoutesGuarded
<1>1. Init => RoutesGuarded
  BY DEF Init, RoutesGuarded
<1>2. RoutesGuarded /\ Addressed /\ Booted /\ [Next]_vars => RoutesGuarded'
  <2> SUFFICES ASSUME RoutesGuarded, Addressed, Booted, [Next]_vars, NEW r \in Requests,
                      answer'[r] = "200", sent[r].path = "addon", file.found = "parsed",
                      file.config.requireAuth \/ Named # {}
      PROVE  \E n \in Named : sent[r].token = Trim(file.config.users[n].key)
    BY SentStays, FileStays DEF RoutesGuarded, Named
  <2>1. CASE answer[r] = "200"
    BY <2>1 DEF RoutesGuarded
  <2>2. CASE answer[r] # "200"
    <3>1. Serve(r)
      BY <2>2, NewAnswer
    <3>2. process = "serving"
      BY <3>1 DEF Serve, Accept, Booted
    <3>3. gated
      BY <3>2, GatedByFile
    <3>4. PICK u \in UsersForKey(cfg, sent[r].token) : TRUE
      BY <3>1, <3>3 DEF Serve, UsersOf
    <3> QED
      BY <3>2, <3>4, UserOfFile
  <2> QED
    BY <2>1, <2>2
<1> QED
  BY <1>1, <1>2, GatewayStaysWell, PTL DEF Spec

\* A served request bears the key of a user of the file and has that user's
\* settings, whatever the other users'.
THEOREM SettingsAreOwn == Spec => []OwnSettings
<1>1. Init => OwnSettings
  BY DEF Init, OwnSettings, Nobody
<1>2. OwnSettings /\ Addressed /\ Booted /\ [Next]_vars => OwnSettings'
  <2> SUFFICES ASSUME OwnSettings, Addressed, Booted, [Next]_vars PROVE OwnSettings'
    OBVIOUS
  <2>a. sent' = sent /\ file' = file
    BY SentStays, FileStays
  <2>b. /\ Named' = Named
        /\ \A n : OneOfAName(n)' <=> OneOfAName(n)
        /\ \A n, l : Said(n, l)' = Said(n, l)
        /\ \A n, o : Chosen(n, o)' = Chosen(n, o)
    BY <2>a DEF Named, OneOfAName, Said, Chosen
  <2> SUFFICES ASSUME NEW r \in Requests, servedTo'[r].user # NoUser,
                      NEW n \in Named, OneOfAName(n),
                      sent[r].token = Trim(file.config.users[n].key)
      PROVE  /\ servedTo'[r].user = Trim(n)
             /\ servedTo'[r].settings.lists = [l \in Lists |-> Said(n, l)]
             /\ servedTo'[r].settings.options = [o \in OptionNames |-> Chosen(n, o)]
    BY <2>a, <2>b DEF OwnSettings
  <2>1. CASE servedTo'[r] = servedTo[r]
    BY <2>1 DEF OwnSettings
  <2>2. CASE servedTo'[r] # servedTo[r]
    <3>1. Serve(r)
      BY <2>2, NewlyServed
    <3>2. process = "serving"
      BY <3>1 DEF Serve, Accept, Booted
    <3>3. PICK u \in UsersOf(r) : servedTo'[r] = [user |-> u, settings |-> Resolve(cfg, u)]
      BY <3>1 DEF Serve, Addressed
    <3>4. u \in UsersForKey(cfg, sent[r].token) /\ u \in DOMAIN cfg.users
      <4>1. u # NoUser
        BY <3>3
      <4> QED
        BY <3>3, <4>1 DEF UsersOf, UsersForKey
    <3>5. PICK m \in Named : /\ Trim(m) = u
                             /\ cfg.users[u] = NormalizeSettings(file.config.users[m])
      BY <3>2, <3>4, UserOfFile
    <3>6. Trim(n) \in DOMAIN cfg.users /\ cfg.users[Trim(n)] = NormalizeSettings(file.config.users[n])
      BY <3>2, NamedInUse
    <3>7. u = Trim(n)
      <4>1. cfg.users[u].key = sent[r].token /\ cfg.users[Trim(n)].key = sent[r].token
        BY <3>4, <3>6, NormalizedKey DEF UsersForKey
      <4> QED
        BY <4>1, <3>2, <3>4, <3>6 DEF Booted, Valid
    <3>8. cfg.defaults = NormalizeSettings(file.config.defaults)
      BY <3>2, NormalizedFile DEF Booted
    <3>9. Resolve(cfg, u) = Merged(NormalizeSettings(file.config.defaults),
                                   NormalizeSettings(file.config.users[n]))
      BY <3>4, <3>6, <3>7, <3>8 DEF Resolve
    <3>10. /\ Resolve(cfg, u).lists = [l \in Lists |-> Said(n, l)]
           /\ Resolve(cfg, u).options = [o \in OptionNames |-> Chosen(n, o)]
      BY <3>9 DEF Merged, Said, Chosen
    <3> QED
      BY <3>3, <3>7, <3>10
  <2> QED
    BY <2>1, <2>2
<1> QED
  BY <1>1, <1>2, GatewayStaysWell, PTL DEF Spec
==============================================================================
