------------------------------- MODULE Gateway -------------------------------
(***************************************************************************)
(* The way of a request into the addon: main boots with a configuration,   *)
(* build_router mounts the routes for it, and every request passes the ban *)
(* list under its client's address (ban_check_middleware), the access      *)
(* token (require_access_token), the rate limit, and then runs with the    *)
(* settings of its user (stream_route).  From src-rust/main.rs, auth.rs    *)
(* and, through the modules extended, ip_ban.rs and config.rs.             *)
(***************************************************************************)
EXTENDS IpBan, Config

CONSTANTS
  Files,       \* what CONFIG_PATH may hold: [found, config]
  Sendable,    \* the requests that clients send: [client, path, token, peer, forwarded, realIp]
  TrustProxy   \* TRUST_PROXY_HEADERS

VARIABLES
  file,      \* what load_from_disk finds
  process,   \* "booting", "serving" or "exited"
  cfg,       \* the configuration in use
  sent,      \* request |-> member of Sendable
  answer,    \* request |-> status, or "none"
  servedTo,  \* request |-> [user, settings] of an addon route, or Nobody
  gated      \* whether the addon routes are mounted behind the token

vars == <<banVars, file, process, cfg, sent, answer, servedTo, gated>>
site == <<file, process, cfg, sent, gated>>

NoToken == "no token"   \* the path has no such segment
NoUser == "no user"     \* authentication is off
NotSent == ""           \* the header is absent
Nobody == [user |-> NoUser, settings |-> NoSettings]

\* Slip: the address of the connection is taken, whoever forwarded the request.
ClientIpPeer(q) == q.peer

\* client_ip: behind a trusted proxy the first entry of X-Forwarded-For or else
\* X-Real-IP, where they are addresses; else the peer.
ClientIp(q) ==
  IF TrustProxy /\ q.forwarded # <<>> /\ Head(q.forwarded) \in Addresses THEN Head(q.forwarded)
  ELSE IF TrustProxy /\ q.realIp \in Addresses THEN q.realIp
  ELSE q.peer

\* load_from_disk, as main takes it: without a file, or with one that cannot be
\* read or parsed, the configuration is empty.
Loaded ==
  IF file.found = "parsed" THEN Normalized(file.config) ELSE {Empty}

Init ==
  /\ file \in Files
  /\ process = "booting"
  /\ cfg = Empty
  /\ sent \in [Requests -> Sendable]
  /\ address = [r \in Requests |-> ClientIp(sent[r])]
  /\ BanInit
  /\ answer = [r \in Requests |-> "none"]
  /\ servedTo = [r \in Requests |-> Nobody]
  /\ gated = FALSE

\* main: a configuration that is not valid ends the process.
Boot ==
  /\ process = "booting"
  /\ \E loaded \in Loaded :
       /\ cfg' = loaded
       /\ process' = IF Valid(loaded) THEN "serving" ELSE "exited"
       /\ gated' = RequiresAuth(loaded)
  /\ UNCHANGED <<banVars, file, sent, answer, servedTo>>

Answered(r, status) == answer' = [answer EXCEPT ![r] = status]

\* ban_check_middleware, outside of everything else.
Arrive(r) ==
  /\ process = "serving"
  /\ \/ Refuse(r) /\ Answered(r, "403")
     \/ Pass(r) /\ UNCHANGED answer
  /\ UNCHANGED <<site, servedTo>>

\* /v/{token}, /health and /logo.svg are at the root, whatever the access keys.
Open(r) ==
  /\ sent[r].path = "open"
  /\ Accept(r) /\ Answered(r, "200")
  /\ UNCHANGED <<site, servedTo>>

\* No route matches: the addon routes are mounted elsewhere.
Unrouted(r) ==
  /\ sent[r].path = "addon"
  /\ gated # (sent[r].token # NoToken)
  /\ Accept(r) /\ Answered(r, "404")
  /\ UNCHANGED <<site, servedTo>>

\* The user that require_access_token finds, NoUser where it is not mounted.
UsersOf(r) == IF gated THEN UsersForKey(cfg, sent[r].token) ELSE {NoUser}

\* stream_route, with the settings of the user.
Serve(r) ==
  /\ sent[r].path = "addon"
  /\ gated = (sent[r].token # NoToken)
  /\ \E u \in UsersOf(r) :
       servedTo' = [servedTo EXCEPT ![r] = [user |-> u, settings |-> Resolve(cfg, u)]]
  /\ Accept(r) /\ Answered(r, "200")
  /\ UNCHANGED site

\* The governor, behind the token, has seen too many requests of the peer.
Limited(r) ==
  /\ sent[r].path = "addon"
  /\ gated = (sent[r].token # NoToken)
  /\ UsersOf(r) # {}
  /\ Accept(r) /\ Answered(r, "429")
  /\ UNCHANGED <<site, servedTo>>

\* require_access_token knows no user of this token.
Deny(r) ==
  /\ sent[r].path = "addon"
  /\ gated /\ sent[r].token # NoToken
  /\ UsersForKey(cfg, sent[r].token) = {}
  /\ RejectQuietly(r) \/ RejectCounted(r)
  /\ Answered(r, "404")
  /\ UNCHANGED <<site, servedTo>>

TimePasses ==
  /\ process = "serving"
  /\ Tick
  /\ UNCHANGED <<site, answer, servedTo>>

Next ==
  \/ Boot
  \/ TimePasses
  \/ \E r \in Requests :
       Arrive(r) \/ Open(r) \/ Unrouted(r) \/ Serve(r) \/ Limited(r) \/ Deny(r)

Spec == Init /\ [][Next]_vars
-----------------------------------------------------------------------------
\* Nobody is refused for the bad tokens of others: a client that is answered 403
\* has itself sent as many as the threshold, whichever proxy it comes through.
InnocentAdmitted ==
  \A r \in Requests : answer[r] = "403" =>
    Cardinality({x \in Requests : stage[x] = "rejected" /\ sent[x].client = sent[r].client})
      >= Threshold

\* The users of the file that have a name.
Named == {n \in DOMAIN file.config.users : Trim(n) # ""}

\* Where the file demands authentication or names a user, no addon route answers
\* a request that does not bear the key of a named user.
RoutesGuarded ==
  \A r \in Requests :
    answer[r] = "200" /\ sent[r].path = "addon"
      /\ file.found = "parsed" /\ (file.config.requireAuth \/ Named # {})
    => \E n \in Named : sent[r].token = Trim(file.config.users[n].key)

\* What the file gives a user, or else the defaults.
Said(n, l) ==
  LET own == NormalizeSettings(file.config.users[n]).lists[l]
  IN  IF own # <<>> THEN own ELSE NormalizeSettings(file.config.defaults).lists[l]
Chosen(n, o) ==
  LET own == NormalizeSettings(file.config.users[n]).options[o]
  IN  IF own # Unset THEN own ELSE NormalizeSettings(file.config.defaults).options[o]

\* No other user of the file differs from this one in blanks only.
OneOfAName(n) == \A m \in Named : Trim(m) = Trim(n) => m = n

\* A key opens the settings of its owner and of nobody else: every user of the
\* file whose key a served request bears is the one it is served as, with each
\* setting the user's or, where the user says nothing, the default.
OwnSettings ==
  \A r \in Requests : servedTo[r].user # NoUser =>
    \A n \in Named : OneOfAName(n) /\ sent[r].token = Trim(file.config.users[n].key) =>
      /\ servedTo[r].user = Trim(n)
      /\ servedTo[r].settings.lists = [l \in Lists |-> Said(n, l)]
      /\ servedTo[r].settings.options = [o \in OptionNames |-> Chosen(n, o)]
=============================================================================
