------------------------------ MODULE BodyProbe ------------------------------
(***************************************************************************)
(* The dialogue by which an availability probe asks an NNTP server for an  *)
(* article (run_body_probe, src-rust/nzb_availability.rs).  The probe has  *)
(* a connection of its own and reacts to the code of each line it reads;   *)
(* body_probe gives it 5 s.                                                *)
(*                                                                         *)
(* The server is external: what RFC 3977 and RFC 4643 let it answer.       *)
(***************************************************************************)
EXTENDS Naturals, Sequences

CONSTANT Refusals  \* codes by which the server refuses any command and goes on

\* Such a refusal is none of the two that speak of the article.
ASSUME RefusalsAssumption == Refusals \subseteq (400 .. 599) \ {423, 430}

VARIABLES
  account,        \* credentials in the server's URL: "none", "name" or "both"
  demands,        \* whether the server wants them
  welcome,        \* whether it accepts them
  probeAt,        \* "new", "reading", "ended"
  authenticated,  \* run_body_probe's flag
  commands,       \* sent by the probe, not read by the server
  lines,          \* codes of the lines sent by the server, not read by the probe
  heard,          \* history: the code of the last line read, 0 before and after the dialogue
  session,        \* the server's side: "none", "accepted", "open", "trusted", "closed"
  verdict         \* "none", "there", "missing", "error"

serverVars == <<account, demands, welcome>>
probeVars == <<serverVars, probeAt, authenticated, commands, lines, heard, session, verdict>>

\* Slip: half of the credentials will not do either.
NoLoginHalf == account # "both"

\* run_body_probe begins as authenticated where there is nothing to log in with.
NoLogin == account = "none"

ProbeInit ==
  /\ account \in {"none", "name", "both"}
  /\ demands \in BOOLEAN /\ welcome \in BOOLEAN
  /\ probeAt = "new"
  /\ authenticated = NoLogin
  /\ commands = <<>> /\ lines = <<>> /\ heard = 0
  /\ session = "none"
  /\ verdict = "none"
-----------------------------------------------------------------------------
(* The probe.                                                              *)

\* TcpStream::connect, and the handshake.
Connect ==
  /\ probeAt = "new"
  /\ probeAt' = "reading"
  /\ session' = "accepted"
  /\ UNCHANGED <<serverVars, authenticated, commands, lines, heard, verdict>>

\* The probe ends and drops its socket.
End(answer) ==
  /\ probeAt' = "ended"
  /\ verdict' = answer
  /\ session' = "closed" /\ lines' = <<>> /\ commands' = <<>> /\ heard' = 0
  /\ UNCHANGED authenticated

Write(command, rest) ==
  /\ commands' = Append(commands, command)
  /\ lines' = rest /\ heard' = Head(lines)
  /\ UNCHANGED <<probeAt, verdict, session>>

\* Slip: every refusal is one of the article.
MissingAny(code) == code \in 400 .. 499

Missing(code) == code \in {430, 423}

Greeting(code) == code \in {200, 201} /\ ~ authenticated

\* What the probe does about a line; any other code is ignored.
React(code, rest) ==
  \/ Greeting(code) /\ account = "both" /\ Write("USER", rest) /\ UNCHANGED authenticated
  \/ Greeting(code) /\ account # "both" /\ Write("BODY", rest) /\ authenticated' = TRUE
  \/ code = 381 /\ Write("PASS", rest) /\ UNCHANGED authenticated
  \/ code = 281 /\ Write("BODY", rest) /\ authenticated' = TRUE
  \/ code = 222 /\ End("there")
  \/ Missing(code) /\ End("missing")
  \/ (code \in 480 .. 489 \/ code >= 500) /\ End("error")
  \/ /\ ~ Greeting(code)
     /\ code \notin {381, 281, 222} \cup 480 .. 489 /\ ~ Missing(code) /\ code < 500
     /\ lines' = rest /\ heard' = code
     /\ UNCHANGED <<probeAt, authenticated, commands, session, verdict>>

ReadLine ==
  /\ probeAt = "reading" /\ lines # <<>>
  /\ React(Head(lines), Tail(lines))
  /\ UNCHANGED serverVars

\* The connection cannot be made, or is closed, or 5 s have passed.
ProbeFails ==
  /\ probeAt \in {"new", "reading"}
  /\ End("error")
  /\ UNCHANGED serverVars

ProbeStep == Connect \/ ReadLine \/ ProbeFails
-----------------------------------------------------------------------------
(* The server, as RFC 3977 and RFC 4643 let it answer.                     *)

Say(code) == lines' = Append(lines, code)

\* It greets, or serves nobody now and says so, as it does when it is full.
Greet(full) ==
  /\ session = "accepted"
  /\ \/ ~ full /\ (Say(200) \/ Say(201)) /\ session' = "open"
     \/ (Say(502) \/ Say(400)) /\ session' = "closed"
  /\ UNCHANGED <<serverVars, probeAt, authenticated, commands, heard, verdict>>

\* It answers the next command, for an article it has or has not: as asked, with
\* a refusal after which the session goes on, or with the end of the session.
Obey(has) ==
  /\ session \in {"open", "trusted"} /\ commands # <<>>
  /\ commands' = Tail(commands)
  /\ LET refused == demands /\ session # "trusted"
         c       == Head(commands)
     IN  \/ c = "USER" /\ Say(381) /\ UNCHANGED session
         \/ c \in {"USER", "PASS"} /\ welcome /\ Say(281) /\ session' = "trusted"
         \/ c \in {"USER", "PASS"} /\ (Say(481) \/ Say(482)) /\ UNCHANGED session
         \/ c = "BODY" /\ refused /\ Say(480) /\ UNCHANGED session
         \/ c = "BODY" /\ ~ refused /\ has /\ Say(222) /\ UNCHANGED session
         \/ c = "BODY" /\ ~ refused /\ ~ has /\ (Say(430) \/ Say(423)) /\ UNCHANGED session
         \/ \E code \in Refusals : Say(code) /\ UNCHANGED session
         \/ Say(400) /\ session' = "closed"
  /\ UNCHANGED <<serverVars, probeAt, authenticated, heard, verdict>>

HangUp ==
  /\ session \in {"open", "trusted"}
  /\ session' = "closed"
  /\ UNCHANGED <<serverVars, probeAt, authenticated, commands, lines, heard, verdict>>

ServerStep(has, full) == Greet(full) \/ Obey(has) \/ HangUp
-----------------------------------------------------------------------------
\* Refusals that are neither of the login nor of the article nor of the service:
\* the probe passes over them and sends nothing more (run_body_probe).
Passing == (400 .. 479 \cup 490 .. 499) \ {423, 430}

\* The probe and the server wait for each other until the 5 s are over only after
\* such a refusal, or where there is no user or no password at all: the flag is
\* then set before the greeting, and the probe asks for nothing.
StandoffsExplained ==
  probeAt = "reading" /\ session \in {"open", "trusted"} /\ commands = <<>> /\ lines = <<>>
    => account = "none" \/ heard \in Passing

\* A verdict on the article is the server's: "there" only of one it has, after
\* the login it demands, "missing" only of one it has not.
VerdictTrue(has) ==
  /\ verdict = "there" => has /\ (demands => account = "both" /\ welcome)
  /\ verdict = "missing" => ~ has
=============================================================================
