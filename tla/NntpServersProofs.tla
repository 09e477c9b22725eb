-------------------------- MODULE NntpServersProofs --------------------------
(***************************************************************************)
(* What fetches and probes promise, for any servers, articles and fetches. *)
(***************************************************************************)
EXTENDS NntpServers, FiniteSetTheorems, TLAPS

-----------------------------------------------------------------------------
(* The dialogue of a probe, about an article that the server has or not.    *)

\* No line, or one; no command, or one.
Lines(line) == IF line = 0 THEN <<>> ELSE <<line>>
Commands(command) == IF command = "" THEN <<>> ELSE <<command>>
Verbs == {"", "USER", "PASS", "BODY"}

\* One is not none, and is the first and the last.
LEMMA One ==
  ASSUME NEW x
  PROVE  <<x>> # <<>> /\ Head(<<x>>) = x /\ Tail(<<x>>) = <<>> /\ Append(<<>>, x) = <<x>>
  OBVIOUS

LEMMA Commanded ==
  ASSUME NEW c \in Verbs
  PROVE  /\ Commands(c) = <<>> <=> c = ""
         /\ c # "" => Head(Commands(c)) = c /\ Tail(Commands(c)) = <<>> /\ Append(<<>>, c) = Commands(c)
<1>1. CASE c = ""
  BY <1>1 DEF Commands
<1>2. CASE c # ""
  <2>1. Commands(c) = <<c>>
    BY <1>2 DEF Commands
  <2> QED
    BY <1>2, <2>1, One
<1> QED
  BY <1>1, <1>2

\* What a line may say: of the article only the truth, and 222 only where the
\* server is content with the credentials.
Honest(line, has) ==
  /\ line = 222 => has /\ (demands => account = "both" /\ welcome)
  /\ line \in {430, 423} => ~ has

\* What refuses the login, the request, or any command.
Refused == Refusals \cup {480, 481, 482}

\* The session is open, and trusted only with credentials that are welcome.
Agreed ==
  /\ account # "none"
  /\ session = "open" \/ (session = "trusted" /\ account = "both" /\ welcome)

\* Where the dialogue is while both sides are there, line and command being
\* what is under way: one of them is, unless there is nothing to log in with or a
\* refusal was passed over.
Turn(line, command) ==
  \/ session \in {"none", "accepted"} /\ line = 0 /\ command = "" /\ (authenticated <=> account = "none")
  \/ session = "open" /\ account = "none" /\ authenticated /\ line \in {0, 200, 201} /\ command = ""
  \/ session = "open" /\ account # "none" /\ ~ authenticated /\ line \in {200, 201} /\ command = ""
  \/ session = "open" /\ account = "both" /\ ~ authenticated /\ line = 0 /\ command \in {"USER", "PASS"}
  \/ session = "open" /\ account = "both" /\ ~ authenticated /\ line = 381 /\ command = ""
  \/ Agreed /\ session = "trusted" /\ ~ authenticated /\ line = 281 /\ command = ""
  \/ Agreed /\ authenticated /\ line = 0 /\ command = "BODY"
  \/ Agreed /\ authenticated /\ line \in {222, 430, 423} /\ command = ""
  \/ Agreed /\ line \in Refused /\ command = ""
  \/ Agreed /\ heard \in Passing /\ line = 0 /\ command = ""

Exchange(has) ==
  \E line \in Nat :
    /\ lines = Lines(line) /\ Honest(line, has)
    /\ session # "closed" =>
         \E command \in Verbs : commands = Commands(command) /\ Turn(line, command)

Sides ==
  /\ account \in {"none", "name", "both"}
  /\ probeAt \in {"new", "reading", "ended"}
  /\ session \in {"none", "accepted", "open", "trusted", "closed"}
  /\ demands \in BOOLEAN /\ welcome \in BOOLEAN /\ authenticated \in BOOLEAN
  /\ session = "none" <=> probeAt = "new"
  /\ probeAt = "ended" => session = "closed"
  /\ probeAt # "ended" => verdict = "none"

Dialogue(has) == Sides /\ VerdictTrue(has) /\ Exchange(has)

\* The dialogue has not begun.
LEMMA DialogueInit == ASSUME NEW has \in BOOLEAN, ProbeInit PROVE Dialogue(has)
<1>1. lines = Lines(0) /\ Honest(0, has)
  BY DEF ProbeInit, Lines, Honest
<1>2. commands = Commands("")
  BY DEF ProbeInit, Commands
<1>3. Turn(0, "")
  BY DEF ProbeInit, Turn, NoLogin
<1>4. Exchange(has)
  BY <1>1, <1>2, <1>3 DEF Exchange, Verbs
<1>5. Sides
  BY DEF ProbeInit, Sides, NoLogin
<1>6. VerdictTrue(has)
  BY DEF ProbeInit, VerdictTrue
<1> QED
  BY <1>4, <1>5, <1>6 DEF Dialogue

\* What is under way after a step makes the exchange.
LEMMA ExchangeBy ==
  ASSUME NEW has \in BOOLEAN, NEW line \in Nat, lines' = Lines(line), Honest(line, has)',
         NEW command \in Verbs,
         session' # "closed" => commands' = Commands(command) /\ Turn(line, command)'
  PROVE  Exchange(has)'
  BY DEF Exchange

\* The probe ends: what was under way is gone.
LEMMA DialogueEnds ==
  ASSUME NEW has \in BOOLEAN, Dialogue(has), NEW answer, End(answer), UNCHANGED serverVars,
         \/ answer \notin {"there", "missing"}
         \/ answer = "there" /\ has /\ (demands => account = "both" /\ welcome)
         \/ answer = "missing" /\ ~ has
  PROVE  Dialogue(has)'
<1>1. lines' = Lines(0) /\ Honest(0, has)' /\ session' = "closed"
  BY DEF End, Lines, Honest
<1>2. Exchange(has)'
  BY <1>1, ExchangeBy DEF Verbs
<1>3. Sides'
  BY DEF End, serverVars, Dialogue, Sides
<1>4. VerdictTrue(has)'
  BY DEF End, serverVars, VerdictTrue
<1> QED
  BY <1>2, <1>3, <1>4 DEF Dialogue

\* What the probe does about a line.
LEMMA DialogueReact ==
  ASSUME NEW has \in BOOLEAN, Dialogue(has), ReadLine
  PROVE  Dialogue(has)'
<1>1. PICK line \in Nat :
        /\ lines = Lines(line) /\ Honest(line, has)
        /\ session # "closed" =>
             \E command \in Verbs : commands = Commands(command) /\ Turn(line, command)
  BY DEF Dialogue, Exchange
<1>2. line # 0 /\ Head(lines) = line /\ Tail(lines) = <<>>
  BY <1>1 DEF ReadLine, Lines
<1>3. React(line, <<>>) /\ UNCHANGED <<account, demands, welcome>> /\ probeAt = "reading"
  BY <1>2 DEF ReadLine, serverVars
<1>4. Sides /\ verdict = "none" /\ session # "none" /\ VerdictTrue(has)
  BY <1>3 DEF Dialogue, Sides
<1>5. session # "closed" => Turn(line, "") /\ commands = <<>>
  <2> SUFFICES ASSUME session # "closed" PROVE Turn(line, "") /\ commands = <<>>
    OBVIOUS
  <2>1. PICK command \in Verbs : commands = Commands(command) /\ Turn(line, command)
    BY <1>1
  <2>2. command = ""
    BY <1>2, <2>1 DEF Turn
  <2> QED
    BY <2>1, <2>2 DEF Commands
<1>6. ASSUME NEW command \in Verbs,
             commands' = (IF command = "" THEN commands ELSE Append(commands, command)),
             lines' = <<>>, UNCHANGED <<probeAt, verdict, session>>, authenticated' \in BOOLEAN,
             session # "closed" => Turn(0, command)'
      PROVE  Dialogue(has)'
  <2>1. lines' = Lines(0)
    BY <1>6 DEF Lines
  <2>2. Honest(0, has)'
    BY DEF Honest
  <2>3. session' # "closed" => commands' = Commands(command)
    BY <1>5, <1>6, Commanded
  <2>4. Exchange(has)'
    BY <1>6, <2>1, <2>2, <2>3, ExchangeBy
  <2>5. Sides'
    BY <1>3, <1>4, <1>6 DEF Sides
  <2>6. VerdictTrue(has)'
    BY <1>3, <1>4, <1>6 DEF VerdictTrue
  <2> QED
    BY <2>4, <2>5, <2>6 DEF Dialogue
<1>7. CASE line = 222 /\ End("there")
  <2>1. Honest(222, has)
    BY <1>1, <1>7
  <2>2. has /\ (demands => account = "both" /\ welcome)
    BY <2>1 DEF Honest
  <2>3. End("there") /\ UNCHANGED serverVars
    BY <1>3, <1>7 DEF serverVars
  <2> QED
    BY <2>2, <2>3, DialogueEnds
<1>8. CASE Missing(line) /\ End("missing")
  BY <1>1, <1>3, <1>8, DialogueEnds DEF Honest, Missing, serverVars
<1>9. CASE End("error")
  BY <1>3, <1>9, DialogueEnds DEF serverVars
<1>10. CASE Greeting(line) /\ account = "both" /\ Write("USER", <<>>) /\ UNCHANGED authenticated
  <2>1. session # "closed" => Turn(0, "USER")'
    BY <1>2, <1>3, <1>4, <1>5, <1>10, RefusalsAssumption DEF Refused, Greeting, Write, Turn, Agreed, Sides
  <2> QED
    BY <1>4, <1>6, <1>10, <2>1 DEF Write, Verbs, Sides
<1>11. CASE ((Greeting(line) /\ account # "both") \/ line = 281) /\ Write("BODY", <<>>) /\ authenticated' = TRUE
  <2>1. session # "closed" => Turn(0, "BODY")'
    BY <1>2, <1>3, <1>4, <1>5, <1>11, RefusalsAssumption DEF Refused, Greeting, Write, Turn, Agreed, Sides
  <2> QED
    BY <1>4, <1>6, <1>11, <2>1 DEF Write, Verbs, Sides
<1>12. CASE line = 381 /\ Write("PASS", <<>>) /\ UNCHANGED authenticated
  <2>1. session # "closed" => Turn(0, "PASS")'
    BY <1>2, <1>3, <1>4, <1>5, <1>12, RefusalsAssumption DEF Refused, Write, Turn, Agreed, Sides
  <2> QED
    BY <1>4, <1>6, <1>12, <2>1 DEF Write, Verbs, Sides
<1>13. CASE /\ ~ Greeting(line)
            /\ line \notin {381, 281, 222} \cup 480 .. 489 /\ ~ Missing(line) /\ line < 500
            /\ lines' = <<>> /\ heard' = line
            /\ UNCHANGED <<probeAt, authenticated, commands, session, verdict>>
  <2>1. session # "closed" => Turn(0, "")'
    BY <1>2, <1>3, <1>4, <1>5, <1>13, RefusalsAssumption DEF Refused, Greeting, Missing, Turn, Agreed, Passing, Sides
  <2> QED
    BY <1>4, <1>6, <1>13, <2>1 DEF Verbs, Sides
<1>14. \/ Greeting(line) /\ account = "both" /\ Write("USER", <<>>) /\ UNCHANGED authenticated
       \/ ((Greeting(line) /\ account # "both") \/ line = 281) /\ Write("BODY", <<>>) /\ authenticated' = TRUE
       \/ line = 381 /\ Write("PASS", <<>>) /\ UNCHANGED authenticated
       \/ line = 222 /\ End("there")
       \/ Missing(line) /\ End("missing")
       \/ End("error")
       \/ /\ ~ Greeting(line)
          /\ line \notin {381, 281, 222} \cup 480 .. 489 /\ ~ Missing(line) /\ line < 500
          /\ lines' = <<>> /\ heard' = line
          /\ UNCHANGED <<probeAt, authenticated, commands, session, verdict>>
  BY <1>3 DEF React
<1> QED
  BY <1>14, <1>7, <1>8, <1>9, <1>10, <1>11, <1>12, <1>13

\* What the probe does.
LEMMA DialogueProbe ==
  ASSUME NEW has \in BOOLEAN, Dialogue(has), ProbeStep
  PROVE  Dialogue(has)'
<1>1. CASE Connect
  <2>1. PICK line \in Nat :
          /\ lines = Lines(line) /\ Honest(line, has)
          /\ session # "closed" =>
               \E command \in Verbs : commands = Commands(command) /\ Turn(line, command)
    BY DEF Dialogue, Exchange
  <2>2. session = "none" /\ session' = "accepted"
        /\ UNCHANGED <<account, demands, welcome, authenticated, commands, lines, verdict>>
    BY <1>1 DEF Connect, serverVars, Dialogue, Sides
  <2>3. PICK command \in Verbs : commands = Commands(command) /\ Turn(line, command)
    BY <2>1, <2>2
  <2>4. Turn(line, command)'
    BY <2>2, <2>3 DEF Turn, Agreed
  <2>5. Honest(line, has)'
    BY <2>1, <2>2 DEF Honest
  <2>6. Exchange(has)'
    BY <2>1, <2>2, <2>3, <2>4, <2>5, ExchangeBy
  <2>7. Sides'
    BY <1>1, <2>2 DEF Connect, Dialogue, Sides
  <2>8. VerdictTrue(has)'
    BY <2>2 DEF Dialogue, VerdictTrue
  <2> QED
    BY <2>6, <2>7, <2>8 DEF Dialogue
<1>2. CASE ProbeFails
  BY <1>2, DialogueEnds DEF ProbeFails
<1> QED
  BY <1>1, <1>2, DialogueReact DEF ProbeStep

\* What the server does, for an article it has or not, full or not.
LEMMA DialogueServer ==
  ASSUME NEW has \in BOOLEAN, NEW full \in BOOLEAN, Dialogue(has), ServerStep(has, full)
  PROVE  Dialogue(has)'
<1>1. PICK line \in Nat :
        /\ lines = Lines(line) /\ Honest(line, has)
        /\ session # "closed" =>
             \E command \in Verbs : commands = Commands(command) /\ Turn(line, command)
  BY DEF Dialogue, Exchange
<1>2. ASSUME NEW said \in Nat \ {0}, Say(said), line = 0,
             UNCHANGED <<account, demands, welcome, probeAt, authenticated, verdict>>,
             session' \in {"open", "trusted", "closed"}, session # "none", probeAt # "ended",
             Honest(said, has),
             session' # "closed" => commands' = <<>> /\ Turn(said, "")'
      PROVE  Dialogue(has)'
  <2>1. lines' = Lines(said)
    <3>1. lines = <<>> /\ lines' = Append(lines, said)
      BY <1>1, <1>2 DEF Say, Lines
    <3> QED
      BY <3>1, <1>2, One DEF Lines
  <2>2. Honest(said, has)'
    BY <1>2 DEF Honest
  <2>3. session' # "closed" => commands' = Commands("")
    BY <1>2 DEF Commands
  <2>4. Exchange(has)'
    BY <1>2, <2>1, <2>2, <2>3, ExchangeBy DEF Verbs
  <2>5. Sides'
    BY <1>2 DEF Dialogue, Sides
  <2>6. VerdictTrue(has)'
    BY <1>2 DEF Dialogue, VerdictTrue
  <2> QED
    BY <2>4, <2>5, <2>6 DEF Dialogue
<1>3. CASE Greet(full)
  <2>1. session = "accepted" /\ probeAt # "ended" /\ Sides
    BY <1>3 DEF Greet, Dialogue, Sides
  <2>2. PICK command \in Verbs : commands = Commands(command) /\ Turn(line, command)
    BY <1>1, <2>1
  <2>3. line = 0 /\ command = "" /\ (authenticated <=> account = "none")
    BY <2>1, <2>2 DEF Turn, Agreed
  <2>4. commands = <<>>
    BY <2>2, <2>3 DEF Commands
  <2>5. PICK said \in {200, 201, 502, 400} :
          Say(said) /\ ((said \in {200, 201} /\ session' = "open") \/ (said \in {502, 400} /\ session' = "closed"))
          /\ UNCHANGED <<account, demands, welcome, probeAt, authenticated, commands, verdict>>
    BY <1>3 DEF Greet, serverVars
  <2>6. session' # "closed" => Turn(said, "")'
    BY <2>1, <2>3, <2>5 DEF Turn, Agreed, Sides
  <2>7. Honest(said, has)
    BY <2>5 DEF Honest
  <2>8. said \in Nat \ {0} /\ session' \in {"open", "trusted", "closed"} /\ session # "none"
    BY <2>1, <2>5
  <2> QED
    BY <1>2, <2>1, <2>3, <2>4, <2>5, <2>6, <2>7, <2>8
<1>4. CASE HangUp
  <2>1. UNCHANGED <<account, demands, welcome, probeAt, authenticated, commands, lines, verdict>>
        /\ session' = "closed" /\ session \in {"open", "trusted"}
    BY <1>4 DEF HangUp, serverVars
  <2>2. Honest(line, has)'
    BY <1>1, <2>1 DEF Honest
  <2>3. Exchange(has)'
    BY <1>1, <2>1, <2>2, ExchangeBy DEF Verbs
  <2>4. Sides'
    BY <2>1 DEF Dialogue, Sides
  <2>5. VerdictTrue(has)'
    BY <2>1 DEF Dialogue, VerdictTrue
  <2> QED
    BY <2>3, <2>4, <2>5 DEF Dialogue
<1>5. CASE Obey(has)
  <2>1. session \in {"open", "trusted"} /\ commands # <<>> /\ commands' = Tail(commands)
        /\ UNCHANGED <<account, demands, welcome, probeAt, authenticated, verdict>>
    BY <1>5 DEF Obey, serverVars
  <2>2. PICK command \in Verbs : commands = Commands(command) /\ Turn(line, command)
    BY <1>1, <2>1
  <2>3. command # "" /\ Head(commands) = command /\ commands' = <<>>
    BY <2>1, <2>2, Commanded
  <2>4. line = 0 /\ probeAt # "ended" /\ Sides
    BY <2>1, <2>2, <2>3 DEF Turn, Dialogue, Sides
  <2>5. Turn(0, command)
    BY <2>2, <2>4
  <2>6. ASSUME NEW said \in Nat \ {0}, Say(said), session' \in {"open", "trusted"},
               Honest(said, has), Turn(said, "")'
        PROVE  Dialogue(has)'
    BY <1>2, <2>1, <2>3, <2>4, <2>6
  <2>7. account # "none" /\ Agreed
    BY <2>1, <2>4, <2>5, <2>3 DEF Turn, Agreed, Sides
  <2>8. ASSUME NEW said \in Refused, Say(said), UNCHANGED session
        PROVE  Dialogue(has)'
    <3>1. said \in Nat \ {0} /\ said \notin {222, 430, 423}
      BY <2>8, RefusalsAssumption DEF Refused
    <3>2. Honest(said, has)
      BY <3>1 DEF Honest
    <3>3. Turn(said, "")'
      BY <2>1, <2>7, <2>8 DEF Turn, Agreed
    <3>4. session' \in {"open", "trusted"}
      BY <2>1, <2>8
    <3> QED
      BY <2>6, <2>8, <3>1, <3>2, <3>3, <3>4, Zenon
  <2>9. CASE Say(400) /\ session' = "closed"
    <3>1. Honest(400, has)
      BY DEF Honest
    <3> QED
      BY <1>2, <2>1, <2>4, <2>9, <3>1 DEF Sides
  <2>10. CASE command = "USER" /\ Say(381) /\ session' = session
    <3>1. Turn(0, "USER")
      BY <2>5, <2>10
    <3>2. Turn(381, "")' /\ Honest(381, has)
      BY <2>1, <2>10, <3>1 DEF Turn, Honest
    <3>3. session' \in {"open", "trusted"} /\ 381 \in Nat \ {0} /\ Say(381)
      BY <2>1, <2>10
    <3> QED
      BY <2>6, <3>2, <3>3, Zenon
  <2>11. CASE command \in {"USER", "PASS"} /\ welcome /\ Say(281) /\ session' = "trusted"
    <3>1. account = "both" /\ ~ authenticated
      BY <2>5, <2>11 DEF Turn
    <3>2. Turn(281, "")' /\ Honest(281, has)
      BY <2>1, <2>11, <3>1 DEF Turn, Agreed, Honest
    <3>3. session' \in {"open", "trusted"} /\ 281 \in Nat \ {0} /\ Say(281)
      BY <2>11
    <3> QED
      BY <2>6, <3>2, <3>3, Zenon
  <2>12. CASE /\ command = "BODY" /\ session' = session
              /\ \/ Say(222) /\ has /\ (demands => session = "trusted")
                 \/ Say(430) /\ ~ has
                 \/ Say(423) /\ ~ has
    <3>1. authenticated
      BY <2>5, <2>12 DEF Turn
    <3>2. PICK said \in {222, 430, 423} : Say(said) /\ Honest(said, has)
      BY <2>7, <2>12 DEF Honest, Agreed
    <3>3. Turn(said, "")'
      BY <2>1, <2>7, <2>12, <3>1 DEF Turn, Agreed
    <3>4. session' \in {"open", "trusted"} /\ said \in Nat \ {0}
      BY <2>1, <2>12
    <3> QED
      BY <2>6, <3>2, <3>3, <3>4, Zenon
  <2>13. \/ \E said \in Refused : Say(said) /\ UNCHANGED session
         \/ Say(400) /\ session' = "closed"
         \/ command = "USER" /\ Say(381) /\ session' = session
         \/ command \in {"USER", "PASS"} /\ welcome /\ Say(281) /\ session' = "trusted"
         \/ /\ command = "BODY" /\ session' = session
            /\ \/ Say(222) /\ has /\ (demands => session = "trusted")
               \/ Say(430) /\ ~ has
               \/ Say(423) /\ ~ has
    <3> DEFINE Answers(c) ==
                 \/ c = "USER" /\ Say(381) /\ UNCHANGED session
                 \/ c \in {"USER", "PASS"} /\ welcome /\ Say(281) /\ session' = "trusted"
                 \/ c \in {"USER", "PASS"} /\ (Say(481) \/ Say(482)) /\ UNCHANGED session
                 \/ c = "BODY" /\ (demands /\ session # "trusted") /\ Say(480) /\ UNCHANGED session
                 \/ c = "BODY" /\ ~ (demands /\ session # "trusted") /\ has /\ Say(222) /\ UNCHANGED session
                 \/ /\ c = "BODY" /\ ~ (demands /\ session # "trusted") /\ ~ has
                    /\ (Say(430) \/ Say(423)) /\ UNCHANGED session
                 \/ \E code \in Refusals : Say(code) /\ UNCHANGED session
                 \/ Say(400) /\ session' = "closed"
    <3>1. Answers(command)
      <4>1. Answers(Head(commands))
        BY <1>5 DEF Obey
      <4> HIDE DEF Answers
      <4> QED
        BY <2>3, <4>1
    <3>2. 480 \in Refused /\ 481 \in Refused /\ 482 \in Refused
      BY DEF Refused
    <3>3. \A code \in Refusals : code \in Refused
      BY DEF Refused
    <3> QED
      BY <3>1, <3>2, <3>3, Zenon
  <2> QED
    BY <2>8, <2>9, <2>10, <2>11, <2>12, <2>13
<1> QED
  BY <1>3, <1>4, <1>5 DEF ServerStep

\* A dialogue that is right explains its standoffs, and its verdict is true.
LEMMA DialoguePromises ==
  ASSUME NEW has \in BOOLEAN, Dialogue(has)
  PROVE  StandoffsExplained /\ VerdictTrue(has)
<1> SUFFICES ASSUME session \in {"open", "trusted"}, commands = <<>>, lines = <<>>
    PROVE  account = "none" \/ heard \in Passing
  BY DEF Dialogue, StandoffsExplained
<1>1. PICK line \in Nat, command \in Verbs :
        lines = Lines(line) /\ commands = Commands(command) /\ Turn(line, command)
  BY DEF Dialogue, Exchange
<1>2. line = 0
  BY <1>1 DEF Lines
<1>3. command = ""
  BY <1>1, Commanded
<1> QED
  <2>1. Turn(0, "")
    BY <1>1, <1>2, <1>3
  <2> QED
    BY <2>1, RefusalsAssumption DEF Refused, Turn, Agreed
-----------------------------------------------------------------------------
(* A probe is about one article of one server, which never change.          *)

Talks == \E has \in BOOLEAN : (has <=> probed.article \in holds[probed.server]) /\ Dialogue(has)

LEMMA TalksInit == ASSUME Init PROVE Talks
<1>1. PICK has \in BOOLEAN : has <=> probed.article \in holds[probed.server]
  OBVIOUS
<1>2. Dialogue(has)
  BY DialogueInit DEF Init
<1> QED
  BY <1>1, <1>2 DEF Talks

\* What the fetches and the pools do is nothing to the dialogue.
LEMMA TalksNext == ASSUME Talks, [Next]_vars PROVE Talks'
<1>1. PICK has \in BOOLEAN : (has <=> probed.article \in holds[probed.server]) /\ Dialogue(has)
  BY DEF Talks
<1>2. UNCHANGED <<holds, probed>>
  BY DEF Next, vars, poolVars, articleVars, FetchStep, Begin, Acquire, AcquireFails, Deliver, Decline,
         Break, Timeout, Abort, Expire, Probe
<1>3. (has <=> probed.article \in holds[probed.server])'
  BY <1>1, <1>2
<1>4. CASE UNCHANGED probeVars
  <2>1. Dialogue(has)'
    <3>1. UNCHANGED <<account, demands, welcome, probeAt, authenticated, commands, lines, heard, session, verdict>>
      BY <1>4 DEF probeVars, serverVars
    <3>2. Sides' /\ VerdictTrue(has)'
      BY <1>1, <3>1 DEF Dialogue, Sides, VerdictTrue
    <3>3. ASSUME NEW line \in Nat PROVE Honest(line, has) => Honest(line, has)'
      BY <3>1 DEF Honest
    <3>4. ASSUME NEW line \in Nat, NEW command \in Verbs PROVE Turn(line, command) => Turn(line, command)'
      <4>1. Agreed => Agreed'
        BY <3>1 DEF Agreed
      <4>2. heard \in Passing => heard' \in Passing
        BY <3>1
      <4> QED
        BY <3>1, <4>1, <4>2 DEF Turn
    <3>5. Exchange(has)'
      BY <1>1, <3>1, <3>3, <3>4 DEF Dialogue, Exchange
    <3> QED
      BY <3>2, <3>5 DEF Dialogue
  <2> QED
    BY <1>3, <2>1 DEF Talks
<1>5. CASE Probe
  <2>1. CASE ProbeStep
    BY <1>1, <1>3, <2>1, DialogueProbe DEF Talks
  <2>2. CASE ServerStep(probed.article \in holds[probed.server], Open(probed.server) > Admitted[probed.server])
    <3>1. PICK full \in BOOLEAN : full <=> Open(probed.server) > Admitted[probed.server]
      OBVIOUS
    <3>2. ServerStep(has, full)
      BY <1>1, <2>2, <3>1 DEF ServerStep, Obey, Greet
    <3> QED
      BY <1>1, <1>3, <3>2, DialogueServer DEF Talks
  <2> QED
    BY <1>5, <2>1, <2>2 DEF Probe
<1> QED
  BY <1>4, <1>5 DEF Next, vars, FetchStep, Begin, Acquire, AcquireFails, Deliver, Decline,
                    Break, Timeout, Abort, Expire

\* The dialogue is right throughout.
LEMMA DialogueHolds == Spec => [](StandoffsExplained /\ ProbeTrue)
<1>1. Init => Talks
  BY TalksInit
<1>2. Talks /\ [Next]_vars => Talks'
  BY TalksNext
<1>3. Talks => StandoffsExplained /\ ProbeTrue
  <2> SUFFICES ASSUME Talks PROVE StandoffsExplained /\ ProbeTrue
    OBVIOUS
  <2>1. PICK has \in BOOLEAN : (has <=> probed.article \in holds[probed.server]) /\ Dialogue(has)
    BY DEF Talks
  <2>2. StandoffsExplained /\ VerdictTrue(has)
    BY <2>1, DialoguePromises
  <2> QED
    BY <2>1, <2>2 DEF VerdictTrue, ProbeTrue
<1> QED
  BY <1>1, <1>2, <1>3, PTL DEF Spec

\* A probe and its server wait for each other only after a refusal that is passed
\* over, or where there is no user or no password at all; a login that is asked
\* for, accepted at once or refused leaves nobody waiting (run_body_probe).
THEOREM StandoffsAreExplained == Spec => []StandoffsExplained
  BY DialogueHolds, PTL

\* A verdict on an article is true, whichever refusals the server answers the
\* login or the request with, and wherever it hangs up (run_body_probe).
THEOREM ProbesSpeakTrue == Spec => []ProbeTrue
  BY DialogueHolds, PTL
-----------------------------------------------------------------------------
(* A fetch on its walk.                                                     *)

Among(s, q) == \E i \in DOMAIN q : q[i] = s

\* Where a fetch is on its walk over the servers.
Walks(t) ==
  /\ at[t] \in {"acquiring", "fetching"} => order[t] # <<>>
  /\ at[t] = "failed" => order[t] = <<>>
  /\ at[t] = "new" => tried[t] = <<>>
  /\ at[t] # "new" =>
       /\ Len(tried[t]) + Len(order[t]) = NumServers
       /\ \A s \in Servers : Among(s, tried[t]) \/ Among(s, order[t])

\* On the connection of a fetch nothing is under way but its article.
Alone(t) ==
  /\ conn[t] = (IF at[t] = "fetching" THEN <<wanted[t]>> ELSE Closed)
  /\ got[t] \in {Nothing, wanted[t]}

\* The permits lent are those of the fetches that hold a connection, and with the
\* idle connections they keep to the limit.
Pooled(s) == lent[s] = Cardinality(Holders(s)) /\ lent[s] + Len(idle[s]) <= Connections[s]

\* What a fetch holds it gives back: the permit, and the connection if it is still good.
GivesBack(t) ==
  \/ at[t] # "fetching" /\ UNCHANGED <<idle, lent>>
  \/ /\ at[t] = "fetching" /\ lent' = [lent EXCEPT ![Head(order[t])] = @ - 1]
     /\ UNCHANGED idle \/ idle' = [idle EXCEPT ![Head(order[t])] = Append(@, Closed)]

Fetching ==
  /\ holds \in [Servers -> SUBSET Articles] /\ wanted \in [Fetches -> Articles]
  /\ at \in [Fetches -> {"new", "acquiring", "fetching", "done", "failed", "gone"}]
  /\ order \in [Fetches -> Seq(Servers)] /\ tried \in [Fetches -> Seq(Servers)]
  /\ conn \in [Fetches -> Seq(Articles)] /\ got \in [Fetches -> Articles \cup {Nothing}]
  /\ idle \in [Servers -> Seq({Closed})] /\ lent \in [Servers -> Nat]
  /\ \A t \in Fetches : Walks(t) /\ Alone(t)
  /\ \A s \in Servers : Pooled(s)

\* Every server occurs in a walk, and there are as many steps as servers.
LEMMA WalkAll ==
  ASSUME NEW preferred \in Servers
  PROVE  /\ Walk(preferred) \in Seq(Servers) /\ Len(Walk(preferred)) = NumServers
         /\ Walk(preferred) # <<>>
         /\ \A s \in Servers : Among(s, Walk(preferred))
<1> DEFINE w == [i \in Servers |-> IF i = preferred THEN 1 ELSE IF i = 1 THEN preferred ELSE i]
<1>1. Walk(preferred) = w
  BY ServersAssumption DEF Walk, Servers
<1>2. w \in Seq(Servers) /\ Len(w) = NumServers
  BY ServersAssumption DEF Servers
<1>3. ASSUME NEW s \in Servers PROVE Among(s, w)
  <2>1. CASE s = preferred
    <3>1. 1 \in DOMAIN w /\ w[1] = s
      BY <2>1, ServersAssumption DEF Servers
    <3> QED
      BY <3>1 DEF Among
  <2>2. CASE s = 1
    <3>1. preferred \in DOMAIN w /\ w[preferred] = s
      BY <2>2
    <3> QED
      BY <3>1 DEF Among
  <2>3. CASE s # 1 /\ s # preferred
    <3>1. s \in DOMAIN w /\ w[s] = s
      BY <2>3
    <3> QED
      BY <3>1 DEF Among
  <2> QED
    BY <2>1, <2>2, <2>3
<1>4. w # <<>>
  BY <1>2, ServersAssumption
<1> QED
  BY <1>1, <1>2, <1>3, <1>4

\* The step to the next server loses none.
LEMMA WalkOn ==
  ASSUME NEW done \in Seq(Servers), NEW todo \in Seq(Servers), todo # <<>>
  PROVE  /\ Append(done, Head(todo)) \in Seq(Servers) /\ Tail(todo) \in Seq(Servers)
         /\ Len(Append(done, Head(todo))) + Len(Tail(todo)) = Len(done) + Len(todo)
         /\ Len(todo) > 1 <=> Tail(todo) # <<>>
         /\ \A s \in Servers : Among(s, done) \/ Among(s, todo) =>
              Among(s, Append(done, Head(todo))) \/ Among(s, Tail(todo))
<1>1. /\ Append(done, Head(todo)) \in Seq(Servers) /\ Tail(todo) \in Seq(Servers)
      /\ Len(Append(done, Head(todo))) + Len(Tail(todo)) = Len(done) + Len(todo)
      /\ Len(todo) > 1 <=> Tail(todo) # <<>>
  <2>1. Tail(todo) \in Seq(Servers) /\ Len(Tail(todo)) = Len(todo) - 1 /\ Head(todo) \in Servers
    OBVIOUS
  <2>2. Append(done, Head(todo)) \in Seq(Servers) /\ Len(Append(done, Head(todo))) = Len(done) + 1
    BY <2>1
  <2>3. Tail(todo) = <<>> <=> Len(Tail(todo)) = 0
    BY <2>1
  <2>4. Len(todo) \in Nat /\ Len(done) \in Nat
    OBVIOUS
  <2> QED
    BY <2>1, <2>2, <2>3, <2>4
<1>2. ASSUME NEW s \in Servers, Among(s, done) PROVE Among(s, Append(done, Head(todo)))
  <2>1. PICK i \in 1..Len(done) : done[i] = s
    BY <1>2 DEF Among
  <2>2. i \in DOMAIN Append(done, Head(todo)) /\ Append(done, Head(todo))[i] = s
    BY <2>1
  <2> QED
    BY <2>2 DEF Among
<1>3. ASSUME NEW s \in Servers, Among(s, todo)
      PROVE  Among(s, Append(done, Head(todo))) \/ Among(s, Tail(todo))
  <2>1. PICK i \in 1..Len(todo) : todo[i] = s
    BY <1>3 DEF Among
  <2>2. CASE i = 1
    <3>1. Len(done) + 1 \in DOMAIN Append(done, Head(todo)) /\ Append(done, Head(todo))[Len(done) + 1] = s
      BY <2>1, <2>2
    <3> QED
      BY <3>1 DEF Among
  <2>3. CASE i # 1
    <3>1. i - 1 \in DOMAIN Tail(todo) /\ Tail(todo)[i - 1] = s
      BY <2>1, <2>3
    <3> QED
      BY <3>1 DEF Among
  <2> QED
    BY <2>2, <2>3
<1> QED
  BY <1>1, <1>2, <1>3
-----------------------------------------------------------------------------
(* The connections in use.                                                  *)

LEMMA Holding ==
  ASSUME Fetching, NEW t \in Fetches, NEW s \in Servers
  PROVE  /\ Cardinality(Holders(s)) \in Nat /\ Connections[s] \in Nat /\ Len(idle[s]) \in Nat
         /\ Cardinality(Holders(s) \ {t}) =
              IF at[t] = "fetching" /\ Head(order[t]) = s THEN Cardinality(Holders(s)) - 1
                                                         ELSE Cardinality(Holders(s))
         /\ Cardinality(Holders(s) \cup {t}) =
              IF at[t] = "fetching" /\ Head(order[t]) = s THEN Cardinality(Holders(s))
                                                         ELSE Cardinality(Holders(s)) + 1
<1>1. IsFiniteSet(Holders(s))
  BY FS_Subset, ServersAssumption DEF Holders
<1>2. t \in Holders(s) <=> at[t] = "fetching" /\ Head(order[t]) = s
  BY DEF Holders
<1>3. Cardinality(Holders(s)) \in Nat
  BY <1>1, FS_CardinalityType
<1>4. Connections[s] \in Nat /\ Len(idle[s]) \in Nat
  BY ServersAssumption DEF Fetching
<1> QED
  BY <1>1, <1>2, <1>3, <1>4, FS_AddElement, FS_RemoveElement

\* What a step of one fetch does to them.
LEMMA HoldsOne ==
  ASSUME Fetching, NEW t \in Fetches, NEW a, NEW o,
         at' = [at EXCEPT ![t] = a], order' = [order EXCEPT ![t] = o], NEW s \in Servers
  PROVE  Holders(s)' = IF a = "fetching" /\ Head(o) = s THEN Holders(s) \cup {t} ELSE Holders(s) \ {t}
<1>1. /\ at'[t] = a /\ order'[t] = o
      /\ \A u \in Fetches \ {t} : at'[u] = at[u] /\ order'[u] = order[u]
  BY DEF Fetching
<1>2. \A u : u \in Holders(s)' <=> u \in Fetches /\ at'[u] = "fetching" /\ Head(order'[u]) = s
  BY DEF Holders
<1>3. \A u : u \in Holders(s) <=> u \in Fetches /\ at[u] = "fetching" /\ Head(order[u]) = s
  BY DEF Holders
<1> QED
  BY <1>1, <1>2, <1>3, Zenon

\* A step of one fetch that is right for it and for the pools is right.
LEMMA FetchingBy ==
  ASSUME Fetching, UNCHANGED articleVars, NEW t \in Fetches,
         NEW a \in {"new", "acquiring", "fetching", "done", "failed", "gone"}, at' = [at EXCEPT ![t] = a],
         NEW o \in Seq(Servers), order' = [order EXCEPT ![t] = o],
         NEW d \in Seq(Servers), tried' = [tried EXCEPT ![t] = d],
         NEW c \in Seq(Articles), conn' = [conn EXCEPT ![t] = c],
         NEW g \in Articles \cup {Nothing}, got' = [got EXCEPT ![t] = g],
         idle' \in [Servers -> Seq({Closed})], lent' \in [Servers -> Nat],
         Walks(t)', Alone(t)',
         \A s \in Servers : Pooled(s)'
  PROVE  Fetching'
<1>1. /\ (holds \in [Servers -> SUBSET Articles] /\ wanted \in [Fetches -> Articles])'
      /\ (at \in [Fetches -> {"new", "acquiring", "fetching", "done", "failed", "gone"}])'
      /\ (order \in [Fetches -> Seq(Servers)] /\ tried \in [Fetches -> Seq(Servers)])'
      /\ (conn \in [Fetches -> Seq(Articles)] /\ got \in [Fetches -> Articles \cup {Nothing}])'
  BY DEF Fetching, articleVars
<1>2. ASSUME NEW u \in Fetches PROVE Walks(u)' /\ Alone(u)'
  <2>1. CASE u = t
    BY <2>1
  <2>2. CASE u # t
    <3>1. /\ at'[u] = at[u] /\ order'[u] = order[u] /\ tried'[u] = tried[u] /\ conn'[u] = conn[u]
          /\ got'[u] = got[u] /\ wanted'[u] = wanted[u]
      BY <2>2 DEF Fetching, articleVars
    <3>2. Walks(u) /\ Alone(u)
      BY DEF Fetching
    <3> QED
      BY <3>1, <3>2 DEF Walks, Alone
  <2> QED
    BY <2>1, <2>2
<1> QED
  BY <1>1, <1>2 DEF Fetching
-----------------------------------------------------------------------------
(* The steps of the fetches.                                                *)

\* A connection given back is idle, instead of in use.
LEMMA Returned ==
  ASSUME Fetching, NEW t \in Fetches,
         NEW a \in {"acquiring", "done", "failed", "gone"}, at' = [at EXCEPT ![t] = a],
         NEW o, order' = [order EXCEPT ![t] = o], GivesBack(t)
  PROVE  /\ idle' \in [Servers -> Seq({Closed})] /\ lent' \in [Servers -> Nat]
         /\ \A s \in Servers : Pooled(s)'
<1>1. at[t] = "fetching" => Head(order[t]) \in Servers
  BY DEF Fetching, Walks
<1>2. idle' \in [Servers -> Seq({Closed})]
  <2>1. idle \in [Servers -> Seq({Closed})]
    BY DEF Fetching
  <2>2. \A s \in Servers : Append(idle[s], Closed) \in Seq({Closed})
    BY <2>1
  <2> QED
    BY <1>1, <2>1, <2>2 DEF GivesBack
<1>3. ASSUME NEW s \in Servers PROVE Pooled(s)' /\ lent'[s] \in Nat
  <2>1. Holders(s)' = Holders(s) \ {t}
    BY HoldsOne
  <2>2. IF at[t] = "fetching" /\ Head(order[t]) = s
        THEN lent'[s] = lent[s] - 1 /\ Len(idle'[s]) \in {Len(idle[s]), Len(idle[s]) + 1}
        ELSE lent'[s] = lent[s] /\ Len(idle'[s]) = Len(idle[s])
    BY <1>1 DEF Fetching, GivesBack
  <2>3. lent[s] = Cardinality(Holders(s)) /\ lent[s] + Len(idle[s]) <= Connections[s]
    BY DEF Fetching, Pooled
  <2>4. /\ Cardinality(Holders(s)) \in Nat /\ Connections[s] \in Nat /\ Len(idle[s]) \in Nat
        /\ Cardinality(Holders(s) \ {t}) =
             IF at[t] = "fetching" /\ Head(order[t]) = s THEN Cardinality(Holders(s)) - 1
                                                        ELSE Cardinality(Holders(s))
    BY Holding
  <2>5. lent'[s] = Cardinality(Holders(s) \ {t}) /\ lent'[s] + Len(idle'[s]) <= Connections[s]
    BY <2>2, <2>3, <2>4
  <2>6. Cardinality(Holders(s) \ {t}) \in Nat
    BY FS_Subset, FS_CardinalityType, ServersAssumption DEF Holders
  <2> QED
    BY <2>1, <2>5, <2>6 DEF Pooled
<1>4. lent' \in [Servers -> Nat]
  <2>1. lent' = [s \in Servers |-> lent'[s]]
    BY <1>1 DEF Fetching, GivesBack
  <2> QED
    BY <1>3, <2>1
<1> QED
  BY <1>2, <1>3, <1>4

\* A server is given up.
LEMMA GivenUp ==
  ASSUME Fetching, NEW t \in Fetches, at[t] \in {"acquiring", "fetching"}, NextServer(t),
         UNCHANGED articleVars, UNCHANGED got, conn' = [conn EXCEPT ![t] = Closed], GivesBack(t)
  PROVE  Fetching'
<1> DEFINE a == IF Len(order[t]) > 1 THEN "acquiring" ELSE "failed"
           o == Tail(order[t])
           d == Append(tried[t], Head(order[t]))
<1>1. at' = [at EXCEPT ![t] = a] /\ order' = [order EXCEPT ![t] = o] /\ tried' = [tried EXCEPT ![t] = d]
  BY DEF NextServer, Fetching
<1>2. /\ order[t] \in Seq(Servers) /\ tried[t] \in Seq(Servers) /\ order[t] # <<>>
      /\ Len(tried[t]) + Len(order[t]) = NumServers
      /\ \A s \in Servers : Among(s, tried[t]) \/ Among(s, order[t])
  BY DEF Fetching, Walks
<1>3. /\ d \in Seq(Servers) /\ o \in Seq(Servers) /\ Len(d) + Len(o) = NumServers
      /\ Len(order[t]) > 1 <=> o # <<>>
      /\ \A s \in Servers : Among(s, d) \/ Among(s, o)
  BY <1>2, WalkOn
<1>4. a \in {"acquiring", "failed"} /\ (a = "acquiring" => o # <<>>) /\ (a = "failed" => o = <<>>)
  BY <1>3
<1>5. at'[t] = a /\ order'[t] = o /\ tried'[t] = d /\ conn'[t] = Closed /\ got'[t] = got[t] /\ wanted'[t] = wanted[t]
  BY <1>1 DEF Fetching, articleVars
<1>6. Walks(t)'
  <2> HIDE DEF a, o, d
  <2> QED
    BY <1>3, <1>4, <1>5 DEF Walks
<1>7. Alone(t)'
  <2> HIDE DEF a, o, d
  <2> QED
    BY <1>4, <1>5 DEF Fetching, Alone
<1>8. idle' \in [Servers -> Seq({Closed})] /\ lent' \in [Servers -> Nat] /\ \A s \in Servers : Pooled(s)'
  <2> HIDE DEF a, o, d
  <2> QED
    BY <1>1, <1>4, Returned
<1>9. got' = [got EXCEPT ![t] = got[t]] /\ got[t] \in Articles \cup {Nothing} /\ Closed \in Seq(Articles)
  BY DEF Fetching, Closed
<1> HIDE DEF a, o, d
<1> QED
  BY <1>1, <1>3, <1>4, <1>6, <1>7, <1>8, <1>9, FetchingBy

\* The walk begins.
LEMMA FetchingBegin == ASSUME Fetching, NEW t \in Fetches, Begin(t) PROVE Fetching'
<1>1. PICK preferred \in Servers : order' = [order EXCEPT ![t] = Walk(preferred)]
  BY DEF Begin
<1>2. /\ at[t] = "new" /\ at' = [at EXCEPT ![t] = "acquiring"]
      /\ UNCHANGED <<articleVars, tried, conn, idle, lent, got>>
  BY DEF Begin
<1>3. Walk(preferred) \in Seq(Servers) /\ Len(Walk(preferred)) = NumServers /\ Walk(preferred) # <<>>
      /\ \A s \in Servers : Among(s, Walk(preferred))
  BY WalkAll
<1>4. tried[t] = <<>> /\ conn[t] = Closed /\ got[t] \in {Nothing, wanted[t]}
  BY <1>2 DEF Fetching, Walks, Alone
<1>5. /\ at'[t] = "acquiring" /\ order'[t] = Walk(preferred) /\ tried'[t] = <<>> /\ conn'[t] = Closed
      /\ got'[t] = got[t] /\ wanted'[t] = wanted[t]
  BY <1>1, <1>2, <1>4 DEF Fetching, articleVars
<1>6. Walks(t)' /\ Alone(t)'
  <2>1. Len(<<>>) + Len(Walk(preferred)) = NumServers
    BY <1>3, ServersAssumption
  <2> QED
    BY <1>3, <1>4, <1>5, <2>1 DEF Walks, Alone
<1>7. idle' \in [Servers -> Seq({Closed})] /\ lent' \in [Servers -> Nat] /\ \A s \in Servers : Pooled(s)'
  BY <1>1, <1>2, Returned DEF GivesBack
<1>8. /\ tried' = [tried EXCEPT ![t] = <<>>] /\ conn' = [conn EXCEPT ![t] = Closed]
      /\ got' = [got EXCEPT ![t] = got[t]]
      /\ got[t] \in Articles \cup {Nothing} /\ Closed \in Seq(Articles) /\ <<>> \in Seq(Servers)
  BY <1>2, <1>4 DEF Fetching, Closed
<1> QED
  BY <1>1, <1>2, <1>3, <1>6, <1>7, <1>8, FetchingBy

\* A connection is taken: an idle one on which nothing is under way, or a new one.
LEMMA FetchingAcquire == ASSUME Fetching, NEW t \in Fetches, Acquire(t) PROVE Fetching'
<1> DEFINE s == Head(order[t])
<1>1. /\ at[t] = "acquiring" /\ at' = [at EXCEPT ![t] = "fetching"]
      /\ lent[s] < Connections[s] /\ lent' = [lent EXCEPT ![s] = @ + 1]
      /\ UNCHANGED <<articleVars, order, tried, got>>
      /\ \/ idle[s] # <<>> /\ conn' = [conn EXCEPT ![t] = Append(Head(idle[s]), wanted[t])]
            /\ idle' = [idle EXCEPT ![s] = Tail(@)]
         \/ idle[s] = <<>> /\ conn' = [conn EXCEPT ![t] = <<wanted[t]>>] /\ UNCHANGED idle
  BY DEF Acquire
<1>2. order[t] # <<>> /\ order[t] \in Seq(Servers) /\ tried[t] \in Seq(Servers)
      /\ got[t] \in {Nothing, wanted[t]} /\ wanted[t] \in Articles
      /\ idle \in [Servers -> Seq({Closed})] /\ lent \in [Servers -> Nat]
  BY <1>1 DEF Fetching, Walks, Alone
<1>3. s \in Servers
  BY <1>2
<1> HIDE DEF s
<1>4. conn' = [conn EXCEPT ![t] = <<wanted[t]>>]
  <2>1. CASE idle[s] # <<>>
    <3>1. idle[s] \in Seq({Closed})
      BY <1>2, <1>3
    <3>2. Head(idle[s]) = <<>>
      BY <2>1, <3>1 DEF Closed
    <3>3. Append(Head(idle[s]), wanted[t]) = <<wanted[t]>>
      BY <3>2, One
    <3> QED
      BY <1>1, <2>1, <3>3
  <2> QED
    BY <1>1, <2>1
<1>5. idle' \in [Servers -> Seq({Closed})] /\ \A q \in Servers : q # s => idle'[q] = idle[q]
  <2>1. idle[s] # <<>> => Tail(idle[s]) \in Seq({Closed})
    BY <1>2, <1>3
  <2> QED
    BY <1>1, <1>2, <1>3, <2>1
<1>6. \/ Len(idle'[s]) = Len(idle[s]) - 1
      \/ Len(idle[s]) = 0 /\ Len(idle'[s]) = 0
  <2>1. idle[s] \in Seq({Closed})
    BY <1>2, <1>3
  <2>2. CASE idle[s] # <<>>
    <3>1. idle'[s] = Tail(idle[s])
      BY <1>1, <1>2, <1>3, <2>2
    <3> QED
      BY <2>1, <2>2, <3>1
  <2>3. CASE idle[s] = <<>>
    BY <1>1, <2>3
  <2> QED
    BY <2>2, <2>3
<1>7. order' = [order EXCEPT ![t] = order[t]] /\ tried' = [tried EXCEPT ![t] = tried[t]]
      /\ got' = [got EXCEPT ![t] = got[t]] /\ got[t] \in Articles \cup {Nothing} /\ <<wanted[t]>> \in Seq(Articles)
  BY <1>1, <1>2 DEF Fetching
<1>8. ASSUME NEW q \in Servers PROVE Pooled(q)'
  <2>1. lent[q] = Cardinality(Holders(q)) /\ lent[q] + Len(idle[q]) <= Connections[q]
    BY DEF Fetching, Pooled
  <2>2. Holders(q)' = IF Head(order[t]) = q THEN Holders(q) \cup {t} ELSE Holders(q) \ {t}
    <3>1. at' = [at EXCEPT ![t] = "fetching"] /\ order' = [order EXCEPT ![t] = order[t]]
      BY <1>1, <1>7
    <3>2. Holders(q)' = IF "fetching" = "fetching" /\ Head(order[t]) = q THEN Holders(q) \cup {t} ELSE Holders(q) \ {t}
      BY <3>1, HoldsOne, Zenon
    <3> QED
      BY <3>2
  <2>3. /\ Cardinality(Holders(q)) \in Nat /\ Connections[q] \in Nat /\ Len(idle[q]) \in Nat
        /\ Cardinality(Holders(q) \ {t}) = Cardinality(Holders(q))
        /\ Cardinality(Holders(q) \cup {t}) = Cardinality(Holders(q)) + 1
    BY <1>1, Holding
  <2>4. CASE q = s
    <3>1. Holders(q)' = Holders(q) \cup {t}
      BY <2>2, <2>4 DEF s
    <3>2. lent'[q] = lent[q] + 1
      BY <1>1, <1>2, <2>4
    <3>3. lent'[q] = Cardinality(Holders(q) \cup {t}) /\ lent'[q] + Len(idle'[q]) <= Connections[q]
      BY <1>1, <1>6, <2>1, <2>3, <2>4, <3>2
    <3> QED
      BY <3>1, <3>3 DEF Pooled
  <2>5. CASE q # s
    <3>1. Holders(q)' = Holders(q) \ {t} /\ idle'[q] = idle[q] /\ lent'[q] = lent[q]
      BY <1>1, <1>2, <1>5, <2>2, <2>5 DEF s
    <3> QED
      BY <2>1, <2>3, <3>1 DEF Pooled
  <2> QED
    BY <2>4, <2>5
<1>9. lent' \in [Servers -> Nat]
  <2>1. lent[s] + 1 \in Nat
    BY <1>2, <1>3
  <2> QED
    BY <1>1, <1>2, <2>1
<1>10. /\ at'[t] = "fetching" /\ order'[t] = order[t] /\ tried'[t] = tried[t] /\ conn'[t] = <<wanted[t]>>
      /\ got'[t] = got[t] /\ wanted'[t] = wanted[t]
  BY <1>1, <1>4, <1>7 DEF Fetching, articleVars
<1>11. Walks(t)' /\ Alone(t)'
  <2>1. Walks(t) /\ Alone(t)
    BY DEF Fetching
  <2> QED
    BY <1>1, <1>10, <2>1 DEF Walks, Alone
<1> QED
  BY <1>1, <1>2, <1>4, <1>5, <1>7, <1>8, <1>9, <1>11, FetchingBy

\* A fetch that holds a connection has its article, and nothing else, under way.
LEMMA FetchingHolds ==
  ASSUME Fetching, NEW t \in Fetches, at[t] = "fetching"
  PROVE  conn[t] = <<wanted[t]>> /\ Head(conn[t]) = wanted[t] /\ Tail(conn[t]) = Closed
<1>1. conn[t] = <<wanted[t]>>
  BY DEF Fetching, Alone
<1> QED
  BY <1>1, One DEF Closed

\* A fetch stops where it is: with its article, or because it is not wanted any more.
LEMMA FetchingStops ==
  ASSUME Fetching, NEW t \in Fetches, at[t] \in {"acquiring", "fetching"}, NEW a \in {"done", "gone"},
         at' = [at EXCEPT ![t] = a], UNCHANGED <<articleVars, order, tried>>,
         conn' = [conn EXCEPT ![t] = Closed],
         NEW g \in {got[t], wanted[t]}, got' = [got EXCEPT ![t] = g], GivesBack(t)
  PROVE  Fetching'
<1>1. order' = [order EXCEPT ![t] = order[t]] /\ tried' = [tried EXCEPT ![t] = tried[t]]
      /\ order[t] \in Seq(Servers) /\ tried[t] \in Seq(Servers)
  BY DEF Fetching
<1>2. got[t] \in {Nothing, wanted[t]} /\ wanted[t] \in Articles
  BY DEF Fetching, Alone
<1>3. g \in Articles \cup {Nothing} /\ Closed \in Seq(Articles)
  BY <1>2 DEF Closed
<1>4. /\ at'[t] = a /\ order'[t] = order[t] /\ tried'[t] = tried[t] /\ conn'[t] = Closed
      /\ got'[t] = g /\ wanted'[t] = wanted[t]
  BY <1>1 DEF Fetching, articleVars
<1>5. Walks(t)' /\ Alone(t)'
  <2>1. Walks(t) /\ Alone(t)
    BY DEF Fetching
  <2> QED
    BY <1>2, <1>4, <2>1 DEF Walks, Alone
<1>6. idle' \in [Servers -> Seq({Closed})] /\ lent' \in [Servers -> Nat] /\ \A s \in Servers : Pooled(s)'
  BY <1>1, Returned
<1>7. UNCHANGED articleVars
  OBVIOUS
<1> QED
  BY <1>1, <1>3, <1>5, <1>6, <1>7, FetchingBy

\* What one fetch does.
LEMMA FetchingStep == ASSUME Fetching, NEW t \in Fetches, FetchStep(t) \/ Abort(t) PROVE Fetching'
<1>1. CASE AcquireFails(t)
  <2>1. at[t] = "acquiring" /\ NextServer(t) /\ UNCHANGED articleVars /\ UNCHANGED got /\ GivesBack(t)
    BY <1>1 DEF AcquireFails, GivesBack
  <2>2. conn' = [conn EXCEPT ![t] = Closed]
    BY <1>1, <2>1 DEF AcquireFails, Fetching, Alone
  <2> QED
    BY <2>1, <2>2, GivenUp
<1>2. CASE Decline(t)
  BY <1>2, FetchingHolds, GivenUp DEF Decline, Release, GivesBack
<1>3. CASE Break(t)
  BY <1>3, GivenUp DEF Break, Discard, GivesBack
<1>4. CASE Timeout(t)
  BY <1>4, GivenUp DEF Timeout, Discard, GivesBack
<1>5. CASE Deliver(t)
  <2>1. /\ at[t] = "fetching" /\ at' = [at EXCEPT ![t] = "done"] /\ UNCHANGED <<articleVars, order, tried>>
        /\ got' = [got EXCEPT ![t] = Head(conn[t])] /\ Release(t, Tail(conn[t]))
    BY <1>5 DEF Deliver
  <2>2. Head(conn[t]) = wanted[t] /\ Tail(conn[t]) = Closed
    BY <2>1, FetchingHolds
  <2> QED
    BY <2>1, <2>2, FetchingStops DEF Release, GivesBack
<1>6. CASE Abort(t)
  <2>1. got' = [got EXCEPT ![t] = got[t]]
    BY <1>6 DEF Abort, Fetching
  <2>2. conn' = [conn EXCEPT ![t] = Closed]
    BY <1>6 DEF Abort, Discard, Fetching, Alone
  <2>3. GivesBack(t)
    BY <1>6 DEF Abort, Discard, GivesBack
  <2> QED
    BY <1>6, <2>1, <2>2, <2>3, FetchingStops DEF Abort
<1> QED
  BY <1>1, <1>2, <1>3, <1>4, <1>5, <1>6, FetchingBegin, FetchingAcquire DEF FetchStep

\* A server that closes an idle connection leaves the fetches alone.
LEMMA FetchingExpire == ASSUME Fetching, NEW s \in Servers, Expire(s) PROVE Fetching'
<1>1. /\ idle[s] # <<>> /\ idle' = [idle EXCEPT ![s] = Tail(@)]
      /\ UNCHANGED <<articleVars, at, order, tried, conn, lent, got>>
  BY DEF Expire
<1>2. UNCHANGED <<holds, wanted>>
  BY <1>1 DEF articleVars, Expire
<1>3. idle \in [Servers -> Seq({Closed})]
  BY DEF Fetching
<1>4. idle' \in [Servers -> Seq({Closed})] /\ \A q \in Servers : Len(idle'[q]) <= Len(idle[q])
  <2>1. Tail(idle[s]) \in Seq({Closed}) /\ Len(Tail(idle[s])) <= Len(idle[s])
    BY <1>1, <1>3
  <2>2. \A q \in Servers : Len(idle[q]) \in Nat
    BY <1>3
  <2> QED
    BY <1>1, <1>3, <2>1, <2>2
<1>5. ASSUME NEW q \in Servers PROVE Pooled(q)'
  <2>1. Holders(q)' = Holders(q)
    BY <1>1 DEF Holders
  <2>2. lent[q] = Cardinality(Holders(q)) /\ lent[q] + Len(idle[q]) <= Connections[q]
    BY DEF Fetching, Pooled
  <2>3. lent[q] \in Nat /\ lent'[q] = lent[q] /\ Connections[q] \in Nat
    BY <1>1, ServersAssumption DEF Fetching
  <2>4. Len(idle'[q]) \in Nat /\ Len(idle[q]) \in Nat /\ Len(idle'[q]) <= Len(idle[q])
    BY <1>3, <1>4
  <2>5. lent'[q] = Cardinality(Holders(q)) /\ lent'[q] + Len(idle'[q]) <= Connections[q]
    BY <2>2, <2>3, <2>4
  <2> QED
    BY <2>1, <2>5 DEF Pooled
<1>6. ASSUME NEW t \in Fetches PROVE Walks(t)' /\ Alone(t)'
  BY <1>1, <1>2 DEF Fetching, Walks, Alone
<1> QED
  BY <1>1, <1>2, <1>4, <1>5, <1>6 DEF Fetching

LEMMA FetchingInit == ASSUME Init PROVE Fetching
<1>1. ASSUME NEW t \in Fetches PROVE Walks(t) /\ Alone(t)
  BY <1>1 DEF Init, Walks, Alone
<1>2. ASSUME NEW s \in Servers PROVE Pooled(s)
  <2>1. Holders(s) = {} /\ idle[s] = <<>> /\ lent[s] = 0
    BY DEF Init, Holders
  <2>2. Connections[s] \in Nat
    BY ServersAssumption
  <2>3. 0 = Cardinality({}) /\ 0 + Len(<<>>) <= Connections[s]
    BY <2>2, FS_EmptySet
  <2> QED
    BY <2>1, <2>3 DEF Pooled
<1> QED
  BY <1>1, <1>2 DEF Init, Fetching, Closed

LEMMA FetchingNext == ASSUME Fetching, [Next]_vars PROVE Fetching'
<1>1. CASE UNCHANGED poolVars
  <2>1. UNCHANGED <<holds, wanted, at, order, tried, conn, idle, lent, got>>
    BY <1>1 DEF poolVars, articleVars
  <2>2. \A s \in Servers : Holders(s)' = Holders(s)
    BY <2>1 DEF Holders
  <2> QED
    BY <2>1, <2>2 DEF Fetching, Walks, Alone, Pooled
<1>2. CASE Probe
  BY <1>1, <1>2 DEF Probe
<1>3. CASE UNCHANGED vars
  BY <1>1, <1>3 DEF vars
<1> QED
  BY <1>2, <1>3, FetchingStep, FetchingExpire DEF Next

\* Fetches that share connections, give them up and are abandoned get the bytes
\* of their own articles, fail only after every server was given its chance
\* (fetch_with_failover), and every permit of a pool comes back.
THEOREM FetchesGetTheirArticles == Spec => [](TypeOK /\ RightArticle /\ FailsAfterAll /\ PermitsReturned)
<1>1. Init => Fetching
  BY FetchingInit
<1>2. Fetching /\ [Next]_vars => Fetching'
  BY FetchingNext
<1>3. Fetching => TypeOK /\ RightArticle /\ FailsAfterAll /\ PermitsReturned
  <2> SUFFICES ASSUME Fetching PROVE TypeOK /\ RightArticle /\ FailsAfterAll /\ PermitsReturned
    OBVIOUS
  <2>1. TypeOK
    <3>1. Closed \in Seq(Articles)
      BY DEF Closed
    <3>2. ASSUME NEW q \in Seq({Closed}) PROVE q \in Seq(Seq(Articles))
      <4>1. q \in [1..Len(q) -> {Closed}] /\ Len(q) \in Nat
        OBVIOUS
      <4>2. q \in [1..Len(q) -> Seq(Articles)]
        BY <3>1, <4>1
      <4> QED
        BY <4>1, <4>2
    <3> QED
      BY <3>2 DEF Fetching, TypeOK
  <2>2. RightArticle
    BY DEF Fetching, Alone, RightArticle
  <2>3. FailsAfterAll
    <3> SUFFICES ASSUME NEW t \in Fetches, at[t] = "failed"
        PROVE  /\ Len(tried[t]) = NumServers
               /\ \A s \in Servers : \E i \in DOMAIN tried[t] : tried[t][i] = s
      BY DEF FailsAfterAll
    <3>1. order[t] = <<>> /\ Len(tried[t]) + Len(order[t]) = NumServers
          /\ \A s \in Servers : Among(s, tried[t]) \/ Among(s, order[t])
      BY DEF Fetching, Walks
    <3>2. Len(tried[t]) \in Nat
      BY DEF Fetching
    <3> QED
      BY <3>1, <3>2 DEF Among
  <2>4. PermitsReturned
    BY DEF Fetching, Pooled, PermitsReturned
  <2> QED
    BY <2>1, <2>2, <2>3, <2>4
<1> QED
  BY <1>1, <1>2, <1>3, PTL DEF Spec

\* However fetches wait, give up, time out or are abandoned, no permit of a pool
\* is lost, and its connections, lent or idle, never exceed those configured
\* (release, discard and the drop of a connection, nntp.rs).
THEOREM PoolsKeepTheirLimits == Spec => []PermitsReturned
  BY FetchesGetTheirArticles, PTL

\* A fetch reports a failure only after each server in the list was given its
\* chance, whatever connections broke or timed out on the way
\* (fetch_with_failover).
THEOREM FailuresAreFinal == Spec => []FailsAfterAll
  BY FetchesGetTheirArticles, PTL
=============================================================================
