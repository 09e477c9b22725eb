---------------------------- MODULE MCProbedLayout ----------------------------
(* Releases of a few short articles.                                           *)
EXTENDS ProbedLayout

\* n parts, listed in order or in reverse, with decoded or encoded lengths.
Listing(n, stride, tail, encoded, reversed) ==
  LET number(i) == IF reversed THEN n + 1 - i ELSE i
      length(j) == (IF j < n THEN stride ELSE tail) + (IF encoded THEN 1 ELSE 0)
  IN  [i \in 1..n |-> [number |-> number(i), bytes |-> length(number(i))]]

File(n, stride, tail, start, data, given, encoded, reversed) ==
  LET size == (n - 1) * stride + tail
  IN  [parts  |-> Listing(n, stride, tail, encoded, reversed),
       stride |-> stride, tail |-> tail,
       size   |-> CASE given = "true" -> size
                    [] given = "short" -> (n - 1) * stride - 1
                    [] OTHER -> NotGiven,
       start  |-> start, data |-> data]

\* Sizes as yEnc headers give them: true, none, or too small by a byte.
Given(n, stride) == {"true", "none"} \cup (IF (n - 1) * stride > 1 THEN {"short"} ELSE {})

\* Up to three articles of up to three bytes; a single article has its own
\* length as stride.
Shapes(n, stride) == {<<n, stride, tail>> : tail \in IF n = 1 THEN {stride} ELSE 1..stride}

AnyFlat ==
  UNION {{File(s[1], s[2], s[3], 0, (s[1] - 1) * s[2] + s[3], given, encoded, reversed) :
            given \in Given(s[1], s[2]), encoded \in BOOLEAN, reversed \in BOOLEAN} :
         s \in UNION {Shapes(n, stride) : n \in 1..3, stride \in 1..3}}

\* Up to two articles of up to two bytes, with a header of one byte or none, and
\* with data, if there is room for any, to the end of the volume or to the byte
\* before it; the NZB lists them in reverse and with encoded lengths.
AnyVolume ==
  {v \in UNION {{File(s[1], s[2], s[3], start, (s[1] - 1) * s[2] + s[3] - start - trailer,
                      given, TRUE, TRUE) :
                   start \in 0..1, trailer \in 0..1, given \in Given(s[1], s[2])} :
                s \in UNION {Shapes(n, stride) : n \in 1..2, stride \in 1..2}} :
     v.data \in 0..4}

Dress(style, reversed, sample, method, password, passwords) ==
  [style |-> style, reversed |-> reversed, sample |-> sample, method |-> method,
   password |-> password, passwords |-> passwords]

\* Plain parts and a plain file; both styles of volumes, and an obfuscated name,
\* listed in reverse with a sample; headers that open, headers that do not, and
\* a compressed entry.
AnyDressing ==
  {Dress("part", FALSE, FALSE, 0, "none", {}), Dress("video", FALSE, FALSE, 0, "none", {}),
   Dress("part", TRUE, TRUE, 0, "pw", {"other", "pw"}), Dress("old", TRUE, TRUE, 0, "none", {}),
   Dress("other", TRUE, FALSE, 0, "none", {}), Dress("video", TRUE, TRUE, 0, "none", {}),
   Dress("part", TRUE, FALSE, 0, "pw", {"other"}), Dress("old", FALSE, TRUE, 1, "none", {})}

AnyHeader ==
  {<<"none">>, <<"malformed">>, <<"several">>}
    \cup {<<"from", s>> : s \in {0, 2, 5}}
    \cup {<<"last", n>> : n \in {0, 2, 5}}
    \cup {<<"between", s, e>> : s \in {0, 2, 5}, e \in {0, 2, 5}}
===============================================================================
