------------------------------ MODULE MCGateway ------------------------------
(* Three requests of three clients, one of them direct and two through a proxy,  *)
(* and ten files.                                                                *)
EXTENDS Gateway, TLC

CONSTANTS r1, r2, r3, ann, bob, eve, proxy

\* The texts of the files, with blanks around some and capitals in some.
MCTrim(s) ==
  CASE s = " " -> "" [] s = " ka" -> "ka" [] s = "kb " -> "kb" [] s = " Ann" -> "Ann" [] OTHER -> s
MCLower(s) == IF s = "EN" THEN "en" ELSE s

Row(url) == [url |-> url, apiKey |-> "key"]
Settings(key, indexers, servers, languages) ==
  [key     |-> key,
   lists   |-> [indexers |-> indexers, servers |-> servers, languages |-> languages],
   options |-> NoSettings.options]

Defaults == [Settings("ignored", <<Row("x"), Row(" ")>>, <<"s">>, <<"EN", "english", "fr">>)
               EXCEPT !.options.exclude_regex = "CAM", !.options.streams_per_resolution = "4"]
Ann == [Settings(" ka", <<Row("y")>>, <<>>, <<>>) EXCEPT !.options.exclude_regex = " "]
Bob == [Settings("kb ", <<>>, <<>>, <<"de">>) EXCEPT !.options.streams_per_resolution = "0"]

File(demand, defaults, users) ==
  [found |-> "parsed", config |-> [requireAuth |-> demand, defaults |-> defaults, users |-> users]]
Absent(found) == [found |-> found, config |-> Empty]
NoUsers == Empty.users

\* Files that boot: two users, two users whose names differ in blanks, none.
\* Files that do not: absent or broken, without servers, a demand for users that
\* have no name, a shared key, a blank key.
MCFiles ==
  {File(FALSE, Defaults, "Ann" :> Ann @@ "Bob" :> Bob),
   File(TRUE, Defaults, "Ann" :> Ann @@ " Ann" :> Bob),
   File(FALSE, Defaults, NoUsers),
   File(FALSE, Defaults, " " :> Bob),
   Absent("missing"), Absent("unreadable"),
   File(FALSE, Settings("", <<Row("x")>>, <<" ">>, <<>>), NoUsers),
   File(TRUE, Defaults, " " :> Bob),
   File(FALSE, Defaults, "Ann" :> [Ann EXCEPT !.key = "kb"] @@ "Bob" :> Bob),
   File(FALSE, Defaults, "Ann" :> [Ann EXCEPT !.key = " "])}

Direct(c, path, token) ==
  [client |-> c, path |-> path, token |-> token, peer |-> c, forwarded |-> <<>>, realIp |-> NotSent]
\* The proxy names the client in one header or the other.
Listed(c, token) ==
  [client |-> c, path |-> "addon", token |-> token, peer |-> proxy,
   forwarded |-> <<c, proxy>>, realIp |-> NotSent]
RealIp(c, token) ==
  [client |-> c, path |-> "addon", token |-> token, peer |-> proxy,
   forwarded |-> <<"unknown">>, realIp |-> c]

\* eve guesses, through the proxy; bob comes through it too, and ann directly.
MCSendable ==
  {Listed(eve, "guess"), RealIp(eve, "guess"), Listed(bob, "kb"),
   Direct(ann, "addon", "ka"), Direct(ann, "addon", NoToken), Direct(ann, "open", NoToken)}

Symmetry == Permutations(Requests)
==============================================================================
