---------------------------- MODULE RangeDelivery ----------------------------
(***************************************************************************)
(* What an HTTP byte range promises, whatever the cache, the prefetcher    *)
(* and the eviction do: the body of a request for [first, last] is the     *)
(* content of those bytes, in order, each exactly once; it may stop short  *)
(* only because the stream failed or the client went away; and a body that *)
(* ends normally is complete.                                              *)
(***************************************************************************)
EXTENDS Integers, Sequences

CONSTANTS
  Requests,      \* request identifiers
  Ranges,        \* the pairs <<first, last>> clients ask for
  Content(_)     \* Content(v): what video byte v holds

VARIABLES
  status,        \* status[r] \in {"idle", "open", "done", "failed", "closed"}
  asked,         \* asked[r]: the range r asks for
  sent           \* sent[r]: what has been sent of it

vars == <<status, asked, sent>>

NoRange == <<>>

Body(range) == [i \in 1 .. range[2] - range[1] + 1 |-> Content(range[1] + i - 1)]

Init ==
  /\ status = [r \in Requests |-> "idle"]
  /\ asked = [r \in Requests |-> NoRange]
  /\ sent = [r \in Requests |-> <<>>]

\* A range whose first byte lies in no chunk fails as it opens.
Open(r) ==
  /\ status[r] = "idle"
  /\ \E range \in Ranges : asked' = [asked EXCEPT ![r] = range]
  /\ \E s \in {"open", "failed"} : status' = [status EXCEPT ![r] = s]
  /\ UNCHANGED sent

\* Some more bytes of the body go out.
Send(r) ==
  /\ status[r] = "open"
  /\ \E n \in Len(sent[r]) + 1 .. Len(Body(asked[r])) :
       sent' = [sent EXCEPT ![r] = SubSeq(Body(asked[r]), 1, n)]
  /\ UNCHANGED <<status, asked>>

Finish(r) ==
  /\ status[r] = "open"
  /\ sent[r] = Body(asked[r])
  /\ status' = [status EXCEPT ![r] = "done"]
  /\ UNCHANGED <<asked, sent>>

Break(r) ==
  /\ status[r] = "open"
  /\ \E s \in {"failed", "closed"} : status' = [status EXCEPT ![r] = s]
  /\ UNCHANGED <<asked, sent>>

Next == \E r \in Requests : Open(r) \/ Send(r) \/ Finish(r) \/ Break(r)

Spec == Init /\ [][Next]_vars
=============================================================================
