------------------------------- MODULE HttpRange -------------------------------
(***************************************************************************)
(* The Range header of a request for a video (src-rust/streaming/          *)
(* http_range.rs) and what video_route makes of it (src-rust/main.rs).     *)
(*                                                                         *)
(* A header is <<"none">>, <<"malformed">>, <<"several">> (more than one   *)
(* range), <<"from", s>>, <<"between", s, e>> or <<"last", n>>.  The total *)
(* is positive: a preflight refuses an empty payload and an empty video.   *)
(***************************************************************************)
EXTENDS Naturals

Partial(s, e) == [status |-> "partial", first |-> s, last |-> e]
NotSatisfiable == [status |-> "not satisfiable"]
BadRequest == [status |-> "bad request"]
Smaller(a, b) == IF a < b THEN a ELSE b

\* Slip: the suffix is counted from the last byte, not from the end.
ParseRangeShort(header, total) ==
  CASE header[1] = "none" -> [status |-> "full", first |-> 0, last |-> total - 1]
    [] header[1] \in {"malformed", "several"} -> BadRequest
    [] header[1] = "from" /\ header[2] < total -> Partial(header[2], total - 1)
    [] header[1] = "between" /\ header[2] <= header[3] /\ header[2] < total ->
         Partial(header[2], Smaller(header[3], total - 1))
    [] header[1] = "last" /\ header[2] > 0 ->
         Partial(total - 1 - Smaller(header[2], total - 1), total - 1)
    [] OTHER -> NotSatisfiable

\* parse_range, with the range video_route gives a request without one.
ParseRange(header, total) ==
  CASE header[1] = "none" -> [status |-> "full", first |-> 0, last |-> total - 1]
    [] header[1] \in {"malformed", "several"} -> BadRequest
    [] header[1] = "from" /\ header[2] < total -> Partial(header[2], total - 1)
    [] header[1] = "between" /\ header[2] <= header[3] /\ header[2] < total ->
         Partial(header[2], Smaller(header[3], total - 1))
    [] header[1] = "last" /\ header[2] > 0 ->
         Partial(total - Smaller(header[2], total), total - 1)
    [] OTHER -> NotSatisfiable

Served(answer) == answer.status \in {"full", "partial"}

\* The Content-Length of the answer.
ContentLength(answer) == answer.last - answer.first + 1
================================================================================
