---------------------------- MODULE CandidateStream ----------------------------
(***************************************************************************)
(* What a search stage promises the host: the candidates of one search,    *)
(* obtained in one step, each handed over once and in the order of the     *)
(* search engine, then the end.  A failure changes nothing and can be      *)
(* followed by another try; a killed query gets nothing any more, but for  *)
(* the one candidate, or the end, that was on its way when the kill came.  *)
(* Endpoints, failover, deadlines and requests are left out.               *)
(*                                                                         *)
(*   fetched   the search has succeeded                                    *)
(*   rest      candidates still to hand over                               *)
(*   given     candidates handed over                                      *)
(*   ended     the host was told that there are no more                    *)
(*   life      "running", "ending" when the query was killed with a        *)
(*             hand-over on its way, "over" when nothing can come any more *)
(***************************************************************************)
EXTENDS Integers, Sequences

CONSTANTS Searches   \* what a search may find: sequences of candidates

VARIABLES fetched, rest, given, ended, life

vars == <<fetched, rest, given, ended, life>>

Init ==
    /\ fetched = FALSE /\ rest = << >> /\ given = << >>
    /\ ended = FALSE /\ life = "running"

(* The next candidate of `rows`, or the end when there is none.            *)
Give(rows) ==
    /\ life # "over" /\ ~ended
    /\ fetched' = TRUE
    /\ \/ rows # << >> /\ given' = Append(given, Head(rows)) /\ rest' = Tail(rows) /\ UNCHANGED ended
       \/ rows = << >> /\ ended' = TRUE /\ rest' = rows /\ UNCHANGED given
    /\ life' = IF life = "ending" THEN "over" ELSE life

Search == ~fetched /\ \E rows \in Searches : Give(rows)
Advance == fetched /\ Give(rest)
Kill ==
    /\ life = "running" /\ life' \in {"ending", "over"}
    /\ UNCHANGED <<fetched, rest, given, ended>>

(* What was on its way does not come.                                      *)
Silence ==
    /\ life = "ending" /\ life' = "over"
    /\ UNCHANGED <<fetched, rest, given, ended>>

Next == Search \/ Advance \/ Kill \/ Silence

Spec == Init /\ [][Next]_vars
=============================================================================
