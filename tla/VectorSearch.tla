----------------------------- MODULE VectorSearch -----------------------------
(***************************************************************************)
(* The $vectorSearch source of opensearch-extension-core, in its variants  *)
(* for a replica set (lib.rs, mongodb.rs) and for a router (mongos.rs):    *)
(* the open and next hooks, the search over several OpenSearch endpoints   *)
(* with failover, the interrupt checks and the deadline.  The call runs in *)
(* a host thread; kills, the clock and the endpoints go on beside it.      *)
(* Computation takes no time, a request any time up to its timeout; a kill *)
(* may come between any two calls to the host or to an endpoint.           *)
(*                                                                         *)
(*   variant, catalog, configured   "mongodb" or "mongos"; the catalog     *)
(*                  context of the stage; valid extension options exist    *)
(*   opened         the state has been built by the open hook              *)
(*   loaded, pending   fields of SearchState (mongos: rows is Some, rows)  *)
(*   pc             where the call under way is: past its first interrupt  *)
(*                  check, before the check of an attempt or past it and   *)
(*                  about to ask for the deadline, in a request, before    *)
(*                  the check of an answer or past it                      *)
(*   at, budget, response, errors   the endpoint tried, its timeout, its   *)
(*                  answer, and the endpoints that failed in this call     *)
(*   result         what the last call returned                            *)
(*   done           the state has been dropped                             *)
(*   caught         where the call was when the host killed the query,     *)
(*                  "none" before it does                                  *)
(*   now, deadline  of the query, kept by the host                         *)
(* and what the properties observe:                                        *)
(*   out            candidates handed to the host                          *)
(*   late           requests sent, and results other than the host's own   *)
(*                  code returned by the next hook, since the kill         *)
(***************************************************************************)
EXTENDS Integers, Sequences

CONSTANTS
    N,          \* endpoints in the configuration, in order 1..N
    Limit,      \* the limit argument
    Timeout,    \* default_timeout, in ticks
    MaxTime     \* bound: ticks of the clock

ASSUME NAssumption == N \in Nat \ {0}

ASSUME LimitAssumption == Limit \in Nat \ {0}

ASSUME TimeAssumption == Timeout \in Nat \ {0} /\ MaxTime \in Nat

VARIABLES variant, catalog, configured, opened, loaded, pending, pc, at, budget,
          response, errors, result, done, caught, now, deadline, out, late

config  == <<variant, catalog, configured>>
cursor  == <<loaded, pending, out>>
attempt == <<at, budget, response, errors>>
query   == <<caught, now, deadline>>
vars == <<config, opened, cursor, pc, attempt, result, done, query, late>>

killed == caught # "none"

NoDeadline == -1            \* the host reports i64::MAX
Endpoints  == 1..N
Rows       == Endpoints \X (1..Limit)
RowsOf(e, n) == [i \in 1..n |-> <<e, i>>]

Failures == {"interrupted", "deadline", "host_error", "all_failed", "undecodable", "open_failed"}

Init ==
    /\ variant \in {"mongodb", "mongos"}
    /\ catalog \in {"absent", "shard", "router"}
    /\ configured \in BOOLEAN
    /\ opened = FALSE /\ loaded = FALSE /\ pending = << >>
    /\ pc = "idle" /\ at = 1 /\ budget = 0 /\ errors = {}
    /\ response = [hits |-> 0, fault |-> "none"]
    /\ result = "none" /\ done = FALSE
    /\ caught = "none" /\ now = 0 /\ late = 0
    /\ deadline \in (0..MaxTime) \cup {NoDeadline}
    /\ out = << >>

-----------------------------------------------------------------------------
(* An OpenSearch endpoint (external) answers with hits, some of which may  *)
(* not decode, or with results it marks as incomplete; post_search also    *)
(* yields one kind of failure for refused connections, timeouts, statuses  *)
(* other than 200, redirects, oversized bodies and bodies that are not JSON. *)
Responses ==
    [hits : 0..Limit + 1, fault : {"none", "malformed", "partial"}]
        \cup {[hits |-> 0, fault |-> "transport"]}

(* decode_candidates and decode_response: the router variant also refuses  *)
(* incomplete results.                                                     *)
Decodes(r) ==
    /\ r.fault \notin {"transport", "malformed"}
    /\ r.hits <= Limit
    /\ variant = "mongos" => r.fault # "partial"

(* What sends the search to the next endpoint: for the router variant only *)
(* a failed request, for the other also a response that does not decode.   *)
FailsOver(r) == r.fault = "transport" \/ (variant = "mongodb" /\ ~Decodes(r))

-----------------------------------------------------------------------------
(* The open hook, until it succeeds: it needs the catalog, on the router   *)
(* variant that of a router, and the endpoints of the extension options.   *)
CanOpen ==
    /\ configured
    /\ catalog \in IF variant = "mongos" THEN {"router"} ELSE {"router", "shard"}

Open ==
    /\ ~opened /\ ~done /\ CanOpen
    /\ opened' = TRUE
    /\ UNCHANGED <<config, cursor, pc, attempt, result, done, query, late>>

OpenFails ==
    /\ ~opened /\ ~done /\ ~CanOpen
    /\ result' = "open_failed"
    /\ UNCHANGED <<config, opened, cursor, pc, attempt, done, query, late>>

-----------------------------------------------------------------------------
(* The call goes on to something that a killed query was not to see.       *)
Shows == late' = IF killed THEN late + 1 ELSE late

(* Returning leaves the cursor as it was ...                               *)
Leave(code) ==
    /\ result' = code
    /\ pc' = "idle"
    /\ UNCHANGED <<config, opened, cursor, at, budget, response, done, query>>

Return(code) == Leave(code) /\ Shows

Interrupted == killed /\ Leave("interrupted") /\ UNCHANGED <<errors, late>>

(* ... but for the first of the rows, or the end, on which the executor    *)
(* drops the state.                                                        *)
Deliver(rows) ==
    /\ pc' = "idle" /\ Shows
    /\ \/ rows # << >> /\ out' = Append(out, Head(rows)) /\ pending' = Tail(rows)
          /\ result' = "row" /\ UNCHANGED done
       \/ rows = << >> /\ result' = "eof" /\ done' = TRUE
          /\ pending' = rows /\ UNCHANGED out

(* A check for interrupts that finds none.                                 *)
Checked(from, to) ==
    /\ pc = from /\ ~killed
    /\ pc' = to
    /\ UNCHANGED <<config, opened, cursor, attempt, done, query, late>>

(* The next hook checks for an interrupt, then hands over what it has or   *)
(* begins to search.                                                       *)
Call == opened /\ ~done

NextInterrupted == Call /\ pc = "idle" /\ Interrupted

NextChecked == Call /\ Checked("idle", "checked") /\ result' = "none"

NextLoaded ==
    /\ pc = "checked" /\ loaded
    /\ Deliver(pending)
    /\ UNCHANGED <<config, opened, loaded, attempt, query>>

(* Fault: the flag is set before the search instead of after it.  (Faults  *)
(* seeded for the mutation runs stand before the definition they replace;  *)
(* no specification uses them.)                                            *)
FaultLoadedFirst ==
    /\ pc = "checked" /\ ~loaded
    /\ pc' = "attempt" /\ at' = 1 /\ errors' = {}
    /\ loaded' = TRUE
    /\ UNCHANGED <<config, opened, pending, out, budget, response, result, done, query, late>>

NextSearches ==
    /\ pc = "checked" /\ ~loaded
    /\ pc' = "attempt" /\ at' = 1 /\ errors' = {}
    /\ UNCHANGED <<config, opened, cursor, budget, response, result, done, query, late>>

-----------------------------------------------------------------------------
(* next_attempt_timeout: the interrupt, then, with another call to the     *)
(* host, the deadline.                                                     *)
AttemptInterrupted == pc = "attempt" /\ Interrupted

AttemptChecked == Checked("attempt", "deadline") /\ UNCHANGED result

HostHidesDeadline ==
    /\ pc = "deadline"
    /\ Return("host_error") /\ UNCHANGED errors

Expired == deadline # NoDeadline /\ deadline <= now

DeadlinePassed ==
    /\ pc = "deadline" /\ Expired
    /\ Return("deadline") /\ UNCHANGED errors

(* Fault: every attempt gets the whole timeout.                            *)
FaultWholeTimeout == Timeout

request_timeout ==
    IF deadline # NoDeadline /\ deadline - now < Timeout THEN deadline - now ELSE Timeout

SendRequest ==
    /\ pc = "deadline" /\ ~Expired
    /\ budget' = request_timeout
    /\ pc' = "request" /\ Shows
    /\ UNCHANGED <<config, opened, cursor, at, response, errors, result, done, query>>

(* post_search returns, by the timeout of the request at the latest.       *)
RequestEnds ==
    /\ pc = "request"
    /\ \E t \in 0..budget : now + t <= MaxTime /\ now' = now + t
    /\ response' \in Responses
    /\ pc' = "answered"
    /\ UNCHANGED <<config, opened, cursor, at, budget, errors, result, done, caught, deadline, late>>

-----------------------------------------------------------------------------
(* The interrupt is checked again before the response is used.             *)
AnswerInterrupted == pc = "answered" /\ Interrupted

(* Fault: the response is used although a kill came during the request.    *)
FaultNotChecked ==
    /\ pc = "answered"
    /\ pc' = "response"
    /\ UNCHANGED <<config, opened, cursor, attempt, result, done, query, late>>

AnswerChecked == Checked("answered", "response") /\ UNCHANGED result

(* The candidates are kept, and the first goes out in the same call.       *)
Load ==
    /\ pc = "response" /\ Decodes(response)
    /\ loaded' = TRUE
    /\ Deliver(RowsOf(at, response.hits))
    /\ UNCHANGED <<config, opened, attempt, query>>

(* Faults: the loop does not move on; it ends one endpoint early.          *)
FaultSameEndpoint == at
Following         == at + 1
FaultLastSkipped  == at + 1 >= N
LastEndpoint      == at = N

NextEndpoint ==
    /\ pc = "response" /\ FailsOver(response) /\ ~LastEndpoint
    /\ errors' = errors \cup {at}
    /\ at' = Following
    /\ pc' = "attempt"
    /\ UNCHANGED <<config, opened, cursor, budget, response, result, done, query, late>>

AllFailed ==
    /\ pc = "response" /\ FailsOver(response) /\ LastEndpoint
    /\ errors' = errors \cup {at}
    /\ Return("all_failed")

(* The router variant reports a response that does not decode at once.     *)
Undecodable ==
    /\ pc = "response" /\ ~Decodes(response) /\ ~FailsOver(response)
    /\ Return("undecodable") /\ UNCHANGED errors

-----------------------------------------------------------------------------
(* The host (external): kills, time between calls, and the destruction of  *)
(* the executor, which drops the state.                                    *)
Kill ==
    /\ ~killed /\ caught' = pc
    /\ UNCHANGED <<config, opened, cursor, pc, attempt, result, done, now, deadline, late>>

Tick ==
    /\ pc = "idle" /\ now < MaxTime /\ now' = now + 1
    /\ UNCHANGED <<config, opened, cursor, pc, attempt, result, done, caught, deadline, late>>

Drop ==
    /\ pc = "idle" /\ ~done /\ done' = TRUE
    /\ UNCHANGED <<config, opened, cursor, pc, attempt, result, query, late>>

Finished == done /\ UNCHANGED vars

(* The steps of a call: until its first check it can be put off.           *)
next_attempt_timeout ==
    AttemptInterrupted \/ AttemptChecked \/ HostHidesDeadline \/ DeadlinePassed

fetch_candidates ==
    \/ next_attempt_timeout \/ SendRequest \/ RequestEnds
    \/ AnswerInterrupted \/ AnswerChecked \/ Load \/ NextEndpoint \/ AllFailed \/ Undecodable

Underway == NextLoaded \/ NextSearches \/ fetch_candidates

next_result == NextInterrupted \/ NextChecked \/ Underway

Next == Open \/ OpenFails \/ next_result \/ Kill \/ Tick \/ Drop \/ Finished

Spec == Init /\ [][Next]_vars

(* The thread of a call runs on, and post_search keeps its timeout.        *)
FairSpec == Spec /\ WF_vars(Underway)

-----------------------------------------------------------------------------
Places == {"idle", "checked", "attempt", "deadline", "request", "answered", "response"}

(* The variables range over what the fields can hold.                      *)
TypeOK ==
    /\ variant \in {"mongodb", "mongos"} /\ catalog \in {"absent", "shard", "router"}
    /\ configured \in BOOLEAN /\ opened \in BOOLEAN /\ loaded \in BOOLEAN
    /\ pending \in Seq(Rows) /\ out \in Seq(Rows)
    /\ pc \in Places
    /\ at \in Endpoints /\ budget \in 0..Timeout
    /\ response \in Responses /\ errors \subseteq Endpoints
    /\ result \in Failures \cup {"none", "row", "eof"}
    /\ done \in BOOLEAN /\ caught \in Places \cup {"none"} /\ late \in Nat
    /\ now \in 0..MaxTime /\ deadline \in (0..MaxTime) \cup {NoDeadline}

(* Candidates come from one response of one endpoint, in its order, within *)
(* the limit; a call that fails adds none and loses none.                  *)
RowsOfOneAnswer ==
    /\ ~loaded => out = << >> /\ pending = << >>
    /\ loaded => out \o pending = RowsOf(at, response.hits) /\ Decodes(response)

(* The end of the rows is only reported when a response was accepted and   *)
(* all of its candidates are out: no failed search, interrupted search or  *)
(* retry of one looks like an empty result.                                *)
EofMeansDelivered ==
    result = "eof" => loaded /\ out = RowsOf(at, response.hits) /\ Decodes(response)

(* Endpoints are tried in the configured order and none is skipped: who    *)
(* asks an endpoint has been failed by all before it, and the search gives *)
(* up only when every endpoint has failed in this very call.               *)
FailoverInOrder ==
    /\ pc \notin {"idle", "checked"} => errors = 1..(at - 1)
    /\ result = "all_failed" => errors = Endpoints

(* However many endpoints fail, and however long each request takes, the   *)
(* clock does not pass the query deadline while requests are made.         *)
WithinDeadline ==
    pc \in {"request", "answered", "response"} /\ deadline # NoDeadline => now <= deadline

(* After a kill the search does one more thing at most, in this call and   *)
(* all later ones: a call that was past an interrupt check when the kill   *)
(* came may still hand over the candidate at hand, report the failure at   *)
(* hand, or send the request at hand, whose answer nobody gets.  A kill at *)
(* any other time, during a request say, lets nothing out but the host's   *)
(* own code.                                                               *)
PastCheck == {"checked", "deadline", "response"}

KillEndsQuery == late <= IF caught \in PastCheck THEN 1 ELSE 0

(* What makes these inductive: a search runs on an opened state that has   *)
(* no rows yet, the end was told with nothing left, a request cannot       *)
(* outlast the deadline, and a killed call that is past a check is still   *)
(* where the kill caught it.                                               *)
SearchInv ==
    /\ pc # "idle" => result = "none" /\ opened /\ ~done
    /\ pc \notin {"idle", "checked"} => ~loaded
    /\ loaded => opened
    /\ result = "eof" => done /\ loaded /\ pending = << >>
    /\ pc = "request" /\ deadline # NoDeadline => now + budget <= deadline

KillInv ==
    /\ KillEndsQuery
    /\ killed /\ pc \in PastCheck => caught = pc /\ late = 0

IInv == SearchInv /\ KillInv /\ RowsOfOneAnswer /\ FailoverInOrder /\ WithinDeadline

(* A call that is past its first check returns, whatever the endpoints do. *)
CallReturns == pc # "idle" ~> pc = "idle"

-----------------------------------------------------------------------------
(* The refinement mapping to CandidateStream: the search is one step.      *)
Searches == {RowsOf(e, n) : e \in Endpoints, n \in 0..Limit}

Life ==
    IF ~killed THEN "running"
    ELSE IF pc = caught /\ pc \in {"checked", "response"} THEN "ending" ELSE "over"

Stream == INSTANCE CandidateStream WITH
    fetched <- loaded, rest <- pending, given <- out, ended <- (result = "eof"), life <- Life

(* The stage implements the abstract candidate stream.                     *)
ImplementsCandidateStream == Stream!Spec
=============================================================================
