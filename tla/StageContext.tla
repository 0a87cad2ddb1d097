------------------------------ MODULE StageContext ------------------------------
(***************************************************************************)
(* The generator pulls of a source stage's executor as its hooks see them: *)
(* the context bound to a pull (stage_context.rs), through which a hook    *)
(* counts, asks the host whether it was interrupted and for the deadline,  *)
(* and the status objects that cross the boundary (status.rs, error.rs).   *)
(* Stages EXTEND this module with their open and next hooks.               *)
(*                                                                         *)
(*   pc        of the thread that pulls: "idle", or in a hook              *)
(*   gen       the opaque state of the stage; NoState for null             *)
(*   done      generator_done                                              *)
(*   alive     the executor is                                             *)
(*   withHost  the host gave the pull its query execution context          *)
(*   out       what the next hook returns                                  *)
(*   heap      status objects that live: the extension's "own", the "asked"*)
(*             that the host allocates, the "reply" that ends a failed pull*)
(*   answer    the host's: what its call returned, and the code it stored  *)
(*   reported  the code of the reply                                       *)
(*   killed    the operation was interrupted                               *)
(* and what the properties observe:                                        *)
(*   emitted   rows handed over                                            *)
(*   since     how many of them precede the executor's metrics document    *)
(*   late      the last pull began with the operation interrupted          *)
(***************************************************************************)
EXTENDS OperationMetrics, Sequences

VARIABLES pc, gen, done, alive, withHost, out, heap, answer, reported,
          killed, emitted, since, late

thread  == <<pc, gen, done, alive, withHost, out>>
statuses == <<heap, answer, reported>>
history == <<emitted, since, late>>
context == <<metrics, thread, statuses, killed, history>>

(* A null state pointer; states of stages name theirs.                     *)
NoState == [stage |-> "none"]

NoAnswer == [ret |-> "null", code |-> "ok"]

(* What a next hook can return, errors with their ExtensionError: one that *)
(* came from the host keeps its code, every other is a runtime error.      *)
NoRow       == [kind |-> "none", row |-> NoState, code |-> "ok"]
Eof         == [NoRow EXCEPT !.kind = "eof"]
Advanced(r) == [NoRow EXCEPT !.kind = "advanced", !.row = r]
Error(code) == [NoRow EXCEPT !.kind = "error", !.code = code]
Panic       == [NoRow EXCEPT !.kind = "panic", !.code = "runtime"]

InitContext ==
    /\ InitMetrics
    /\ pc = "idle" /\ gen = NoState /\ done = FALSE /\ alive = TRUE
    /\ withHost = FALSE /\ out = NoRow
    /\ heap = {} /\ answer = NoAnswer /\ reported = "ok" /\ killed = FALSE
    /\ emitted = << >> /\ since = 0 /\ late = FALSE

-----------------------------------------------------------------------------
(* exec_get_next in its generator mode.  A pull waits until the host has   *)
(* released the status of the one before.                                  *)
CanPull == pc = "idle" /\ alive /\ ~done /\ "reply" \notin heap

(* The open hook runs with a context that is bound to nothing.             *)
Opens(state) ==
    /\ CanPull /\ gen = NoState
    /\ gen' = state /\ pc' = "opened"
    /\ UNCHANGED <<metrics, done, alive, withHost, out, statuses, killed, history>>

OpenFails ==
    /\ CanPull /\ gen = NoState
    /\ heap' = heap \cup {"reply"} /\ reported' = "runtime"
    /\ UNCHANGED <<metrics, thread, answer, killed, history>>

BeginNext ==
    /\ pc = "opened" \/ (CanPull /\ gen # NoState)
    /\ withHost' \in BOOLEAN
    /\ BindMetrics
    /\ pc' = "next"
    /\ late' = (killed /\ withHost')
    /\ UNCHANGED <<fields, objects, execDoc, gen, done, alive, out, statuses, killed,
                   emitted, since>>

(* The hook's result goes to the host; an error, or a panic caught at the  *)
(* boundary, as a status of its own.                                       *)
Failed == out.kind \in {"error", "panic"}

status_code(result) == result.code

into_raw_status ==
    IF Failed THEN heap' = heap \cup {"reply"} /\ reported' = status_code(out)
              ELSE UNCHANGED <<heap, reported>>

EndNext ==
    /\ pc = "return"
    /\ UnbindMetrics
    /\ pc' = "idle" /\ out' = NoRow /\ withHost' = FALSE
    /\ done' = (out.kind = "eof")
    /\ gen' = IF out.kind = "eof" THEN NoState ELSE gen
    /\ into_raw_status
    /\ emitted' = IF out.kind = "advanced" THEN Append(emitted, out.row) ELSE emitted
    /\ UNCHANGED <<fields, objects, execDoc, alive, answer, killed, since, late>>

(* A step of a hook: its place, its state, the documents, and its result.  *)
Hook(at, to, state, f, result) ==
    /\ pc = at /\ pc' = to
    /\ gen' = state /\ fields' = f /\ out' = result
    /\ UNCHANGED <<strong, objects, execDoc, bound, done, alive, withHost, statuses,
                   killed, history>>

Returns(at, state, f, result) == Hook(at, "return", state, f, result)

-----------------------------------------------------------------------------
(* check_interrupt: an own status for the host to fill, and its answer.    *)
(* Without a query context there is nobody to ask.                         *)
AskInterrupt(at, to) ==
    /\ pc = at
    /\ IF withHost THEN heap' = heap \cup {"own"} /\ pc' = "interrupt?"
                   ELSE heap' = heap /\ pc' = to
    /\ UNCHANGED <<metrics, gen, done, alive, withHost, out, answer, reported, killed, history>>

(* set_reason answers with the status of the update, which the host        *)
(* destroys: the process-wide OK, whose destruction does nothing.  The     *)
(* fault: it answers with the status that it changed.                      *)
FaultReasonReturnsTarget == {"own"}
ReasonResult == {}

HostReturns == {"null", "ok", "asked"}

HostAnswersInterrupt ==
    /\ pc = "interrupt?"
    /\ \E ret \in HostReturns :
         /\ answer' = [ret |-> ret, code |-> IF killed THEN "interrupted" ELSE "ok"]
         /\ heap' = (heap \ (IF killed THEN ReasonResult ELSE {})) \cup ({ret} \cap {"asked"})
    /\ pc' = "interrupt!"
    /\ UNCHANGED <<metrics, gen, done, alive, withHost, out, reported, killed, history>>

(* What the host returned is destroyed unread; what it stored decides, and *)
(* leaves the state to the hook as it was, or `interrupted`.  The fault:   *)
(* the returned status is what decides.                                    *)
ReturnDestroyed == {"asked"}

FaultReturnedCode == IF answer.ret = "asked" THEN "failed" ELSE "ok"
Stored == answer.code

ReadInterrupt(to, interrupted) ==
    /\ pc = "interrupt!"
    /\ heap' = heap \ (ReturnDestroyed \cup {"own"})
    /\ answer' = NoAnswer
    /\ IF Stored = "ok" THEN pc' = to /\ UNCHANGED <<out, gen>>
                         ELSE pc' = "return" /\ out' = Error(Stored) /\ gen' = interrupted
    /\ UNCHANGED <<metrics, done, alive, withHost, reported, killed, history>>

(* deadline_timestamp_ms: the host's status is null, OK or an error, which *)
(* is read and then destroyed.                                             *)
AskDeadline(at, to) ==
    /\ pc = at
    /\ IF withHost
       THEN /\ \E ret \in HostReturns :
                 /\ answer' = [ret |-> ret, code |-> IF ret = "asked" THEN "failed" ELSE "ok"]
                 /\ heap' = heap \cup ({ret} \cap {"asked"})
            /\ pc' = "deadline!" /\ UNCHANGED reported
       ELSE pc' = to /\ UNCHANGED statuses
    /\ UNCHANGED <<metrics, gen, done, alive, withHost, out, killed, history>>

ReadDeadline(to) ==
    /\ pc = "deadline!"
    /\ heap' = heap \ ReturnDestroyed
    /\ answer' = NoAnswer
    /\ IF answer.code = "ok" THEN pc' = to /\ out' = out
                             ELSE pc' = "return" /\ out' = Error(answer.code)
    /\ UNCHANGED <<metrics, gen, done, alive, withHost, reported, killed, history>>

-----------------------------------------------------------------------------
(* The host: interrupts, releases a pull's status, creates and destroys    *)
(* metrics objects and destroys the executor.  It calls the executor from  *)
(* one thread, so never during a pull.                                     *)
Interrupt == ~killed /\ killed' = TRUE /\ UNCHANGED <<metrics, thread, statuses, history>>

ReleaseStatus ==
    /\ pc = "idle" /\ "reply" \in heap
    /\ heap' = heap \ {"reply"} /\ reported' = "ok"
    /\ UNCHANGED <<metrics, thread, answer, killed, history>>

HostCreatesMetrics ==
    /\ pc = "idle" /\ alive
    /\ CreateMetrics
    /\ since' = Len(emitted)
    /\ UNCHANGED <<thread, statuses, killed, emitted, late>>

HostDestroysMetrics ==
    DestroyMetrics /\ UNCHANGED <<thread, statuses, killed, history>>

HostUpdatesMetrics(key, v) ==
    UpdateMetrics(key, v) /\ UNCHANGED <<thread, statuses, killed, history>>

DestroyExecutor ==
    /\ pc = "idle" /\ alive
    /\ ForgetMetrics
    /\ alive' = FALSE /\ gen' = NoState
    /\ UNCHANGED <<fields, objects, bound, pc, done, withHost, out, statuses, killed, history>>

Host ==
    \/ Interrupt \/ ReleaseStatus \/ HostCreatesMetrics \/ HostDestroysMetrics
    \/ DestroyExecutor

InContext == BeginNext \/ HostAnswersInterrupt \/ EndNext

-----------------------------------------------------------------------------
ContextTypeOK ==
    /\ MetricsTypeOK
    /\ done \in BOOLEAN /\ alive \in BOOLEAN /\ withHost \in BOOLEAN /\ killed \in BOOLEAN
    /\ out.kind \in {"none", "advanced", "eof", "error", "panic"}
    /\ heap \subseteq {"own", "asked", "reply"}
    /\ answer \in [ret : HostReturns, code : {"ok", "interrupted", "failed"}]
    /\ {out.code, reported} \subseteq {"ok", "runtime", "interrupted", "failed"}
    /\ since \in 0..Len(emitted) /\ late \in BOOLEAN

(* Statuses: what a hook is about to read lives, and when no hook runs the *)
(* only one left is the one the host has to destroy.                       *)
StatusesOwned ==
    /\ pc = "interrupt?" => heap = {"own"}
    /\ pc = "interrupt!" => "own" \in heap
    /\ pc \in {"interrupt!", "deadline!"} => (answer.ret = "asked" <=> "asked" \in heap)
    /\ pc \notin {"interrupt?", "interrupt!", "deadline!"} => heap \subseteq {"reply"}
=============================================================================
