---------------------------- MODULE TransformExec ----------------------------
(***************************************************************************)
(* The executable stages that work on an upstream: the map stage of        *)
(* map_transform.rs (one row in, one row out, with an optional hook for an *)
(* empty upstream) and the passthrough stage of passthrough.rs.            *)
(*                                                                         *)
(*   kind       "map" or "passthrough"                                     *)
(*   hook       on_eof_no_rows is present (map only)                       *)
(*   alive, source                  the object, and its upstream pointer   *)
(*   saw_upstream_advanced, emitted_eof_synthetic   fields of ExecObj      *)
(*   res, status                    the result, and the last call's status *)
(*   left, pauses                   what the upstream still has to give    *)
(* and what the properties observe:                                        *)
(*   taken      rows the upstream has handed over, numbered from 1         *)
(*   synthetic  rows made from the arguments alone (counted up to Seen)    *)
(*   hookCalls  runs of the hook (counted up to Seen)                      *)
(*   live       byte buffers allocated and not yet destroyed               *)
(***************************************************************************)
EXTENDS Integers, FiniteSets

CONSTANTS
    UpBufs,     \* byte buffers the upstream allocates
    OwnBufs,    \* byte buffers this stage allocates
    NoBuf,      \* a borrowed or empty ByteView
    MaxRows,    \* bound: rows of the upstream
    MaxPauses   \* bound: times the upstream asks the host to pause

ASSUME BufsAssumption ==
    /\ NoBuf \notin UpBufs \cup OwnBufs
    /\ UpBufs \cap OwnBufs = {}

ASSUME BoundsAssumption == MaxRows \in Nat /\ MaxPauses \in Nat

VARIABLES kind, hook, alive, source, saw_upstream_advanced, emitted_eof_synthetic,
          res, status, left, pauses, taken, synthetic, hookCalls, live

config   == <<kind, hook>>
flags    == <<saw_upstream_advanced, emitted_eof_synthetic>>
upstream == <<left, pauses, taken>>
observed == <<synthetic, hookCalls>>
vars == <<config, alive, source, flags, res, status, upstream, observed, live>>

Seen  == 2                  \* bound: one more than a counter may reach
Count(n) == IF n < Seen THEN n + 1 ELSE n

(* A byte container: its buffer, and the row its bytes are about (0: none, *)
(* MaxRows + 1: the end of the stream).                                    *)
Rows       == 1..MaxRows
EofTag     == MaxRows + 1
Bufs       == UpBufs \cup OwnBufs
Containers == [buf : Bufs \cup {NoBuf}, of : 0..EofTag]
Results    == [code : {"unset", "kAdvanced", "kEOF", "kPauseExecution"},
               doc : Containers, meta : Containers]

empty_byte_container == [buf |-> NoBuf, of |-> 0]
Fresh    == [code |-> "unset", doc |-> empty_byte_container, meta |-> empty_byte_container]

EofEmpty == [code |-> "kEOF", doc |-> empty_byte_container, meta |-> empty_byte_container]

Buf(c)   == {c.buf} \ {NoBuf}
Owned(r) == Buf(r.doc) \cup Buf(r.meta)

Init ==
    /\ kind \in {"map", "passthrough"}
    /\ hook \in BOOLEAN
    /\ alive = TRUE /\ source = FALSE
    /\ saw_upstream_advanced = FALSE /\ emitted_eof_synthetic = FALSE
    /\ res = Fresh /\ status = "ok"
    /\ left \in 0..MaxRows /\ pauses \in 0..MaxPauses /\ taken = 0
    /\ synthetic = 0 /\ hookCalls = 0
    /\ live = {}

-----------------------------------------------------------------------------
(* The upstream (external) hands over its rows in order, as views or in    *)
(* owned buffers, and then reports the end, with or without metadata.  An  *)
(* error leaves the result alone.                                          *)
Given(i) == [buf : (UpBufs \ live) \cup {NoBuf}, of : {i}]

UpstreamRows ==
    {r \in [code : {"kAdvanced"}, doc : Given(taken + 1),
            meta : Given(taken + 1) \cup {empty_byte_container}] :
        r.doc.buf = r.meta.buf => r.doc.buf = NoBuf}

UpstreamEofs ==
    [code : {"kEOF"}, doc : {empty_byte_container}, meta : Given(EofTag) \cup {empty_byte_container}]

UpstreamPause == [Fresh EXCEPT !.code = "kPauseExecution"]

(* The host (external) calls with a fresh result.                          *)
GetNext ==
    /\ alive /\ res = Fresh
    /\ UNCHANGED <<config, alive, source>>

PullsRow ==
    /\ source /\ left > 0
    /\ left' = left - 1 /\ taken' = taken + 1
    /\ UNCHANGED pauses

-----------------------------------------------------------------------------
(* Without an upstream both stages report the end.                         *)
NullSource ==
    /\ GetNext /\ ~source
    /\ res' = EofEmpty /\ status' = "ok"
    /\ UNCHANGED <<flags, upstream, observed, live>>

(* What both hand on as it is: a pause, an error, and for the passthrough  *)
(* stage everything.                                                       *)
UpstreamPauses ==
    /\ GetNext /\ source
    /\ pauses > 0 /\ pauses' = pauses - 1
    /\ res' = UpstreamPause /\ status' = "ok"
    /\ UNCHANGED <<flags, left, taken, observed, live>>

UpstreamFails ==
    /\ GetNext /\ source
    /\ status' = "error"
    /\ UNCHANGED <<flags, res, upstream, observed, live>>

PassRow ==
    /\ GetNext /\ kind = "passthrough"
    /\ PullsRow
    /\ \E r \in UpstreamRows : res' = r /\ live' = live \cup Owned(r)
    /\ status' = "ok"
    /\ UNCHANGED <<flags, observed>>

-----------------------------------------------------------------------------
(* release_byte_container and release_owned_metadata: what is destroyed,   *)
(* and what is left in the container.  Faults seeded for the mutation runs *)
(* stand before the definition they replace; no specification uses them.   *)
FaultNothingDestroyed(c)  == {}
release_byte_container(c) == Buf(c)

release_owned_metadata(c) == IF Buf(c) # {} THEN empty_byte_container ELSE c

(* A row is decoded, its document buffer released, and the transform's     *)
(* output put in a buffer of its own; the metadata goes along.  Fault: the *)
(* metadata is the one kept from the row before.                           *)
FaultStaleMetadata ==
    /\ GetNext /\ kind = "map"
    /\ PullsRow
    /\ saw_upstream_advanced' = TRUE
    /\ \E r \in UpstreamRows, o \in OwnBufs \ live :
         /\ res' = [r EXCEPT !.doc = [buf |-> o, of |-> taken + 1], !.meta.of = taken]
         /\ live' = ((live \cup Owned(r)) \ release_byte_container(r.doc)) \cup {o}
    /\ status' = "ok"
    /\ UNCHANGED <<emitted_eof_synthetic, observed>>

MapRow ==
    /\ GetNext /\ kind = "map"
    /\ PullsRow
    /\ saw_upstream_advanced' = TRUE
    /\ \E r \in UpstreamRows, o \in OwnBufs \ live :
         /\ res' = [r EXCEPT !.doc = [buf |-> o, of |-> taken + 1]]
         /\ live' = ((live \cup Owned(r)) \ release_byte_container(r.doc)) \cup {o}
    /\ status' = "ok"
    /\ UNCHANGED <<emitted_eof_synthetic, observed>>

(* The row does not decode, the transform fails or panics, or its output   *)
(* does not encode.  Fault: the failure is not reported.                   *)
FaultRowSkipped ==
    /\ GetNext /\ kind = "map"
    /\ PullsRow
    /\ saw_upstream_advanced' = TRUE
    /\ res' = Fresh /\ status' = "ok"
    /\ UNCHANGED <<emitted_eof_synthetic, observed, live>>

MapRowFails ==
    /\ GetNext /\ kind = "map"
    /\ PullsRow
    /\ saw_upstream_advanced' = TRUE
    /\ \E r \in UpstreamRows :
         LET meta == release_owned_metadata(r.meta) IN
         /\ res' = [r EXCEPT !.doc = empty_byte_container, !.meta = meta]
         /\ live' = (live \cup Buf(r.doc) \cup Buf(meta)) \ release_byte_container(r.doc)
    /\ status' = "error"
    /\ UNCHANGED <<emitted_eof_synthetic, observed>>

-----------------------------------------------------------------------------
(* The upstream ends.  The hook runs when no row was seen and none made.   *)
AtUpstreamEof == GetNext /\ source /\ left = 0 /\ UNCHANGED <<upstream, saw_upstream_advanced>>

FaultSeenIgnored  == kind = "map" /\ hook /\ ~emitted_eof_synthetic
FaultFlagIgnored  == kind = "map" /\ hook /\ ~saw_upstream_advanced

Synthesizes == kind = "map" /\ hook /\ ~saw_upstream_advanced /\ ~emitted_eof_synthetic

EofRow ==
    /\ AtUpstreamEof /\ Synthesizes
    /\ \E r \in UpstreamEofs, o \in OwnBufs \ live :
         LET meta == release_owned_metadata(r.meta) IN
         /\ res' = [code |-> "kAdvanced", doc |-> [buf |-> o, of |-> 0], meta |-> empty_byte_container]
         /\ live' = live \cup {o} \cup Buf(meta)
    /\ emitted_eof_synthetic' = TRUE
    /\ synthetic' = Count(synthetic) /\ hookCalls' = Count(hookCalls)
    /\ status' = "ok"

EofRowFails ==
    /\ AtUpstreamEof /\ Synthesizes
    /\ \E r \in UpstreamEofs :
         LET meta == release_owned_metadata(r.meta) IN
         res' = [r EXCEPT !.meta = meta] /\ live' = live \cup Buf(meta)
    /\ hookCalls' = Count(hookCalls)
    /\ status' = "error"
    /\ UNCHANGED <<emitted_eof_synthetic, synthetic>>

PassEof ==
    /\ AtUpstreamEof /\ ~Synthesizes
    /\ \E r \in UpstreamEofs : res' = r /\ live' = live \cup Owned(r)
    /\ status' = "ok"
    /\ UNCHANGED <<emitted_eof_synthetic, observed>>

-----------------------------------------------------------------------------
SetSource ==
    /\ alive /\ res = Fresh
    /\ source' \in BOOLEAN
    /\ status' = "ok"
    /\ UNCHANGED <<config, alive, flags, res, upstream, observed, live>>

(* exec_open, exec_reopen and exec_close return a success and do nothing.  *)
OpenReopenClose ==
    /\ alive /\ res = Fresh /\ status' = "ok"
    /\ UNCHANGED <<config, alive, source, flags, res, upstream, observed, live>>

Destroy ==
    /\ alive /\ alive' = FALSE
    /\ UNCHANGED <<config, source, flags, res, status, upstream, observed, live>>

(* The host takes the result of the call it made last: it destroys the     *)
(* buffers of a success and does not look at the result of a failure.      *)
HostTake ==
    /\ res # Fresh
    /\ res' = Fresh
    /\ live' = IF status = "error" THEN live ELSE live \ Owned(res)
    /\ status' = "ok"
    /\ UNCHANGED <<config, alive, source, flags, upstream, observed>>

Finished == ~alive /\ res = Fresh /\ UNCHANGED vars

exec_get_next == \/ NullSource \/ UpstreamPauses \/ UpstreamFails \/ PassRow
                 \/ MapRow \/ MapRowFails \/ EofRow \/ EofRowFails \/ PassEof

Next == exec_get_next \/ SetSource \/ OpenReopenClose \/ Destroy \/ HostTake \/ Finished

Spec == Init /\ [][Next]_vars

(* A host that drains the stage: it keeps taking results and calling.      *)
FairSpec == Spec /\ WF_vars(exec_get_next) /\ WF_vars(HostTake)

-----------------------------------------------------------------------------
(* The variables range over what the fields and results can hold.          *)
TypeOK ==
    /\ kind \in {"map", "passthrough"} /\ hook \in BOOLEAN
    /\ alive \in BOOLEAN /\ source \in BOOLEAN
    /\ saw_upstream_advanced \in BOOLEAN /\ emitted_eof_synthetic \in BOOLEAN
    /\ res \in Results /\ status \in {"ok", "error"}
    /\ left \in 0..MaxRows /\ pauses \in 0..MaxPauses /\ taken \in 0..MaxRows
    /\ left + taken <= MaxRows
    /\ synthetic \in 0..Seen /\ hookCalls \in 0..Seen
    /\ live \subseteq Bufs

(* Every allocated buffer is in the result the host is looking at: what    *)
(* the upstream transferred is handed on or destroyed on every path,       *)
(* success, decode error, transform error, panic and synthetic row.        *)
NothingLeaks == live = Owned(res)

(* A failed call leaves no owned buffer in a result the host ignores.      *)
FailedCallHoldsNothing == status = "error" => Owned(res) = {}

(* The metadata of a delivered row is that of the row it was made from.    *)
MetadataBelongsToRow ==
    res.code = "kAdvanced" /\ status = "ok" => res.meta.of \in {0, res.doc.of}

(* A row is made from the arguments alone at most once, and only if the    *)
(* upstream had and will have no row, however often the hook fails or the  *)
(* host detaches and attaches the upstream in between.                     *)
SyntheticOnlyWhenEmpty == synthetic > 0 => synthetic = 1 /\ taken = 0 /\ left = 0

(* A row pulled from the upstream reaches the host in that very call, or   *)
(* the call reports an error.                                              *)
RowDeliveredOrReported ==
    [][taken' # taken => status' = "error" \/ (res'.code = "kAdvanced" /\ res'.doc.of = taken')]_vars

(* What makes these inductive: the flags of ExecObj say what was seen.     *)
FlagsInv ==
    /\ emitted_eof_synthetic <=> synthetic > 0
    /\ kind = "map" => (saw_upstream_advanced <=> taken > 0)
    /\ synthetic > 0 => kind = "map"

IInv == NothingLeaks /\ FailedCallHoldsNothing /\ SyntheticOnlyWhenEmpty /\ FlagsInv

(* A host that drains the stage gets to an end: of the rows or by an error. *)
Drains ==
    <>(~alive \/ status = "error" \/ res.code = "kEOF")

(* What map_transform.rs says of on_eof_no_rows: called once.              *)
EofHookCalledOnce == hookCalls <= 1
=============================================================================
