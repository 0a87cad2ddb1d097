----------------------------- MODULE SourceExec -----------------------------
(***************************************************************************)
(* The executable stage of an exported SourceStage (ExecObj and the        *)
(* exec_... functions of source_stage.rs), driven by one host thread       *)
(* through the C vtable.                                                   *)
(*                                                                         *)
(*   requires   the stage's static property requiresInputDocSource         *)
(*   alive      the ExecObj has not been destroyed                         *)
(*   source     whether set_source has attached an upstream stage          *)
(*   mode, saw_upstream_advanced, generator_done   fields of ExecObj       *)
(*   state      the opaque state pointer is non-null                       *)
(*   res        the host's MongoExtensionGetNextResult                     *)
(*   status     what the last vtable call returned                         *)
(*   lastCall   which vtable entry that was                                *)
(*                                                                         *)
(* and what the properties observe:                                        *)
(*   box        the State the pointer names: never built or freed, live,   *)
(*              or dangling (freed while the pointer stayed)               *)
(*   opens      successful runs of the open hook                           *)
(*   produced   rows the next hook returned                                *)
(*   sent       origins of the rows handed to the host                     *)
(*   pulled     the upstream has been asked for a row                      *)
(*   live       byte buffers allocated and not yet destroyed               *)
(*   aborted    a panic left the extension, or freed memory was used       *)
(***************************************************************************)
EXTENDS Integers, FiniteSets

CONSTANTS
    UpBufs,     \* byte buffers the upstream allocates
    OwnBufs,    \* byte buffers this stage allocates (byte_buf::from_bson)
    NoBuf,      \* a borrowed or empty ByteView: nothing to release
    GenRows     \* bound: rows the stage's next hook returns before Eof

ASSUME BufsAssumption ==
    /\ NoBuf \notin UpBufs \cup OwnBufs
    /\ UpBufs \cap OwnBufs = {}

ASSUME GenRowsAssumption == GenRows \in Nat

VARIABLES requires, alive, source, mode, saw_upstream_advanced,
          generator_done, state, res, status, lastCall,
          box, opens, produced, sent, pulled, live, aborted

execVars  == <<alive, source, mode, saw_upstream_advanced>>
genVars   == <<generator_done, state, box, opens, produced>>
ghostVars == <<sent, pulled, live>>
vars == <<requires, execVars, genVars, res, status, lastCall, ghostVars, aborted>>

Modes == {"MODE_INIT", "MODE_PASSTHROUGH", "MODE_GENERATOR"}
Codes == {"unset", "kAdvanced", "kEOF", "kPauseExecution"}
Calls == {"none", "get_next", "set_source", "open", "reopen", "close", "release", "destroy"}
Bufs  == UpBufs \cup OwnBufs

Results == [code : Codes, doc : Bufs \cup {NoBuf}, meta : Bufs \cup {NoBuf}]

(* The struct as the host instantiates it before a call.                   *)
Fresh == [code |-> "unset", doc |-> NoBuf, meta |-> NoBuf]
(* Faults seeded for the mutation runs stand before the definition they    *)
(* replace; no specification uses them.  Here: set_eof_empty writes nothing.*)
FaultEofUnset == Fresh

EofEmpty == [code |-> "kEOF", doc |-> NoBuf, meta |-> NoBuf]
Owned(r) == {r.doc, r.meta} \ {NoBuf}

Init ==
    /\ requires \in BOOLEAN
    /\ alive = TRUE
    /\ source = FALSE
    /\ mode = "MODE_INIT"
    /\ saw_upstream_advanced = FALSE
    /\ generator_done = FALSE
    /\ state = FALSE
    /\ res = Fresh
    /\ status = "ok"
    /\ lastCall = "none"
    /\ box = "none"
    /\ opens = 0
    /\ produced = 0
    /\ sent = {}
    /\ pulled = FALSE
    /\ live = {}
    /\ aborted = FALSE

Running == alive /\ ~aborted

-----------------------------------------------------------------------------
(* The upstream stage (external).  A row comes as a view or an owned       *)
(* buffer, with or without owned metadata; the end of the stream may carry *)
(* owned metadata too.  An error leaves the result alone.                  *)
FreshRows(bufs) ==
    {r \in [code : {"kAdvanced"}, doc : (bufs \ live) \cup {NoBuf}, meta : (bufs \ live) \cup {NoBuf}] :
        r.doc = r.meta => r.doc = NoBuf}

UpstreamEofs  == [code : {"kEOF"}, doc : {NoBuf}, meta : (UpBufs \ live) \cup {NoBuf}]
UpstreamPause == [code |-> "kPauseExecution", doc |-> NoBuf, meta |-> NoBuf]

-----------------------------------------------------------------------------
(* exec_get_next first resolves an undecided mode from the properties.     *)
Resolved == IF mode = "MODE_INIT" /\ ~requires THEN "MODE_GENERATOR" ELSE mode

(* A call of exec_get_next: the host has taken the previous result.        *)
GetNext ==
    /\ Running
    /\ res = Fresh
    /\ lastCall' = "get_next"
    /\ UNCHANGED <<requires, alive, source>>

(* Evaluating the properties panics; ffi_boundary turns it into an error.  *)
PropertiesPanic ==
    /\ GetNext
    /\ mode = "MODE_INIT"
    /\ status' = "error"
    /\ UNCHANGED <<mode, saw_upstream_advanced, genVars, res, ghostVars, aborted>>

(* The stage has forwarded a row: every answer of the upstream is passed on. *)
Forward ==
    /\ GetNext
    /\ mode = "MODE_PASSTHROUGH" /\ source
    /\ pulled' = TRUE
    /\ \/ \E r \in FreshRows(UpBufs) \cup UpstreamEofs \cup {UpstreamPause} :
            /\ res' = r
            /\ live' = live \cup Owned(r)
            /\ sent' = IF r.code = "kAdvanced" THEN sent \cup {"upstream"} ELSE sent
            /\ status' = "ok"
       \/ status' = "error" /\ UNCHANGED <<res, sent, live>>
    /\ UNCHANGED <<mode, saw_upstream_advanced, genVars, aborted>>

(* The same mode after the host detached the upstream: neither branch of   *)
(* the code applies, and the call reports success with the result unset.   *)
ForwardDetached ==
    /\ GetNext
    /\ mode = "MODE_PASSTHROUGH" /\ ~source
    /\ status' = "ok"
    /\ UNCHANGED <<mode, saw_upstream_advanced, genVars, res, ghostVars, aborted>>

(* The first pull of an undecided stage, except for an empty upstream.     *)
FirstRow ==
    /\ GetNext
    /\ Resolved = "MODE_INIT" /\ source
    /\ pulled' = TRUE
    /\ \E r \in FreshRows(UpBufs) :
         /\ res' = r
         /\ live' = live \cup Owned(r)
    /\ sent' = sent \cup {"upstream"}
    /\ saw_upstream_advanced' = TRUE
    /\ mode' = "MODE_PASSTHROUGH"
    /\ status' = "ok"
    /\ UNCHANGED <<genVars, aborted>>

FirstPauseOrError ==
    /\ GetNext
    /\ Resolved = "MODE_INIT" /\ source
    /\ pulled' = TRUE
    /\ \/ res' = UpstreamPause /\ status' = "ok"
       \/ UNCHANGED res /\ status' = "error"
    /\ UNCHANGED <<mode, saw_upstream_advanced, genVars, sent, live, aborted>>

-----------------------------------------------------------------------------
(* The generator part of exec_get_next runs when the mode calls for it,    *)
(* when no upstream is attached, and when the upstream of an undecided     *)
(* stage turns out to be empty.  TurnResults is what *res can then hold:   *)
(* the result as the host passed it, or the end of stream the upstream has *)
(* just written into it.                                                   *)
FallsBack == Resolved = "MODE_INIT" /\ source /\ ~saw_upstream_advanced

(* Fault: the fallback does not ask whether the upstream has had rows.     *)
FaultFallbackAfterRows ==
    IF Resolved = "MODE_GENERATOR" \/ (Resolved = "MODE_INIT" /\ ~source) THEN {res}
    ELSE IF source THEN UpstreamEofs
    ELSE {}

TurnResults ==
    IF Resolved = "MODE_GENERATOR" \/ (Resolved = "MODE_INIT" /\ ~source) THEN {res}
    ELSE IF FallsBack THEN UpstreamEofs
    ELSE {}

Generating ==
    /\ GetNext
    /\ mode' = "MODE_GENERATOR"
    /\ pulled' = (pulled \/ FallsBack)
    /\ UNCHANGED saw_upstream_advanced

(* A generator that is done keeps reporting the end.                       *)
GenerateAfterEof ==
    \E cur \in TurnResults :
      /\ Generating
      /\ generator_done
      /\ res' = EofEmpty
      /\ status' = "ok"
      /\ live' = live \cup Owned(cur)
      /\ UNCHANGED <<genVars, sent, aborted>>

(* Decoding the arguments or the open hook fails or panics; no state yet.  *)
OpenFails ==
    \E cur \in TurnResults :
      /\ Generating
      /\ ~generator_done /\ ~state
      /\ res' = cur
      /\ status' = "error"
      /\ live' = live \cup Owned(cur)
      /\ UNCHANGED <<genVars, sent, aborted>>

(* Faults: the null check of the state pointer, or generator_done, is gone. *)
FaultOpenEveryCall == ~generator_done /\ box # "dangling" /\ opens' = opens + 1
FaultDoneIgnored   == box # "dangling" /\ opens' = IF state THEN opens ELSE opens + 1

(* The state is open, by this call if no earlier one has opened it.        *)
Opened ==
    /\ ~generator_done
    /\ box # "dangling"
    /\ opens' = IF state THEN opens ELSE opens + 1

(* The next hook fails or panics: the state stays for a later call.        *)
NextFails ==
    \E cur \in TurnResults :
      /\ Generating
      /\ Opened
      /\ state' = TRUE /\ box' = "live"
      /\ res' = cur
      /\ status' = "error"
      /\ live' = live \cup Owned(cur)
      /\ UNCHANGED <<generator_done, produced, sent, aborted>>

(* A row, handed over in buffers of its own; whatever *res held is gone.   *)
NextRow ==
    \E cur \in TurnResults, row \in FreshRows(OwnBufs) :
      /\ Generating
      /\ Opened
      /\ produced < GenRows
      /\ produced' = produced + 1
      /\ state' = TRUE /\ box' = "live"
      /\ row.doc # NoBuf
      /\ res' = row
      /\ live' = live \cup Owned(cur) \cup Owned(row)
      /\ sent' = sent \cup {"generator"}
      /\ status' = "ok"
      /\ UNCHANGED <<generator_done, aborted>>

(* Fault: the row that does not encode is skipped under a success.         *)
FaultEncodeErrorSwallowed ==
    \E cur \in TurnResults, encoded \in {{}} \cup {{b} : b \in OwnBufs \ live} :
      /\ Generating
      /\ Opened
      /\ produced < GenRows
      /\ produced' = produced + 1
      /\ state' = TRUE /\ box' = "live"
      /\ res' = cur
      /\ live' = live \cup Owned(cur) \cup encoded
      /\ status' = "ok"
      /\ UNCHANGED <<generator_done, sent, aborted>>

(* A row whose document, or whose metadata after the document was already  *)
(* put in a buffer, cannot be encoded.                                     *)
NextRowUnencodable ==
    \E cur \in TurnResults, encoded \in {{}} \cup {{b} : b \in OwnBufs \ live} :
      /\ Generating
      /\ Opened
      /\ produced < GenRows
      /\ produced' = produced + 1
      /\ state' = TRUE /\ box' = "live"
      /\ res' = cur
      /\ live' = live \cup Owned(cur) \cup encoded
      /\ status' = "error"
      /\ UNCHANGED <<generator_done, sent, aborted>>

(* The end of the rows: drop_state, clear the pointer, remember.           *)
NextEof ==
    \E cur \in TurnResults :
      /\ Generating
      /\ Opened
      /\ state' = FALSE /\ box' = "none"
      /\ generator_done' = TRUE
      /\ res' = EofEmpty
      /\ status' = "ok"
      /\ live' = live \cup Owned(cur)
      /\ UNCHANGED <<produced, sent, aborted>>

(* drop_state panics at the end of the rows, before the pointer is cleared. *)
NextEofDropPanics ==
    \E cur \in TurnResults :
      /\ Generating
      /\ Opened
      /\ state' = TRUE /\ box' = "dangling"
      /\ res' = cur
      /\ status' = "error"
      /\ live' = live \cup Owned(cur)
      /\ UNCHANGED <<generator_done, produced, sent, aborted>>

(* ... and a later call runs the next hook on the freed state.             *)
NextOnDangling ==
    \E cur \in TurnResults :
      /\ Generating
      /\ ~generator_done /\ box = "dangling"
      /\ aborted' = TRUE
      /\ live' = live \cup Owned(cur)
      /\ UNCHANGED <<genVars, res, status, sent>>

-----------------------------------------------------------------------------
(* The other vtable entries.  The host may attach or detach the upstream   *)
(* at any time between two calls.                                          *)
SetSource ==
    /\ Running
    /\ source' \in BOOLEAN
    /\ status' = "ok" /\ lastCall' = "set_source"
    /\ UNCHANGED <<requires, alive, mode, saw_upstream_advanced, genVars, res, ghostVars, aborted>>

(* exec_open, exec_reopen and exec_close return a success and do nothing.  *)
OpenReopenClose ==
    /\ Running
    /\ lastCall' \in {"open", "reopen", "close"}
    /\ status' = "ok"
    /\ UNCHANGED <<requires, execVars, genVars, res, ghostVars, aborted>>

(* exec_destroy drops a remaining state, outside any ffi_boundary.         *)
Destroy ==
    /\ Running
    /\ alive' = FALSE
    /\ lastCall' = "destroy"
    /\ \/ state /\ aborted' = TRUE /\ UNCHANGED <<state, box>>
       \/ box # "dangling" /\ state' = FALSE /\ box' = "none" /\ UNCHANGED aborted
    /\ UNCHANGED <<requires, source, mode, saw_upstream_advanced, generator_done,
                   opens, produced, res, status, ghostVars>>

(* The host (external) takes the result and destroys the buffers it owns.  *)
HostRelease ==
    /\ ~aborted
    /\ res # Fresh
    /\ res' = Fresh
    /\ live' = live \ Owned(res)
    /\ lastCall' = "release"
    /\ UNCHANGED <<requires, execVars, genVars, status, sent, pulled, aborted>>

Finished == (aborted \/ (~alive /\ res = Fresh)) /\ UNCHANGED vars

Generate == \/ GenerateAfterEof \/ OpenFails \/ NextFails \/ NextRow
            \/ NextRowUnencodable \/ NextEof \/ NextEofDropPanics \/ NextOnDangling

exec_get_next == \/ PropertiesPanic \/ Forward \/ ForwardDetached \/ FirstRow
                 \/ FirstPauseOrError \/ Generate

Next == exec_get_next \/ SetSource \/ OpenReopenClose \/ Destroy \/ HostRelease \/ Finished

Spec == Init /\ [][Next]_vars

-----------------------------------------------------------------------------
(* The variables range over what the fields and results can hold.          *)
TypeOK ==
    /\ requires \in BOOLEAN /\ alive \in BOOLEAN /\ source \in BOOLEAN
    /\ mode \in Modes
    /\ saw_upstream_advanced \in BOOLEAN
    /\ generator_done \in BOOLEAN /\ state \in BOOLEAN
    /\ res \in Results
    /\ status \in {"ok", "error"} /\ lastCall \in Calls
    /\ box \in {"none", "live", "dangling"}
    /\ opens \in Nat /\ produced \in 0..GenRows
    /\ sent \subseteq {"upstream", "generator"}
    /\ pulled \in BOOLEAN
    /\ live \subseteq Bufs
    /\ aborted \in BOOLEAN

(* A host never receives both rows of the upstream and rows of the stage,  *)
(* whatever it attaches, detaches, retries or reopens in between           *)
(* (source_stage.rs: "forward a nonempty upstream unchanged").             *)
OneOriginOnly == sent # {"upstream", "generator"}

(* A stage that declares requiresInputDocSource false never reads its      *)
(* upstream, not even once.                                                *)
ExplicitGeneratorNeverPulls == ~requires => ~pulled

(* The opaque state: the open hook succeeds at most once in the life of an *)
(* executor, the pointer is non-null exactly while the state lives, and    *)
(* nothing is left of it after the end of the rows or after destroy.  Only *)
(* a drop hook that panics breaks the pairing, and then visibly so.        *)
StateOwnership ==
    /\ opens <= 1
    /\ box # "dangling" => (state <=> box = "live")
    /\ generator_done => ~state
    /\ ~alive /\ ~aborted => box = "none"

(* No result names a buffer twice, or one that is not allocated.           *)
ResultBuffersLive ==
    /\ Owned(res) \subseteq live
    /\ res.doc = res.meta => res.doc = NoBuf

Lost == live \ Owned(res)

(* Two calls lose a buffer, one each, and no other call loses any: the one *)
(* that falls back from an empty upstream and succeeds overwrites the      *)
(* metadata the upstream attached to its end, and the one that fails since *)
(* a row's metadata does not encode drops the document encoded before it.  *)
MetadataOverwritten ==
    /\ mode = "MODE_INIT" /\ mode' = "MODE_GENERATOR" /\ status' = "ok"
    /\ \E b \in UpBufs : Lost' = Lost \cup {b}

DocumentDropped ==
    /\ produced' = produced + 1 /\ status' = "error"
    /\ \E b \in OwnBufs : Lost' = Lost \cup {b}

LossOnlyOnFallbackOrError ==
    [][Lost' = Lost \/ MetadataOverwritten \/ DocumentDropped]_vars

(* A row the stage's next hook produced is handed over by that very call,  *)
(* or that call reports an error: no row vanishes under a success.         *)
RowDeliveredOrReported ==
    [][produced' # produced => status' = "error" \/ (res'.code = "kAdvanced" /\ "generator" \in sent')]_vars

(* Once the stage has reported the end of its rows no call of any kind     *)
(* makes it report a row again or read the upstream.                       *)
EofIsFinal ==
    [][generator_done => generator_done' /\ res'.code # "kAdvanced" /\ produced' = produced /\ pulled' = pulled]_vars

(* A successful get_next has written its result, unless the host detached  *)
(* the upstream of a stage that was forwarding it.                         *)
SuccessWritesResult ==
    lastCall = "get_next" /\ status = "ok" /\ res = Fresh /\ ~aborted
        => mode = "MODE_PASSTHROUGH" /\ ~source

(* What makes the safety properties inductive: the mode is a commitment to *)
(* one origin, the forwarding mode is the one with saw_upstream_advanced,  *)
(* and an open state or a finished generator has committed to generating.  *)
ModeInv ==
    /\ saw_upstream_advanced <=> mode = "MODE_PASSTHROUGH"
    /\ ~requires => mode # "MODE_PASSTHROUGH" /\ ~pulled
    /\ "upstream" \in sent => mode = "MODE_PASSTHROUGH"
    /\ "generator" \in sent => mode = "MODE_GENERATOR"
    /\ state \/ generator_done => mode = "MODE_GENERATOR"

StateInv ==
    /\ StateOwnership
    /\ alive /\ ~state /\ ~generator_done => opens = 0
    /\ box = "dangling" => state

EofHeld == generator_done => res.code # "kAdvanced"

IInv == ModeInv /\ StateInv /\ ResultBuffersLive /\ SuccessWritesResult /\ EofHeld

(* What the C header says of reopen, "semantically equivalent to close() + *)
(* open()", where close "frees all acquired resources" and open "positions *)
(* [the stage] before the first result".                                   *)
ReopenRepositions == lastCall = "reopen" => ~generator_done

(* What ARCHITECTURE.md says of panics in SDK-wrapped entry points: they   *)
(* "do not unwind across the FFI edge".                                    *)
PanicsContained == ~aborted

(* What the C header says of an owned buffer, "ownership of the buffer is  *)
(* transferred to the caller", for the buffers this stage receives as the  *)
(* caller of its upstream: each is handed on or released.                  *)
UpstreamBuffersAccounted == Lost \cap UpBufs = {}

-----------------------------------------------------------------------------
(* The refinement mapping to RowStream.                                    *)
phaseBar ==
    IF mode = "MODE_PASSTHROUGH" THEN "forwarding"
    ELSE IF mode = "MODE_GENERATOR" THEN IF generator_done THEN "exhausted" ELSE "generating"
    ELSE "undecided"

resultBar ==
    IF res.code = "kEOF" THEN "eof"
    ELSE IF res.code = "kPauseExecution" THEN "pause"
    ELSE IF res.code = "unset" THEN "none"
    ELSE IF mode = "MODE_PASSTHROUGH" THEN "upstream_row" ELSE "own_row"

answerBar ==
    IF lastCall # "get_next" \/ aborted THEN "none"
    ELSE IF status = "error" THEN "error" ELSE resultBar

Stream == INSTANCE RowStream WITH phase <- phaseBar, answer <- answerBar

(* The executor implements the abstract row stream.                        *)
ImplementsRowStream == Stream!Spec
=============================================================================
