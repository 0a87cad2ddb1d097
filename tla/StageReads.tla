-------------------------------- MODULE StageReads --------------------------------
(***************************************************************************)
(* What the host reads of a stage's objects while they live, die and are   *)
(* cloned: byte buffers of its own (byte_buf.rs) with the stage as it was  *)
(* written, its planner properties (stage_properties.rs, stage_model.rs),  *)
(* and the answers of the vtable entries that decide nothing.              *)
(*                                                                         *)
(*   reply       the buffer the host holds, with its content, or NoReply   *)
(***************************************************************************)
EXTENDS StageLifecycle

VARIABLES reply

allVars == <<vars, reply>>

-----------------------------------------------------------------------------
(* The plans of stages: defaults, and the generators that override them.   *)
SourceDefault    == [stream |-> "streaming", position |-> "first", requires_input |-> TRUE]
TransformDefault == [stream |-> "streaming", position |-> "none", requires_input |-> TRUE]
Generator        == [SourceDefault EXCEPT !.requires_input = FALSE]

(* The stages of this module: a generator on the router, and a transform.  *)
Properties ==
    [plan |-> IF family = "source" THEN Generator ELSE TransformDefault,
     host |-> IF family = "source" THEN "router" ELSE "none"]

(* to_document_with_host_type: placement is told only when there is one.   *)
PropertiesDocument(p) ==
    [name \in {"streamType", "position", "requiresInputDocSource"}
                 \cup IF p.host = "router" THEN {"hostType"} ELSE {} |->
        CASE name = "streamType" -> p.plan.stream
          [] name = "position" -> p.plan.position
          [] name = "requiresInputDocSource" -> IF p.plan.requires_input THEN "true" ELSE "false"
          [] name = "hostType" -> "router"]

-----------------------------------------------------------------------------
(* A buffer has its own bytes.                                             *)
NoReply         == << >>
Buffer(content) == << content >>

(* The host reads one thing at a time, and releases it before the next.    *)
Free == reply = NoReply

Reads(content) ==
    /\ Free
    /\ reply' = Buffer(content)
    /\ status' = "ok"
    /\ UNCHANGED <<config, heap, fields, hostOwns, lookupFailures>>

(* get_query_shape and to_bson_for_log of parse nodes, serialize and       *)
(* explain of logical stages: the stage document, around a copy of args.   *)
StageDocument(i) == args[i]

ReadsStage(k) ==
    \E i \in hostOwns : kind[i] = k /\ Reads(StageDocument(i))

GetQueryShape   == ReadsStage("parse")
ToBsonForLog    == ReadsStage("parse")
Serialize       == ReadsStage("logical")
ExplainLogical  == ReadsStage("logical")

(* get_properties, of a node of the extension's own.                       *)
GetProperties ==
    \E i \in hostOwns :
        /\ kind[i] = "ast"
        /\ Reads(PropertiesDocument(Properties))

(* An executor explains itself with an empty document, and the metrics of  *)
(* a transform say nothing, whatever the host tells them.                  *)
ReadsEmpty == \E i \in hostOwns : kind[i] = "exec" /\ Reads(Empty)

ExplainExec      == ReadsEmpty
SerializeMetrics == family = "transform" /\ ReadsEmpty

(* Null buffers: no filter, no sort pattern, no bounds.  And what answers  *)
(* OK and does nothing: view policy and binding, the limit, rewrite rules  *)
(* that never apply, suffix dependencies, streams to skip, metrics of a    *)
(* transform, which have no fields; a transform has no plan to distribute. *)
Answers(k) ==
    /\ \E i \in hostOwns : kind[i] = k
    /\ status' = "ok"
    /\ UNCHANGED <<config, heap, fields, hostOwns, lookupFailures, reply>>

NullBuffers     == Answers("logical")
BindView        == Answers("ast")
RewriteRules    == Answers("logical")
NoDistribution  == family = "transform" /\ Answers("logical")
EmptyMetrics    == family = "transform" /\ Answers("exec")

(* size, of an array: the length a transfer has to be given.               *)
ReadSize == Answers("array")

(* byte_buf_destroy.                                                       *)
Release ==
    /\ ~Free
    /\ reply' = NoReply
    /\ UNCHANGED vars

-----------------------------------------------------------------------------
ReadsInit ==
    /\ Init
    /\ reply = NoReply

Read ==
    \/ GetQueryShape \/ ToBsonForLog \/ Serialize \/ ExplainLogical
    \/ GetProperties \/ ExplainExec \/ SerializeMetrics
    \/ NullBuffers \/ BindView \/ RewriteRules \/ NoDistribution \/ EmptyMetrics
    \/ ReadSize

ReadsNext ==
    \/ Next /\ UNCHANGED reply
    \/ Read
    \/ Release

ReadsSpec == ReadsInit /\ [][ReadsNext]_allVars
=============================================================================
