----------------------------- MODULE StageLifecycle -----------------------------
(***************************************************************************)
(* From the text of a stage to its executor: parse nodes, their expansion, *)
(* AST nodes, logical stages and executors, as source_stage.rs,            *)
(* map_transform.rs and passthrough.rs implement them alike.  The host     *)
(* calls in any order, keeps, clones and destroys what it owns, and        *)
(* transfers the nodes of an expanded array once.                          *)
(*                                                                         *)
(*   family, expect_empty   of the stage: "source" or "transform" (map and *)
(*                 passthrough); its arguments must be an empty document   *)
(*   heap          objects allocated and not yet destroyed                 *)
(*   kind, args, catalog   of each: ParseObj, ExpandedSingle or            *)
(*                 ExpandedMulti ("array"), AstObj, the host's id-lookup   *)
(*                 node ("lookup"), LogicalObj, ExecObj; its fields        *)
(*   asts, transferred     of each array                                   *)
(*   hostOwns      objects the host has to destroy                         *)
(*   status        what the last call returned                             *)
(* and what the properties observe:                                        *)
(*   origin        of each object: the arguments that the user or the      *)
(*                 expand hook wrote, and the context of its bind          *)
(*   lookupFailures   id-lookup nodes that the host could not make         *)
(***************************************************************************)
EXTENDS Integers, Sequences, FiniteSets, Functions

CONSTANTS
    Ids,        \* identities of objects; reused once destroyed
    Args,       \* argument documents of stages
    Empty,      \* the empty one among them
    Catalogs,   \* complete catalog contexts
    MaxStages,  \* bound: stages of an expansion
    MaxFailures \* bound: id-lookup failures

ASSUME EmptyAssumption == Empty \in Args

ASSUME BoundAssumption == MaxStages \in Nat /\ MaxFailures \in Nat

VARIABLES family, expect_empty, heap, kind, args, catalog, asts, transferred, hostOwns,
          status, origin, lookupFailures

config == <<family, expect_empty>>
fields == <<kind, args, catalog, asts, transferred, origin>>
vars == <<config, heap, fields, hostOwns, status, lookupFailures>>

Kinds    == {"none", "parse", "array", "ast", "lookup", "logical", "exec"}
Contexts == Catalogs \cup {"null", "incomplete"}
NoArgs   == "no args"
Written(a, c) == [args |-> a, context |-> c]
NoObject == Written(NoArgs, "null")

ASSUME ValueAssumption ==
    /\ {"null", "incomplete", "absent"} \cap Catalogs = {}
    /\ {NoArgs, "invalid", "not a document"} \cap Args = {}

Init ==
    /\ family \in {"source", "transform"} /\ expect_empty \in BOOLEAN
    /\ heap = {} /\ hostOwns = {}
    /\ kind = [i \in Ids |-> "none"]
    /\ args = [i \in Ids |-> NoArgs]
    /\ catalog = [i \in Ids |-> "absent"]
    /\ asts = [i \in Ids |-> << >>]
    /\ transferred = [i \in Ids |-> FALSE]
    /\ origin = [i \in Ids |-> NoObject]
    /\ status = "ok"
    /\ lookupFailures = 0

-----------------------------------------------------------------------------
(* One new object i of the host's.                                         *)
Allocate(i, k, a, c, o) ==
    /\ i \in Ids \ heap
    /\ heap' = heap \cup {i}
    /\ kind' = [kind EXCEPT ![i] = k]
    /\ args' = [args EXCEPT ![i] = a]
    /\ catalog' = [catalog EXCEPT ![i] = c]
    /\ origin' = [origin EXCEPT ![i] = o]
    /\ hostOwns' = hostOwns \cup {i}
    /\ status' = "ok"
    /\ UNCHANGED <<config, asts, transferred, lookupFailures>>

Rejected == status' = "error" /\ UNCHANGED <<config, heap, fields, hostOwns, lookupFailures>>

-----------------------------------------------------------------------------
(* desc_parse: a document whose first field is the stage's name, with a    *)
(* document as its value.                                                  *)
Documents == [key : {"own", "other"}, value : Args \cup {"not a document"}]

Parses(d) ==
    /\ d.key = "own"
    /\ d.value \in Args
    /\ expect_empty => d.value = Empty

Parse ==
    \E d \in Documents, i \in Ids :
        /\ Parses(d)
        /\ Allocate(i, "parse", d.value, "absent", Written(d.value, "null"))

ParseRejects == (\E d \in Documents : ~Parses(d)) /\ Rejected

-----------------------------------------------------------------------------
(* parse_expand: an array c that keeps new AST nodes.  `written` are the   *)
(* arguments of each; the host's id-lookup node has none of the stage's.   *)
ParseNodes == {p \in hostOwns : kind[p] = "parse"}

Expanded(c, nodes, written) ==
    LET new == Range(nodes)
        at(i) == CHOOSE n \in DOMAIN nodes : nodes[n] = i
        arg(i) == written[at(i)] IN
    /\ heap' = heap \cup new \cup {c}
    /\ kind' = [i \in Ids |-> IF i = c THEN "array"
                              ELSE IF i \notin new THEN kind[i]
                              ELSE IF arg(i) = NoArgs THEN "lookup" ELSE "ast"]
    /\ args' = [i \in Ids |-> IF i \in new THEN arg(i) ELSE args[i]]
    /\ origin' = [i \in Ids |-> IF i \in new THEN Written(arg(i), "null") ELSE origin[i]]
    /\ asts' = [asts EXCEPT ![c] = nodes]
    /\ hostOwns' = hostOwns \cup {c}
    /\ status' = "ok"
    /\ UNCHANGED <<config, catalog, transferred, lookupFailures>>

Expand(written) ==
    \E c \in Ids \ heap : \E nodes \in Injection(DOMAIN written, Ids \ (heap \cup {c})) :
        Expanded(c, nodes, written)

(* SelfStage, or no expand hook: one node with the arguments as they are.  *)
ExpandSelf == \E p \in ParseNodes : Expand(<<args[p]>>)

(* Pipeline: what the hook returns must be stages of this very operator    *)
(* with a document as arguments (anything else is "invalid"), at least one.*)
Pipelines == UNION {[1..n -> Args \cup {"invalid"}] : n \in 0..MaxStages}

Accepted(pipeline) == pipeline # << >> /\ \A n \in DOMAIN pipeline : pipeline[n] \in Args

ExpandPipeline ==
    /\ ParseNodes # {}
    /\ \E pipeline \in Pipelines : Accepted(pipeline) /\ Expand(pipeline)

(* WithHostIdLookup, for source stages: a stage of the extension and then  *)
(* the host's node, which the host makes last.                             *)
ExpandWithLookup ==
    /\ family = "source" /\ ParseNodes # {}
    /\ \E a \in Args : Expand(<<a, NoArgs>>)

(* When the host cannot make it, the extension's node is left behind.      *)
LookupFails ==
    /\ family = "source" /\ ParseNodes # {}
    /\ lookupFailures < MaxFailures /\ lookupFailures' = lookupFailures + 1
    /\ \E a \in Args, i \in Ids \ heap :
         /\ heap' = heap \cup {i}
         /\ kind' = [kind EXCEPT ![i] = "ast"]
         /\ args' = [args EXCEPT ![i] = a]
         /\ origin' = [origin EXCEPT ![i] = Written(a, "null")]
    /\ status' = "error"
    /\ UNCHANGED <<config, catalog, asts, transferred, hostOwns>>

(* The hook fails or panics, its pipeline is not accepted, a transform     *)
(* asks for an id lookup, or its extension stage is not accepted.          *)
ExpandRejects == ParseNodes # {} /\ Rejected

-----------------------------------------------------------------------------
(* The transfer of an array: the host passes an array of some size.        *)
Arrays == {c \in hostOwns : kind[c] = "array" /\ ~transferred[c]}

Transfer ==
    \E c \in Arrays :
        /\ hostOwns' = hostOwns \cup Range(asts[c])
        /\ transferred' = [transferred EXCEPT ![c] = TRUE]
        /\ status' = "ok"
        /\ UNCHANGED <<config, heap, kind, args, catalog, asts, origin, lookupFailures>>

(* Fault: the flag is set before the size is looked at.                    *)
FaultFlagFirst ==
    \E c \in Arrays :
        /\ transferred' = [transferred EXCEPT ![c] = TRUE]
        /\ status' = "error"
        /\ UNCHANGED <<config, heap, kind, args, catalog, asts, origin, hostOwns, lookupFailures>>

TransferRejects == Arrays # {} /\ Rejected

-----------------------------------------------------------------------------
(* What dies with an object: an array that was not transferred destroys    *)
(* its nodes.  Faults: the flag is not read; the nodes are forgotten.      *)
FaultFlagIgnored(i)    == {i} \cup Range(asts[i])
FaultNodesForgotten(i) == {i}
Destroyed(i) == {i} \cup IF transferred[i] THEN {} ELSE Range(asts[i])

Destroy ==
    \E i \in hostOwns :
        LET dead == Destroyed(i) IN
        /\ heap' = heap \ dead
        /\ hostOwns' = hostOwns \ {i}
        /\ kind' = [n \in Ids |-> IF n \in dead THEN "none" ELSE kind[n]]
        /\ args' = [n \in Ids |-> IF n \in dead THEN NoArgs ELSE args[n]]
        /\ catalog' = [n \in Ids |-> IF n \in dead THEN "absent" ELSE catalog[n]]
        /\ origin' = [n \in Ids |-> IF n \in dead THEN NoObject ELSE origin[n]]
        /\ asts' = [n \in Ids |-> IF n \in dead THEN << >> ELSE asts[n]]
        /\ transferred' = [n \in Ids |-> n \notin dead /\ transferred[n]]
        /\ status' = "ok"
        /\ UNCHANGED <<config, lookupFailures>>

-----------------------------------------------------------------------------
(* Clones carry every field.  Fault: the context stays behind.             *)
FaultContextStays(i) == "absent"
CopiedCatalog(i)     == catalog[i]

CloneOf(k) ==
    \E i \in hostOwns, n \in Ids :
        /\ kind[i] = k
        /\ Allocate(n, k, args[i], CopiedCatalog(i), origin[i])

parse_clone == CloneOf("parse")
ast_clone   == CloneOf("ast")
log_clone   == CloneOf("logical")

(* ast_bind: source stages copy the host's context, when it names a        *)
(* database and a collection; transforms do not look at it.                *)
Kept(context) == IF context \in Catalogs THEN context ELSE "absent"

Bind(i, n, context, c) ==
    /\ i \in hostOwns /\ kind[i] = "ast"
    /\ Allocate(n, "logical", args[i], c, Written(origin[i].args, context))

BindSource ==
    /\ family = "source"
    /\ \E i, n \in Ids, context \in Contexts : Bind(i, n, context, Kept(context))

BindTransform ==
    /\ family = "transform"
    /\ \E i, n \in Ids, context \in Contexts : Bind(i, n, context, "absent")

(* log_compile.                                                            *)
Compile ==
    \E i \in hostOwns, n \in Ids :
        /\ kind[i] = "logical"
        /\ Allocate(n, "exec", args[i], catalog[i], origin[i])

Next ==
    \/ Parse \/ ParseRejects
    \/ ExpandSelf \/ ExpandPipeline \/ ExpandWithLookup \/ LookupFails \/ ExpandRejects
    \/ Transfer \/ TransferRejects
    \/ Destroy \/ parse_clone \/ ast_clone \/ log_clone
    \/ BindSource \/ BindTransform \/ Compile

Spec == Init /\ [][Next]_vars

-----------------------------------------------------------------------------
(* The variables range over what the fields can hold.                      *)
TypeOK ==
    /\ family \in {"source", "transform"} /\ expect_empty \in BOOLEAN
    /\ heap \subseteq Ids /\ hostOwns \subseteq Ids
    /\ kind \in [Ids -> Kinds]
    /\ args \in [Ids -> Args \cup {NoArgs}]
    /\ catalog \in [Ids -> Catalogs \cup {"absent"}]
    /\ asts \in [Ids -> Seq(Ids)]
    /\ transferred \in [Ids -> BOOLEAN]
    /\ origin \in [Ids -> [args : Args \cup {NoArgs}, context : Contexts]]
    /\ status \in {"ok", "error"} /\ lookupFailures \in 0..MaxFailures

(* Nodes that arrays keep and will destroy; and objects without an owner.  *)
KeptBy(c) == IF transferred[c] THEN {} ELSE Range(asts[c])
Contained == UNION {KeptBy(c) : c \in heap}
Lost == heap \ (hostOwns \cup Contained)

(* No pointer of the host's or of an array dangles, and nothing is owned   *)
(* twice: neither by the host and an array nor by two arrays.              *)
ExclusiveOwnership ==
    /\ hostOwns \cup Contained \subseteq heap
    /\ hostOwns \cap Contained = {}
    /\ \A c, d \in heap : c # d => KeptBy(c) \cap KeptBy(d) = {}

(* Whatever the host destroys, and in whatever order, what it cannot reach *)
(* any more is gone: only failed id lookups leave objects behind, one each.*)
OnlyLookupsLeak == Cardinality(Lost) = lookupFailures

(* A node, stage or executor works on the arguments that the user or the   *)
(* hook wrote, and on the context of its bind, through all copies made and *)
(* originals destroyed on the way.                                         *)
InputsSurvive ==
    \A i \in heap : kind[i] \in {"parse", "ast", "logical", "exec"} =>
        /\ args[i] = origin[i].args /\ args[i] \in Args
        /\ catalog[i] = IF family = "source" THEN Kept(origin[i].context) ELSE "absent"

(* What makes these inductive: an identity that names no object keeps      *)
(* nothing, and what keeps nodes is the host's.                            *)
FreeIdsBlank ==
    \A i \in Ids \ heap :
        /\ asts[i] = << >> /\ transferred[i] = FALSE
        /\ catalog[i] = "absent" /\ origin[i] = NoObject

KeepersAreOwned == \A i \in heap : asts[i] # << >> => i \in hostOwns

IInv == ExclusiveOwnership /\ InputsSurvive /\ FreeIdsBlank /\ KeepersAreOwned

(* A failed call takes nothing from anybody: it can be followed by another *)
(* try, and what the host then destroys is still all there.                *)
FailureTakesNothing ==
    [][status' = "error" => hostOwns' = hostOwns /\ Contained' = Contained]_vars

-----------------------------------------------------------------------------
(* The refinement mapping to HandleLedger.                                 *)
OwnerOf(i) ==
    IF i \notin heap THEN "free"
    ELSE IF i \in hostOwns THEN "host"
    ELSE IF i \in Contained THEN "extension"
    ELSE "lost"

owner == [i \in Ids |-> OwnerOf(i)]

Ledger == INSTANCE HandleLedger WITH owner <- owner

(* The objects of a stage's life implement the abstract ledger.            *)
ImplementsLedger == Ledger!Spec
=============================================================================
