--------------------------- MODULE DistributedPlan ---------------------------
(***************************************************************************)
(* Distributed planning of a bound source stage: get_distributed_plan_logic *)
(* (log_dpl of source_stage.rs) builds a plan out of a planned copy of the *)
(* stage and of parse nodes that the host creates (build_merger of         *)
(* distributed_plan.rs); the host extracts the plan's two components,      *)
(* transfers their stages to itself and destroys what it holds, in any     *)
(* order.  Everything passes by raw pointers, so the question is who owns  *)
(* each object.                                                            *)
(*                                                                         *)
(*   requires, hook   requiresInputDocSource; merging_pipeline is present  *)
(*   heap             stage objects allocated and not yet destroyed        *)
(*   kind, applied    of each: a logical stage or a parse node, and the    *)
(*                    plan_applied flag of a logical stage                 *)
(*   hostStages       stage pointers the host owns                         *)
(*   pc, building, suffix   the build_merger call under way: the vector    *)
(*                    `stages` and the suffix documents still to convert   *)
(*   plans            Plan objects the host owns                           *)
(*   shards_extracted field of Plan                                        *)
(*   where, stages    of each container: absent, inside its Plan or owned  *)
(*                    by the host; and the stages in it                    *)
(*   taken            containers whose `stages` field is None              *)
(*   status           what the last call returned                          *)
(* and what the properties observe:                                        *)
(*   depth            how many plannings lie behind a logical stage        *)
(***************************************************************************)
EXTENDS Integers, Sequences, FiniteSets, Functions

CONSTANTS
    Stages,     \* identities of stage objects; reused once destroyed
    Plans,      \* identities of Plan objects
    MaxSuffix   \* bound: host stages after the source on the merger

ASSUME MaxSuffixAssumption == MaxSuffix \in Nat

VARIABLES requires, hook, heap, kind, applied, hostStages, pc, building, suffix,
          plans, shards_extracted, where, stages, taken, status, depth

config   == <<requires, hook>>
objects  == <<heap, kind, applied, depth>>
builder  == <<pc, building, suffix>>
planVars == <<plans, shards_extracted, where, stages, taken>>
vars == <<config, objects, hostStages, builder, planVars, status>>

Slots      == {"merger", "shards"}
Containers == Plans \X Slots
Merger(p)  == <<p, "merger">>
Shards(p)  == <<p, "shards">>

Init ==
    /\ requires \in BOOLEAN /\ hook \in BOOLEAN
    /\ heap = {} /\ hostStages = {}
    /\ kind = [s \in Stages |-> "logical"]
    /\ applied = [s \in Stages |-> FALSE]
    /\ depth = [s \in Stages |-> 0]
    /\ pc = "idle" /\ building = << >> /\ suffix = 0
    /\ plans = {}
    /\ shards_extracted = [p \in Plans |-> FALSE]
    /\ where = [c \in Containers |-> "absent"]
    /\ stages = [c \in Containers |-> << >>]
    /\ taken = {}
    /\ status = "ok"

Allocate(s, k, planned, n) ==
    /\ heap' = heap \cup {s}
    /\ kind' = [kind EXCEPT ![s] = k]
    /\ applied' = [applied EXCEPT ![s] = planned]
    /\ depth' = [depth EXCEPT ![s] = n]

(* A destroyed object keeps nothing: its identity may be used again.       *)
Free(S) ==
    /\ heap' = heap \ S
    /\ kind' = [s \in Stages |-> IF s \in S THEN "logical" ELSE kind[s]]
    /\ applied' = [s \in Stages |-> s \notin S /\ applied[s]]
    /\ depth' = [s \in Stages |-> IF s \in S THEN 0 ELSE depth[s]]

-----------------------------------------------------------------------------
(* Logical stages in the host's hands.                                     *)
ast_bind ==
    /\ pc = "idle"
    /\ \E s \in Stages \ heap :
         /\ Allocate(s, "logical", FALSE, 0)
         /\ hostStages' = hostStages \cup {s}
    /\ status' = "ok"
    /\ UNCHANGED <<config, builder, planVars>>

(* Fault: the copy starts as logical_alloc makes it, unplanned.  Faults    *)
(* seeded for the mutation runs stand before the definition they replace.  *)
FaultCloneForgetsPlan(s) == FALSE
ClonedFlag(s)            == applied[s]

log_clone ==
    /\ pc = "idle"
    /\ \E s \in hostStages, n \in Stages \ heap :
         /\ kind[s] = "logical"
         /\ Allocate(n, "logical", ClonedFlag(s), depth[s])
         /\ hostStages' = hostStages \cup {n}
    /\ status' = "ok"
    /\ UNCHANGED <<config, builder, planVars>>

(* The host destroys a stage it owns (log_destroy, or a parse node's).     *)
HostDestroysStage ==
    /\ pc = "idle"
    /\ \E s \in hostStages : Free({s}) /\ hostStages' = hostStages \ {s}
    /\ status' = "ok"
    /\ UNCHANGED <<config, builder, planVars>>

-----------------------------------------------------------------------------
(* log_dpl on a stage the host owns.  No plan for a planned stage, without *)
(* the hook, or when the hook returns None ...                             *)
PlanNothing ==
    /\ pc = "idle"
    /\ \E s \in hostStages : kind[s] = "logical"
    /\ status' = "ok"
    /\ UNCHANGED <<config, objects, hostStages, builder, planVars>>

(* ... an error when the arguments do not decode or the hook fails ...     *)
HookFails ==
    /\ pc = "idle" /\ hook
    /\ \E s \in hostStages : kind[s] = "logical" /\ ~applied[s]
    /\ status' = "error"
    /\ UNCHANGED <<config, objects, hostStages, builder, planVars>>

(* ... and otherwise build_merger starts from a planned copy of the stage. *)
Plannable(s) == kind[s] = "logical" /\ ~applied[s]

StartPlan ==
    /\ pc = "idle" /\ hook
    /\ \E s \in hostStages, n \in Stages \ heap :
         /\ Plannable(s)
         /\ Allocate(n, "logical", TRUE, depth[s] + 1)
         /\ building' = <<n>>
    /\ suffix' \in 0..MaxSuffix
    /\ pc' = "building" /\ status' = "ok"
    /\ UNCHANGED <<config, hostStages, planVars>>

(* A suffix document becomes a parse node of the host.                     *)
Pushed(s) == Append(building, s)

MoreSuffix == suffix > 0

AddSuffix ==
    /\ pc = "building" /\ MoreSuffix
    /\ \E s \in Stages \ heap :
         /\ Allocate(s, "parse", FALSE, 0)
         /\ building' = Pushed(s)
    /\ suffix' = suffix - 1 /\ status' = "ok"
    /\ UNCHANGED <<config, pc, hostStages, planVars>>

(* A suffix document that is not a single-operator stage, a host that does *)
(* not create the node, or a panic: the vector drops what it holds.        *)
Dropped == Range(building)

BuildFails ==
    /\ pc = "building"
    /\ Free(Dropped)
    /\ pc' = "idle" /\ building' = << >> /\ suffix' = 0
    /\ status' = "error"
    /\ UNCHANGED <<config, hostStages, planVars>>

(* The plan: a merger, and a constant-false $match on the shards when the  *)
(* stage requires no input.  Fault: the condition is inverted.             *)
FaultSuppressInverted == requires
Suppress              == ~requires

PlanBuilt(p) ==
    /\ pc = "building" /\ suffix = 0
    /\ p \notin plans /\ where[Merger(p)] = "absent" /\ where[Shards(p)] = "absent"
    /\ plans' = plans \cup {p}
    /\ shards_extracted' = [shards_extracted EXCEPT ![p] = FALSE]
    /\ pc' = "idle" /\ building' = << >> /\ suffix' = 0
    /\ status' = "ok"
    /\ UNCHANGED <<config, hostStages, taken>>

PlanWithShards(p) ==
    /\ PlanBuilt(p) /\ Suppress
    /\ \E m \in Stages \ heap :
         /\ Allocate(m, "parse", FALSE, 0)
         /\ stages' = [stages EXCEPT ![Merger(p)] = building, ![Shards(p)] = <<m>>]
    /\ where' = [where EXCEPT ![Merger(p)] = "plan", ![Shards(p)] = "plan"]

PlanWithoutShards(p) ==
    /\ PlanBuilt(p) /\ ~Suppress
    /\ stages' = [stages EXCEPT ![Merger(p)] = building]
    /\ where' = [where EXCEPT ![Merger(p)] = "plan"]
    /\ UNCHANGED objects

-----------------------------------------------------------------------------
(* The plan's components move to the host, each once.                      *)
Extracted(c) == "host"

ExtractShards(p) ==
    /\ pc = "idle" /\ p \in plans /\ ~shards_extracted[p]
    /\ shards_extracted' = [shards_extracted EXCEPT ![p] = TRUE]
    /\ where' = IF where[Shards(p)] = "plan"
                THEN [where EXCEPT ![Shards(p)] = Extracted(Shards(p))] ELSE where
    /\ status' = "ok"
    /\ UNCHANGED <<config, objects, hostStages, builder, plans, stages, taken>>

ExtractMerger(p) ==
    /\ pc = "idle" /\ p \in plans /\ where[Merger(p)] = "plan"
    /\ where' = [where EXCEPT ![Merger(p)] = Extracted(Merger(p))]
    /\ status' = "ok"
    /\ UNCHANGED <<config, objects, hostStages, builder, plans, shards_extracted, stages, taken>>

ExtractAgain(p) ==
    /\ pc = "idle" /\ p \in plans
    /\ shards_extracted[p] \/ where[Merger(p)] # "plan"
    /\ status' = "error"
    /\ UNCHANGED <<config, objects, hostStages, builder, planVars>>

(* container_transfer hands the stages over and leaves None behind.        *)
FaultStagesStay(c) == stages
Emptied(c)         == [stages EXCEPT ![c] = << >>]

Transfer(c) ==
    /\ pc = "idle" /\ where[c] = "host" /\ c \notin taken
    /\ hostStages' = hostStages \cup Range(stages[c])
    /\ stages' = Emptied(c)
    /\ taken' = taken \cup {c}
    /\ status' = "ok"
    /\ UNCHANGED <<config, objects, builder, plans, shards_extracted, where>>

(* A null argument, a container transferred before, or an output array of  *)
(* the wrong size.                                                         *)
TransferFails(c) ==
    /\ pc = "idle" /\ where[c] = "host"
    /\ status' = "error"
    /\ UNCHANGED <<config, objects, hostStages, builder, planVars>>

(* Destroying a container or a plan drops whatever is still inside.        *)
container_destroy(c) ==
    /\ pc = "idle" /\ where[c] = "host"
    /\ Free(Range(stages[c]))
    /\ where' = [where EXCEPT ![c] = "absent"]
    /\ stages' = [stages EXCEPT ![c] = << >>]
    /\ taken' = taken \ {c}
    /\ status' = "ok"
    /\ UNCHANGED <<config, hostStages, builder, plans, shards_extracted>>

Inside(p) == {c \in {Merger(p), Shards(p)} : where[c] = "plan"}

plan_destroy(p) ==
    /\ pc = "idle" /\ p \in plans
    /\ plans' = plans \ {p}
    /\ Free(UNION {Range(stages[c]) : c \in Inside(p)})
    /\ where' = [c \in Containers |-> IF c \in Inside(p) THEN "absent" ELSE where[c]]
    /\ stages' = [c \in Containers |-> IF c \in Inside(p) THEN << >> ELSE stages[c]]
    /\ shards_extracted' = [shards_extracted EXCEPT ![p] = FALSE]
    /\ status' = "ok"
    /\ UNCHANGED <<config, hostStages, builder, taken>>

OnPlan(p) == \/ PlanWithShards(p) \/ PlanWithoutShards(p)
             \/ ExtractShards(p) \/ ExtractMerger(p) \/ ExtractAgain(p) \/ plan_destroy(p)

OnContainer(c) == Transfer(c) \/ TransferFails(c) \/ container_destroy(c)

Next == \/ ast_bind \/ log_clone \/ HostDestroysStage
        \/ PlanNothing \/ HookFails \/ StartPlan \/ AddSuffix \/ BuildFails
        \/ \E p \in Plans : OnPlan(p)
        \/ \E c \in Containers : OnContainer(c)

Spec == Init /\ [][Next]_vars

-----------------------------------------------------------------------------
(* The variables range over what the objects and fields can hold.          *)
TypeOK ==
    /\ requires \in BOOLEAN /\ hook \in BOOLEAN
    /\ heap \subseteq Stages /\ hostStages \subseteq Stages
    /\ kind \in [Stages -> {"logical", "parse"}]
    /\ applied \in [Stages -> BOOLEAN] /\ depth \in [Stages -> Nat]
    /\ pc \in {"idle", "building"}
    /\ building \in Seq(Stages) /\ suffix \in 0..MaxSuffix
    /\ plans \subseteq Plans /\ shards_extracted \in [Plans -> BOOLEAN]
    /\ where \in [Containers -> {"absent", "plan", "host"}]
    /\ stages \in [Containers -> Seq(Stages)]
    /\ taken \subseteq Containers
    /\ status \in {"ok", "error"}

(* Every allocated stage has exactly one owner: the host, the build under  *)
(* way, or one container; and no owner has a destroyed one.  So nothing is *)
(* leaked by a failed build or an unextracted component, and nothing is    *)
(* destroyed twice, in whatever order the host destroys what it holds.     *)
ExclusiveOwnership ==
    /\ \A s \in Stages : s \in heap <=> \/ s \in hostStages \/ s \in Range(building)
                                       \/ \E c \in Containers : s \in Range(stages[c])
    /\ hostStages \cap Range(building) = {}
    /\ \A c \in Containers : Range(stages[c]) \cap (hostStages \cup Range(building)) = {}
    /\ \A c, d \in Containers : c # d => Range(stages[c]) \cap Range(stages[d]) = {}

(* Planning ends: the stage put on a merger is never planned a second      *)
(* time, whether the host keeps it or clones it.                           *)
PlannedOnce == \A s \in heap : kind[s] = "logical" => depth[s] <= 1

(* What makes these two inductive: an idle builder and an absent container *)
(* hold nothing, and a logical stage is planned once or not at all.        *)
OwnerInv ==
    /\ ExclusiveOwnership
    /\ pc = "idle" => building = << >>
    /\ \A c \in Containers : where[c] = "absent" => stages[c] = << >>

DepthInv == \A s \in heap : kind[s] = "logical" => depth[s] = IF applied[s] THEN 1 ELSE 0

(* A merger is the planned source followed by the host's nodes, whatever   *)
(* became of the stage that was planned.                                   *)
IsMerger(m, k, planned) ==
    /\ m # << >> /\ k[m[1]] = "logical" /\ planned[m[1]]
    /\ \A i \in 2..Len(m) : k[m[i]] = "parse"

MergerShape ==
    \A p \in Plans : where[Merger(p)] # "absent" /\ Merger(p) \notin taken =>
        IsMerger(stages[Merger(p)], kind, applied)

(* So is the vector of the builder, which makes it inductive.              *)
BuilderShape == pc = "building" => IsMerger(building, kind, applied)

(* The shards scan nothing exactly when the stage requires no input: their *)
(* component is a single node then, and absent (the whole input) if not.   *)
ShardsMatchInput ==
    /\ \A p \in plans : ~shards_extracted[p] =>
         (where[Shards(p)] = "plan" <=> ~requires)
    /\ \A p \in Plans : Len(stages[Shards(p)]) <= 1

(* The two parts of a plan fit each other and the stage they are made of.  *)
ComponentsMatch == MergerShape /\ ShardsMatchInput

(* A call that fails leaves the host's stages, the plans and the           *)
(* containers as they were: what failed can be tried again or destroyed.   *)
FailureConsumesNothing ==
    [][status' = "error" => UNCHANGED <<hostStages, planVars>> /\ heap' = heap \ Range(building)]_vars
=============================================================================
