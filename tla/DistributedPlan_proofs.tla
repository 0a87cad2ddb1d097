------------------------ MODULE DistributedPlan_proofs ------------------------
(***************************************************************************)
(* Proofs about DistributedPlan for every set of stages and plans and      *)
(* every length of the suffix: each stage object has one owner at every    *)
(* moment, a stage is planned at most once, the parts of a plan fit each   *)
(* other, and failures consume nothing.                                    *)
(***************************************************************************)
EXTENDS DistributedPlan, TLAPS

(* The stages in a vector, after the empty vector, a single stage and a    *)
(* push.                                                                   *)
LEMMA RangeEmpty == Range(<< >>) = {}
  BY DEF Range

LEMMA RangeSingle ==
  ASSUME NEW s
  PROVE  Range(<<s>>) = {s}
  BY DEF Range

LEMMA RangeAppend ==
  ASSUME NEW q \in Seq(Stages), NEW s \in Stages
  PROVE  Append(q, s) \in Seq(Stages) /\ Range(Append(q, s)) = Range(q) \cup {s}
<1>1. Append(q, s) \in Seq(Stages) /\ Len(Append(q, s)) = Len(q) + 1  OBVIOUS
<1>2. DOMAIN Append(q, s) = 1..(Len(q) + 1) /\ DOMAIN q = 1..Len(q)  OBVIOUS
<1>3. \A i \in 1..Len(q) : Append(q, s)[i] = q[i]  OBVIOUS
<1>4. Append(q, s)[Len(q) + 1] = s  OBVIOUS
<1>5. Len(q) \in Nat  OBVIOUS
<1>6. 1..(Len(q) + 1) = 1..Len(q) \cup {Len(q) + 1}  BY <1>5
<1> QED BY <1>1, <1>2, <1>3, <1>4, <1>6 DEF Range

LEMMA RangeOfStages ==
  ASSUME NEW q \in Seq(Stages)
  PROVE  Range(q) \subseteq Stages
  BY DEF Range

(* A plan's two containers.                                                *)
LEMMA TwoContainers ==
  ASSUME NEW p \in Plans
  PROVE  Merger(p) \in Containers /\ Shards(p) \in Containers /\ Merger(p) # Shards(p)
  BY DEF Merger, Shards, Containers, Slots

-----------------------------------------------------------------------------
(* A step keeps the variables in their types.                              *)
LEMMA TypeStep ==
  ASSUME TypeOK, [Next]_vars
  PROVE  TypeOK'
<1> USE MaxSuffixAssumption DEF TypeOK, config, objects, builder, planVars
<1>1. CASE ast_bind
  BY <1>1 DEF ast_bind, Allocate
<1>2. CASE log_clone
  BY <1>2 DEF log_clone, Allocate, ClonedFlag
<1>3. CASE HostDestroysStage
  BY <1>3 DEF HostDestroysStage, Free
<1>4. CASE PlanNothing
  BY <1>4 DEF PlanNothing
<1>5. CASE HookFails
  BY <1>5 DEF HookFails
<1>6. CASE StartPlan
  BY <1>6 DEF StartPlan, Allocate, Plannable
<1>7. CASE AddSuffix
  BY <1>7, RangeAppend DEF AddSuffix, Allocate, Pushed, MoreSuffix
<1>8. CASE BuildFails
  BY <1>8 DEF BuildFails, Free, Dropped
<1>9. ASSUME NEW p \in Plans, PlanWithShards(p) PROVE TypeOK'
  <2>1. PICK m \in Stages \ heap :
          /\ Allocate(m, "parse", FALSE, 0)
          /\ stages' = [stages EXCEPT ![Merger(p)] = building, ![Shards(p)] = <<m>>]
    BY <1>9 DEF PlanWithShards
  <2>2. <<m>> \in Seq(Stages)  OBVIOUS
  <2>3. stages' \in [Containers -> Seq(Stages)]  BY <2>1, <2>2, TwoContainers
  <2>4. where' \in [Containers -> {"absent", "plan", "host"}]
    BY <1>9, TwoContainers DEF PlanWithShards
  <2>5. heap' \subseteq Stages /\ kind' \in [Stages -> {"logical", "parse"}]
        /\ applied' \in [Stages -> BOOLEAN] /\ depth' \in [Stages -> Nat]
    BY <2>1 DEF Allocate
  <2>6. << >> \in Seq(Stages)  OBVIOUS
  <2> QED BY <1>9, <2>3, <2>4, <2>5, <2>6 DEF PlanWithShards, PlanBuilt
<1>10. ASSUME NEW p \in Plans, ExtractShards(p) PROVE TypeOK'
  BY <1>10, TwoContainers DEF ExtractShards, Extracted
<1>11. ASSUME NEW p \in Plans, ExtractMerger(p) PROVE TypeOK'
  BY <1>11, TwoContainers DEF ExtractMerger, Extracted
<1>12. ASSUME NEW p \in Plans, ExtractAgain(p) PROVE TypeOK'
  BY <1>12 DEF ExtractAgain
<1>13. ASSUME NEW p \in Plans, plan_destroy(p) PROVE TypeOK'
  BY <1>13, TwoContainers DEF plan_destroy, Free, Inside
<1>14. ASSUME NEW c \in Containers, Transfer(c) PROVE TypeOK'
  BY <1>14, RangeOfStages DEF Transfer, Emptied
<1>15. ASSUME NEW c \in Containers, TransferFails(c) PROVE TypeOK'
  BY <1>15 DEF TransferFails
<1>16. ASSUME NEW c \in Containers, container_destroy(c) PROVE TypeOK'
  BY <1>16 DEF container_destroy, Free
<1>17. CASE UNCHANGED vars  BY <1>17 DEF vars
<1>18. ASSUME NEW p \in Plans, PlanWithoutShards(p) PROVE TypeOK'
  BY <1>18, TwoContainers DEF PlanWithoutShards, PlanBuilt
<1> QED
  BY <1>1, <1>2, <1>3, <1>4, <1>5, <1>6, <1>7, <1>8, <1>9, <1>10, <1>11, <1>12, <1>13, <1>14, <1>15, <1>16, <1>17, <1>18 DEF Next, OnPlan, OnContainer

(* The variables keep their types.                                         *)
THEOREM TypeCorrect == Spec => []TypeOK
<1>1. Init => TypeOK
  BY MaxSuffixAssumption DEF Init, TypeOK
<1>2. TypeOK /\ [Next]_vars => TypeOK'  BY TypeStep
<1> QED BY <1>1, <1>2, PTL DEF Spec

-----------------------------------------------------------------------------
(* A step keeps the ownership of every stage exclusive.                    *)
LEMMA OwnerStep ==
  ASSUME TypeOK, OwnerInv, [Next]_vars
  PROVE  OwnerInv'
<1> USE RangeEmpty DEF TypeOK, OwnerInv, ExclusiveOwnership, config, objects, builder, planVars
<1>1. CASE ast_bind
  BY <1>1 DEF ast_bind, Allocate
<1>2. CASE log_clone
  BY <1>2 DEF log_clone, Allocate, ClonedFlag
<1>3. CASE HostDestroysStage
  BY <1>3 DEF HostDestroysStage, Free
<1>4. CASE PlanNothing
  BY <1>4 DEF PlanNothing
<1>5. CASE HookFails
  BY <1>5 DEF HookFails
<1>6. CASE StartPlan
  BY <1>6, RangeSingle DEF StartPlan, Allocate, Plannable
<1>7. CASE AddSuffix
  BY <1>7, RangeAppend DEF AddSuffix, Allocate, Pushed, MoreSuffix
<1>8. CASE BuildFails
  BY <1>8 DEF BuildFails, Free, Dropped
<1>9. ASSUME NEW p \in Plans, PlanWithShards(p) PROVE OwnerInv'
  <2>1. PICK m \in Stages \ heap :
          /\ heap' = heap \cup {m}
          /\ stages' = [stages EXCEPT ![Merger(p)] = building, ![Shards(p)] = <<m>>]
    BY <1>9 DEF PlanWithShards, Allocate
  <2>2. stages[Merger(p)] = << >> /\ stages[Shards(p)] = << >> /\ building' = << >>
    BY <1>9, TwoContainers DEF PlanWithShards, PlanBuilt
  <2>3. /\ Range(stages'[Merger(p)]) = Range(building) /\ Range(stages'[Shards(p)]) = {m}
        /\ \A c \in Containers \ {Merger(p), Shards(p)} : stages'[c] = stages[c]
    BY <2>1, TwoContainers, RangeSingle
  <2>4. hostStages' = hostStages  BY <1>9 DEF PlanWithShards, PlanBuilt
  <2>5. m \notin hostStages /\ m \notin Range(building) /\ \A c \in Containers : m \notin Range(stages[c])
    BY <2>1
  <2>6. \A s \in Stages : s \in heap' <=> \/ s \in hostStages' \/ s \in Range(building')
                                         \/ \E c \in Containers : s \in Range(stages'[c])
    BY <2>1, <2>2, <2>3, <2>4, TwoContainers
  <2>7. hostStages' \cap Range(building') = {}  BY <2>2
  <2>8. \A c \in Containers : Range(stages'[c]) \cap (hostStages' \cup Range(building')) = {}
    <3> SUFFICES ASSUME NEW c \in Containers
                 PROVE  Range(stages'[c]) \cap hostStages = {}
      BY <2>2, <2>4
    <3>1. CASE c = Merger(p)  BY <3>1, <2>3
    <3>2. CASE c = Shards(p)  BY <3>2, <2>3, <2>5
    <3>3. CASE c \in Containers \ {Merger(p), Shards(p)}  BY <3>3, <2>3
    <3> QED BY <3>1, <3>2, <3>3
  <2>9. \A c, d \in Containers : c # d => Range(stages'[c]) \cap Range(stages'[d]) = {}
    <3> DEFINE Now(c) == IF c = Merger(p) THEN Range(building)
                         ELSE IF c = Shards(p) THEN {m} ELSE Range(stages[c])
    <3>1. \A c \in Containers : Range(stages'[c]) = Now(c)  BY <2>3, TwoContainers
    <3>2. \A c, d \in Containers : c # d => Now(c) \cap Now(d) = {}  BY <2>5
    <3> HIDE DEF Now
    <3> QED BY <3>1, <3>2
  <2>10. \A c \in Containers : where'[c] = "absent" => stages'[c] = << >>
    <3>1. where' = [where EXCEPT ![Merger(p)] = "plan", ![Shards(p)] = "plan"]
      BY <1>9 DEF PlanWithShards
    <3> QED BY <2>3, <3>1, TwoContainers
  <2> QED BY <2>2, <2>6, <2>7, <2>8, <2>9, <2>10
<1>10. ASSUME NEW p \in Plans, ExtractShards(p) PROVE OwnerInv'
  BY <1>10, TwoContainers DEF ExtractShards, Extracted
<1>11. ASSUME NEW p \in Plans, ExtractMerger(p) PROVE OwnerInv'
  BY <1>11, TwoContainers DEF ExtractMerger, Extracted
<1>12. ASSUME NEW p \in Plans, ExtractAgain(p) PROVE OwnerInv'
  BY <1>12 DEF ExtractAgain
<1>13. ASSUME NEW p \in Plans, plan_destroy(p) PROVE OwnerInv'
  <2> DEFINE D == UNION {Range(stages[c]) : c \in Inside(p)}
  <2>1. heap' = heap \ D /\ hostStages' = hostStages /\ building' = building /\ pc' = pc /\ pc = "idle"
    BY <1>13 DEF plan_destroy, Free
  <2>2. Inside(p) \subseteq Containers  BY TwoContainers DEF Inside
  <2>3. \A c \in Containers : Range(stages'[c]) = IF c \in Inside(p) THEN {} ELSE Range(stages[c])
    BY <1>13 DEF plan_destroy
  <2>4. \A s : s \in D <=> \E c \in Inside(p) : s \in Range(stages[c])  OBVIOUS
  <2> HIDE DEF D
  <2>5. \A s \in Stages : s \in heap' <=> \/ s \in hostStages' \/ s \in Range(building')
                                         \/ \E c \in Containers : s \in Range(stages'[c])
    BY <2>1, <2>2, <2>3, <2>4
  <2>6. \A c \in Containers : Range(stages'[c]) \cap (hostStages' \cup Range(building')) = {}
    BY <2>1, <2>3
  <2>7. \A c, d \in Containers : c # d => Range(stages'[c]) \cap Range(stages'[d]) = {}
    BY <2>3
  <2>8. \A c \in Containers : where'[c] = "absent" => stages'[c] = << >>
    BY <1>13 DEF plan_destroy
  <2> QED BY <2>1, <2>5, <2>6, <2>7, <2>8
<1>14. ASSUME NEW c \in Containers, Transfer(c) PROVE OwnerInv'
  BY <1>14 DEF Transfer, Emptied
<1>15. ASSUME NEW c \in Containers, TransferFails(c) PROVE OwnerInv'
  BY <1>15 DEF TransferFails
<1>16. ASSUME NEW c \in Containers, container_destroy(c) PROVE OwnerInv'
  BY <1>16 DEF container_destroy, Free
<1>17. CASE UNCHANGED vars  BY <1>17 DEF vars
<1>18. ASSUME NEW p \in Plans, PlanWithoutShards(p) PROVE OwnerInv'
  <2>1. stages[Merger(p)] = << >> /\ building' = << >> /\ hostStages' = hostStages /\ heap' = heap
    BY <1>18, TwoContainers DEF PlanWithoutShards, PlanBuilt
  <2>2. /\ Range(stages'[Merger(p)]) = Range(building)
        /\ \A c \in Containers \ {Merger(p)} : stages'[c] = stages[c]
    BY <1>18, TwoContainers DEF PlanWithoutShards
  <2>3. ExclusiveOwnership'  BY <2>1, <2>2, TwoContainers
  <2> QED BY <1>18, <2>1, <2>2, <2>3, TwoContainers DEF PlanWithoutShards
<1> QED
  BY <1>1, <1>2, <1>3, <1>4, <1>5, <1>6, <1>7, <1>8, <1>9, <1>10, <1>11, <1>12, <1>13, <1>14, <1>15, <1>16, <1>17, <1>18 DEF Next, OnPlan, OnContainer

(* A step plans no planned stage.                                          *)
LEMMA DepthStep ==
  ASSUME TypeOK, OwnerInv, DepthInv, [Next]_vars
  PROVE  DepthInv'
<1> USE DEF TypeOK, OwnerInv, ExclusiveOwnership, DepthInv, config, objects, builder, planVars
<1>1. CASE ast_bind
  BY <1>1 DEF ast_bind, Allocate
<1>2. CASE log_clone
  BY <1>2 DEF log_clone, Allocate, ClonedFlag
<1>3. CASE HostDestroysStage
  BY <1>3 DEF HostDestroysStage, Free
<1>4. CASE PlanNothing
  BY <1>4 DEF PlanNothing
<1>5. CASE HookFails
  BY <1>5 DEF HookFails
<1>6. CASE StartPlan
  BY <1>6 DEF StartPlan, Allocate, Plannable
<1>7. CASE AddSuffix
  BY <1>7 DEF AddSuffix, Allocate, Pushed, MoreSuffix
<1>8. CASE BuildFails
  BY <1>8 DEF BuildFails, Free, Dropped
<1>9. ASSUME NEW p \in Plans, PlanWithShards(p) PROVE DepthInv'
  BY <1>9 DEF PlanWithShards, Allocate
<1>10. ASSUME NEW p \in Plans, ExtractShards(p) PROVE DepthInv'
  BY <1>10 DEF ExtractShards, Extracted
<1>11. ASSUME NEW p \in Plans, ExtractMerger(p) PROVE DepthInv'
  BY <1>11 DEF ExtractMerger, Extracted
<1>12. ASSUME NEW p \in Plans, ExtractAgain(p) PROVE DepthInv'
  BY <1>12 DEF ExtractAgain
<1>13. ASSUME NEW p \in Plans, plan_destroy(p) PROVE DepthInv'
  BY <1>13 DEF plan_destroy, Free, Inside
<1>14. ASSUME NEW c \in Containers, Transfer(c) PROVE DepthInv'
  BY <1>14 DEF Transfer, Emptied
<1>15. ASSUME NEW c \in Containers, TransferFails(c) PROVE DepthInv'
  BY <1>15 DEF TransferFails
<1>16. ASSUME NEW c \in Containers, container_destroy(c) PROVE DepthInv'
  BY <1>16 DEF container_destroy, Free
<1>17. CASE UNCHANGED vars  BY <1>17 DEF vars
<1>18. ASSUME NEW p \in Plans, PlanWithoutShards(p) PROVE DepthInv'
  BY <1>18 DEF PlanWithoutShards
<1> QED
  BY <1>1, <1>2, <1>3, <1>4, <1>5, <1>6, <1>7, <1>8, <1>9, <1>10, <1>11, <1>12, <1>13, <1>14, <1>15, <1>16, <1>17, <1>18 DEF Next, OnPlan, OnContainer

(* The inductive invariant holds.                                          *)
THEOREM Inductive == Spec => [](OwnerInv /\ DepthInv)
<1>1. Init => OwnerInv /\ DepthInv
  BY RangeEmpty DEF Init, OwnerInv, ExclusiveOwnership, DepthInv
<1>2. TypeOK /\ (OwnerInv /\ DepthInv) /\ [Next]_vars => (OwnerInv /\ DepthInv)'
  BY OwnerStep, DepthStep
<1> QED BY <1>1, <1>2, TypeCorrect, PTL DEF Spec

(* Every stage object has one owner: no leak and no double destroy.        *)
THEOREM Ownership == Spec => []ExclusiveOwnership
<1>1. OwnerInv => ExclusiveOwnership  BY DEF OwnerInv
<1> QED BY <1>1, Inductive, PTL

(* The stage on a merger is never planned again.                           *)
THEOREM Once == Spec => []PlannedOnce
<1>1. DepthInv => PlannedOnce  BY DEF DepthInv, PlannedOnce
<1> QED BY <1>1, Inductive, PTL

-----------------------------------------------------------------------------
(* A stage that is there before and after a step is the same stage.        *)
LEMMA ObjectsKept ==
  ASSUME TypeOK, [Next]_vars, NEW s \in heap, s \in heap'
  PROVE  kind'[s] = kind[s] /\ applied'[s] = applied[s]
<1> USE DEF TypeOK, objects
<1>1. CASE ast_bind  BY <1>1 DEF ast_bind, Allocate
<1>2. CASE log_clone  BY <1>2 DEF log_clone, Allocate
<1>3. CASE HostDestroysStage  BY <1>3 DEF HostDestroysStage, Free
<1>4. CASE PlanNothing  BY <1>4 DEF PlanNothing
<1>5. CASE HookFails  BY <1>5 DEF HookFails
<1>6. CASE StartPlan  BY <1>6 DEF StartPlan, Allocate
<1>7. CASE AddSuffix  BY <1>7 DEF AddSuffix, Allocate
<1>8. CASE BuildFails  BY <1>8 DEF BuildFails, Free
<1>9. ASSUME NEW p \in Plans, OnPlan(p) PROVE kind'[s] = kind[s] /\ applied'[s] = applied[s]
  <2>1. CASE PlanWithShards(p)  BY <2>1 DEF PlanWithShards, Allocate
  <2>2. CASE plan_destroy(p)  BY <2>2 DEF plan_destroy, Free
  <2> QED BY <1>9, <2>1, <2>2 DEF OnPlan, PlanWithoutShards, ExtractShards, ExtractMerger, ExtractAgain
<1>10. ASSUME NEW c \in Containers, OnContainer(c) PROVE kind'[s] = kind[s] /\ applied'[s] = applied[s]
  <2>1. CASE container_destroy(c)  BY <2>1 DEF container_destroy, Free
  <2> QED BY <1>10, <2>1 DEF OnContainer, Transfer, TransferFails
<1>11. CASE UNCHANGED vars  BY <1>11 DEF vars
<1> QED BY <1>1, <1>2, <1>3, <1>4, <1>5, <1>6, <1>7, <1>8, <1>9, <1>10, <1>11 DEF Next

(* So a merger of stages that are there before and after stays one.        *)
LEMMA ShapeKept ==
  ASSUME TypeOK, [Next]_vars, NEW m \in Seq(Stages),
         Range(m) \subseteq heap, Range(m) \subseteq heap', IsMerger(m, kind, applied)
  PROVE  IsMerger(m, kind', applied')
<1>1. \A i \in 1..Len(m) : kind'[m[i]] = kind[m[i]] /\ applied'[m[i]] = applied[m[i]]
  <2> SUFFICES ASSUME NEW i \in 1..Len(m)
               PROVE  kind'[m[i]] = kind[m[i]] /\ applied'[m[i]] = applied[m[i]]
    OBVIOUS
  <2>1. m[i] \in Range(m)  BY DEF Range
  <2> QED BY <2>1, ObjectsKept
<1>2. 1 \in 1..Len(m) /\ 2..Len(m) \subseteq 1..Len(m)  BY DEF IsMerger
<1> QED BY <1>1, <1>2 DEF IsMerger

(* Where the stages of a merger that is not transferred come from.         *)
LEMMA MergersCome ==
  ASSUME TypeOK, [Next]_vars, NEW p \in Plans,
         where'[Merger(p)] # "absent", Merger(p) \notin taken'
  PROVE  \/ /\ stages'[Merger(p)] = stages[Merger(p)]
            /\ where[Merger(p)] # "absent" /\ Merger(p) \notin taken
         \/ stages'[Merger(p)] = building /\ pc = "building"
<1> DEFINE Goal == \/ /\ stages'[Merger(p)] = stages[Merger(p)]
                      /\ where[Merger(p)] # "absent" /\ Merger(p) \notin taken
                   \/ stages'[Merger(p)] = building /\ pc = "building"
<1> USE TwoContainers DEF TypeOK, planVars
<1>1. CASE ast_bind \/ log_clone \/ HostDestroysStage \/ PlanNothing \/ HookFails
           \/ StartPlan \/ AddSuffix \/ BuildFails
  BY <1>1 DEF ast_bind, log_clone, HostDestroysStage, PlanNothing, HookFails, StartPlan,
     AddSuffix, BuildFails
<1>2. ASSUME NEW q \in Plans, OnPlan(q) PROVE Goal
  <2>0. Merger(p) # Shards(q) /\ (Merger(p) = Merger(q) => p = q)  BY DEF Merger, Shards
  <2>1. CASE PlanWithShards(q)
    <3>1. CASE p = q  BY <2>1, <2>0, <3>1 DEF PlanWithShards, PlanBuilt
    <3>2. CASE p # q  BY <2>1, <2>0, <3>2 DEF PlanWithShards, PlanBuilt
    <3> QED BY <3>1, <3>2
  <2>2. CASE PlanWithoutShards(q)  BY <2>2, <2>0 DEF PlanWithoutShards, PlanBuilt
  <2>3. CASE ExtractShards(q)  BY <2>3, <2>0 DEF ExtractShards
  <2>4. CASE ExtractMerger(q)  BY <2>4 DEF ExtractMerger
  <2>5. CASE ExtractAgain(q)  BY <2>5 DEF ExtractAgain
  <2>6. CASE plan_destroy(q)  BY <2>6 DEF plan_destroy
  <2> QED BY <1>2, <2>1, <2>2, <2>3, <2>4, <2>5, <2>6 DEF OnPlan
<1>3. ASSUME NEW c \in Containers, OnContainer(c) PROVE Goal
  <2>1. CASE Transfer(c)  BY <2>1 DEF Transfer, Emptied
  <2>2. CASE TransferFails(c)  BY <2>2 DEF TransferFails
  <2>3. CASE container_destroy(c)  BY <2>3 DEF container_destroy
  <2> QED BY <1>3, <2>1, <2>2, <2>3 DEF OnContainer
<1>4. CASE UNCHANGED vars  BY <1>4 DEF vars
<1> QED BY <1>1, <1>2, <1>3, <1>4 DEF Next

(* A step keeps the mergers, the built ones and the one under way.         *)
LEMMA MergerStep ==
  ASSUME TypeOK, OwnerInv, MergerShape, BuilderShape, [Next]_vars
  PROVE  MergerShape' /\ BuilderShape'
<1>1. TypeOK' /\ OwnerInv'  BY TypeStep, OwnerStep
<1>2. /\ \A c \in Containers : stages[c] \in Seq(Stages) /\ stages'[c] \in Seq(Stages)
      /\ building \in Seq(Stages) /\ building' \in Seq(Stages)
  BY <1>1 DEF TypeOK
<1>3. /\ \A c \in Containers : Range(stages[c]) \subseteq heap
      /\ Range(building) \subseteq heap
  BY <1>2, RangeOfStages DEF OwnerInv, ExclusiveOwnership
<1>4. /\ \A c \in Containers : Range(stages'[c]) \subseteq heap'
      /\ Range(building') \subseteq heap'
  BY <1>1, <1>2, RangeOfStages DEF OwnerInv, ExclusiveOwnership
<1>5. MergerShape'
  <2> SUFFICES ASSUME NEW p \in Plans, where'[Merger(p)] # "absent", Merger(p) \notin taken'
               PROVE  IsMerger(stages'[Merger(p)], kind', applied')
    BY DEF MergerShape
  <2>1. CASE /\ stages'[Merger(p)] = stages[Merger(p)]
             /\ where[Merger(p)] # "absent" /\ Merger(p) \notin taken
    BY <2>1, <1>2, <1>3, <1>4, TwoContainers, ShapeKept DEF MergerShape
  <2>2. CASE stages'[Merger(p)] = building /\ pc = "building"
    BY <2>2, <1>2, <1>3, <1>4, TwoContainers, ShapeKept DEF BuilderShape
  <2> QED BY <2>1, <2>2, MergersCome
<1>6. BuilderShape'
  <2> SUFFICES ASSUME pc' = "building" PROVE IsMerger(building', kind', applied')
    BY DEF BuilderShape
  <2>1. CASE StartPlan
    <3>1. PICK n \in Stages :
            /\ kind' = [kind EXCEPT ![n] = "logical"]
            /\ applied' = [applied EXCEPT ![n] = TRUE]
            /\ building' = <<n>>
      BY <2>1 DEF StartPlan, Allocate
    <3> QED BY <3>1 DEF IsMerger, TypeOK
  <2>2. CASE AddSuffix
    <3>1. pc = "building" /\ IsMerger(building, kind, applied)
      BY <2>2 DEF AddSuffix, BuilderShape
    <3>2. PICK s \in Stages \ heap :
            /\ kind' = [kind EXCEPT ![s] = "parse"]
            /\ heap' = heap \cup {s}
            /\ building' = Append(building, s)
      BY <2>2 DEF AddSuffix, Allocate, Pushed
    <3>3. IsMerger(building, kind', applied')  BY <3>1, <3>2, <1>2, <1>3, ShapeKept
    <3>4. /\ Len(building') = Len(building) + 1 /\ building'[Len(building) + 1] = s
          /\ \A i \in 1..Len(building) : building'[i] = building[i]
      BY <3>2, <1>2
    <3>5. kind'[s] = "parse"  BY <3>2 DEF TypeOK
    <3>6. Len(building) \in Nat \ {0}  BY <3>1, <1>2 DEF IsMerger
    <3> QED BY <3>2, <3>3, <3>4, <3>5, <3>6 DEF IsMerger
  <2>3. CASE UNCHANGED <<pc, building>>
    BY <2>3, <1>2, <1>3, <1>4, ShapeKept DEF BuilderShape
  <2>4. StartPlan \/ AddSuffix \/ UNCHANGED <<pc, building>>
    BY DEF Next, OnPlan, OnContainer, ast_bind, log_clone, HostDestroysStage, PlanNothing,
       HookFails, BuildFails, PlanWithShards, PlanWithoutShards, PlanBuilt, ExtractShards,
       ExtractMerger, ExtractAgain, plan_destroy, Transfer, TransferFails,
       container_destroy, builder, vars
  <2> QED BY <2>1, <2>2, <2>3, <2>4
<1> QED BY <1>5, <1>6

(* A step keeps the shard parts.                                           *)
LEMMA ShardStep ==
  ASSUME TypeOK, ShardsMatchInput, [Next]_vars
  PROVE  ShardsMatchInput'
<1> USE TwoContainers DEF TypeOK, ShardsMatchInput, config, planVars
<1>1. CASE ast_bind \/ log_clone \/ HostDestroysStage \/ PlanNothing \/ HookFails
           \/ StartPlan \/ AddSuffix \/ BuildFails
  <2>1. UNCHANGED <<requires, plans, shards_extracted, where, stages>>
    BY <1>1 DEF ast_bind, log_clone, HostDestroysStage, PlanNothing, HookFails, StartPlan,
       AddSuffix, BuildFails
  <2> QED BY <2>1
<1>2. ASSUME NEW q \in Plans, OnPlan(q) PROVE ShardsMatchInput'
  <2>0. \A p \in Plans : Shards(p) # Merger(q) /\ (Shards(p) = Shards(q) => p = q)
    BY DEF Merger, Shards
  <2>1. CASE PlanWithShards(q)
    <3>1. PICK m \in Stages : stages' = [stages EXCEPT ![Merger(q)] = building, ![Shards(q)] = <<m>>]
      BY <2>1 DEF PlanWithShards
    <3>2. \A p \in Plans : stages'[Shards(p)] = IF p = q THEN <<m>> ELSE stages[Shards(p)]
      BY <3>1, <2>0
    <3>3. \A p \in Plans : where'[Shards(p)] = IF p = q THEN "plan" ELSE where[Shards(p)]
      BY <2>1, <2>0 DEF PlanWithShards
    <3>4. /\ plans' = plans \cup {q} /\ ~requires /\ requires' = requires
          /\ \A p \in Plans : p # q => shards_extracted'[p] = shards_extracted[p]
      BY <2>1 DEF PlanWithShards, PlanBuilt, Suppress
    <3>5. \A p \in plans' : ~shards_extracted'[p] => (where'[Shards(p)] = "plan" <=> ~requires')
      <4> SUFFICES ASSUME NEW p \in plans', ~shards_extracted'[p]
                   PROVE  where'[Shards(p)] = "plan" <=> ~requires'
        OBVIOUS
      <4>1. CASE p = q  BY <4>1, <3>3, <3>4
      <4>2. CASE p # q
        <5>1. p \in plans /\ p \in Plans /\ ~shards_extracted[p]  BY <4>2, <3>4
        <5> QED BY <5>1, <4>2, <3>3, <3>4
      <4> QED BY <4>1, <4>2
    <3>6. Len(<<m>>) = 1  OBVIOUS
    <3>7. \A p \in Plans : Len(stages'[Shards(p)]) <= 1
      <4> SUFFICES ASSUME NEW p \in Plans PROVE Len(stages'[Shards(p)]) <= 1  OBVIOUS
      <4>1. CASE p = q
        <5>1. stages'[Shards(p)] = <<m>>  BY <4>1, <3>2
        <5> QED BY <5>1, <3>6
      <4>2. CASE p # q
        <5>1. stages'[Shards(p)] = stages[Shards(p)]  BY <4>2, <3>2
        <5> QED BY <5>1
      <4> QED BY <4>1, <4>2
    <3> QED BY <3>5, <3>7
  <2>2. CASE PlanWithoutShards(q)  BY <2>2, <2>0 DEF PlanWithoutShards, PlanBuilt, Suppress
  <2>3. CASE ExtractShards(q)  BY <2>3, <2>0 DEF ExtractShards
  <2>4. CASE ExtractMerger(q)  BY <2>4, <2>0 DEF ExtractMerger
  <2>5. CASE ExtractAgain(q)  BY <2>5 DEF ExtractAgain
  <2>6. CASE plan_destroy(q)
    <3>1. \A p \in Plans : p # q => Shards(p) \notin Inside(q)  BY <2>0 DEF Inside
    <3> QED BY <2>6, <3>1 DEF plan_destroy
  <2> QED BY <1>2, <2>1, <2>2, <2>3, <2>4, <2>5, <2>6 DEF OnPlan
<1>3. ASSUME NEW c \in Containers, OnContainer(c) PROVE ShardsMatchInput'
  <2>1. CASE Transfer(c)  BY <2>1 DEF Transfer, Emptied
  <2>2. CASE TransferFails(c)  BY <2>2 DEF TransferFails
  <2>3. CASE container_destroy(c)  BY <2>3 DEF container_destroy
  <2> QED BY <1>3, <2>1, <2>2, <2>3 DEF OnContainer
<1>4. CASE UNCHANGED vars  BY <1>4 DEF vars
<1> QED BY <1>1, <1>2, <1>3, <1>4 DEF Next

(* The two parts of a plan fit each other and the stage they are made of.  *)
THEOREM Components == Spec => []ComponentsMatch
<1> DEFINE Shape == MergerShape /\ BuilderShape /\ ShardsMatchInput
<1>1. Init => Shape
  BY TwoContainers DEF Init, MergerShape, BuilderShape, ShardsMatchInput
<1>2. TypeOK /\ (OwnerInv /\ DepthInv) /\ Shape /\ [Next]_vars => Shape'
  BY MergerStep, ShardStep
<1>3. Shape => ComponentsMatch  BY DEF ComponentsMatch
<1> HIDE DEF Shape
<1> QED BY <1>1, <1>2, <1>3, TypeCorrect, Inductive, PTL DEF Spec

-----------------------------------------------------------------------------
(* A step that fails takes nothing but what its own build had made.        *)
LEMMA FailureStep ==
  ASSUME TypeOK, OwnerInv, [Next]_vars, status' = "error", ~UNCHANGED vars
  PROVE  UNCHANGED <<hostStages, planVars>> /\ heap' = heap \ Range(building)
<1>1. CASE BuildFails  BY <1>1 DEF BuildFails, Free, Dropped
<1>2. CASE HookFails \/ (\E p \in Plans : ExtractAgain(p)) \/ (\E c \in Containers : TransferFails(c))
  <2>1. pc = "idle" /\ UNCHANGED <<objects, hostStages, planVars>>
    BY <1>2 DEF HookFails, ExtractAgain, TransferFails
  <2> QED BY <2>1, RangeEmpty DEF OwnerInv, objects
<1> QED
  BY <1>1, <1>2 DEF Next, OnPlan, OnContainer, ast_bind, log_clone, HostDestroysStage,
     PlanNothing, StartPlan, AddSuffix, PlanWithShards, PlanWithoutShards, PlanBuilt,
     ExtractShards, ExtractMerger, plan_destroy, Transfer, container_destroy

(* A call that fails leaves what the host can destroy or try again.        *)
THEOREM FailuresConsumeNothing == Spec => FailureConsumesNothing
<1>1. TypeOK /\ OwnerInv /\ [Next]_vars =>
        [status' = "error" => UNCHANGED <<hostStages, planVars>> /\ heap' = heap \ Range(building)]_vars
  BY FailureStep
<1>2. OwnerInv /\ DepthInv => OwnerInv  OBVIOUS
<1> QED BY <1>1, <1>2, TypeCorrect, Inductive, PTL DEF Spec, FailureConsumesNothing
=============================================================================
