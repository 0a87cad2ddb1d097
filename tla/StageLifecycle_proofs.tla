------------------------- MODULE StageLifecycle_proofs -------------------------
(***************************************************************************)
(* Proofs about StageLifecycle, with the reads of StageReads, for any      *)
(* identities, arguments, contexts and lengths of expansions: type         *)
(* correctness, who owns each object, what a failed call may do, the leak  *)
(* of the id lookup, and that the objects implement HandleLedger.  Each    *)
(* action is first reduced to what it does to the owners; the properties   *)
(* follow from these shapes.                                               *)
(***************************************************************************)
EXTENDS StageReads, FiniteSetTheorems, TLAPS

(* An expansion, without the order of its nodes: `arg` gives what each     *)
(* new node was written with.                                              *)
ExpandedInto(c, nodes, arg) ==
    /\ heap' = heap \cup Range(nodes) \cup {c}
    /\ kind' = [i \in Ids |-> IF i = c THEN "array"
                              ELSE IF i \notin Range(nodes) THEN kind[i]
                              ELSE IF arg[i] = NoArgs THEN "lookup" ELSE "ast"]
    /\ args' = [i \in Ids |-> IF i \in Range(nodes) THEN arg[i] ELSE args[i]]
    /\ origin' = [i \in Ids |-> IF i \in Range(nodes)
                                THEN Written(arg[i], "null") ELSE origin[i]]
    /\ asts' = [asts EXCEPT ![c] = nodes]
    /\ hostOwns' = hostOwns \cup {c}
    /\ status' = "ok"
    /\ UNCHANGED <<config, catalog, transferred, lookupFailures>>

(* Where the new array and its nodes come from.                            *)
NewArray(c, nodes, arg) ==
    /\ c \in Ids \ heap
    /\ nodes \in Seq(Ids)
    /\ Range(nodes) \subseteq Ids \ (heap \cup {c})
    /\ arg \in [Range(nodes) -> Args \cup {NoArgs}]

LEMMA ExpandShape ==
  ASSUME NEW n \in Nat, NEW asked \in [1..n -> Args \cup {NoArgs}], Expand(asked)
  PROVE  \E c, nodes, arg : NewArray(c, nodes, arg) /\ ExpandedInto(c, nodes, arg)
<1>0. DOMAIN asked = 1..n  OBVIOUS
<1>c. PICK c \in Ids \ heap :
        \E nodes \in Injection(1..n, Ids \ (heap \cup {c})) : Expanded(c, nodes, asked)
  BY <1>0 DEF Expand
<1>1. PICK nodes \in Injection(1..n, Ids \ (heap \cup {c})) : Expanded(c, nodes, asked)
  BY <1>c
<1> DEFINE at(i)  == CHOOSE k \in DOMAIN nodes : nodes[k] = i
           arg    == [i \in Range(nodes) |-> asked[at(i)]]
<1>2. nodes \in [1..n -> Ids \ (heap \cup {c})] /\ DOMAIN nodes = 1..n
  BY <1>1 DEF Injection
<1>3. Range(nodes) \subseteq Ids \ (heap \cup {c}) /\ nodes \in Seq(Ids)
  BY <1>2 DEF Range
<1>4. \A i \in Range(nodes) : at(i) \in 1..n
  BY <1>2 DEF Range
<1>5. arg \in [Range(nodes) -> Args \cup {NoArgs}]
  BY <1>4
<1>6. NewArray(c, nodes, arg)
  BY <1>1, <1>3, <1>5 DEF NewArray
<1>7. \A i \in Range(nodes) : arg[i] = asked[at(i)]
  OBVIOUS
<1>8. ExpandedInto(c, nodes, arg)
  <2>1. /\ heap' = heap \cup Range(nodes) \cup {c}
        /\ asts' = [asts EXCEPT ![c] = nodes]
        /\ hostOwns' = hostOwns \cup {c}
        /\ status' = "ok"
        /\ UNCHANGED <<config, catalog, transferred, lookupFailures>>
    BY <1>1 DEF Expanded
  <2>2. args' = [i \in Ids |-> IF i \in Range(nodes) THEN arg[i] ELSE args[i]]
    BY <1>1 DEF Expanded
  <2>3. kind' = [i \in Ids |-> IF i = c THEN "array"
                               ELSE IF i \notin Range(nodes) THEN kind[i]
                               ELSE IF arg[i] = NoArgs THEN "lookup" ELSE "ast"]
    BY <1>1 DEF Expanded
  <2>4. origin' = [i \in Ids |-> IF i \in Range(nodes)
                                 THEN Written(arg[i], "null") ELSE origin[i]]
    BY <1>1 DEF Expanded
  <2> HIDE DEF arg
  <2> QED BY <2>1, <2>2, <2>3, <2>4 DEF ExpandedInto
<1> QED BY <1>6, <1>8

LEMMA Expansions ==
  ASSUME TypeOK, ExpandSelf \/ ExpandPipeline \/ ExpandWithLookup
  PROVE  \E c, nodes, arg : NewArray(c, nodes, arg) /\ ExpandedInto(c, nodes, arg)
<1>1. CASE ExpandSelf
  <2>1. PICK p \in ParseNodes : Expand(<<args[p]>>)  BY <1>1 DEF ExpandSelf
  <2>2. args[p] \in Args \cup {NoArgs}  BY <2>1 DEF ParseNodes, TypeOK
  <2>3. <<args[p]>> \in [1..1 -> Args \cup {NoArgs}]  BY <2>2
  <2> QED BY <2>1, <2>3, ExpandShape
<1>2. CASE ExpandPipeline
  <2>1. PICK pipeline \in Pipelines : Accepted(pipeline) /\ Expand(pipeline)
    BY <1>2 DEF ExpandPipeline
  <2>2. PICK n \in 0..MaxStages : pipeline \in [1..n -> Args \cup {"invalid"}]
    BY <2>1 DEF Pipelines
  <2>3. n \in Nat /\ pipeline \in [1..n -> Args \cup {NoArgs}]
    BY <2>1, <2>2, BoundAssumption DEF Accepted
  <2> QED BY <2>1, <2>3, ExpandShape
<1>3. CASE ExpandWithLookup
  <2>1. PICK a \in Args : Expand(<<a, NoArgs>>)  BY <1>3 DEF ExpandWithLookup
  <2>2. <<a, NoArgs>> \in [1..2 -> Args \cup {NoArgs}]  BY <2>1
  <2> QED BY <2>1, <2>2, ExpandShape
<1> QED BY <1>1, <1>2, <1>3

(* The calls that make one object for the host.                            *)
Allocates(i, k, a, c, o) ==
    /\ Allocate(i, k, a, c, o)
    /\ k \in {"parse", "ast", "logical", "exec"}
    /\ a \in Args \cup {NoArgs} /\ c \in Catalogs \cup {"absent"}
    /\ o \in [args : Args \cup {NoArgs}, context : Contexts]
    /\ InputsSurvive =>
         a = o.args /\ a \in Args
         /\ c = IF family = "source" THEN Kept(o.context) ELSE "absent"

LEMMA KeptAbsent == Kept("null") = "absent"
  BY ValueAssumption DEF Kept

LEMMA Allocations ==
  ASSUME TypeOK, hostOwns \subseteq heap,
         \/ Parse \/ parse_clone \/ ast_clone \/ log_clone
         \/ BindSource \/ BindTransform \/ Compile
  PROVE  \E i, k, a, c, o : Allocates(i, k, a, c, o)
<1> USE DEF TypeOK, InputsSurvive, Contexts
<1>1. CASE Parse
  <2>1. PICK d \in Documents, i \in Ids :
          Parses(d) /\ Allocate(i, "parse", d.value, "absent", Written(d.value, "null"))
    BY <1>1 DEF Parse
  <2>2. d.value \in Args  BY <2>1 DEF Parses
  <2>3. Allocates(i, "parse", d.value, "absent", Written(d.value, "null"))
    BY <2>1, <2>2, KeptAbsent DEF Allocates, Written
  <2> QED BY <2>3
<1>2. ASSUME NEW k \in {"parse", "ast", "logical"}, CloneOf(k)
      PROVE  \E i, a, c, o : Allocates(i, k, a, c, o)
  <2>1. PICK i \in hostOwns, n \in Ids :
          kind[i] = k /\ Allocate(n, k, args[i], CopiedCatalog(i), origin[i])
    BY <1>2 DEF CloneOf
  <2>2. Allocates(n, k, args[i], CopiedCatalog(i), origin[i])
    BY <2>1 DEF Allocates, CopiedCatalog
  <2> QED BY <2>2
<1>3. CASE parse_clone \/ ast_clone \/ log_clone
  BY <1>2, <1>3 DEF parse_clone, ast_clone, log_clone
<1>4. CASE BindSource
  <2>1. PICK i \in Ids, n \in Ids, context \in Contexts :
          family = "source" /\ Bind(i, n, context, Kept(context))
    BY <1>4 DEF BindSource
  <2>2. Kept(context) \in Catalogs \cup {"absent"}  BY DEF Kept
  <2>3. Allocates(n, "logical", args[i], Kept(context), Written(origin[i].args, context))
    BY <2>1, <2>2 DEF Allocates, Bind, Written
  <2> QED BY <2>3
<1>5. CASE BindTransform
  <2>1. PICK i \in Ids, n \in Ids, context \in Contexts :
          family = "transform" /\ Bind(i, n, context, "absent")
    BY <1>5 DEF BindTransform
  <2>2. Allocates(n, "logical", args[i], "absent", Written(origin[i].args, context))
    BY <2>1 DEF Allocates, Bind, Written
  <2> QED BY <2>2
<1>6. CASE Compile
  <2>1. PICK i \in hostOwns, n \in Ids :
          kind[i] = "logical" /\ Allocate(n, "exec", args[i], catalog[i], origin[i])
    BY <1>6 DEF Compile
  <2>2. Allocates(n, "exec", args[i], catalog[i], origin[i])
    BY <2>1 DEF Allocates
  <2> QED BY <2>2
<1> QED BY <1>1, <1>3, <1>4, <1>5, <1>6

(* The calls that only answer: those that report an error, and the reads.  *)
Quiet ==
    /\ status' \in {"ok", "error"}
    /\ UNCHANGED <<config, heap, fields, hostOwns, lookupFailures>>

LEMMA ReadCases ==
  ASSUME Read
  PROVE  status' = "ok" /\ Quiet
  BY DEF Read, GetQueryShape, ToBsonForLog, Serialize, ExplainLogical, ReadsStage,
         GetProperties, ExplainExec, SerializeMetrics, ReadsEmpty, Reads,
         NullBuffers, BindView, RewriteRules, NoDistribution, EmptyMetrics, ReadSize,
         Answers, Quiet

LEMMA NextCases ==
  ASSUME [ReadsNext]_allVars
  PROVE  \/ Parse \/ parse_clone \/ ast_clone \/ log_clone
         \/ BindSource \/ BindTransform \/ Compile
         \/ ExpandSelf \/ ExpandPipeline \/ ExpandWithLookup
         \/ LookupFails \/ Transfer \/ Destroy \/ Quiet \/ UNCHANGED vars
  BY ReadCases DEF ReadsNext, allVars, Release, Next, ParseRejects, ExpandRejects,
                   TransferRejects, Rejected, Quiet

-----------------------------------------------------------------------------
(* What each shape of step does to the owners.                             *)
LEMMA EmptyKeeps == Range(<< >>) = {}
  BY DEF Range

LEMMA FreeKeepsNothing ==
  ASSUME FreeIdsBlank, NEW i \in Ids \ heap
  PROVE  KeptBy(i) = {}
  BY EmptyKeeps DEF FreeIdsBlank, KeptBy

LEMMA AllocateOwners ==
  ASSUME TypeOK, IInv, NEW i, NEW k, NEW a, NEW c, NEW o, Allocates(i, k, a, c, o)
  PROVE  /\ i \in Ids \ heap /\ heap' = heap \cup {i}
         /\ hostOwns' = hostOwns \cup {i} /\ Contained' = Contained
         /\ IInv'
<1>1. /\ i \in Ids \ heap /\ heap' = heap \cup {i} /\ hostOwns' = hostOwns \cup {i}
      /\ asts' = asts /\ transferred' = transferred
  BY DEF Allocates, Allocate, config
<1>2. \A n : KeptBy(n)' = KeptBy(n)  BY <1>1 DEF KeptBy
<1>3. KeptBy(i) = {}  BY <1>1, FreeKeepsNothing DEF IInv
<1>4. Contained' = Contained  BY <1>1, <1>2, <1>3 DEF Contained
<1>5. ExclusiveOwnership'
  BY <1>1, <1>2, <1>3, <1>4 DEF ExclusiveOwnership, IInv, Contained
<1>6. FreeIdsBlank' /\ KeepersAreOwned'
  BY <1>1 DEF IInv, FreeIdsBlank, KeepersAreOwned, Allocates, Allocate, TypeOK
<1>7. InputsSurvive'
  BY <1>1 DEF IInv, InputsSurvive, Allocates, Allocate, TypeOK, config, Kept
<1> QED BY <1>1, <1>4, <1>5, <1>6, <1>7 DEF IInv

LEMMA ExpandOwners ==
  ASSUME TypeOK, IInv, NEW c, NEW nodes, NEW arg,
         NewArray(c, nodes, arg), ExpandedInto(c, nodes, arg)
  PROVE  /\ heap' = heap \cup Range(nodes) \cup {c}
         /\ hostOwns' = hostOwns \cup {c} /\ Contained' = Contained \cup Range(nodes)
         /\ IInv'
<1>1. /\ heap' = heap \cup Range(nodes) \cup {c} /\ hostOwns' = hostOwns \cup {c}
      /\ c \in Ids \ heap /\ Range(nodes) \subseteq Ids \ (heap \cup {c})
      /\ transferred' = transferred /\ asts' = [asts EXCEPT ![c] = nodes]
  BY DEF ExpandedInto, NewArray
<1>2. transferred[c] = FALSE  BY <1>1 DEF IInv, FreeIdsBlank
<1>3. \A n \in Ids \ {c} : KeptBy(n)' = KeptBy(n)  BY <1>1 DEF KeptBy, TypeOK
<1>4. KeptBy(c)' = Range(nodes)  BY <1>1, <1>2 DEF KeptBy, TypeOK
<1>5. \A n \in Range(nodes) : KeptBy(n) = {}  BY <1>1, FreeKeepsNothing DEF IInv
<1>6. Contained' = Contained \cup Range(nodes)
  BY <1>1, <1>3, <1>4, <1>5 DEF Contained, TypeOK
<1>7. ExclusiveOwnership'
  <2>1. \A n \in heap : KeptBy(n) \subseteq heap
    BY DEF IInv, ExclusiveOwnership, Contained
  <2>2. \A n, d \in heap' : n # d => KeptBy(n)' \cap KeptBy(d)' = {}
    BY <1>1, <1>3, <1>4, <1>5, <2>1 DEF IInv, ExclusiveOwnership, TypeOK
  <2> QED BY <1>1, <1>6, <2>2 DEF ExclusiveOwnership, IInv
<1>8. FreeIdsBlank' /\ KeepersAreOwned'
  BY <1>1 DEF IInv, FreeIdsBlank, KeepersAreOwned, NewArray, ExpandedInto, TypeOK
<1>9. InputsSurvive'
  <2> SUFFICES ASSUME NEW i \in heap', kind'[i] \in {"parse", "ast", "logical", "exec"}
               PROVE  /\ args'[i] = origin'[i].args /\ args'[i] \in Args
                      /\ catalog'[i] = IF family = "source" THEN Kept(origin'[i].context)
                                       ELSE "absent"
    BY DEF InputsSurvive, ExpandedInto, config, Kept
  <2>1. i # c /\ i \in Ids  BY <1>1 DEF ExpandedInto, TypeOK
  <2>2. CASE i \in Range(nodes)
    <3>1. /\ arg[i] # NoArgs /\ args'[i] = arg[i] /\ origin'[i] = Written(arg[i], "null")
          /\ catalog'[i] = "absent"
      BY <1>1, <2>1, <2>2 DEF ExpandedInto, IInv, FreeIdsBlank
    <3> QED BY <2>2, <3>1, KeptAbsent DEF NewArray, Written
  <2>3. CASE i \notin Range(nodes)
    BY <1>1, <2>1, <2>3 DEF ExpandedInto, IInv, InputsSurvive
  <2> QED BY <2>2, <2>3
<1> QED BY <1>1, <1>6, <1>7, <1>8, <1>9 DEF IInv

LEMMA LookupOwners ==
  ASSUME TypeOK, IInv, LookupFails
  PROVE  /\ \E i \in Ids \ heap : heap' = heap \cup {i}
         /\ hostOwns' = hostOwns /\ Contained' = Contained
         /\ IInv'
<1>1. PICK i \in Ids \ heap, a \in Args :
        /\ heap' = heap \cup {i} /\ kind' = [kind EXCEPT ![i] = "ast"]
        /\ args' = [args EXCEPT ![i] = a]
        /\ origin' = [origin EXCEPT ![i] = Written(a, "null")]
  BY DEF LookupFails
<1>2. UNCHANGED <<family, catalog, asts, transferred, hostOwns>>  BY DEF LookupFails, config
<1>3. \A n : KeptBy(n)' = KeptBy(n)  BY <1>2 DEF KeptBy
<1>4. KeptBy(i) = {}  BY <1>1, FreeKeepsNothing DEF IInv
<1>5. Contained' = Contained  BY <1>1, <1>3, <1>4 DEF Contained
<1>6. ExclusiveOwnership'
  BY <1>1, <1>2, <1>3, <1>4, <1>5 DEF ExclusiveOwnership, IInv, Contained
<1>7. FreeIdsBlank' /\ KeepersAreOwned'
  BY <1>1, <1>2 DEF IInv, FreeIdsBlank, KeepersAreOwned, TypeOK
<1>8. InputsSurvive'
  <2>1. catalog[i] = "absent"  BY <1>1 DEF IInv, FreeIdsBlank
  <2> QED BY <1>1, <1>2, <2>1, KeptAbsent DEF IInv, InputsSurvive, TypeOK, Written, Kept
<1> QED BY <1>1, <1>2, <1>5, <1>6, <1>7, <1>8 DEF IInv

LEMMA TransferOwners ==
  ASSUME TypeOK, IInv, Transfer
  PROVE  /\ heap' = heap
         /\ \E S \in SUBSET Contained : /\ hostOwns' = hostOwns \cup S
                                        /\ Contained' = Contained \ S
         /\ IInv'
<1>1. PICK c \in Arrays :
        /\ hostOwns' = hostOwns \cup Range(asts[c])
        /\ transferred' = [transferred EXCEPT ![c] = TRUE]
        /\ UNCHANGED <<family, heap, kind, args, catalog, asts, origin>>
  BY DEF Transfer, config
<1>2. c \in heap /\ c \in hostOwns /\ KeptBy(c) = Range(asts[c]) /\ c \in Ids
  BY <1>1 DEF Arrays, KeptBy, IInv, ExclusiveOwnership, TypeOK
<1>3. \A n \in Ids \ {c} : KeptBy(n)' = KeptBy(n)  BY <1>1 DEF KeptBy, TypeOK
<1>4. KeptBy(c)' = {}  BY <1>1, <1>2 DEF KeptBy, TypeOK
<1>5. Range(asts[c]) \subseteq Contained  BY <1>2 DEF Contained
<1>6. Contained' = Contained \ Range(asts[c])
  <2>0. \A x : x \in Contained' <=>
               \E n \in heap : x \in IF transferred'[n] THEN {} ELSE Range(asts[n])
    BY <1>1 DEF Contained, KeptBy
  <2>1. \A x : x \in Contained' <=> \E n \in heap \ {c} : x \in KeptBy(n)
    BY <2>0, <1>1, <1>2 DEF TypeOK, KeptBy
  <2>2. \A n \in heap : n # c => KeptBy(n) \cap KeptBy(c) = {}
    BY <1>2 DEF IInv, ExclusiveOwnership
  <2>3. \A x : x \in Contained <=> \E n \in heap : x \in KeptBy(n)  BY DEF Contained
  <2> QED BY <2>1, <2>2, <2>3, <1>2
<1>7. ExclusiveOwnership'
  BY <1>1, <1>2, <1>3, <1>4, <1>5, <1>6 DEF ExclusiveOwnership, IInv, TypeOK
<1>8. FreeIdsBlank' /\ KeepersAreOwned'
  BY <1>1, <1>2 DEF IInv, FreeIdsBlank, KeepersAreOwned, TypeOK
<1>9. InputsSurvive'
  BY <1>1 DEF IInv, InputsSurvive, Kept
<1> QED BY <1>1, <1>5, <1>6, <1>7, <1>8, <1>9 DEF IInv

LEMMA DestroyOwners ==
  ASSUME TypeOK, IInv, Destroy
  PROVE  \E i \in hostOwns :
           /\ KeptBy(i) \subseteq Contained
           /\ heap' = heap \ ({i} \cup KeptBy(i))
           /\ hostOwns' = hostOwns \ {i}
           /\ Contained' = Contained \ KeptBy(i)
           /\ IInv'
<1>1. PICK i \in hostOwns :
        /\ heap' = heap \ Destroyed(i) /\ hostOwns' = hostOwns \ {i}
        /\ kind' = [n \in Ids |-> IF n \in Destroyed(i) THEN "none" ELSE kind[n]]
        /\ args' = [n \in Ids |-> IF n \in Destroyed(i) THEN NoArgs ELSE args[n]]
        /\ catalog' = [n \in Ids |-> IF n \in Destroyed(i) THEN "absent" ELSE catalog[n]]
        /\ origin' = [n \in Ids |-> IF n \in Destroyed(i) THEN NoObject ELSE origin[n]]
        /\ asts' = [n \in Ids |-> IF n \in Destroyed(i) THEN << >> ELSE asts[n]]
        /\ transferred' = [n \in Ids |-> n \notin Destroyed(i) /\ transferred[n]]
        /\ family' = family
  BY DEF Destroy, config
<1>2. Destroyed(i) = {i} \cup KeptBy(i)  BY DEF Destroyed, KeptBy
<1>3. i \in heap /\ KeptBy(i) \subseteq Contained /\ i \notin Contained
  BY <1>1 DEF IInv, ExclusiveOwnership, Contained
<1>4. \A n \in heap' : KeptBy(n)' = KeptBy(n)
  BY <1>1 DEF KeptBy, TypeOK
<1>5. \A n \in KeptBy(i) : KeptBy(n) = {}
  BY <1>3, EmptyKeeps DEF KeptBy, IInv, KeepersAreOwned, ExclusiveOwnership, Contained
<1>6. Contained' = Contained \ KeptBy(i)
  <2>1. Contained' = UNION {KeptBy(n) : n \in heap \ ({i} \cup KeptBy(i))}
    BY <1>1, <1>2, <1>4 DEF Contained
  <2>2. \A n \in heap : n # i => KeptBy(n) \cap KeptBy(i) = {}
    BY <1>3 DEF IInv, ExclusiveOwnership
  <2> QED BY <2>1, <2>2, <1>3, <1>5 DEF Contained
<1>7. ExclusiveOwnership'
  BY <1>1, <1>2, <1>3, <1>4, <1>6 DEF ExclusiveOwnership, IInv, TypeOK
<1>8. FreeIdsBlank'
  BY <1>1, <1>2, <1>3 DEF IInv, FreeIdsBlank, ExclusiveOwnership, TypeOK
<1>9. KeepersAreOwned'
  BY <1>1, <1>2, <1>3 DEF IInv, KeepersAreOwned, ExclusiveOwnership, TypeOK
<1>10. InputsSurvive'
  BY <1>1 DEF IInv, InputsSurvive, Kept, TypeOK
<1> QED BY <1>1, <1>2, <1>3, <1>6, <1>7, <1>8, <1>9, <1>10 DEF IInv

-----------------------------------------------------------------------------
(* Type correctness, one step per shape.                                   *)
LEMMA InitHolds ==
  ASSUME Init
  PROVE  TypeOK /\ IInv /\ Contained = {}
<1> USE DEF Init
<1>1. TypeOK
  BY BoundAssumption DEF TypeOK, Kinds, NoObject, Written, Contexts
<1>2. Contained = {}  BY DEF Contained
<1>3. IInv
  BY <1>2 DEF IInv, ExclusiveOwnership, InputsSurvive, FreeIdsBlank, KeepersAreOwned
<1> QED BY <1>1, <1>2, <1>3

LEMMA TypeStep ==
  ASSUME TypeOK, IInv, [ReadsNext]_allVars
  PROVE  TypeOK'
<1>0. hostOwns \subseteq heap  BY DEF IInv, ExclusiveOwnership
<1>1. CASE \/ Parse \/ parse_clone \/ ast_clone \/ log_clone
           \/ BindSource \/ BindTransform \/ Compile
  <2>1. PICK i, k, a, c, o : Allocates(i, k, a, c, o)  BY <1>0, <1>1, Allocations
  <2> QED BY <2>1 DEF Allocates, Allocate, TypeOK, Kinds, config
<1>2. CASE ExpandSelf \/ ExpandPipeline \/ ExpandWithLookup
  <2>1. PICK c, nodes, arg : NewArray(c, nodes, arg) /\ ExpandedInto(c, nodes, arg)
    BY <1>2, Expansions
  <2>2. /\ family' = family /\ expect_empty' = expect_empty /\ catalog' = catalog
        /\ transferred' = transferred /\ lookupFailures' = lookupFailures /\ status' = "ok"
        /\ heap' \subseteq Ids /\ hostOwns' \subseteq Ids
    BY <2>1 DEF NewArray, ExpandedInto, TypeOK, config
  <2>3. asts' \in [Ids -> Seq(Ids)]  BY <2>1 DEF NewArray, ExpandedInto, TypeOK
  <2>4. kind' \in [Ids -> Kinds] /\ args' \in [Ids -> Args \cup {NoArgs}]
    BY <2>1 DEF NewArray, ExpandedInto, TypeOK, Kinds
  <2>5. origin' \in [Ids -> [args : Args \cup {NoArgs}, context : Contexts]]
    BY <2>1 DEF NewArray, ExpandedInto, TypeOK, Written, Contexts
  <2> QED BY <2>2, <2>3, <2>4, <2>5 DEF TypeOK
<1>3. CASE LookupFails
  <2>1. PICK a \in Args, i \in Ids \ heap :
          /\ heap' = heap \cup {i} /\ kind' = [kind EXCEPT ![i] = "ast"]
          /\ args' = [args EXCEPT ![i] = a]
          /\ origin' = [origin EXCEPT ![i] = Written(a, "null")]
    BY <1>3 DEF LookupFails
  <2>2. lookupFailures' \in 0..MaxFailures
    BY <1>3, BoundAssumption DEF LookupFails, TypeOK
  <2> QED BY <1>3, <2>1, <2>2 DEF LookupFails, TypeOK, Kinds, Written, Contexts, config
<1>4. CASE Transfer
  <2>1. PICK c \in Arrays :
          /\ hostOwns' = hostOwns \cup Range(asts[c])
          /\ transferred' = [transferred EXCEPT ![c] = TRUE]
    BY <1>4 DEF Transfer
  <2>2. c \in Ids /\ Range(asts[c]) \subseteq Ids  BY <2>1 DEF Arrays, Range, TypeOK
  <2> QED BY <1>4, <2>1, <2>2 DEF Transfer, TypeOK, config
<1>5. CASE Destroy
  <2>1. << >> \in Seq(Ids) /\ NoObject \in [args : Args \cup {NoArgs}, context : Contexts]
    BY DEF NoObject, Written, Contexts
  <2> QED BY <1>5, <2>1 DEF Destroy, TypeOK, Kinds, config
<1>6. CASE Quiet  BY <1>6 DEF Quiet, TypeOK, config, fields
<1>7. CASE UNCHANGED vars  BY <1>7 DEF vars, TypeOK, config, fields
<1> QED BY <1>1, <1>2, <1>3, <1>4, <1>5, <1>6, <1>7, NextCases

LEMMA InvariantStep ==
  ASSUME TypeOK, IInv, [ReadsNext]_allVars
  PROVE  IInv'
<1>0. hostOwns \subseteq heap  BY DEF IInv, ExclusiveOwnership
<1>1. CASE \/ Parse \/ parse_clone \/ ast_clone \/ log_clone
           \/ BindSource \/ BindTransform \/ Compile
  <2>1. PICK i, k, a, c, o : Allocates(i, k, a, c, o)  BY <1>0, <1>1, Allocations
  <2> QED BY <2>1, AllocateOwners
<1>2. CASE ExpandSelf \/ ExpandPipeline \/ ExpandWithLookup
  <2>1. PICK c, nodes, arg : NewArray(c, nodes, arg) /\ ExpandedInto(c, nodes, arg)
    BY <1>2, Expansions
  <2> QED BY <2>1, ExpandOwners
<1>3. CASE LookupFails  BY <1>3, LookupOwners
<1>4. CASE Transfer     BY <1>4, TransferOwners
<1>5. CASE Destroy      BY <1>5, DestroyOwners
<1>6. CASE Quiet \/ UNCHANGED vars
  <2>1. UNCHANGED <<family, heap, kind, args, catalog, asts, transferred, origin, hostOwns>>
    BY <1>6 DEF Quiet, vars, config, fields
  <2> QED BY <2>1 DEF IInv, ExclusiveOwnership, InputsSurvive, FreeIdsBlank,
                      KeepersAreOwned, Contained, KeptBy, Kept
<1> QED BY <1>1, <1>2, <1>3, <1>4, <1>5, <1>6, NextCases

(* The variables have their types and the invariant is inductive, whatever *)
(* the host calls and in whatever order it destroys.                       *)
THEOREM Inductive == ReadsSpec => [](TypeOK /\ IInv)
<1>1. ReadsInit => TypeOK /\ IInv  BY InitHolds DEF ReadsInit
<1>2. TypeOK /\ IInv /\ [ReadsNext]_allVars => (TypeOK /\ IInv)'  BY TypeStep, InvariantStep
<1> QED BY <1>1, <1>2, PTL DEF ReadsSpec

(* Every field of every object has its type.                               *)
THEOREM TypeCorrect == ReadsSpec => []TypeOK
  BY Inductive, PTL

(* No pointer dangles and no object has two owners: what the host destroys *)
(* and what the arrays destroy never overlap.                              *)
THEOREM Ownership == ReadsSpec => []ExclusiveOwnership
<1>1. IInv => ExclusiveOwnership  BY DEF IInv
<1> QED BY <1>1, Inductive, PTL

(* The arguments written and the context bound reach the executor through  *)
(* any chain of expansions, clones, binds and destructions.                *)
THEOREM Inputs == ReadsSpec => []InputsSurvive
<1>1. IInv => InputsSurvive  BY DEF IInv
<1> QED BY <1>1, Inductive, PTL

(* A call that returns an error takes nothing from the host or an array.   *)
THEOREM FailuresTakeNothing == ReadsSpec => FailureTakesNothing
<1>1. TypeOK /\ IInv /\ [ReadsNext]_allVars =>
        [status' = "error" => hostOwns' = hostOwns /\ Contained' = Contained]_vars
  <2> SUFFICES ASSUME TypeOK, IInv, [ReadsNext]_allVars, status' = "error"
               PROVE  hostOwns' = hostOwns /\ Contained' = Contained
    OBVIOUS
  <2>0. hostOwns \subseteq heap  BY DEF IInv, ExclusiveOwnership
  <2>1. ~(\/ Parse \/ parse_clone \/ ast_clone \/ log_clone
          \/ BindSource \/ BindTransform \/ Compile)
    BY <2>0, Allocations DEF Allocates, Allocate
  <2>2. ~(ExpandSelf \/ ExpandPipeline \/ ExpandWithLookup)
    BY Expansions DEF ExpandedInto
  <2>3. ~Transfer /\ ~Destroy  BY DEF Transfer, Destroy
  <2>4. CASE LookupFails  BY <2>4, LookupOwners
  <2>5. CASE Quiet \/ UNCHANGED vars
    BY <2>5 DEF Quiet, vars, fields, Contained, KeptBy
  <2> QED BY <2>1, <2>2, <2>3, <2>4, <2>5, NextCases
<1> QED BY <1>1, Inductive, PTL DEF ReadsSpec, FailureTakesNothing

-----------------------------------------------------------------------------
(* The objects without an owner: failed id lookups add one each, and no    *)
(* other step changes which there are.                                     *)
LEMMA LostStep ==
  ASSUME TypeOK, IInv, [ReadsNext]_allVars
  PROVE  \/ Lost' = Lost /\ lookupFailures' = lookupFailures
         \/ /\ \E i : i \notin Lost /\ Lost' = Lost \cup {i}
            /\ lookupFailures' = lookupFailures + 1
<1> USE DEF Lost
<1>0. hostOwns \cup Contained \subseteq heap /\ hostOwns \cap Contained = {}
  BY DEF IInv, ExclusiveOwnership
<1>1. CASE \/ Parse \/ parse_clone \/ ast_clone \/ log_clone
           \/ BindSource \/ BindTransform \/ Compile
  <2>1. PICK i, k, a, c, o : Allocates(i, k, a, c, o)  BY <1>0, <1>1, Allocations
  <2>2. lookupFailures' = lookupFailures  BY <2>1 DEF Allocates, Allocate
  <2> QED BY <1>0, <2>1, <2>2, AllocateOwners
<1>2. CASE ExpandSelf \/ ExpandPipeline \/ ExpandWithLookup
  <2>1. PICK c, nodes, arg : NewArray(c, nodes, arg) /\ ExpandedInto(c, nodes, arg)
    BY <1>2, Expansions
  <2>2. lookupFailures' = lookupFailures  BY <2>1 DEF ExpandedInto
  <2>3. c \notin heap /\ Range(nodes) \cap heap = {}  BY <2>1 DEF NewArray
  <2> QED BY <1>0, <2>1, <2>2, <2>3, ExpandOwners
<1>3. CASE LookupFails
  <2>1. PICK i \in Ids \ heap : heap' = heap \cup {i}  BY <1>3, LookupOwners
  <2>2. i \notin Lost /\ Lost' = Lost \cup {i}  BY <1>0, <1>3, <2>1, LookupOwners
  <2> QED BY <1>3, <2>2 DEF LookupFails
<1>4. CASE Transfer
  BY <1>0, <1>4, TransferOwners DEF Transfer
<1>5. CASE Destroy
  BY <1>0, <1>5, DestroyOwners DEF Destroy
<1>6. CASE Quiet \/ UNCHANGED vars
  BY <1>6 DEF Quiet, vars, fields, Contained, KeptBy
<1> QED BY <1>1, <1>2, <1>3, <1>4, <1>5, <1>6, NextCases

(* After any calls, everything the host cannot reach has been destroyed,   *)
(* except one extension node for each id lookup that failed.               *)
THEOREM Leaks == ReadsSpec => []OnlyLookupsLeak
<1> DEFINE Counted == IsFiniteSet(Lost) /\ Cardinality(Lost) = lookupFailures
<1>1. ReadsInit => Counted
  <2>1. ReadsInit => Lost = {} /\ lookupFailures = 0  BY InitHolds DEF ReadsInit, Init, Lost
  <2> QED BY <2>1, FS_EmptySet
<1>2. TypeOK /\ IInv /\ Counted /\ [ReadsNext]_allVars => Counted'
  <2> SUFFICES ASSUME TypeOK, IInv, Counted, [ReadsNext]_allVars  PROVE Counted'
    OBVIOUS
  <2>1. CASE Lost' = Lost /\ lookupFailures' = lookupFailures  BY <2>1
  <2>2. CASE /\ \E i : i \notin Lost /\ Lost' = Lost \cup {i}
             /\ lookupFailures' = lookupFailures + 1
    <3>1. PICK i : i \notin Lost /\ Lost' = Lost \cup {i}  BY <2>2
    <3>2. IsFiniteSet(Lost \cup {i}) /\ Cardinality(Lost \cup {i}) = lookupFailures + 1
      BY <3>1, FS_AddElement
    <3> QED BY <2>2, <3>1, <3>2
  <2> QED BY <2>1, <2>2, LostStep
<1>3. Counted => OnlyLookupsLeak  BY DEF OnlyLookupsLeak
<1> QED BY <1>1, <1>2, <1>3, Inductive, PTL DEF ReadsSpec

-----------------------------------------------------------------------------
(* Refinement: the owners' view of each shape is a step of the ledger.     *)
LEMMA OwnerShape ==
  ASSUME TypeOK, IInv, NEW i \in Ids
  PROVE  /\ OwnerOf(i) = "free" <=> i \notin heap
         /\ OwnerOf(i) = "host" <=> i \in hostOwns
         /\ OwnerOf(i) = "extension" <=> i \in Contained
         /\ OwnerOf(i) = "lost" <=> i \in Lost
         /\ OwnerOf(i) \in {"free", "host", "extension", "lost"}
  BY DEF OwnerOf, IInv, ExclusiveOwnership, Lost

(* The owners after a step, from the sets of objects after it.             *)
Owns(new) ==
    \A i \in Ids :
        /\ new[i] = "free" <=> i \notin heap
        /\ new[i] = "host" <=> i \in hostOwns
        /\ new[i] = "extension" <=> i \in Contained
        /\ new[i] = "lost" <=> i \in Lost

LEMMA OwnersChange ==
  ASSUME TypeOK', IInv', NEW new \in [Ids -> Ledger!Owners], Owns(new)'
  PROVE  owner' = new
<1>1. \A i \in Ids : OwnerOf(i)' = new[i]
  BY DEF OwnerOf, IInv, ExclusiveOwnership, Lost, Owns
<1>2. owner' = [i \in Ids |-> OwnerOf(i)']  BY DEF owner
<1>3. [i \in Ids |-> OwnerOf(i)'] = [i \in Ids |-> new[i]]  BY <1>1, Zenon
<1>4. [i \in Ids |-> new[i]] = new  OBVIOUS
<1> QED BY <1>2, <1>3, <1>4

(* What the ledger's actions say, in terms of the sets of objects.         *)
LEMMA Sets ==
  ASSUME TypeOK, IInv
  PROVE  /\ owner \in [Ids -> Ledger!Owners]
         /\ Owns(owner)
         /\ Ledger!OwnedBy("free") = Ids \ heap
         /\ Ledger!OwnedBy("host") = hostOwns
         /\ Ledger!OwnedBy("extension") = Contained
<1>1. owner \in [Ids -> Ledger!Owners] /\ \A i \in Ids : owner[i] = OwnerOf(i)
  BY OwnerShape DEF owner, Ledger!Owners
<1>2. Owns(owner)  BY <1>1, OwnerShape DEF Owns
<1>3. hostOwns \subseteq Ids /\ Contained \subseteq Ids
  BY DEF TypeOK, IInv, ExclusiveOwnership
<1> QED BY <1>1, <1>2, <1>3 DEF Owns, Ledger!OwnedBy

LEMMA RefineStep ==
  ASSUME TypeOK, IInv, [ReadsNext]_allVars
  PROVE  Ledger!Next \/ owner' = owner
<1>0. /\ TypeOK' /\ IInv' /\ heap \subseteq Ids /\ hostOwns \subseteq heap
      /\ Contained \subseteq heap /\ hostOwns \cap Contained = {}
  BY TypeStep, InvariantStep DEF IInv, ExclusiveOwnership, TypeOK
<1>1. CASE \/ Parse \/ parse_clone \/ ast_clone \/ log_clone
           \/ BindSource \/ BindTransform \/ Compile
  <2>1. PICK i, k, a, c, o : Allocates(i, k, a, c, o)  BY <1>0, <1>1, Allocations
  <2>2. /\ i \in Ids \ heap /\ heap' = heap \cup {i}
        /\ hostOwns' = hostOwns \cup {i} /\ Contained' = Contained
    BY <2>1, AllocateOwners
  <2>p. PICK new : new = [Ledger!Become({}, "extension") EXCEPT ![i] = "host"]  OBVIOUS
  <2>3. /\ new \in [Ids -> Ledger!Owners]
        /\ \A n \in Ids : new[n] = IF n = i THEN "host" ELSE owner[n]
    BY <2>p, Sets DEF Ledger!Become, Ledger!Owners
  <2>4. Owns(new)'  BY <1>0, <2>2, <2>3, Sets DEF Owns, Lost
  <2>5. owner' = new  BY <1>0, <2>3, <2>4, OwnersChange
  <2> QED BY <2>p, <2>2, <2>5, Sets DEF Ledger!Next, Ledger!Create
<1>2. CASE ExpandSelf \/ ExpandPipeline \/ ExpandWithLookup
  <2>1. PICK c, nodes, arg : NewArray(c, nodes, arg) /\ ExpandedInto(c, nodes, arg)
    BY <1>2, Expansions
  <2> DEFINE S == Range(nodes)
  <2>p. PICK new : new = [Ledger!Become(S, "extension") EXCEPT ![c] = "host"]  OBVIOUS
  <2>2. /\ c \in Ids \ heap /\ S \subseteq Ids \ heap /\ c \notin S
        /\ heap' = heap \cup S \cup {c}
        /\ hostOwns' = hostOwns \cup {c} /\ Contained' = Contained \cup S
    BY <2>1, ExpandOwners DEF NewArray
  <2> HIDE DEF S
  <2>3. /\ new \in [Ids -> Ledger!Owners]
        /\ \A n \in Ids : new[n] = IF n = c THEN "host"
                                   ELSE IF n \in S THEN "extension" ELSE owner[n]
    BY <2>p, Sets DEF Ledger!Become, Ledger!Owners
  <2>4. Owns(new)'  BY <1>0, <2>2, <2>3, Sets DEF Owns, Lost
  <2>5. owner' = new  BY <1>0, <2>3, <2>4, OwnersChange
  <2> QED BY <2>p, <2>2, <2>5, Sets DEF Ledger!Next, Ledger!Create
<1>3. CASE LookupFails
  <2>1. PICK i \in Ids \ heap : heap' = heap \cup {i}  BY <1>3, LookupOwners
  <2>2. hostOwns' = hostOwns /\ Contained' = Contained  BY <1>3, LookupOwners
  <2>p. PICK new : new = [owner EXCEPT ![i] = "lost"]  OBVIOUS
  <2>3. /\ new \in [Ids -> Ledger!Owners]
        /\ \A n \in Ids : new[n] = IF n = i THEN "lost" ELSE owner[n]
    BY <2>p, Sets DEF Ledger!Owners
  <2>4. Owns(new)'  BY <1>0, <2>1, <2>2, <2>3, Sets DEF Owns, Lost
  <2>5. owner' = new  BY <1>0, <2>3, <2>4, OwnersChange
  <2> QED BY <2>p, <2>1, <2>5, Sets DEF Ledger!Next, Ledger!Lose
<1>4. CASE Transfer
  <2>1. heap' = heap  BY <1>4, TransferOwners
  <2>2. PICK S \in SUBSET Contained :
          hostOwns' = hostOwns \cup S /\ Contained' = Contained \ S
    BY <1>4, TransferOwners
  <2>p. PICK new : new = Ledger!Become(S, "host")  OBVIOUS
  <2>3. /\ new \in [Ids -> Ledger!Owners]
        /\ \A n \in Ids : new[n] = IF n \in S THEN "host" ELSE owner[n]
    BY <2>p, Sets DEF Ledger!Become, Ledger!Owners
  <2>4. Owns(new)'  BY <1>0, <2>1, <2>2, <2>3, Sets DEF Owns, Lost
  <2>5. owner' = new  BY <1>0, <2>3, <2>4, OwnersChange
  <2> QED BY <2>p, <2>2, <2>5, Sets DEF Ledger!Next, Ledger!HandOver
<1>5. CASE Destroy
  <2>1. PICK i \in hostOwns :
          /\ KeptBy(i) \subseteq Contained /\ heap' = heap \ ({i} \cup KeptBy(i))
          /\ hostOwns' = hostOwns \ {i} /\ Contained' = Contained \ KeptBy(i)
    BY <1>5, DestroyOwners
  <2>p. PICK S : S = KeptBy(i)  OBVIOUS
  <2>q. PICK new : new = Ledger!Become(S \cup {i}, "free")  OBVIOUS
  <2>2. /\ S \subseteq Contained /\ heap' = heap \ ({i} \cup S)
        /\ hostOwns' = hostOwns \ {i} /\ Contained' = Contained \ S
    BY <2>p, <2>1
  <2>3. /\ new \in [Ids -> Ledger!Owners]
        /\ \A n \in Ids : new[n] = IF n \in S \cup {i} THEN "free" ELSE owner[n]
    BY <2>q, Sets DEF Ledger!Become, Ledger!Owners
  <2>4. Owns(new)'  BY <1>0, <2>2, <2>3, Sets DEF Owns, Lost
  <2>5. owner' = new  BY <1>0, <2>3, <2>4, OwnersChange
  <2> QED BY <2>q, <2>2, <2>5, Sets DEF Ledger!Next, Ledger!Release
<1>6. CASE Quiet \/ UNCHANGED vars
  <2>1. UNCHANGED <<heap, hostOwns, Contained, Lost>>
    BY <1>6 DEF Quiet, vars, fields, Contained, KeptBy, Lost
  <2>p. PICK new : new = owner  OBVIOUS
  <2>2. Owns(new)'  BY <2>p, <2>1, Sets DEF Owns
  <2> QED BY <1>0, <2>p, <2>2, Sets, OwnersChange
<1> QED BY <1>1, <1>2, <1>3, <1>4, <1>5, <1>6, NextCases

(* Expansion, transfer, destruction and the rest implement the abstract    *)
(* ledger: each call creates, hands over, releases or loses objects.       *)
THEOREM Refinement == ReadsSpec => ImplementsLedger
<1>1. ReadsInit => Ledger!Init
  BY DEF ReadsInit, Init, Ledger!Init, owner, OwnerOf
<1>2. TypeOK /\ IInv /\ [ReadsNext]_allVars => [Ledger!Next]_owner
  BY RefineStep
<1> QED BY <1>1, <1>2, Inductive, PTL DEF ReadsSpec, ImplementsLedger, Ledger!Spec
=============================================================================
