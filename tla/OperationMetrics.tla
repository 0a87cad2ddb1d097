---------------------------- MODULE OperationMetrics ----------------------------
(***************************************************************************)
(* The metrics documents of a stage (operation_metrics.rs): each one an    *)
(* Arc<Mutex<Document>>, shared by the object that the host owns, by the   *)
(* executor that made it and by the context of the pull that fills it.     *)
(* Whoever lets go of it last frees it.  The host may use its objects from *)
(* another thread at any time, the mutex being there for that.             *)
(*                                                                         *)
(*   strong    the count of each document's handles; Unborn before it is   *)
(*             allocated, 0 once it is freed                               *)
(*   fields    what each document says                                     *)
(*   objects   documents whose SdkOperationMetrics the host owns           *)
(*   execDoc   the executor's handle                                       *)
(*   bound     the handle of the context that is bound to a pull           *)
(***************************************************************************)
EXTENDS Integers

CONSTANTS
    Documents,  \* identities of metrics documents; bounds how often they are created
    Keys,       \* field names
    Width       \* bits of a signed integer

ASSUME WidthAssumption == Width \in Nat /\ Width > 1

VARIABLES strong, fields, objects, execDoc, bound

metrics == <<strong, fields, objects, execDoc, bound>>

Unborn == -1
NoDoc  == "no document"

ASSUME DocumentAssumption == NoDoc \notin Documents

Half   == 2 ^ (Width - 1)
MaxInt == Half - 1
MinInt == -Half
Ints   == MinInt..MaxInt

(* Of powers the provers know nothing; one more than a bit is one of them. *)
ASSUME HalfAssumption == Half \in Nat /\ Half > 1

Clip(n) == IF n > MaxInt THEN MaxInt ELSE IF n < MinInt THEN MinInt ELSE n
Wrap(n) == ((n + Half) % (2 * Half)) - Half

(* BSON values: only an Int64 is read as a counter.                        *)
Int64(n)  == [type |-> "int64", value |-> n]
Int32(n)  == [type |-> "int32", value |-> n]
Absent    == [type |-> "absent", value |-> 0]
Values    == [type : {"int64", "int32"}, value : Ints] \cup {Absent}
AsInt64(v) == IF v.type = "int64" THEN v.value ELSE 0

InitMetrics ==
    /\ strong = [d \in Documents |-> Unborn]
    /\ fields = [d \in Documents |-> [k \in Keys |-> Absent]]
    /\ objects = {} /\ execDoc = NoDoc /\ bound = NoDoc

Dropped(counts, d) == IF d = NoDoc THEN counts ELSE [counts EXCEPT ![d] = @ - 1]

(* alloc_sdk_operation_metrics and exec_create_metrics: the stage's handle *)
(* replaces the one it had, whose object keeps its document as it is.      *)
(* Faults seeded for the mutation runs stand before what they replace: the *)
(* object is given the only handle there is; the first document is kept.   *)
FaultNotCloned == 1
NewHandles     == 2

FaultFirstKept(d) == IF execDoc = NoDoc THEN d ELSE execDoc
Replacement(d)    == d

CreateMetrics ==
    \E d \in Documents :
        /\ strong[d] = Unborn
        /\ strong' = [Dropped(strong, execDoc) EXCEPT ![d] = NewHandles]
        /\ objects' = objects \cup {d}
        /\ execDoc' = Replacement(d)
        /\ UNCHANGED <<fields, bound>>

(* sdk_met_destroy.                                                        *)
DestroyMetrics ==
    \E d \in objects :
        /\ objects' = objects \ {d}
        /\ strong' = Dropped(strong, d)
        /\ UNCHANGED <<fields, execDoc, bound>>

(* sdk_met_update: the host's fields are added, over what is there.  Of an *)
(* empty patch, or one that is no document, nothing is.                    *)
Patched(d, k, v) == [fields EXCEPT ![d][k] = v]

UpdateMetrics(key, v) ==
    \E d \in objects :
        /\ fields' = Patched(d, key, v)
        /\ UNCHANGED <<strong, objects, execDoc, bound>>

(* bind_execution of a pull's context, and its unbinding or drop.          *)
Bound(d) == IF d = NoDoc THEN strong ELSE [strong EXCEPT ![d] = @ + 1]

BindMetrics   == bound' = execDoc /\ strong' = Bound(execDoc)
UnbindMetrics == bound' = NoDoc /\ strong' = Dropped(strong, bound)

(* The executor is destroyed and drops its handle.                         *)
ForgetMetrics == execDoc' = NoDoc /\ strong' = Dropped(strong, execDoc)

(* OperationMetricsSink: inc and record_time, with what they leave in a    *)
(* set of documents f.  What is no Int64 counts as zero.                   *)
Counted(v, delta) == Int64(Clip(AsInt64(v) + delta))

Inc(f, key, delta) ==
    IF bound = NoDoc THEN f ELSE [f EXCEPT ![bound][key] = Counted(@, delta)]

RecordTime(f, key, elapsed) ==
    IF bound = NoDoc THEN f ELSE [f EXCEPT ![bound][key] = Int64(Wrap(elapsed))]

-----------------------------------------------------------------------------
MetricsTypeOK ==
    /\ strong \in [Documents -> Int]
    /\ fields \in [Documents -> [Keys -> Values]]
    /\ objects \subseteq Documents
    /\ {execDoc, bound} \subseteq Documents \cup {NoDoc}

One(holds) == IF holds THEN 1 ELSE 0

Handles(d) == One(d \in objects) + One(execDoc = d) + One(bound = d)

(* A document lives as long as anyone can reach it, in whatever order the  *)
(* host destroys its objects, replaces them, and destroys the executor.    *)
HandlesCounted == \A d \in Documents : strong[d] # Unborn => strong[d] = Handles(d)
=============================================================================
