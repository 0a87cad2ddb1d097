-------------------------- MODULE TransformExec_proofs --------------------------
(***************************************************************************)
(* Proofs about TransformExec for every set of buffers and every length of *)
(* the upstream: no byte buffer leaks on any path, metadata stays with its *)
(* row, and a row is made from the arguments at most once and only for an  *)
(* empty upstream.                                                         *)
(***************************************************************************)
EXTENDS TransformExec, TLAPS

(* One disjunct per action, the form every step proof splits into.         *)
LEMMA NextCases ==
  ASSUME [Next]_vars
  PROVE  \/ NullSource \/ UpstreamPauses \/ UpstreamFails \/ PassRow \/ MapRow
         \/ MapRowFails \/ EofRow \/ EofRowFails \/ PassEof \/ SetSource
         \/ OpenReopenClose \/ Destroy \/ HostTake \/ UNCHANGED vars
  BY DEF Next, exec_get_next, Finished

(* What the upstream hands over is a result, in unused distinct buffers.   *)
LEMMA RowsAreResults ==
  ASSUME NEW r \in UpstreamRows, taken \in Nat, taken < MaxRows
  PROVE  /\ r \in Results
         /\ r.code = "kAdvanced" /\ r # Fresh
         /\ r.doc.of = taken + 1
         /\ Buf(r.doc) \cap Buf(r.meta) = {}
         /\ Owned(r) \subseteq UpBufs
<1> USE BoundsAssumption DEF UpstreamRows, Given, empty_byte_container
<1>1. taken + 1 \in 0..EofTag  BY DEF EofTag
<1>2. r.doc \in Containers /\ r.meta \in Containers  BY <1>1 DEF Containers, Bufs, EofTag
<1>3. r \in Results  BY <1>2 DEF Results
<1>4. r.code = "kAdvanced" /\ r # Fresh  BY DEF Fresh
<1>5. r.doc.of = taken + 1  OBVIOUS
<1>6. Buf(r.doc) \cap Buf(r.meta) = {}  BY DEF Buf
<1>7. Owned(r) \subseteq UpBufs  BY DEF Buf, Owned
<1> QED BY <1>3, <1>4, <1>5, <1>6, <1>7

LEMMA EofsAreResults ==
  ASSUME NEW r \in UpstreamEofs
  PROVE  /\ r \in Results
         /\ r.code = "kEOF" /\ r # Fresh
         /\ r.doc = empty_byte_container
         /\ Owned(r) = Buf(r.meta) /\ Buf(r.meta) \subseteq UpBufs
  BY BoundsAssumption DEF UpstreamEofs, Given, empty_byte_container, Containers, Bufs,
     EofTag, Results, Fresh, Owned, Buf

LEMMA ConstantResults ==
  /\ empty_byte_container \in Containers /\ Buf(empty_byte_container) = {}
  /\ Fresh \in Results /\ EofEmpty \in Results /\ UpstreamPause \in Results
  /\ Owned(Fresh) = {} /\ Owned(EofEmpty) = {} /\ Owned(UpstreamPause) = {}
  BY BoundsAssumption DEF empty_byte_container, Containers, Bufs, EofTag, Fresh, EofEmpty,
     UpstreamPause, Results, Buf, Owned

(* A container filled from a fresh buffer of the stage.                    *)
LEMMA OwnContainer ==
  ASSUME NEW o \in OwnBufs, NEW i \in 0..EofTag
  PROVE  [buf |-> o, of |-> i] \in Containers /\ Buf([buf |-> o, of |-> i]) = {o}
  BY BufsAssumption DEF Containers, Bufs, Buf

-----------------------------------------------------------------------------
(* A step keeps the variables in their types.                              *)
LEMMA TypeStep ==
  ASSUME TypeOK, [Next]_vars
  PROVE  TypeOK'
<1> USE BoundsAssumption, ConstantResults DEF TypeOK, config, flags, upstream, observed, GetNext, Seen, Count
<1>1. CASE NullSource
  BY <1>1 DEF NullSource
<1>2. CASE UpstreamPauses
  BY <1>2 DEF UpstreamPauses
<1>3. CASE UpstreamFails
  BY <1>3 DEF UpstreamFails
<1>4. CASE PassRow
  BY <1>4, RowsAreResults DEF PassRow, PullsRow, Bufs
<1>5. CASE MapRow
  BY <1>5, RowsAreResults, OwnContainer DEF MapRow, PullsRow, release_byte_container, Results, Bufs, EofTag
<1>6. CASE MapRowFails
  <2>1. taken < MaxRows /\ taken' = taken + 1 /\ left' = left - 1 /\ left' \in 0..MaxRows
    BY <1>6 DEF MapRowFails, PullsRow
  <2>2. PICK r \in UpstreamRows :
          /\ res' = [r EXCEPT !.doc = empty_byte_container, !.meta = release_owned_metadata(r.meta)]
          /\ live' = (live \cup Buf(r.doc) \cup Buf(release_owned_metadata(r.meta))) \ release_byte_container(r.doc)
    BY <1>6 DEF MapRowFails
  <2>3. r \in Results /\ Owned(r) \subseteq UpBufs  BY <2>1, RowsAreResults
  <2>4. release_owned_metadata(r.meta) \in Containers  BY <2>3 DEF release_owned_metadata, Results
  <2>5. res' \in Results  BY <2>2, <2>3, <2>4 DEF Results
  <2>6. Buf(release_owned_metadata(r.meta)) = {}  BY DEF release_owned_metadata
  <2>7. live' \subseteq Bufs  BY <2>2, <2>3, <2>6 DEF Bufs, Owned
  <2> QED BY <1>6, <2>1, <2>5, <2>7 DEF MapRowFails, PullsRow
<1>7. CASE EofRow
  BY <1>7, EofsAreResults, OwnContainer DEF EofRow, AtUpstreamEof, Synthesizes, release_owned_metadata, Results, Bufs, EofTag
<1>8. CASE EofRowFails
  BY <1>8, EofsAreResults DEF EofRowFails, AtUpstreamEof, Synthesizes, release_owned_metadata, Results, Bufs
<1>9. CASE PassEof
  BY <1>9, EofsAreResults DEF PassEof, AtUpstreamEof, Bufs
<1>10. CASE SetSource
  BY <1>10 DEF SetSource
<1>11. CASE OpenReopenClose
  BY <1>11 DEF OpenReopenClose
<1>12. CASE Destroy
  BY <1>12 DEF Destroy
<1>13. CASE HostTake
  BY <1>13 DEF HostTake
<1>14. CASE UNCHANGED vars  BY <1>14 DEF vars
<1> QED
  BY NextCases, <1>1, <1>2, <1>3, <1>4, <1>5, <1>6, <1>7, <1>8, <1>9, <1>10, <1>11, <1>12, <1>13, <1>14

(* A step keeps exactly the buffers of the result allocated.               *)
LEMMA BufferStep ==
  ASSUME TypeOK, NothingLeaks, FailedCallHoldsNothing, [Next]_vars
  PROVE  NothingLeaks' /\ FailedCallHoldsNothing'
<1> USE BoundsAssumption, ConstantResults DEF TypeOK, NothingLeaks, FailedCallHoldsNothing, config, flags, upstream, observed, GetNext
<1>1. CASE NullSource
  BY <1>1 DEF NullSource
<1>2. CASE UpstreamPauses
  BY <1>2 DEF UpstreamPauses
<1>3. CASE UpstreamFails
  BY <1>3 DEF UpstreamFails
<1>4. CASE PassRow
  BY <1>4, RowsAreResults DEF PassRow, PullsRow
<1>5. CASE MapRow
  <2>1. live = {} /\ status' = "ok" /\ taken < MaxRows  BY <1>5 DEF MapRow, PullsRow
  <2>2. PICK r \in UpstreamRows, o \in OwnBufs \ live :
          /\ res' = [r EXCEPT !.doc = [buf |-> o, of |-> taken + 1]]
          /\ live' = ((live \cup Owned(r)) \ release_byte_container(r.doc)) \cup {o}
    BY <1>5 DEF MapRow
  <2>3. r \in Results /\ Buf(r.doc) \cap Buf(r.meta) = {}  BY <2>1, RowsAreResults
  <2>4. live' = Buf(r.meta) \cup {o}
    BY <2>1, <2>2, <2>3 DEF Owned, release_byte_container
  <2>5. res'.doc = [buf |-> o, of |-> taken + 1] /\ res'.meta = r.meta
    BY <2>2, <2>3 DEF Results
  <2>6. Buf(res'.doc) = {o}
    BY <2>5, BufsAssumption DEF Buf
  <2> QED BY <2>1, <2>4, <2>5, <2>6 DEF Owned
<1>6. CASE MapRowFails
  BY <1>6, RowsAreResults DEF MapRowFails, PullsRow, release_byte_container, release_owned_metadata, Owned
<1>7. CASE EofRow
  <2>1. live = {} /\ status' = "ok"  BY <1>7 DEF EofRow, AtUpstreamEof
  <2>2. PICK r \in UpstreamEofs, o \in OwnBufs \ live :
          /\ res' = [code |-> "kAdvanced", doc |-> [buf |-> o, of |-> 0], meta |-> empty_byte_container]
          /\ live' = live \cup {o} \cup Buf(release_owned_metadata(r.meta))
    BY <1>7 DEF EofRow
  <2>3. Buf(release_owned_metadata(r.meta)) = {}  BY DEF release_owned_metadata
  <2>4. Buf(res'.doc) = {o} /\ Buf(res'.meta) = {}
    BY <2>2, BufsAssumption DEF Buf, empty_byte_container
  <2> QED BY <2>1, <2>2, <2>3, <2>4 DEF Owned
<1>8. CASE EofRowFails
  BY <1>8, EofsAreResults DEF EofRowFails, AtUpstreamEof, Synthesizes, release_owned_metadata, Owned
<1>9. CASE PassEof
  BY <1>9, EofsAreResults DEF PassEof, AtUpstreamEof
<1>10. CASE SetSource
  BY <1>10 DEF SetSource
<1>11. CASE OpenReopenClose
  BY <1>11 DEF OpenReopenClose
<1>12. CASE Destroy
  BY <1>12 DEF Destroy
<1>13. CASE HostTake
  BY <1>13 DEF HostTake
<1>14. CASE UNCHANGED vars  BY <1>14 DEF vars
<1> QED
  BY NextCases, <1>1, <1>2, <1>3, <1>4, <1>5, <1>6, <1>7, <1>8, <1>9, <1>10, <1>11, <1>12, <1>13, <1>14

(* A step keeps the flags of the object truthful.                          *)
LEMMA FlagsStep ==
  ASSUME TypeOK, SyntheticOnlyWhenEmpty, FlagsInv, [Next]_vars
  PROVE  SyntheticOnlyWhenEmpty' /\ FlagsInv'
<1> USE BoundsAssumption DEF TypeOK, SyntheticOnlyWhenEmpty, FlagsInv, config, flags, upstream, observed, GetNext, Seen, Count
<1>1. CASE NullSource
  BY <1>1 DEF NullSource
<1>2. CASE UpstreamPauses
  BY <1>2 DEF UpstreamPauses
<1>3. CASE UpstreamFails
  BY <1>3 DEF UpstreamFails
<1>4. CASE PassRow
  BY <1>4 DEF PassRow, PullsRow
<1>5. CASE MapRow
  BY <1>5 DEF MapRow, PullsRow, release_byte_container
<1>6. CASE MapRowFails
  BY <1>6 DEF MapRowFails, PullsRow, release_byte_container, release_owned_metadata
<1>7. CASE EofRow
  BY <1>7 DEF EofRow, AtUpstreamEof, Synthesizes, release_owned_metadata
<1>8. CASE EofRowFails
  BY <1>8 DEF EofRowFails, AtUpstreamEof, Synthesizes, release_owned_metadata
<1>9. CASE PassEof
  BY <1>9 DEF PassEof, AtUpstreamEof
<1>10. CASE SetSource
  BY <1>10 DEF SetSource
<1>11. CASE OpenReopenClose
  BY <1>11 DEF OpenReopenClose
<1>12. CASE Destroy
  BY <1>12 DEF Destroy
<1>13. CASE HostTake
  BY <1>13 DEF HostTake
<1>14. CASE UNCHANGED vars  BY <1>14 DEF vars
<1> QED
  BY NextCases, <1>1, <1>2, <1>3, <1>4, <1>5, <1>6, <1>7, <1>8, <1>9, <1>10, <1>11, <1>12, <1>13, <1>14

(* A pulled row is in the result of the call that pulled it, or reported.  *)
LEMMA DeliveryStep ==
  ASSUME TypeOK, [Next]_vars
  PROVE  taken' # taken => status' = "error" \/ (res'.code = "kAdvanced" /\ res'.doc.of = taken')
<1> USE BoundsAssumption DEF TypeOK, config, flags, upstream, observed, GetNext
<1>1. CASE NullSource  BY <1>1 DEF NullSource
<1>2. CASE UpstreamPauses  BY <1>2 DEF UpstreamPauses
<1>3. CASE UpstreamFails  BY <1>3 DEF UpstreamFails
<1>4. CASE PassRow  BY <1>4, RowsAreResults DEF PassRow, PullsRow
<1>5. CASE MapRow
  <2>1. taken < MaxRows /\ taken' = taken + 1  BY <1>5 DEF MapRow, PullsRow
  <2>2. PICK r \in UpstreamRows, o \in OwnBufs : res' = [r EXCEPT !.doc = [buf |-> o, of |-> taken + 1]]
    BY <1>5 DEF MapRow
  <2>3. r \in Results /\ r.code = "kAdvanced"  BY <2>1, RowsAreResults
  <2> QED BY <2>1, <2>2, <2>3 DEF Results
<1>6. CASE MapRowFails  BY <1>6 DEF MapRowFails
<1>7. CASE EofRow  BY <1>7 DEF EofRow, AtUpstreamEof
<1>8. CASE EofRowFails  BY <1>8 DEF EofRowFails, AtUpstreamEof
<1>9. CASE PassEof  BY <1>9 DEF PassEof, AtUpstreamEof
<1>10. CASE SetSource  BY <1>10 DEF SetSource
<1>11. CASE OpenReopenClose  BY <1>11 DEF OpenReopenClose
<1>12. CASE Destroy  BY <1>12 DEF Destroy
<1>13. CASE HostTake  BY <1>13 DEF HostTake
<1>14. CASE UNCHANGED vars  BY <1>14 DEF vars
<1> QED
  BY NextCases, <1>1, <1>2, <1>3, <1>4, <1>5, <1>6, <1>7, <1>8, <1>9, <1>10, <1>11, <1>12, <1>13, <1>14

(* The metadata of what the stage hands on is of the row that it hands on. *)
LEMMA MetadataStep ==
  ASSUME TypeOK, MetadataBelongsToRow, [Next]_vars
  PROVE  MetadataBelongsToRow'
<1> USE BoundsAssumption DEF TypeOK, MetadataBelongsToRow, config, flags, upstream, observed, GetNext
<1>0. \A r \in UpstreamRows : r.meta.of \in {0, r.doc.of}
  BY DEF UpstreamRows, Given, empty_byte_container
<1>1. CASE NullSource  BY <1>1 DEF NullSource, EofEmpty
<1>2. CASE UpstreamPauses  BY <1>2 DEF UpstreamPauses, UpstreamPause, Fresh
<1>3. CASE UpstreamFails  BY <1>3 DEF UpstreamFails
<1>4. CASE PassRow  BY <1>4, <1>0 DEF PassRow
<1>5. CASE MapRow
  <2>1. taken < MaxRows  BY <1>5 DEF MapRow, PullsRow
  <2>2. PICK r \in UpstreamRows, o \in OwnBufs : res' = [r EXCEPT !.doc = [buf |-> o, of |-> taken + 1]]
    BY <1>5 DEF MapRow
  <2>3. r \in Results /\ r.doc.of = taken + 1  BY <2>1, RowsAreResults
  <2>4. res'.doc.of = taken + 1 /\ res'.meta = r.meta  BY <2>2, <2>3 DEF Results
  <2> QED BY <2>3, <2>4, <1>0
<1>6. CASE MapRowFails  BY <1>6 DEF MapRowFails
<1>7. CASE EofRow  BY <1>7 DEF EofRow, empty_byte_container
<1>8. CASE EofRowFails  BY <1>8 DEF EofRowFails
<1>9. CASE PassEof  BY <1>9 DEF PassEof, UpstreamEofs
<1>10. CASE SetSource  BY <1>10 DEF SetSource, Fresh
<1>11. CASE OpenReopenClose  BY <1>11 DEF OpenReopenClose, Fresh
<1>12. CASE Destroy  BY <1>12 DEF Destroy
<1>13. CASE HostTake  BY <1>13 DEF HostTake, Fresh
<1>14. CASE UNCHANGED vars  BY <1>14 DEF vars
<1> QED
  BY NextCases, <1>1, <1>2, <1>3, <1>4, <1>5, <1>6, <1>7, <1>8, <1>9, <1>10, <1>11, <1>12, <1>13, <1>14

-----------------------------------------------------------------------------
(* The variables keep their types.                                         *)
THEOREM TypeCorrect == Spec => []TypeOK
<1>1. Init => TypeOK
  <2> SUFFICES ASSUME Init PROVE TypeOK  OBVIOUS
  <2>1. res \in Results /\ live \subseteq Bufs  BY ConstantResults DEF Init
  <2>2. left \in 0..MaxRows /\ taken = 0 /\ left + taken <= MaxRows /\ taken \in 0..MaxRows
    BY BoundsAssumption DEF Init
  <2>3. synthetic \in 0..Seen /\ hookCalls \in 0..Seen  BY DEF Init, Seen
  <2> QED BY <2>1, <2>2, <2>3 DEF Init, TypeOK
<1>2. TypeOK /\ [Next]_vars => TypeOK'  BY TypeStep
<1> QED BY <1>1, <1>2, PTL DEF Spec

(* The inductive invariant holds.                                          *)
THEOREM Inductive == Spec => []IInv
<1>1. Init => IInv
  BY ConstantResults DEF Init, IInv, NothingLeaks, FailedCallHoldsNothing,
     SyntheticOnlyWhenEmpty, FlagsInv
<1>2. TypeOK /\ IInv /\ [Next]_vars => IInv'
  BY BufferStep, FlagsStep DEF IInv
<1> QED BY <1>1, <1>2, TypeCorrect, PTL DEF Spec

(* No buffer leaks and none is freed twice, on any path.                   *)
THEOREM NoLeak == Spec => []NothingLeaks
<1>1. IInv => NothingLeaks  BY DEF IInv
<1> QED BY <1>1, Inductive, PTL

(* A failed call leaves the host nothing to release.                       *)
THEOREM FailuresHoldNothing == Spec => []FailedCallHoldsNothing
<1>1. IInv => FailedCallHoldsNothing  BY DEF IInv
<1> QED BY <1>1, Inductive, PTL

(* Metadata is delivered with the row that it is about, or not at all.     *)
THEOREM Metadata == Spec => []MetadataBelongsToRow
<1>1. Init => MetadataBelongsToRow  BY DEF Init, Fresh, MetadataBelongsToRow
<1>2. TypeOK /\ MetadataBelongsToRow /\ [Next]_vars => MetadataBelongsToRow'  BY MetadataStep
<1> QED BY <1>1, <1>2, TypeCorrect, PTL DEF Spec

(* The row made from the arguments: once, and for an empty upstream only.  *)
THEOREM Synthetics == Spec => []SyntheticOnlyWhenEmpty
<1>1. IInv => SyntheticOnlyWhenEmpty  BY DEF IInv
<1> QED BY <1>1, Inductive, PTL

(* No row of the upstream vanishes under a success.                        *)
THEOREM Deliveries == Spec => RowDeliveredOrReported
<1>1. TypeOK /\ [Next]_vars =>
        [taken' # taken => status' = "error" \/ (res'.code = "kAdvanced" /\ res'.doc.of = taken')]_vars
  BY DeliveryStep
<1> QED BY <1>1, TypeCorrect, PTL DEF Spec, RowDeliveredOrReported
=============================================================================
