-------------------------- MODULE SourceExec_proofs --------------------------
(***************************************************************************)
(* Proofs about SourceExec for every set of buffers and every number of    *)
(* rows: type correctness, the inductive invariant behind the safety       *)
(* properties, the action properties, and that the executor implements     *)
(* RowStream.                                                              *)
(***************************************************************************)
EXTENDS SourceExec, TLAPS

(* One disjunct per action, the form every step proof splits into.         *)
LEMMA NextCases ==
  ASSUME [Next]_vars
  PROVE  \/ PropertiesPanic \/ Forward \/ ForwardDetached \/ FirstRow \/ FirstPauseOrError
         \/ GenerateAfterEof \/ OpenFails \/ NextFails \/ NextRow \/ NextRowUnencodable
         \/ NextEof \/ NextEofDropPanics \/ NextOnDangling
         \/ SetSource \/ OpenReopenClose \/ Destroy \/ HostRelease \/ UNCHANGED vars
  BY DEF Next, exec_get_next, Generate, Finished

(* What an upstream or this stage may put in the result is a result.       *)
LEMMA RowsAreResults ==
  ASSUME NEW bufs \in {UpBufs, OwnBufs}, NEW r \in FreshRows(bufs)
  PROVE  /\ r \in Results
         /\ r.code = "kAdvanced" /\ r # Fresh
         /\ r.doc = r.meta => r.doc = NoBuf
         /\ Owned(r) \subseteq bufs \ live
  BY BufsAssumption DEF FreshRows, Results, Bufs, Codes, Owned, Fresh

LEMMA EofsAreResults ==
  ASSUME NEW r \in UpstreamEofs
  PROVE  /\ r \in Results
         /\ r.code = "kEOF" /\ r # Fresh
         /\ r.doc = NoBuf
         /\ Owned(r) \subseteq UpBufs \ live
  BY BufsAssumption DEF UpstreamEofs, Results, Bufs, Codes, Owned, Fresh

LEMMA ConstantResults ==
  /\ Fresh \in Results /\ EofEmpty \in Results /\ UpstreamPause \in Results
  /\ Owned(Fresh) = {} /\ Owned(EofEmpty) = {} /\ Owned(UpstreamPause) = {}
  /\ EofEmpty # Fresh /\ UpstreamPause # Fresh
  BY DEF Fresh, EofEmpty, UpstreamPause, Results, Bufs, Codes, Owned

(* The result the generator part starts from.                              *)
LEMMA TurnsAreResults ==
  ASSUME TypeOK, NEW cur \in TurnResults
  PROVE  /\ cur \in Results
         /\ Owned(cur) \subseteq Bufs
         /\ cur = res \/ (cur \in UpstreamEofs /\ FallsBack)
  BY EofsAreResults DEF TurnResults, TypeOK, Results, Owned, Bufs, UpstreamEofs

-----------------------------------------------------------------------------
(* The variables keep their types.                                         *)
THEOREM TypeCorrect == Spec => []TypeOK
<1>1. Init => TypeOK
  <2> SUFFICES ASSUME Init PROVE TypeOK  OBVIOUS
  <2>1. res \in Results  BY ConstantResults DEF Init
  <2>2. live \subseteq Bufs /\ sent \subseteq {"upstream", "generator"}  BY DEF Init
  <2>3. opens \in Nat /\ produced \in 0..GenRows  BY GenRowsAssumption DEF Init
  <2> QED BY <2>1, <2>2, <2>3 DEF Init, TypeOK, Modes, Calls
<1>2. ASSUME TypeOK, [Next]_vars PROVE TypeOK'
  <2> USE TypeOK DEF TypeOK, Modes, Calls, execVars, genVars, ghostVars, GetNext
  <2>1. CASE PropertiesPanic BY <2>1 DEF PropertiesPanic
  <2>2. CASE Forward
    BY <2>2, RowsAreResults, EofsAreResults, ConstantResults DEF Forward, Bufs
  <2>3. CASE ForwardDetached BY <2>3 DEF ForwardDetached
  <2>4. CASE FirstRow
    BY <2>4, RowsAreResults DEF FirstRow, Bufs
  <2>5. CASE FirstPauseOrError
    BY <2>5, ConstantResults DEF FirstPauseOrError
  <2>6. CASE GenerateAfterEof
    BY <2>6, TurnsAreResults, ConstantResults DEF GenerateAfterEof, Generating
  <2>7. CASE OpenFails
    BY <2>7, TurnsAreResults DEF OpenFails, Generating
  <2>8. CASE NextFails
    BY <2>8, TurnsAreResults DEF NextFails, Generating, Opened
  <2>9. CASE NextRow
    BY <2>9, TurnsAreResults, RowsAreResults, GenRowsAssumption
       DEF NextRow, Generating, Opened, Bufs
  <2>10. CASE NextRowUnencodable
    BY <2>10, TurnsAreResults, GenRowsAssumption
       DEF NextRowUnencodable, Generating, Opened, Bufs
  <2>11. CASE NextEof
    <3>1. res' \in Results  BY <2>11, ConstantResults DEF NextEof
    <3>2. live' \subseteq Bufs  BY <2>11, TurnsAreResults DEF NextEof
    <3>3. opens' \in Nat  BY <2>11 DEF NextEof, Opened
    <3> QED BY <2>11, <3>1, <3>2, <3>3 DEF NextEof, Generating
  <2>12. CASE NextEofDropPanics
    BY <2>12, TurnsAreResults DEF NextEofDropPanics, Generating, Opened
  <2>13. CASE NextOnDangling
    BY <2>13, TurnsAreResults DEF NextOnDangling, Generating
  <2>14. CASE SetSource BY <2>14 DEF SetSource
  <2>15. CASE OpenReopenClose BY <2>15 DEF OpenReopenClose
  <2>16. CASE Destroy BY <2>16 DEF Destroy
  <2>17. CASE HostRelease BY <2>17, ConstantResults DEF HostRelease
  <2>18. CASE UNCHANGED vars BY <2>18 DEF vars
  <2> QED
    BY <1>2, NextCases, <2>1, <2>2, <2>3, <2>4, <2>5, <2>6, <2>7, <2>8, <2>9, <2>10,
       <2>11, <2>12, <2>13, <2>14, <2>15, <2>16, <2>17, <2>18
<1> QED BY <1>1, <1>2, PTL DEF Spec

-----------------------------------------------------------------------------
(* The generator part only runs for a stage that has not forwarded, and    *)
(* falls back only from an undecided stage that requires its input.        *)
LEMMA TurnModes ==
  ASSUME NEW cur \in TurnResults
  PROVE  /\ mode # "MODE_PASSTHROUGH"
         /\ FallsBack => mode = "MODE_INIT" /\ requires
  BY DEF TurnResults, FallsBack, Resolved, Modes

(* A turn that took an end of stream from the upstream decides the mode.   *)
LEMMA FallbackFromInit ==
  ASSUME NEW cur \in TurnResults
  PROVE  cur = res \/ mode = "MODE_INIT"
  BY DEF TurnResults, FallsBack, Resolved

(* A step keeps the mode a commitment.                                     *)
LEMMA ModeStep ==
  ASSUME TypeOK, ModeInv, [Next]_vars
  PROVE  ModeInv'
<1> USE DEF TypeOK, ModeInv, execVars, genVars, ghostVars, GetNext, Modes
<1>1. CASE PropertiesPanic
  BY <1>1 DEF PropertiesPanic
<1>2. CASE Forward
  BY <1>2 DEF Forward
<1>3. CASE ForwardDetached
  BY <1>3 DEF ForwardDetached
<1>4. CASE FirstRow
  BY <1>4 DEF FirstRow, Resolved
<1>5. CASE FirstPauseOrError
  BY <1>5 DEF FirstPauseOrError, Resolved
<1>6. CASE GenerateAfterEof
  BY <1>6, TurnModes DEF GenerateAfterEof, Generating
<1>7. CASE OpenFails
  BY <1>7, TurnModes DEF OpenFails, Generating
<1>8. CASE NextFails
  BY <1>8, TurnModes DEF NextFails, Generating, Opened
<1>9. CASE NextRow
  BY <1>9, TurnModes DEF NextRow, Generating, Opened
<1>10. CASE NextRowUnencodable
  BY <1>10, TurnModes DEF NextRowUnencodable, Generating, Opened
<1>11. CASE NextEof
  BY <1>11, TurnModes DEF NextEof, Generating, Opened
<1>12. CASE NextEofDropPanics
  BY <1>12, TurnModes DEF NextEofDropPanics, Generating, Opened
<1>13. CASE NextOnDangling
  BY <1>13, TurnModes DEF NextOnDangling, Generating
<1>14. CASE SetSource
  BY <1>14 DEF SetSource
<1>15. CASE OpenReopenClose
  BY <1>15 DEF OpenReopenClose
<1>16. CASE Destroy
  BY <1>16 DEF Destroy
<1>17. CASE HostRelease
  BY <1>17 DEF HostRelease
<1>18. CASE UNCHANGED vars BY <1>18 DEF vars
<1> QED
  BY NextCases, <1>1, <1>2, <1>3, <1>4, <1>5, <1>6, <1>7, <1>8, <1>9, <1>10, <1>11, <1>12, <1>13, <1>14, <1>15, <1>16, <1>17, <1>18

(* The open hook has run at most once when the state is open.              *)
LEMMA OpenedOnce ==
  ASSUME TypeOK, StateInv, Running, Opened
  PROVE  opens' \in Nat /\ opens' <= 1
<1>1. CASE state
  BY <1>1 DEF TypeOK, StateInv, StateOwnership, Opened
<1>2. CASE ~state
  <2>1. opens = 0  BY <1>2 DEF Running, StateInv, Opened
  <2> QED BY <2>1, <1>2 DEF Opened
<1> QED BY <1>1, <1>2

(* A step keeps the state, its pointer and the open hook in step.          *)
LEMMA StateStep ==
  ASSUME TypeOK, ModeInv, StateInv, [Next]_vars
  PROVE  StateInv'
<1> USE DEF TypeOK, ModeInv, StateInv, StateOwnership, execVars, genVars, ghostVars, GetNext
<1>1. CASE PropertiesPanic
  BY <1>1 DEF PropertiesPanic
<1>2. CASE Forward
  BY <1>2 DEF Forward
<1>3. CASE ForwardDetached
  BY <1>3 DEF ForwardDetached
<1>4. CASE FirstRow
  BY <1>4 DEF FirstRow
<1>5. CASE FirstPauseOrError
  BY <1>5 DEF FirstPauseOrError
<1>6. CASE GenerateAfterEof
  BY <1>6 DEF GenerateAfterEof, Generating
<1>7. CASE OpenFails
  BY <1>7 DEF OpenFails, Generating
<1>8. CASE NextFails
  <2>1. Running /\ Opened  BY <1>8 DEF NextFails, Generating
  <2>2. opens' <= 1  BY <2>1, OpenedOnce
  <2>3. alive' /\ alive' = alive  BY <2>1, <1>8 DEF NextFails, Generating, Running
  <2> QED BY <2>1, <2>2, <2>3, <1>8 DEF NextFails, Opened
<1>9. CASE NextRow
  <2>1. Running /\ Opened  BY <1>9 DEF NextRow, Generating
  <2>2. opens' <= 1  BY <2>1, OpenedOnce
  <2>3. alive' /\ alive' = alive  BY <2>1, <1>9 DEF NextRow, Generating, Running
  <2> QED BY <2>1, <2>2, <2>3, <1>9 DEF NextRow, Opened
<1>10. CASE NextRowUnencodable
  <2>1. Running /\ Opened  BY <1>10 DEF NextRowUnencodable, Generating
  <2>2. opens' <= 1  BY <2>1, OpenedOnce
  <2>3. alive' /\ alive' = alive  BY <2>1, <1>10 DEF NextRowUnencodable, Generating, Running
  <2> QED BY <2>1, <2>2, <2>3, <1>10 DEF NextRowUnencodable, Opened
<1>11. CASE NextEof
  <2>1. Running /\ Opened  BY <1>11 DEF NextEof, Generating
  <2>2. opens' <= 1  BY <2>1, OpenedOnce
  <2>3. alive' /\ alive' = alive  BY <2>1, <1>11 DEF NextEof, Generating, Running
  <2> QED BY <2>1, <2>2, <2>3, <1>11 DEF NextEof, Opened
<1>12. CASE NextEofDropPanics
  <2>1. Running /\ Opened  BY <1>12 DEF NextEofDropPanics, Generating
  <2>2. opens' <= 1  BY <2>1, OpenedOnce
  <2>3. alive' /\ alive' = alive  BY <2>1, <1>12 DEF NextEofDropPanics, Generating, Running
  <2> QED BY <2>1, <2>2, <2>3, <1>12 DEF NextEofDropPanics, Opened
<1>13. CASE NextOnDangling
  BY <1>13 DEF NextOnDangling, Generating
<1>14. CASE SetSource
  BY <1>14 DEF SetSource
<1>15. CASE OpenReopenClose
  BY <1>15 DEF OpenReopenClose
<1>16. CASE Destroy
  BY <1>16 DEF Destroy
<1>17. CASE HostRelease
  BY <1>17 DEF HostRelease
<1>18. CASE UNCHANGED vars BY <1>18 DEF vars
<1> QED
  BY NextCases, <1>1, <1>2, <1>3, <1>4, <1>5, <1>6, <1>7, <1>8, <1>9,
     <1>10, <1>11, <1>12, <1>13, <1>14, <1>15, <1>16, <1>17, <1>18

(* A step leaves only allocated, distinct buffers in the result.           *)
LEMMA BufferStep ==
  ASSUME TypeOK, ResultBuffersLive, [Next]_vars
  PROVE  ResultBuffersLive'
<1> USE DEF TypeOK, ResultBuffersLive, execVars, genVars, ghostVars, GetNext
<1>1. CASE PropertiesPanic
  BY <1>1 DEF PropertiesPanic
<1>2. CASE Forward
  BY <1>2, RowsAreResults, EofsAreResults, ConstantResults DEF Forward, UpstreamPause
<1>3. CASE ForwardDetached
  BY <1>3 DEF ForwardDetached
<1>4. CASE FirstRow
  BY <1>4, RowsAreResults DEF FirstRow
<1>5. CASE FirstPauseOrError
  BY <1>5, ConstantResults DEF FirstPauseOrError, UpstreamPause
<1>6. CASE GenerateAfterEof
  BY <1>6, TurnsAreResults, EofsAreResults, ConstantResults DEF GenerateAfterEof, Generating, EofEmpty
<1>7. CASE OpenFails
  BY <1>7, TurnsAreResults, EofsAreResults DEF OpenFails, Generating
<1>8. CASE NextFails
  BY <1>8, TurnsAreResults, EofsAreResults DEF NextFails, Generating, Opened
<1>9. CASE NextRow
  BY <1>9, RowsAreResults, TurnsAreResults, EofsAreResults DEF NextRow, Generating, Opened
<1>10. CASE NextRowUnencodable
  BY <1>10, TurnsAreResults, EofsAreResults DEF NextRowUnencodable, Generating, Opened
<1>11. CASE NextEof
  BY <1>11, TurnsAreResults, EofsAreResults, ConstantResults DEF NextEof, Generating, Opened, EofEmpty
<1>12. CASE NextEofDropPanics
  BY <1>12, TurnsAreResults, EofsAreResults DEF NextEofDropPanics, Generating, Opened
<1>13. CASE NextOnDangling
  BY <1>13, TurnsAreResults, EofsAreResults DEF NextOnDangling, Generating
<1>14. CASE SetSource
  BY <1>14 DEF SetSource
<1>15. CASE OpenReopenClose
  BY <1>15 DEF OpenReopenClose
<1>16. CASE Destroy
  BY <1>16 DEF Destroy
<1>17. CASE HostRelease
  BY <1>17, ConstantResults DEF HostRelease, Fresh
<1>18. CASE UNCHANGED vars BY <1>18 DEF vars
<1> QED
  BY NextCases, <1>1, <1>2, <1>3, <1>4, <1>5, <1>6, <1>7, <1>8, <1>9,
     <1>10, <1>11, <1>12, <1>13, <1>14, <1>15, <1>16, <1>17, <1>18

(* A step that succeeds as get_next has written the result, except for the *)
(* forwarding stage without upstream.                                      *)
LEMMA WriteStep ==
  ASSUME TypeOK, ModeInv, SuccessWritesResult, [Next]_vars
  PROVE  SuccessWritesResult'
<1> USE DEF TypeOK, ModeInv, SuccessWritesResult, execVars, genVars, ghostVars, GetNext
<1>1. CASE PropertiesPanic
  BY <1>1 DEF PropertiesPanic
<1>2. CASE Forward
  BY <1>2, RowsAreResults, EofsAreResults, ConstantResults DEF Forward
<1>3. CASE ForwardDetached
  BY <1>3 DEF ForwardDetached
<1>4. CASE FirstRow
  BY <1>4, RowsAreResults DEF FirstRow
<1>5. CASE FirstPauseOrError
  BY <1>5, ConstantResults DEF FirstPauseOrError
<1>6. CASE GenerateAfterEof
  BY <1>6, ConstantResults DEF GenerateAfterEof, Generating
<1>7. CASE OpenFails
  BY <1>7 DEF OpenFails, Generating
<1>8. CASE NextFails
  BY <1>8 DEF NextFails, Generating, Opened
<1>9. CASE NextRow
  BY <1>9, RowsAreResults DEF NextRow, Generating, Opened
<1>10. CASE NextRowUnencodable
  BY <1>10 DEF NextRowUnencodable, Generating, Opened
<1>11. CASE NextEof
  BY <1>11, ConstantResults DEF NextEof, Generating, Opened
<1>12. CASE NextEofDropPanics
  BY <1>12 DEF NextEofDropPanics, Generating, Opened
<1>13. CASE NextOnDangling
  BY <1>13 DEF NextOnDangling, Generating
<1>14. CASE SetSource
  BY <1>14 DEF SetSource
<1>15. CASE OpenReopenClose
  BY <1>15 DEF OpenReopenClose
<1>16. CASE Destroy
  BY <1>16 DEF Destroy
<1>17. CASE HostRelease
  BY <1>17 DEF HostRelease
<1>18. CASE UNCHANGED vars BY <1>18 DEF vars
<1> QED
  BY NextCases, <1>1, <1>2, <1>3, <1>4, <1>5, <1>6, <1>7, <1>8, <1>9,
     <1>10, <1>11, <1>12, <1>13, <1>14, <1>15, <1>16, <1>17, <1>18

-----------------------------------------------------------------------------
(* What the generator part starts from, when the host has taken the last   *)
(* result, holds one buffer at most: metadata of the upstream's end, taken *)
(* by the turn that falls back.                                            *)
LEMMA OneUpstreamBuffer ==
  ASSUME res = Fresh, NEW cur \in TurnResults
  PROVE  \/ Owned(cur) = {}
         \/ mode = "MODE_INIT" /\ \E b \in UpBufs \ live : Owned(cur) = {b}
<1>1. CASE cur = res  BY <1>1, ConstantResults
<1>2. CASE cur \in UpstreamEofs /\ FallsBack
  <2>1. mode = "MODE_INIT"  BY <1>2 DEF FallsBack, Resolved
  <2> QED BY <1>2, <2>1 DEF UpstreamEofs, Owned
<1> QED BY <1>1, <1>2 DEF TurnResults

(* What is put back into the result is not lost.                           *)
LEMMA CurKept ==
  ASSUME res = Fresh, NEW cur \in TurnResults, res' = cur, live' = live \cup Owned(cur)
  PROVE  Lost' = Lost
  BY OneUpstreamBuffer, ConstantResults DEF Lost

(* Which buffers nobody holds: only a call that falls back from an empty   *)
(* upstream, or drops a document it has encoded, adds one to them.         *)
LEMMA LossStep ==
  ASSUME TypeOK, IInv, [Next]_vars
  PROVE  Lost' = Lost \/ MetadataOverwritten \/ DocumentDropped
<1> USE DEF Lost, execVars, genVars, ghostVars, GetNext
<1>0. Owned(res) \subseteq live /\ live \subseteq Bufs  BY DEF IInv, ResultBuffersLive, TypeOK
<1>1. CASE PropertiesPanic
  BY <1>1 DEF PropertiesPanic
<1>2. CASE Forward
  BY <1>2, RowsAreResults, EofsAreResults, ConstantResults DEF Forward
<1>3. CASE ForwardDetached
  BY <1>3 DEF ForwardDetached
<1>4. CASE FirstRow
  BY <1>4, RowsAreResults, EofsAreResults, ConstantResults DEF FirstRow
<1>5. CASE FirstPauseOrError
  BY <1>5, RowsAreResults, EofsAreResults, ConstantResults DEF FirstPauseOrError
<1>6. CASE GenerateAfterEof
  <2>1. PICK cur \in TurnResults : res' = EofEmpty /\ live' = live \cup Owned(cur)
    BY <1>6 DEF GenerateAfterEof
  <2>2. mode = "MODE_GENERATOR"  BY <1>6 DEF GenerateAfterEof, IInv, ModeInv
  <2>3. cur = res /\ res = Fresh  BY <1>6, <2>1, <2>2 DEF GenerateAfterEof, Generating, TurnResults, Resolved
  <2> QED BY <2>1, <2>3, ConstantResults
<1>7. CASE OpenFails
  <2>1. PICK cur \in TurnResults : res' = cur /\ live' = live \cup Owned(cur)
    BY <1>7 DEF OpenFails
  <2> QED BY <1>7, <2>1, CurKept DEF OpenFails, Generating
<1>8. CASE NextFails
  <2>1. PICK cur \in TurnResults : res' = cur /\ live' = live \cup Owned(cur)
    BY <1>8 DEF NextFails
  <2> QED BY <1>8, <2>1, CurKept DEF NextFails, Generating
<1>9. CASE NextRow
  <2>1. PICK cur \in TurnResults, row \in FreshRows(OwnBufs) :
          res' = row /\ live' = live \cup Owned(cur) \cup Owned(row) /\ status' = "ok"
    BY <1>9 DEF NextRow
  <2>2. Owned(row) \subseteq OwnBufs \ live  BY <2>1, RowsAreResults
  <2>3. Owned(row) \cap (live \cup Owned(cur)) = {}
    <3>1. res = Fresh  BY <1>9 DEF NextRow, Generating
    <3>2. Owned(cur) \subseteq UpBufs  BY <3>1, OneUpstreamBuffer
    <3> QED BY <2>2, <3>2, BufsAssumption
  <2>4. Lost' = Lost \cup Owned(cur)
    BY <1>9, <2>1, <2>3, ConstantResults DEF NextRow, Generating
  <2>5. res = Fresh /\ mode' = "MODE_GENERATOR"  BY <1>9 DEF NextRow, Generating
  <2> QED BY <2>1, <2>4, <2>5, OneUpstreamBuffer DEF MetadataOverwritten
<1>10. CASE NextRowUnencodable
  <2>1. PICK cur \in TurnResults, encoded \in {{}} \cup {{b} : b \in OwnBufs \ live} :
          /\ res' = cur /\ live' = live \cup Owned(cur) \cup encoded
          /\ status' = "error" /\ produced' = produced + 1
    BY <1>10 DEF NextRowUnencodable
  <2>2. res = Fresh  BY <1>10 DEF NextRowUnencodable, Generating
  <2>3. Owned(cur) \cap (live \cup OwnBufs) = {}
    BY <2>2, OneUpstreamBuffer, BufsAssumption
  <2>4. Lost' = Lost \cup encoded  BY <2>1, <2>2, <2>3, ConstantResults
  <2>5. encoded = {} \/ \E b \in OwnBufs : encoded = {b}  OBVIOUS
  <2>6. CASE encoded = {}  BY <2>4, <2>6
  <2>7. CASE \E b \in OwnBufs : encoded = {b}  BY <2>1, <2>4, <2>7 DEF DocumentDropped
  <2> QED BY <2>5, <2>6, <2>7
<1>11. CASE NextEof
  <2>1. PICK cur \in TurnResults : res' = EofEmpty /\ live' = live \cup Owned(cur) /\ status' = "ok"
    BY <1>11 DEF NextEof
  <2>2. res = Fresh /\ mode' = "MODE_GENERATOR"  BY <1>11 DEF NextEof, Generating
  <2>3. Lost' = Lost \cup Owned(cur)  BY <2>1, <2>2, ConstantResults
  <2> QED BY <2>1, <2>2, <2>3, OneUpstreamBuffer DEF MetadataOverwritten
<1>12. CASE NextEofDropPanics
  <2>1. PICK cur \in TurnResults : res' = cur /\ live' = live \cup Owned(cur)
    BY <1>12 DEF NextEofDropPanics
  <2> QED BY <1>12, <2>1, CurKept DEF NextEofDropPanics, Generating
<1>13. CASE NextOnDangling
  <2>1. PICK cur \in TurnResults : res' = res /\ live' = live \cup Owned(cur)
    BY <1>13 DEF NextOnDangling
  <2>2. mode = "MODE_GENERATOR"  BY <1>13 DEF NextOnDangling, IInv, ModeInv, StateInv
  <2>3. cur = res  BY <2>1, <2>2 DEF TurnResults, Resolved
  <2> QED BY <1>0, <2>1, <2>3
<1>14. CASE SetSource
  BY <1>14 DEF SetSource
<1>15. CASE OpenReopenClose
  BY <1>15 DEF OpenReopenClose
<1>16. CASE Destroy
  BY <1>16 DEF Destroy
<1>17. CASE HostRelease
  BY <1>17, ConstantResults DEF HostRelease
<1>18. CASE UNCHANGED vars  BY <1>18 DEF vars
<1> QED
  BY NextCases, <1>1, <1>2, <1>3, <1>4, <1>5, <1>6, <1>7, <1>8, <1>9, <1>10, <1>11, <1>12, <1>13, <1>14, <1>15, <1>16, <1>17, <1>18

(* A row is produced only by the calls that hand it over or report.        *)
LEMMA RowStep ==
  ASSUME TypeOK, [Next]_vars
  PROVE  produced' # produced =>
            status' = "error" \/ (res'.code = "kAdvanced" /\ "generator" \in sent')
<1> USE DEF TypeOK, execVars, genVars, ghostVars, GetNext
<1>1. CASE PropertiesPanic
  BY <1>1 DEF PropertiesPanic
<1>2. CASE Forward
  BY <1>2 DEF Forward
<1>3. CASE ForwardDetached
  BY <1>3 DEF ForwardDetached
<1>4. CASE FirstRow
  BY <1>4 DEF FirstRow
<1>5. CASE FirstPauseOrError
  BY <1>5 DEF FirstPauseOrError
<1>6. CASE GenerateAfterEof
  BY <1>6 DEF GenerateAfterEof, Generating
<1>7. CASE OpenFails
  BY <1>7 DEF OpenFails, Generating
<1>8. CASE NextFails
  BY <1>8 DEF NextFails, Generating, Opened
<1>9. CASE NextRow
  BY <1>9, RowsAreResults DEF NextRow, Generating, Opened
<1>10. CASE NextRowUnencodable
  BY <1>10 DEF NextRowUnencodable, Generating, Opened
<1>11. CASE NextEof
  BY <1>11 DEF NextEof, Generating, Opened
<1>12. CASE NextEofDropPanics
  BY <1>12 DEF NextEofDropPanics, Generating, Opened
<1>13. CASE NextOnDangling
  BY <1>13 DEF NextOnDangling, Generating
<1>14. CASE SetSource
  BY <1>14 DEF SetSource
<1>15. CASE OpenReopenClose
  BY <1>15 DEF OpenReopenClose
<1>16. CASE Destroy
  BY <1>16 DEF Destroy
<1>17. CASE HostRelease
  BY <1>17 DEF HostRelease
<1>18. CASE UNCHANGED vars  BY <1>18 DEF vars
<1> QED
  BY NextCases, <1>1, <1>2, <1>3, <1>4, <1>5, <1>6, <1>7, <1>8, <1>9, <1>10, <1>11, <1>12, <1>13, <1>14, <1>15, <1>16, <1>17, <1>18

(* Nothing moves a finished generator.                                     *)
LEMMA FinishedStep ==
  ASSUME TypeOK, ModeInv, StateInv, EofHeld, generator_done, [Next]_vars
  PROVE  generator_done' /\ res'.code # "kAdvanced" /\ produced' = produced /\ pulled' = pulled
<1> USE DEF TypeOK, ModeInv, StateInv, StateOwnership, EofHeld, execVars, genVars, ghostVars, GetNext
<1>1. CASE PropertiesPanic
  BY <1>1 DEF PropertiesPanic
<1>2. CASE Forward
  BY <1>2 DEF Forward
<1>3. CASE ForwardDetached
  BY <1>3 DEF ForwardDetached
<1>4. CASE FirstRow
  BY <1>4 DEF FirstRow, Resolved
<1>5. CASE FirstPauseOrError
  BY <1>5 DEF FirstPauseOrError, Resolved
<1>6. CASE GenerateAfterEof
  BY <1>6, ConstantResults DEF GenerateAfterEof, Generating, EofEmpty, FallsBack, Resolved
<1>7. CASE OpenFails
  BY <1>7 DEF OpenFails, Generating, FallsBack, Resolved
<1>8. CASE NextFails
  BY <1>8 DEF NextFails, Generating, Opened
<1>9. CASE NextRow
  BY <1>9 DEF NextRow, Generating, Opened
<1>10. CASE NextRowUnencodable
  BY <1>10 DEF NextRowUnencodable, Generating, Opened
<1>11. CASE NextEof
  BY <1>11 DEF NextEof, Generating, Opened
<1>12. CASE NextEofDropPanics
  BY <1>12 DEF NextEofDropPanics, Generating, Opened
<1>13. CASE NextOnDangling
  BY <1>13 DEF NextOnDangling, Generating
<1>14. CASE SetSource
  BY <1>14 DEF SetSource
<1>15. CASE OpenReopenClose
  BY <1>15 DEF OpenReopenClose
<1>16. CASE Destroy
  BY <1>16 DEF Destroy
<1>17. CASE HostRelease
  BY <1>17, ConstantResults DEF HostRelease, Fresh
<1>18. CASE UNCHANGED vars  BY <1>18 DEF vars
<1> QED
  BY NextCases, <1>1, <1>2, <1>3, <1>4, <1>5, <1>6, <1>7, <1>8, <1>9, <1>10, <1>11, <1>12, <1>13, <1>14, <1>15, <1>16, <1>17, <1>18

(* A finished generator leaves no row in the result.                       *)
LEMMA EofStep ==
  ASSUME TypeOK, ModeInv, StateInv, EofHeld, [Next]_vars
  PROVE  EofHeld'
<1>0. CASE generator_done  BY <1>0, FinishedStep DEF EofHeld
<1> USE DEF TypeOK, EofHeld, execVars, genVars, ghostVars, GetNext
<1>1. CASE PropertiesPanic
  BY <1>1, <1>0 DEF PropertiesPanic
<1>2. CASE Forward
  BY <1>2, <1>0 DEF Forward
<1>3. CASE ForwardDetached
  BY <1>3, <1>0 DEF ForwardDetached
<1>4. CASE FirstRow
  BY <1>4, <1>0 DEF FirstRow
<1>5. CASE FirstPauseOrError
  BY <1>5, <1>0 DEF FirstPauseOrError
<1>6. CASE GenerateAfterEof
  BY <1>6, <1>0 DEF GenerateAfterEof, Generating
<1>7. CASE OpenFails
  BY <1>7, <1>0 DEF OpenFails, Generating
<1>8. CASE NextFails
  BY <1>8, <1>0 DEF NextFails, Generating, Opened
<1>9. CASE NextRow
  BY <1>9, <1>0 DEF NextRow, Generating, Opened
<1>10. CASE NextRowUnencodable
  BY <1>10, <1>0 DEF NextRowUnencodable, Generating, Opened
<1>11. CASE NextEof
  BY <1>11, <1>0 DEF NextEof, Generating, Opened, EofEmpty
<1>12. CASE NextEofDropPanics
  BY <1>12, <1>0 DEF NextEofDropPanics, Generating, Opened
<1>13. CASE NextOnDangling
  BY <1>13, <1>0 DEF NextOnDangling, Generating
<1>14. CASE SetSource
  BY <1>14, <1>0 DEF SetSource
<1>15. CASE OpenReopenClose
  BY <1>15, <1>0 DEF OpenReopenClose
<1>16. CASE Destroy
  BY <1>16, <1>0 DEF Destroy
<1>17. CASE HostRelease
  BY <1>17, <1>0 DEF HostRelease
<1>18. CASE UNCHANGED vars  BY <1>18 DEF vars
<1> QED
  BY NextCases, <1>1, <1>2, <1>3, <1>4, <1>5, <1>6, <1>7, <1>8, <1>9, <1>10, <1>11, <1>12, <1>13, <1>14, <1>15, <1>16, <1>17, <1>18

-----------------------------------------------------------------------------
(* The inductive invariant holds.                                          *)
THEOREM Inductive == Spec => []IInv
<1>1. Init => IInv
  BY DEF Init, IInv, ModeInv, StateInv, StateOwnership, ResultBuffersLive,
         SuccessWritesResult, EofHeld, Owned, Fresh
<1>2. TypeOK /\ IInv /\ [Next]_vars => IInv'
  BY ModeStep, StateStep, BufferStep, WriteStep, EofStep DEF IInv
<1> QED BY <1>1, <1>2, TypeCorrect, PTL DEF Spec

-----------------------------------------------------------------------------
(* A host never receives rows of both origins.                             *)
THEOREM Origins == Spec => []OneOriginOnly
<1>1. IInv => OneOriginOnly  BY DEF IInv, ModeInv, OneOriginOnly
<1> QED BY <1>1, Inductive, PTL

(* A stage that requires no input never reads its upstream.                *)
THEOREM NeverPulls == Spec => []ExplicitGeneratorNeverPulls
<1>1. IInv => ExplicitGeneratorNeverPulls  BY DEF IInv, ModeInv, ExplicitGeneratorNeverPulls
<1> QED BY <1>1, Inductive, PTL

(* The opaque state is opened at most once and freed with its pointer.     *)
THEOREM States == Spec => []StateOwnership
<1>1. IInv => StateOwnership  BY DEF IInv, StateInv
<1> QED BY <1>1, Inductive, PTL

(* A success of get_next means that the result was written.                *)
THEOREM Writes == Spec => []SuccessWritesResult
<1>1. IInv => SuccessWritesResult  BY DEF IInv
<1> QED BY <1>1, Inductive, PTL

(* A buffer is lost by the fallback from an empty upstream and by the row  *)
(* whose metadata does not encode, one each, and by nothing else.          *)
THEOREM Losses == Spec => LossOnlyOnFallbackOrError
<1>1. TypeOK /\ IInv /\ [Next]_vars =>
        [Lost' = Lost \/ MetadataOverwritten \/ DocumentDropped]_vars
  BY LossStep
<1> QED BY <1>1, TypeCorrect, Inductive, PTL DEF Spec, LossOnlyOnFallbackOrError

(* No produced row vanishes under a success.                               *)
THEOREM Deliveries == Spec => RowDeliveredOrReported
<1>1. TypeOK /\ [Next]_vars =>
        [produced' # produced => status' = "error" \/ (res'.code = "kAdvanced" /\ "generator" \in sent')]_vars
  BY RowStep
<1> QED BY <1>1, TypeCorrect, PTL DEF Spec, RowDeliveredOrReported

(* The reported end of the stage's rows is final.                          *)
THEOREM Ends == Spec => EofIsFinal
<1>1. TypeOK /\ IInv /\ [Next]_vars =>
        [generator_done => generator_done' /\ res'.code # "kAdvanced" /\ produced' = produced /\ pulled' = pulled]_vars
  BY FinishedStep DEF IInv
<1> QED BY <1>1, TypeCorrect, Inductive, PTL DEF Spec, EofIsFinal

-----------------------------------------------------------------------------
(* A call that neither answers nor decides maps to the host taking an      *)
(* answer.                                                                 *)
LEMMA QuietStep ==
  ASSUME mode' = mode, generator_done' = generator_done,
         lastCall' # "get_next" \/ aborted'
  PROVE  Stream!Take
  BY DEF Stream!Take, phaseBar, answerBar

(* Every step of the executor is a step of the row stream, or leaves it    *)
(* alone.                                                                  *)
LEMMA RefineStep ==
  ASSUME TypeOK, ModeInv, StateInv, [Next]_vars
  PROVE  Stream!Next \/ UNCHANGED Stream!vars
<1> USE DEF TypeOK, Modes, execVars, genVars, ghostVars, GetNext, Running
<1>1. CASE PropertiesPanic
  <2>1. phaseBar \in {"undecided", "generating"} /\ phaseBar' \in {phaseBar, "generating"}
    BY <1>1 DEF PropertiesPanic, ModeInv, phaseBar
  <2>2. answerBar' = "error"
    BY <1>1 DEF PropertiesPanic, answerBar, resultBar
  <2> QED BY <2>1, <2>2 DEF Stream!Next, Stream!Fail
<1>2. CASE Forward
  <2>1. phaseBar = "forwarding" /\ phaseBar' = "forwarding"
    BY <1>2 DEF Forward, phaseBar
  <2>2. status' = "error" => answerBar' = "error"
    BY <1>2 DEF Forward, answerBar, resultBar
  <2>3. status' # "error" => answerBar' \in {"upstream_row", "eof", "pause"}
    <3> SUFFICES ASSUME status' # "error" PROVE answerBar' \in {"upstream_row", "eof", "pause"}
      OBVIOUS
    <3>1. PICK r \in FreshRows(UpBufs) \cup UpstreamEofs \cup {UpstreamPause} : res' = r
      BY <1>2 DEF Forward
    <3>2. r.code \in {"kAdvanced", "kEOF", "kPauseExecution"}
      BY RowsAreResults, EofsAreResults DEF UpstreamPause
    <3>3. mode' = "MODE_PASSTHROUGH" /\ lastCall' = "get_next" /\ ~aborted'
      BY <1>2 DEF Forward
    <3> QED BY <3>1, <3>2, <3>3 DEF answerBar, resultBar
  <2> QED BY <2>1, <2>2, <2>3 DEF Stream!Next, Stream!ForwardRow, Stream!ForwardOther
<1>3. CASE ForwardDetached
  <2>1. phaseBar' = phaseBar
    BY <1>3 DEF ForwardDetached, ModeInv, phaseBar
  <2>2. answerBar' = "none"
    BY <1>3 DEF ForwardDetached, Fresh, answerBar, resultBar
  <2> QED BY <2>1, <2>2 DEF Stream!Next, Stream!Take
<1>4. CASE FirstRow
  <2>1. phaseBar = "undecided" /\ phaseBar' = "forwarding"
    BY <1>4 DEF FirstRow, ModeInv, Resolved, phaseBar
  <2>2. answerBar' = "upstream_row"
    BY <1>4, RowsAreResults DEF FirstRow, answerBar, resultBar, Resolved
  <2> QED BY <2>1, <2>2 DEF Stream!Next, Stream!ForwardRow
<1>5. CASE FirstPauseOrError
  <2>1. phaseBar = "undecided" /\ phaseBar' = phaseBar
    BY <1>5 DEF FirstPauseOrError, ModeInv, Resolved, phaseBar
  <2>2. answerBar' \in {"pause", "error"}
    BY <1>5 DEF FirstPauseOrError, UpstreamPause, answerBar, resultBar, Resolved
  <2> QED BY <2>1, <2>2 DEF Stream!Next, Stream!ForwardOther
<1>6. CASE GenerateAfterEof
  <2>1. phaseBar \in {"undecided", "generating", "exhausted"} /\ phaseBar' = "exhausted"
    BY <1>6, TurnModes DEF GenerateAfterEof, Generating, ModeInv, phaseBar
  <2>2. answerBar' = "eof"
    BY <1>6 DEF GenerateAfterEof, Generating, EofEmpty, answerBar, resultBar
  <2> QED BY <2>1, <2>2 DEF Stream!Next, Stream!OwnEof
<1>7. CASE OpenFails
  <2>1. phaseBar \in {"undecided", "generating"} /\ phaseBar' \in {phaseBar, "generating"}
    BY <1>7, TurnModes DEF OpenFails, Generating, ModeInv, phaseBar
  <2>2. answerBar' = "error"
    BY <1>7 DEF OpenFails, Generating, answerBar, resultBar
  <2> QED BY <2>1, <2>2 DEF Stream!Next, Stream!Fail
<1>8. CASE NextFails
  <2>1. phaseBar \in {"undecided", "generating"} /\ phaseBar' \in {phaseBar, "generating"}
    BY <1>8, TurnModes DEF NextFails, Generating, Opened, ModeInv, phaseBar
  <2>2. answerBar' = "error"
    BY <1>8 DEF NextFails, Generating, Opened, answerBar, resultBar
  <2> QED BY <2>1, <2>2 DEF Stream!Next, Stream!Fail
<1>9. CASE NextRow
  <2>1. phaseBar \in {"undecided", "generating"} /\ phaseBar' = "generating"
    BY <1>9, TurnModes DEF NextRow, Generating, Opened, ModeInv, phaseBar
  <2>2. answerBar' = "own_row"
    BY <1>9, RowsAreResults DEF NextRow, Generating, Opened, answerBar, resultBar
  <2> QED BY <2>1, <2>2 DEF Stream!Next, Stream!OwnRow
<1>10. CASE NextRowUnencodable
  <2>1. phaseBar \in {"undecided", "generating"} /\ phaseBar' \in {phaseBar, "generating"}
    BY <1>10, TurnModes DEF NextRowUnencodable, Generating, Opened, ModeInv, phaseBar
  <2>2. answerBar' = "error"
    BY <1>10 DEF NextRowUnencodable, Generating, Opened, answerBar, resultBar
  <2> QED BY <2>1, <2>2 DEF Stream!Next, Stream!Fail
<1>11. CASE NextEof
  <2>1. phaseBar \in {"undecided", "generating", "exhausted"} /\ phaseBar' = "exhausted"
    BY <1>11, TurnModes DEF NextEof, Generating, Opened, ModeInv, phaseBar
  <2>2. answerBar' = "eof"
    BY <1>11 DEF NextEof, Generating, Opened, EofEmpty, answerBar, resultBar
  <2> QED BY <2>1, <2>2 DEF Stream!Next, Stream!OwnEof
<1>12. CASE NextEofDropPanics
  <2>1. phaseBar \in {"undecided", "generating"} /\ phaseBar' \in {phaseBar, "generating"}
    BY <1>12, TurnModes DEF NextEofDropPanics, Generating, Opened, ModeInv, phaseBar
  <2>2. answerBar' = "error"
    BY <1>12 DEF NextEofDropPanics, Generating, Opened, answerBar, resultBar
  <2> QED BY <2>1, <2>2 DEF Stream!Next, Stream!Fail
<1>13. CASE NextOnDangling
  BY <1>13, QuietStep DEF NextOnDangling, Generating, ModeInv, StateInv, Stream!Next
<1>14. CASE SetSource
  BY <1>14, QuietStep DEF SetSource, Stream!Next
<1>15. CASE OpenReopenClose
  BY <1>15, QuietStep DEF OpenReopenClose, Stream!Next
<1>16. CASE Destroy
  BY <1>16, QuietStep DEF Destroy, Stream!Next
<1>17. CASE HostRelease
  BY <1>17, QuietStep DEF HostRelease, Stream!Next
<1>18. CASE UNCHANGED vars
  BY <1>18 DEF vars, Stream!vars, phaseBar, answerBar, resultBar
<1> QED
  BY NextCases, <1>1, <1>2, <1>3, <1>4, <1>5, <1>6, <1>7, <1>8, <1>9, <1>10, <1>11, <1>12, <1>13, <1>14, <1>15, <1>16, <1>17, <1>18

(* The executor implements the abstract row stream: it never changes sides *)
(* and never answers with rows after its own end.                          *)
THEOREM Refinement == Spec => ImplementsRowStream
<1>1. Init => Stream!Init
  BY DEF Init, Stream!Init, phaseBar, answerBar, resultBar
<1>2. TypeOK /\ IInv /\ [Next]_vars => [Stream!Next]_(Stream!vars)
  BY RefineStep DEF IInv
<1> QED BY <1>1, <1>2, TypeCorrect, Inductive, PTL DEF Spec, ImplementsRowStream, Stream!Spec
=============================================================================
