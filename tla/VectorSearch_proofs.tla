-------------------------- MODULE VectorSearch_proofs --------------------------
(***************************************************************************)
(* Proofs about VectorSearch for every number of endpoints, limit, timeout *)
(* and deadline: the host gets the candidates of one response in order, no *)
(* failure looks like an empty result, failover leaves no endpoint out, and *)
(* the stage implements CandidateStream.                                   *)
(***************************************************************************)
EXTENDS VectorSearch, SequenceTheorems, TLAPS

(* One disjunct per action, the form every step proof splits into.         *)
LEMMA NextCases ==
  ASSUME [Next]_vars
  PROVE  \/ Open \/ OpenFails \/ NextInterrupted \/ NextLoaded \/ NextSearches
         \/ NextChecked \/ AttemptInterrupted \/ AttemptChecked \/ HostHidesDeadline
         \/ DeadlinePassed \/ SendRequest \/ RequestEnds \/ AnswerInterrupted
         \/ AnswerChecked \/ Load \/ NextEndpoint \/ AllFailed \/ Undecodable
         \/ Kill \/ Tick \/ Drop \/ UNCHANGED vars
  BY DEF Next, next_result, Underway, fetch_candidates, next_attempt_timeout, Finished

-----------------------------------------------------------------------------
(* Facts about the sequences of candidates.                                *)
LEMMA RowsAreSeq ==
  ASSUME NEW e \in Endpoints, NEW n \in 0..Limit
  PROVE  RowsOf(e, n) \in Seq(Rows) /\ Len(RowsOf(e, n)) = n
  BY LimitAssumption DEF RowsOf, Rows

(* Moving the first element from one queue to the end of another keeps     *)
(* their concatenation.                                                    *)
LEMMA HeadAndTail ==
  ASSUME NEW S, NEW s \in Seq(S), s # << >>
  PROVE  s = << Head(s) >> \o Tail(s)
<1>1. Head(s) \in S /\ Tail(s) \in Seq(S) /\ Len(Tail(s)) = Len(s) - 1
      /\ \A i \in 1..Len(Tail(s)) : Tail(s)[i] = s[i + 1]
  BY HeadTailProperties
<1>2. Len(s) \in Nat \ {0}  BY EmptySeq
<1>3. << Head(s) >> \in Seq(S) /\ Len(<< Head(s) >>) = 1  BY <1>1
<1> DEFINE t == << Head(s) >> \o Tail(s)
<1>4. /\ t \in Seq(S) /\ Len(t) = 1 + Len(Tail(s))
      /\ \A i \in 1..(1 + Len(Tail(s))) : t[i] = IF i <= 1 THEN << Head(s) >>[i] ELSE Tail(s)[i - 1]
  BY <1>1, <1>3, ConcatProperties
<1> HIDE DEF t
<1>5. ASSUME NEW i \in 1..Len(s) PROVE s[i] = t[i]
  <2>1. CASE i = 1  BY <1>1, <1>2, <1>4, <2>1
  <2>2. CASE i > 1
    <3>1. i - 1 \in 1..Len(Tail(s)) /\ (i - 1) + 1 = i  BY <1>1, <1>2, <2>2
    <3> QED BY <1>1, <1>2, <1>4, <2>2, <3>1
  <2> QED BY <2>1, <2>2
<1>6. Len(s) = Len(t)  BY <1>1, <1>2, <1>4
<1>7. s = t  BY <1>4, <1>5, <1>6, SeqEqual
<1> QED BY <1>7 DEF t

LEMMA MoveHead ==
  ASSUME NEW S, NEW a \in Seq(S), NEW s \in Seq(S), s # << >>
  PROVE  Append(a, Head(s)) \o Tail(s) = a \o s
<1>1. Head(s) \in S /\ Tail(s) \in Seq(S) /\ << Head(s) >> \in Seq(S)
  BY HeadTailProperties
<1>2. Append(a, Head(s)) = a \o << Head(s) >>  BY <1>1, AppendIsConcat
<1>3. (a \o << Head(s) >>) \o Tail(s) = a \o (<< Head(s) >> \o Tail(s))
  BY <1>1, ConcatAssociative
<1> QED BY <1>2, <1>3, HeadAndTail

(* What Deliver does to the two queues.                                    *)
LEMMA DeliverKeeps ==
  ASSUME NEW rows \in Seq(Rows), out \in Seq(Rows), Deliver(rows)
  PROVE  /\ out' \in Seq(Rows) /\ pending' \in Seq(Rows)
         /\ out' \o pending' = out \o rows
<1>1. CASE rows # << >>
  <2>1. out' = Append(out, Head(rows)) /\ pending' = Tail(rows)  BY <1>1 DEF Deliver
  <2>2. Head(rows) \in Rows /\ Tail(rows) \in Seq(Rows)  BY <1>1, HeadTailProperties
  <2>3. Append(out, Head(rows)) \in Seq(Rows)  BY <2>2, AppendProperties
  <2> QED BY <1>1, <2>1, <2>2, <2>3, MoveHead
<1>2. CASE rows = << >>  BY <1>2 DEF Deliver
<1> QED BY <1>1, <1>2

-----------------------------------------------------------------------------
(* A step keeps the variables in their types.                              *)
LEMMA TypeStep ==
  ASSUME TypeOK, [Next]_vars
  PROVE  TypeOK'
<1> USE DEF TypeOK, Places, Shows, config, cursor, attempt, query
<1>1. CASE Open  BY <1>1 DEF Open
<1>2. CASE OpenFails  BY <1>2 DEF OpenFails, Failures
<1>3. CASE NextInterrupted  BY <1>3 DEF NextInterrupted, Interrupted, Leave, Failures
<1>4. CASE NextLoaded
  <2>1. out' \in Seq(Rows) /\ pending' \in Seq(Rows)
    BY <1>4, DeliverKeeps DEF NextLoaded
  <2>2. result' \in {"row", "eof"} /\ done' \in BOOLEAN /\ pc' = "idle"
    BY <1>4 DEF NextLoaded, Deliver
  <2>4. late' \in Nat  BY <1>4 DEF NextLoaded, Deliver
  <2>3. UNCHANGED <<config, opened, query, loaded, attempt>>
    BY <1>4 DEF NextLoaded
  <2> QED BY <2>1, <2>2, <2>3, <2>4
<1>5. CASE NextSearches
  <2>1. 1 \in Endpoints  BY NAssumption DEF Endpoints
  <2> QED BY <1>5, <2>1 DEF NextSearches
<1>6. CASE AttemptInterrupted  BY <1>6 DEF AttemptInterrupted, Interrupted, Leave, Failures
<1>7. CASE HostHidesDeadline  BY <1>7 DEF HostHidesDeadline, Return, Leave, Failures
<1>8. CASE DeadlinePassed  BY <1>8 DEF DeadlinePassed, Return, Leave, Failures
<1>9. CASE SendRequest
  <2>1. budget' \in 0..Timeout
    BY <1>9, TimeAssumption DEF SendRequest, request_timeout, Expired, NoDeadline
  <2> QED BY <1>9, <2>1 DEF SendRequest
<1>10. CASE RequestEnds
  <2>1. now' \in 0..MaxTime  BY <1>10, TimeAssumption DEF RequestEnds
  <2> QED BY <1>10, <2>1 DEF RequestEnds
<1>11. CASE AnswerInterrupted  BY <1>11 DEF AnswerInterrupted, Interrupted, Leave, Failures
<1>12. CASE Load
  <2>1. response.hits \in 0..Limit
    BY <1>12, LimitAssumption DEF Load, Decodes, Responses
  <2>2. out' \in Seq(Rows) /\ pending' \in Seq(Rows)
    BY <1>12, <2>1, RowsAreSeq, DeliverKeeps DEF Load
  <2>3. result' \in {"row", "eof"} /\ done' \in BOOLEAN /\ pc' = "idle"
    BY <1>12 DEF Load, Deliver
  <2>4. late' \in Nat  BY <1>12 DEF Load, Deliver
  <2> QED BY <1>12, <2>2, <2>3, <2>4 DEF Load
<1>13. CASE NextEndpoint
  <2>1. at' \in Endpoints
    BY <1>13, NAssumption DEF NextEndpoint, Following, LastEndpoint, Endpoints
  <2> QED BY <1>13, <2>1 DEF NextEndpoint
<1>14. CASE AllFailed  BY <1>14 DEF AllFailed, Return, Leave, Failures
<1>15. CASE Undecodable  BY <1>15 DEF Undecodable, Return, Leave, Failures
<1>16. CASE Kill  BY <1>16 DEF Kill
<1>17. CASE Tick  BY <1>17, TimeAssumption DEF Tick
<1>18. CASE Drop  BY <1>18 DEF Drop
<1>19. CASE UNCHANGED vars  BY <1>19 DEF vars
<1>20. CASE NextChecked  BY <1>20 DEF NextChecked, Checked
<1>21. CASE AttemptChecked  BY <1>21 DEF AttemptChecked, Checked
<1>22. CASE AnswerChecked  BY <1>22 DEF AnswerChecked, Checked
<1> QED
  BY NextCases, <1>1, <1>2, <1>3, <1>4, <1>5, <1>6, <1>7, <1>8, <1>9, <1>10, <1>11, <1>12,
     <1>13, <1>14, <1>15, <1>16, <1>17, <1>18, <1>19, <1>20, <1>21,
     <1>22

(* The variables keep their types.                                         *)
THEOREM TypeCorrect == Spec => []TypeOK
<1>1. Init => TypeOK
  <2> SUFFICES ASSUME Init PROVE TypeOK  OBVIOUS
  <2>1. 1 \in Endpoints  BY NAssumption DEF Endpoints
  <2>2. response \in Responses  BY LimitAssumption DEF Init, Responses
  <2>3. now \in 0..MaxTime /\ budget \in 0..Timeout  BY TimeAssumption DEF Init
  <2>4. pending \in Seq(Rows) /\ out \in Seq(Rows)  BY EmptySeq DEF Init
  <2> QED BY <2>1, <2>2, <2>3, <2>4 DEF Init, TypeOK, Places
<1>2. TypeOK /\ [Next]_vars => TypeOK'  BY TypeStep
<1> QED BY <1>1, <1>2, PTL DEF Spec
-----------------------------------------------------------------------------
(* A step keeps the phase of the search, the flags and the queues in tune. *)
LEMMA SearchStep ==
  ASSUME TypeOK, SearchInv, [Next]_vars
  PROVE  SearchInv'
<1> USE DEF TypeOK, SearchInv, config, cursor, attempt, query
<1>1. CASE Open  BY <1>1 DEF Open
<1>2. CASE OpenFails  BY <1>2 DEF OpenFails
<1>3. CASE NextInterrupted  BY <1>3 DEF NextInterrupted, Interrupted, Leave
<1>4. CASE NextLoaded  BY <1>4 DEF NextLoaded, Deliver
<1>5. CASE NextSearches  BY <1>5 DEF NextSearches
<1>6. CASE AttemptInterrupted  BY <1>6 DEF AttemptInterrupted, Interrupted, Leave
<1>7. CASE HostHidesDeadline  BY <1>7 DEF HostHidesDeadline, Return, Leave
<1>8. CASE DeadlinePassed  BY <1>8 DEF DeadlinePassed, Return, Leave
<1>9. CASE SendRequest
  <2>1. deadline # NoDeadline => now + budget' <= deadline
    BY <1>9, TimeAssumption DEF SendRequest, request_timeout, Expired, NoDeadline
  <2> QED BY <1>9, <2>1 DEF SendRequest
<1>10. CASE RequestEnds  BY <1>10 DEF RequestEnds
<1>11. CASE AnswerInterrupted  BY <1>11 DEF AnswerInterrupted, Interrupted, Leave
<1>12. CASE Load  BY <1>12 DEF Load, Deliver
<1>13. CASE NextEndpoint  BY <1>13 DEF NextEndpoint
<1>14. CASE AllFailed  BY <1>14 DEF AllFailed, Return, Leave
<1>15. CASE Undecodable  BY <1>15 DEF Undecodable, Return, Leave
<1>16. CASE Kill  BY <1>16 DEF Kill
<1>17. CASE Tick  BY <1>17 DEF Tick
<1>18. CASE Drop  BY <1>18 DEF Drop
<1>19. CASE UNCHANGED vars  BY <1>19 DEF vars
<1>20. CASE NextChecked  BY <1>20 DEF NextChecked, Checked, Call
<1>21. CASE AttemptChecked  BY <1>21 DEF AttemptChecked, Checked
<1>22. CASE AnswerChecked  BY <1>22 DEF AnswerChecked, Checked
<1> QED
  BY NextCases, <1>1, <1>2, <1>3, <1>4, <1>5, <1>6, <1>7, <1>8, <1>9, <1>10, <1>11, <1>12,
     <1>13, <1>14, <1>15, <1>16, <1>17, <1>18, <1>19, <1>20, <1>21,
     <1>22

(* A step keeps the handed over and the waiting candidates one response:   *)
(* while there are candidates, the endpoint and its response stand still.  *)
LEMMA RowsStep ==
  ASSUME TypeOK, SearchInv, RowsOfOneAnswer, [Next]_vars
  PROVE  RowsOfOneAnswer'
<1> USE DEF TypeOK, config, cursor, attempt, query
<1>1. CASE NextLoaded
  <2>1. loaded /\ loaded' /\ UNCHANGED <<at, response, variant>>
    BY <1>1 DEF NextLoaded
  <2>2. out' \o pending' = out \o pending  BY <1>1, DeliverKeeps DEF NextLoaded
  <2>3. RowsOf(at, response.hits)' = RowsOf(at, response.hits)  BY <2>1 DEF RowsOf
  <2> QED BY <2>1, <2>2, <2>3 DEF RowsOfOneAnswer, Decodes
<1>2. CASE Load
  <2>1. loaded' /\ UNCHANGED <<at, response, variant>> /\ Decodes(response)
    BY <1>2 DEF Load
  <2>2. ~loaded /\ out = << >>  BY <1>2 DEF Load, SearchInv, RowsOfOneAnswer
  <2>3. response.hits \in 0..Limit
    BY <2>1, LimitAssumption DEF Decodes, Responses
  <2>4. RowsOf(at, response.hits) \in Seq(Rows)  BY <2>3, RowsAreSeq
  <2>5. out' \o pending' = << >> \o RowsOf(at, response.hits)
    BY <1>2, <2>2, <2>4, DeliverKeeps DEF Load
  <2>6. << >> \o RowsOf(at, response.hits) = RowsOf(at, response.hits)
    BY <2>4, ConcatEmptySeq
  <2>7. RowsOf(at, response.hits)' = RowsOf(at, response.hits)  BY <2>1 DEF RowsOf
  <2> QED BY <2>1, <2>5, <2>6, <2>7 DEF RowsOfOneAnswer, Decodes
<1>3. ASSUME UNCHANGED cursor, loaded => UNCHANGED <<at, response, variant>>
      PROVE  RowsOfOneAnswer'
  BY <1>3 DEF RowsOfOneAnswer, RowsOf, Decodes
<1>4. CASE Open  BY <1>3, <1>4 DEF Open
<1>5. CASE OpenFails  BY <1>3, <1>5 DEF OpenFails
<1>6. CASE NextInterrupted  BY <1>3, <1>6 DEF NextInterrupted, Interrupted, Leave
<1>7. CASE NextSearches  BY <1>3, <1>7 DEF NextSearches
<1>8. CASE AttemptInterrupted  BY <1>3, <1>8 DEF AttemptInterrupted, Interrupted, Leave
<1>9. CASE HostHidesDeadline  BY <1>3, <1>9 DEF HostHidesDeadline, Return, Leave
<1>10. CASE DeadlinePassed  BY <1>3, <1>10 DEF DeadlinePassed, Return, Leave
<1>11. CASE SendRequest  BY <1>3, <1>11 DEF SendRequest
<1>12. CASE RequestEnds  BY <1>3, <1>12 DEF RequestEnds, SearchInv
<1>13. CASE AnswerInterrupted  BY <1>3, <1>13 DEF AnswerInterrupted, Interrupted, Leave
<1>14. CASE NextEndpoint  BY <1>3, <1>14 DEF NextEndpoint, SearchInv
<1>15. CASE AllFailed  BY <1>3, <1>15 DEF AllFailed, Return, Leave
<1>16. CASE Undecodable  BY <1>3, <1>16 DEF Undecodable, Return, Leave
<1>17. CASE Kill  BY <1>3, <1>17 DEF Kill
<1>18. CASE Tick  BY <1>3, <1>18 DEF Tick
<1>19. CASE Drop  BY <1>3, <1>19 DEF Drop
<1>20. CASE UNCHANGED vars  BY <1>3, <1>20 DEF vars
<1>21. CASE NextChecked  BY <1>3, <1>21 DEF NextChecked, Checked
<1>22. CASE AttemptChecked  BY <1>3, <1>22 DEF AttemptChecked, Checked
<1>23. CASE AnswerChecked  BY <1>3, <1>23 DEF AnswerChecked, Checked
<1> QED
  BY NextCases, <1>1, <1>2, <1>4, <1>5, <1>6, <1>7, <1>8, <1>9, <1>10, <1>11, <1>12,
     <1>13, <1>14, <1>15, <1>16, <1>17, <1>18, <1>19, <1>20, <1>21,
     <1>22, <1>23

(* A step keeps the failed endpoints the ones before the one at hand.      *)
LEMMA FailoverStep ==
  ASSUME TypeOK, SearchInv, FailoverInOrder, [Next]_vars
  PROVE  FailoverInOrder'
<1> USE DEF TypeOK, FailoverInOrder, config, cursor, attempt, query
<1>1. CASE Open  BY <1>1 DEF Open
<1>2. CASE OpenFails  BY <1>2 DEF OpenFails
<1>3. CASE NextInterrupted  BY <1>3 DEF NextInterrupted, Interrupted, Leave
<1>4. CASE NextLoaded  BY <1>4 DEF NextLoaded, Deliver
<1>5. CASE NextSearches  BY <1>5 DEF NextSearches, SearchInv
<1>6. CASE AttemptInterrupted  BY <1>6 DEF AttemptInterrupted, Interrupted, Leave
<1>7. CASE HostHidesDeadline  BY <1>7 DEF HostHidesDeadline, Return, Leave
<1>8. CASE DeadlinePassed  BY <1>8 DEF DeadlinePassed, Return, Leave
<1>9. CASE SendRequest  BY <1>9 DEF SendRequest
<1>10. CASE RequestEnds  BY <1>10 DEF RequestEnds
<1>11. CASE AnswerInterrupted  BY <1>11 DEF AnswerInterrupted, Interrupted, Leave
<1>12. CASE Load  BY <1>12 DEF Load, Deliver
<1>13. CASE NextEndpoint
  <2>1. errors' = (1..(at - 1)) \cup {at}  BY <1>13 DEF NextEndpoint
  <2>2. (1..(at - 1)) \cup {at} = 1..at  BY NAssumption DEF Endpoints
  <2>3. at' - 1 = at  BY <1>13, NAssumption DEF NextEndpoint, Following, Endpoints
  <2>4. result' = "none"  BY <1>13 DEF NextEndpoint, SearchInv
  <2> QED BY <2>1, <2>2, <2>3, <2>4
<1>14. CASE AllFailed
  <2>1. errors' = (1..(at - 1)) \cup {at} /\ at = N
    BY <1>14 DEF AllFailed, LastEndpoint
  <2>2. (1..(N - 1)) \cup {N} = 1..N  BY NAssumption
  <2> QED BY <1>14, <2>1, <2>2 DEF AllFailed, Return, Leave, Endpoints
<1>15. CASE Undecodable  BY <1>15 DEF Undecodable, Return, Leave
<1>16. CASE Kill  BY <1>16 DEF Kill
<1>17. CASE Tick  BY <1>17 DEF Tick
<1>18. CASE Drop  BY <1>18 DEF Drop
<1>19. CASE UNCHANGED vars  BY <1>19 DEF vars
<1>20. CASE NextChecked  BY <1>20 DEF NextChecked, Checked
<1>21. CASE AttemptChecked  BY <1>21 DEF AttemptChecked, Checked
<1>22. CASE AnswerChecked  BY <1>22 DEF AnswerChecked, Checked
<1> QED
  BY NextCases, <1>1, <1>2, <1>3, <1>4, <1>5, <1>6, <1>7, <1>8, <1>9, <1>10, <1>11, <1>12,
     <1>13, <1>14, <1>15, <1>16, <1>17, <1>18, <1>19, <1>20, <1>21,
     <1>22

(* A step keeps the clock before the deadline while requests are made.     *)
LEMMA DeadlineStep ==
  ASSUME TypeOK, SearchInv, WithinDeadline, [Next]_vars
  PROVE  WithinDeadline'
<1> USE DEF TypeOK, WithinDeadline, config, cursor, attempt, query
<1>1. CASE Open  BY <1>1 DEF Open
<1>2. CASE OpenFails  BY <1>2 DEF OpenFails
<1>3. CASE NextInterrupted  BY <1>3 DEF NextInterrupted, Interrupted, Leave
<1>4. CASE NextLoaded  BY <1>4 DEF NextLoaded, Deliver
<1>5. CASE NextSearches  BY <1>5 DEF NextSearches
<1>6. CASE AttemptInterrupted  BY <1>6 DEF AttemptInterrupted, Interrupted, Leave
<1>7. CASE HostHidesDeadline  BY <1>7 DEF HostHidesDeadline, Return, Leave
<1>8. CASE DeadlinePassed  BY <1>8 DEF DeadlinePassed, Return, Leave
<1>9. CASE SendRequest  BY <1>9 DEF SendRequest, Expired, NoDeadline
<1>10. CASE RequestEnds
  <2>1. deadline # NoDeadline => now' <= deadline
    BY <1>10, TimeAssumption DEF RequestEnds, SearchInv, NoDeadline
  <2> QED BY <1>10, <2>1 DEF RequestEnds
<1>11. CASE AnswerInterrupted  BY <1>11 DEF AnswerInterrupted, Interrupted, Leave
<1>12. CASE Load  BY <1>12 DEF Load, Deliver
<1>13. CASE NextEndpoint  BY <1>13 DEF NextEndpoint
<1>14. CASE AllFailed  BY <1>14 DEF AllFailed, Return, Leave
<1>15. CASE Undecodable  BY <1>15 DEF Undecodable, Return, Leave
<1>16. CASE Kill  BY <1>16 DEF Kill
<1>17. CASE Tick  BY <1>17 DEF Tick
<1>18. CASE Drop  BY <1>18 DEF Drop
<1>19. CASE UNCHANGED vars  BY <1>19 DEF vars
<1>20. CASE NextChecked  BY <1>20 DEF NextChecked, Checked
<1>21. CASE AttemptChecked  BY <1>21 DEF AttemptChecked, Checked
<1>22. CASE AnswerChecked  BY <1>22 DEF AnswerChecked, Checked
<1> QED
  BY NextCases, <1>1, <1>2, <1>3, <1>4, <1>5, <1>6, <1>7, <1>8, <1>9, <1>10, <1>11, <1>12,
     <1>13, <1>14, <1>15, <1>16, <1>17, <1>18, <1>19, <1>20, <1>21,
     <1>22

(* A step keeps what goes on after a kill within its bound: between two     *)
(* checks there is one step that shows.                                    *)
LEMMA KillStep ==
  ASSUME TypeOK, KillInv, [Next]_vars
  PROVE  KillInv'
<1> USE DEF TypeOK, KillInv, KillEndsQuery, PastCheck, Places, killed, query
<1>1. CASE Open  BY <1>1 DEF Open
<1>2. CASE OpenFails  BY <1>2 DEF OpenFails
<1>3. CASE NextInterrupted  BY <1>3 DEF NextInterrupted, Interrupted, Leave
<1>4. CASE NextLoaded  BY <1>4 DEF NextLoaded, Deliver, Shows
<1>5. CASE NextSearches  BY <1>5 DEF NextSearches
<1>6. CASE AttemptInterrupted  BY <1>6 DEF AttemptInterrupted, Interrupted, Leave
<1>7. CASE HostHidesDeadline  BY <1>7 DEF HostHidesDeadline, Return, Leave, Shows
<1>8. CASE DeadlinePassed  BY <1>8 DEF DeadlinePassed, Return, Leave, Shows
<1>9. CASE SendRequest  BY <1>9 DEF SendRequest, Shows
<1>10. CASE RequestEnds  BY <1>10 DEF RequestEnds
<1>11. CASE AnswerInterrupted  BY <1>11 DEF AnswerInterrupted, Interrupted, Leave
<1>12. CASE Load  BY <1>12 DEF Load, Deliver, Shows
<1>13. CASE NextEndpoint  BY <1>13 DEF NextEndpoint
<1>14. CASE AllFailed  BY <1>14 DEF AllFailed, Return, Leave, Shows
<1>15. CASE Undecodable  BY <1>15 DEF Undecodable, Return, Leave, Shows
<1>16. CASE Kill  BY <1>16 DEF Kill
<1>17. CASE Tick  BY <1>17 DEF Tick
<1>18. CASE Drop  BY <1>18 DEF Drop
<1>19. CASE UNCHANGED vars  BY <1>19 DEF vars
<1>20. CASE NextChecked  BY <1>20 DEF NextChecked, Checked
<1>21. CASE AttemptChecked  BY <1>21 DEF AttemptChecked, Checked
<1>22. CASE AnswerChecked  BY <1>22 DEF AnswerChecked, Checked
<1> QED
  BY NextCases, <1>1, <1>2, <1>3, <1>4, <1>5, <1>6, <1>7, <1>8, <1>9, <1>10, <1>11, <1>12,
     <1>13, <1>14, <1>15, <1>16, <1>17, <1>18, <1>19, <1>20, <1>21, <1>22

(* The inductive invariant holds.                                          *)
THEOREM Inductive == Spec => []IInv
<1>1. Init => IInv
  BY DEF Init, IInv, SearchInv, KillInv, KillEndsQuery, killed, RowsOfOneAnswer,
         FailoverInOrder, WithinDeadline
<1>2. TypeOK /\ IInv /\ [Next]_vars => IInv'
  BY SearchStep, KillStep, RowsStep, FailoverStep, DeadlineStep DEF IInv
<1> QED BY <1>1, <1>2, TypeCorrect, PTL DEF Spec

(* The end of the rows is only reported when all candidates of an accepted *)
(* response are out.                                                       *)
THEOREM Ends == Spec => []EofMeansDelivered
<1>1. TypeOK /\ IInv => EofMeansDelivered
  <2> SUFFICES ASSUME TypeOK, IInv, result = "eof"
               PROVE  loaded /\ out = RowsOf(at, response.hits) /\ Decodes(response)
    BY DEF EofMeansDelivered
  <2>1. loaded /\ pending = << >>  BY DEF IInv, SearchInv
  <2>2. out \o pending = RowsOf(at, response.hits) /\ Decodes(response)
    BY <2>1 DEF IInv, RowsOfOneAnswer
  <2>3. out \o << >> = out  BY ConcatEmptySeq DEF TypeOK
  <2> QED BY <2>1, <2>2, <2>3
<1> QED BY <1>1, TypeCorrect, Inductive, PTL

(* No endpoint is left out, for any number of them.                        *)
THEOREM Failover == Spec => []FailoverInOrder
<1>1. IInv => FailoverInOrder  BY DEF IInv
<1> QED BY <1>1, Inductive, PTL

(* No request outlasts the deadline, for any timeout and any deadline.     *)
THEOREM Deadline == Spec => []WithinDeadline
<1>1. IInv => WithinDeadline  BY DEF IInv
<1> QED BY <1>1, Inductive, PTL

(* After a kill the search does one more thing at most, and none unless    *)
(* the kill came between a check and what the check was made for.          *)
THEOREM Killed == Spec => []KillEndsQuery
<1>1. IInv => KillEndsQuery  BY DEF IInv, KillInv
<1> QED BY <1>1, Inductive, PTL

-----------------------------------------------------------------------------
(* Handing over maps to the abstract hand-over.                            *)
LEMMA DeliverGives ==
  ASSUME NEW rows, Deliver(rows), loaded' = TRUE, result # "eof", Life # "over",
         Life' = IF Life = "ending" THEN "over" ELSE Life
  PROVE  Stream!Give(rows)
<1>1. CASE rows # << >>
  <2>1. out' = Append(out, Head(rows)) /\ pending' = Tail(rows) /\ result' = "row"
    BY <1>1 DEF Deliver
  <2>2. (result' = "eof") = FALSE /\ (result = "eof") = FALSE  BY <2>1
  <2>3. UNCHANGED (result = "eof")  BY <2>2
  <2> QED BY <1>1, <2>1, <2>3 DEF Stream!Give
<1>2. CASE rows = << >>
  <2>1. result' = "eof" /\ pending' = rows /\ UNCHANGED out  BY <1>2 DEF Deliver
  <2>2. (result = "eof")' = TRUE  BY <2>1
  <2> QED BY <1>2, <2>1, <2>2 DEF Stream!Give
<1> QED BY <1>1, <1>2

(* Every step of the stage is a step of the candidate stream, or leaves it *)
(* alone.                                                                  *)
LEMMA RefineStep ==
  ASSUME TypeOK, SearchInv, KillInv, [Next]_vars
  PROVE  Stream!Next \/ UNCHANGED Stream!vars
<1> USE DEF TypeOK, SearchInv, config, cursor, attempt, query
<1>1. CASE NextLoaded
  <2>1. loaded' = TRUE /\ result # "eof"
    BY <1>1 DEF NextLoaded
  <2>2. Deliver(pending)  BY <1>1 DEF NextLoaded
  <2>3. pc = "checked" /\ pc' = "idle" /\ caught' = caught
    BY <1>1 DEF NextLoaded, Deliver
  <2>4. Life # "over" /\ Life' = IF Life = "ending" THEN "over" ELSE Life
    BY <2>3 DEF Life, killed, KillInv, PastCheck
  <2>5. Stream!Give(pending)  BY ONLY <2>1, <2>2, <2>4, DeliverGives
  <2>6. loaded = TRUE  BY <1>1 DEF NextLoaded
  <2> QED BY ONLY <2>5, <2>6 DEF Stream!Next, Stream!Advance
<1>2. CASE Load
  <2>1. ~loaded /\ loaded' = TRUE /\ result # "eof"
    BY <1>2 DEF Load
  <2>2. pc = "response" /\ pc' = "idle" /\ caught' = caught
    BY <1>2 DEF Load, Deliver
  <2>3. Life # "over" /\ Life' = IF Life = "ending" THEN "over" ELSE Life
    BY <2>2 DEF Life, killed, KillInv, PastCheck
  <2>4. Deliver(RowsOf(at, response.hits))  BY <1>2 DEF Load
  <2>5. Stream!Give(RowsOf(at, response.hits))
    BY ONLY <2>1, <2>3, <2>4, DeliverGives
  <2>6. response.hits \in 0..Limit
    BY <1>2, LimitAssumption DEF Load, Decodes, Responses
  <2>7. RowsOf(at, response.hits) \in Searches  BY <2>6 DEF Searches
  <2> QED BY <2>1, <2>5, <2>7 DEF Stream!Next, Stream!Search
<1>3. CASE Kill
  <2>1. Life = "running" /\ Life' \in {"ending", "over"}
    BY <1>3 DEF Kill, Life, killed, Places
  <2> QED BY <1>3, <2>1 DEF Kill, Stream!Next, Stream!Kill
<1>4. ASSUME UNCHANGED <<cursor, caught>>, ~killed \/ pc' = pc \/ pc' \notin {"checked", "response"},
             (result # "eof" /\ result' # "eof") \/ result' = result
      PROVE  Stream!Next \/ UNCHANGED Stream!vars
  <2>1. Life' = Life \/ (Life = "ending" /\ Life' = "over")
    BY <1>4 DEF Life, killed
  <2>2. UNCHANGED <<loaded, pending, out, (result = "eof")>>  BY <1>4
  <2> QED BY <2>1, <2>2 DEF Stream!Next, Stream!Silence, Stream!vars
<1>5. CASE Open  BY <1>4, <1>5 DEF Open
<1>6. CASE OpenFails  BY <1>4, <1>6 DEF OpenFails
<1>7. CASE NextInterrupted  BY <1>4, <1>7 DEF NextInterrupted, Call, Interrupted, Leave
<1>8. CASE NextSearches  BY <1>4, <1>8 DEF NextSearches
<1>9. CASE AttemptInterrupted  BY <1>4, <1>9 DEF AttemptInterrupted, Interrupted, Leave
<1>10. CASE HostHidesDeadline  BY <1>4, <1>10 DEF HostHidesDeadline, Return, Leave
<1>11. CASE DeadlinePassed  BY <1>4, <1>11 DEF DeadlinePassed, Return, Leave
<1>12. CASE SendRequest  BY <1>4, <1>12 DEF SendRequest
<1>13. CASE RequestEnds  BY <1>4, <1>13 DEF RequestEnds
<1>14. CASE AnswerInterrupted  BY <1>4, <1>14 DEF AnswerInterrupted, Interrupted, Leave
<1>15. CASE NextEndpoint  BY <1>4, <1>15 DEF NextEndpoint
<1>16. CASE AllFailed  BY <1>4, <1>16 DEF AllFailed, Return, Leave
<1>17. CASE Undecodable  BY <1>4, <1>17 DEF Undecodable, Return, Leave
<1>18. CASE Tick  BY <1>4, <1>18 DEF Tick
<1>19. CASE Drop  BY <1>4, <1>19 DEF Drop
<1>20. CASE UNCHANGED vars  BY <1>4, <1>20 DEF vars
<1>21. CASE NextChecked  BY <1>4, <1>21 DEF NextChecked, Call, Checked
<1>22. CASE AttemptChecked  BY <1>4, <1>22 DEF AttemptChecked, Checked
<1>23. CASE AnswerChecked  BY <1>4, <1>23 DEF AnswerChecked, Checked
<1> QED
  BY NextCases, <1>1, <1>2, <1>3, <1>5, <1>6, <1>7, <1>8, <1>9, <1>10, <1>11, <1>12,
     <1>13, <1>14, <1>15, <1>16, <1>17, <1>18, <1>19, <1>20, <1>21,
     <1>22, <1>23

(* The stage implements the abstract candidate stream: failover, retries,  *)
(* deadlines and kills do not show in what the host receives.              *)
THEOREM Refinement == Spec => ImplementsCandidateStream
<1>1. Init => Stream!Init
  BY DEF Init, Stream!Init, Life, killed
<1>2. TypeOK /\ IInv /\ [Next]_vars => [Stream!Next]_(Stream!vars)
  BY RefineStep DEF IInv
<1> QED
  BY <1>1, <1>2, TypeCorrect, Inductive, PTL DEF Spec, ImplementsCandidateStream, Stream!Spec
=============================================================================
