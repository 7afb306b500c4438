--------------------- MODULE TaskPipelineOutcomeProofs ---------------------
(***************************************************************************)
(* What the outside sees of TaskPipeline, for every value of its           *)
(* constants: answers and counters agree with the stored tasks, committed  *)
(* work is kept, no connection leaks, and the pipeline implements          *)
(* TaskPublication.                                                        *)
(*                                                                         *)
(* On top of IInv these need OutcomeInv, again a condition on each request *)
(* that no step of another request can disturb.                            *)
(***************************************************************************)
EXTENDS TaskPipelineProofs

-----------------------------------------------------------------------------
(* Answers, counters and what an error may overwrite *)

(* Answer and counter of r agree with its stored task; a task that is      *)
(* committed before its handler is through is still in the session as      *)
(* committed, and no except clause meets a task already in error.          *)
OutcomeOf(r) ==
    /\ reply[r] \in {"accepted", "rejected"} => db[r].status = reply[r]
    /\ reply[r] \in DomainCodes => db[r].status = "error" /\ db[r].code = reply[r]
    /\ reply[r] = "INVALID_INPUT" => db[r] = NoRows
    /\ counted[r] # "none" => db[r].status = counted[r]
    /\ pc[r] = "load" => tx[r] = db[r]
    /\ pc[r] = "mark" => \/ db[r] = NoRows
                         \/ db[r].status \in {"accepted", "rejected"} /\ tx[r] = db[r]

OutcomeInv == \A r \in Requests : OutcomeOf(r)

(* A request that has not ended was neither answered nor counted.          *)
LEMMA NotYetAnswered ==
  ASSUME IInv, NEW r \in Requests, pc[r] # "done"
  PROVE  reply[r] = "none" /\ counted[r] = "none"
  BY DEF IInv, RequestInv, OutsideFollowsSteps

(* A step of r that neither answers, nor counts, nor leaves the body of    *)
(* the transaction or commits from there.                                  *)
LEMMA SilentOutcome ==
  ASSUME IInv, NEW r \in Requests, pc[r] # "done",
         reply'[r] = reply[r], counted'[r] = counted[r],
         pc'[r] = "load" => tx'[r] = db'[r],
         pc'[r] = "mark" => \/ db'[r] = NoRows
                            \/ db'[r].status \in {"accepted", "rejected"} /\ tx'[r] = db'[r]
  PROVE  OutcomeOf(r)'
  BY NotYetAnswered DEF OutcomeOf, DomainCodes

LEMMA StepOutcome ==
  ASSUME IInv, OutcomeInv, NEW r \in Requests, Step(r)
  PROVE  OutcomeOf(r)'
<1>1. TypeOK /\ RequestInv(r) /\ OutcomeOf(r)
  BY DEF IInv, OutcomeInv
<1>2. CASE RefuseInput(r)
  <2>1. /\ reply'[r] = "INVALID_INPUT" /\ db'[r] = db[r] /\ pc'[r] = "done"
        /\ counted'[r] = counted[r] /\ pc[r] = "start"
    BY <1>1, <1>2 DEF RefuseInput, Close, Respond, Goto, TypeOK
  <2>2. db[r] = NoRows
    BY <1>1, <2>1 DEF RequestInv, OutsideFollowsSteps
  <2> QED BY <2>1, <2>2, NotYetAnswered DEF OutcomeOf, DomainCodes
<1>3. CASE \/ CreateTaskRow(r) \/ ResolveParams(r) \/ StartIteration(r)
           \/ \E w \in Wordings : GenerateWording(r, w)
           \/ \E passed \in BOOLEAN : ValidateWording(r, passed)
           \/ \E missing \in BOOLEAN : CheckNumericMatch(r, missing)
           \/ RecordRejectedIteration(r)
  <2>1. /\ pc[r] # "done" /\ pc'[r] # "load" /\ pc'[r] # "mark"
        /\ reply'[r] = reply[r] /\ counted'[r] = counted[r]
    BY <1>1, <1>3 DEF CreateTaskRow, ResolveParams, StartIteration, GenerateWording,
          ValidateWording, CheckNumericMatch, RecordRejectedIteration, Goto, TypeOK
  <2> QED BY <2>1, SilentOutcome
<1>4. CASE \/ RejectParams(r)
           \/ \E code \in GenerationFailures : GenerationFails(r, code)
           \/ \E failure \in ValidationFailures : ValidationFails(r, failure)
  <2>1. /\ pc[r] \in InTransaction /\ pc'[r] # "load"
        /\ db' = db /\ reply' = reply /\ counted' = counted
    BY <1>1, <1>4 DEF RejectParams, GenerationFails, ValidationFails, Raise, Goto,
          TypeOK, InTransaction, Iterating
  <2>2. db[r] = NoRows /\ pc[r] # "done"
    BY <1>1, <2>1 DEF RequestInv, OutsideFollowsSteps, InTransaction, Iterating
  <2> QED BY <2>1, <2>2, SilentOutcome
<1>5. CASE FinalizeAccepted(r) \/ FinalizeRejected(r)
  <2>1. /\ pc[r] # "done" /\ pc'[r] = "load" /\ tx'[r] = db'[r]
        /\ reply' = reply /\ counted' = counted
    BY <1>1, <1>5 DEF FinalizeAccepted, FinalizeRejected, Commit, Goto, TypeOK
  <2> QED BY <2>1, SilentOutcome
<1>6. CASE LoadResponse(r)
  <2>1. /\ reply'[r] = db[r].status /\ counted'[r] = db[r].status
        /\ db'[r] = db[r] /\ pc'[r] = "done" /\ pc[r] = "load"
    BY <1>1, <1>6 DEF LoadResponse, Close, Respond, Goto, TypeOK
  <2>2. db[r].status \in {"accepted", "rejected"}
    BY <1>1, <2>1 DEF RequestInv, OutsideFollowsSteps
  <2> QED BY <2>1, <2>2 DEF OutcomeOf, DomainCodes
<1>7. CASE LoadResponseUnavailable(r)
  <2>1. /\ pc[r] = "load" /\ pc'[r] = "mark"
        /\ UNCHANGED <<tx, db, reply, counted>>
    BY <1>1, <1>7 DEF LoadResponseUnavailable, Raise, Goto, TypeOK
  <2>2. db[r].status \in {"accepted", "rejected"} /\ tx[r] = db[r]
    BY <1>1, <2>1 DEF RequestInv, OutsideFollowsSteps, OutcomeOf
  <2> QED BY <2>1, <2>2, SilentOutcome
<1>8. CASE MarkTaskError(r)
  <2>1. pc[r] # "done" /\ pc'[r] = "fail" /\ reply' = reply /\ counted' = counted
    BY <1>1, <1>8 DEF MarkTaskError, Goto, TypeOK
  <2> QED BY <2>1, SilentOutcome
<1>9. CASE AnswerError(r)
  <2>1. /\ reply'[r] = raised[r] /\ counted'[r] = "error" /\ db'[r] = db[r]
        /\ pc'[r] = "done" /\ pc[r] = "fail" /\ raised[r] \in Codes \cup {"none"}
    BY <1>1, <1>9 DEF AnswerError, Close, Respond, Goto, TypeOK
  <2>2. db[r].status = "error" /\ db[r].code = raised[r]
    BY <1>1, <2>1 DEF RequestInv, OutsideFollowsSteps
  <2> QED BY <2>1, <2>2 DEF OutcomeOf, Codes, DomainCodes
<1>10. CASE CreateTaskRowUnavailable(r) \/ MarkTaskErrorUnavailable(r)
  <2>1. /\ reply'[r] = "UNEXPECTED_INTERNAL_ERROR" /\ pc[r] # "done"
        /\ counted'[r] = counted[r] /\ pc'[r] = "done"
    BY <1>1, <1>10 DEF CreateTaskRowUnavailable, MarkTaskErrorUnavailable, Abort,
          Close, Respond, Goto, TypeOK
  <2> QED BY <2>1, NotYetAnswered DEF OutcomeOf, DomainCodes
<1> QED
  BY <1>2, <1>3, <1>4, <1>5, <1>6, <1>7, <1>8, <1>9, <1>10 DEF Step

LEMMA FaultOutcome ==
  ASSUME IInv, OutcomeInv, NEW r \in Requests, Fault(r)
  PROVE  OutcomeOf(r)'
<1>1. TypeOK /\ RequestInv(r) /\ OutcomeOf(r)
  BY DEF IInv, OutcomeInv
<1>2. CASE UnexpectedException(r)
  <2>1. /\ pc[r] \in InTransaction /\ pc'[r] = "mark"
        /\ UNCHANGED <<tx, db, reply, counted>>
    BY <1>1, <1>2 DEF UnexpectedException, Raise, Goto, TypeOK, InTransaction, Iterating
  <2>2. db[r] = NoRows /\ pc[r] # "done"
    BY <1>1, <2>1 DEF RequestInv, OutsideFollowsSteps, InTransaction, Iterating
  <2> QED BY <2>1, <2>2, SilentOutcome
<1>3. CASE StatementFails(r) \/ CommitAckLost(r)
  <2>1. /\ reply'[r] = "UNEXPECTED_INTERNAL_ERROR" /\ pc[r] # "done"
        /\ counted'[r] = counted[r] /\ pc'[r] = "done"
    BY <1>1, <1>3 DEF StatementFails, CommitAckLost, Abort, Close, Respond, Goto, TypeOK
  <2> QED BY <2>1, NotYetAnswered DEF OutcomeOf, DomainCodes
<1>4. CASE Cancel(r)
  <2>1. /\ pc[r] # "done" /\ pc'[r] = "done" /\ reply' = reply /\ counted' = counted
    BY <1>1, <1>4 DEF Cancel, Close, Goto, TypeOK
  <2> QED BY <2>1, SilentOutcome
<1> QED BY <1>2, <1>3, <1>4 DEF Fault

LEMMA StepKeepsOutcome ==
  ASSUME IInv, OutcomeInv, [Next]_vars PROVE OutcomeInv'
<1>1. CASE UNCHANGED vars
  BY <1>1 DEF vars, OutcomeInv, OutcomeOf
<1>2. ASSUME NEW r \in Requests, Step(r) \/ Fault(r) PROVE OutcomeInv'
  <2>1. StepOK(r) /\ OutcomeOf(r)'
    BY <1>2, EveryStepOK, StepOutcome, FaultOutcome
  <2>2. ASSUME NEW q \in Requests \ {r} PROVE OutcomeOf(q)'
    BY <2>1 DEF StepOK, Untouched, OutcomeInv, OutcomeOf
  <2> QED BY <2>1, <2>2 DEF OutcomeInv
<1>3. CASE Crash
  <2>1. ASSUME NEW r \in Requests PROVE OutcomeOf(r)'
    <3>1. /\ pc'[r] \in {"start", "done"} /\ db'[r] = db[r]
          /\ reply'[r] = reply[r] /\ counted'[r] = "none"
      BY <1>3 DEF Crash, InFlight
    <3> QED BY <3>1 DEF OutcomeInv, OutcomeOf
  <2> QED BY <2>1 DEF OutcomeInv
<1> QED BY <1>1, <1>2, <1>3 DEF Next, Finished

LEMMA OutcomeAlways == Spec => [](IInv /\ OutcomeInv)
<1>1. Init => IInv /\ OutcomeInv
  <2>1. Init => OutcomeInv
    BY DEF Init, OutcomeInv, OutcomeOf, DomainCodes
  <2> QED BY <2>1, InitIInv
<1>2. (IInv /\ OutcomeInv) /\ [Next]_vars => (IInv /\ OutcomeInv)'
  BY StepKeepsIInv, StepKeepsOutcome
<1> QED BY <1>1, <1>2, PTL DEF Spec

(* Whatever is lost, refused or cancelled: what a client was told about a  *)
(* task is true of the stored task, then and later.                        *)
THEOREM AnswersAreTrue == Spec => []ReplyMatchesRow
<1>1. OutcomeInv => ReplyMatchesRow
  BY DEF OutcomeInv, OutcomeOf, ReplyMatchesRow
<1> QED BY OutcomeAlways, <1>1, PTL

(* No task is counted in tasks_generated_total under a status it does not  *)
(* have in the database.                                                   *)
THEOREM CountsAreTrue == Spec => []CountedMatchesRow
<1>1. OutcomeInv => CountedMatchesRow
  BY DEF OutcomeInv, OutcomeOf, CountedMatchesRow
<1> QED BY OutcomeAlways, <1>1, PTL

-----------------------------------------------------------------------------
(* Committed work is kept *)

(* What a step of r does to its committed rows: it leaves them, writes the *)
(* first ones, or turns a finished task it still holds into an error.      *)
LEMMA StepCommits ==
  ASSUME IInv, OutcomeInv, NEW r \in Requests, Step(r) \/ Fault(r)
  PROVE  \/ db'[r] = db[r]
         \/ db[r] = NoRows
         \/ /\ db[r].status \in {"accepted", "rejected"}
            /\ db'[r] = [db[r] EXCEPT !.status = "error", !.code = raised[r]]
<1>1. TypeOK /\ RequestInv(r) /\ OutcomeOf(r)
  BY DEF IInv, OutcomeInv
<1>2. CASE pc[r] \in {"start"} \cup InTransaction
  BY <1>1, <1>2 DEF RequestInv, OutsideFollowsSteps
<1>3. CASE pc[r] = "mark" /\ db' = [db EXCEPT ![r] = ErrorRows(r)]
  <2>1. db'[r] = [tx[r] EXCEPT !.status = "error", !.code = raised[r]]
    BY <1>1, <1>3 DEF TypeOK, ErrorRows
  <2> QED BY <1>1, <1>3, <2>1 DEF OutcomeOf
<1>4. CASE db' = db
  BY <1>4
<1>5. CASE Step(r)
  <2>1. \/ pc[r] \in {"start"} \cup InTransaction
        \/ pc[r] = "mark" /\ db' = [db EXCEPT ![r] = ErrorRows(r)]
        \/ db' = db
    BY <1>5 DEF Step, InTransaction, Iterating, RefuseInput, CreateTaskRow,
          CreateTaskRowUnavailable, RejectParams, ResolveParams, StartIteration,
          GenerateWording, GenerationFails, ValidateWording, ValidationFails,
          CheckNumericMatch, RecordRejectedIteration, FinalizeAccepted,
          FinalizeRejected, LoadResponse, LoadResponseUnavailable, MarkTaskError,
          MarkTaskErrorUnavailable, AnswerError, Commit
  <2> QED BY <2>1, <1>2, <1>3, <1>4
<1>6. CASE Fault(r)
  <2>1. \/ pc[r] \in {"start"} \cup InTransaction
        \/ pc[r] = "mark" /\ db' = [db EXCEPT ![r] = ErrorRows(r)]
        \/ db' = db
    BY <1>6 DEF Fault, InTransaction, Iterating, UnexpectedException, StatementFails,
          CommitAckLost, Cancel
  <2> QED BY <2>1, <1>2, <1>3, <1>4
<1> QED BY <1>5, <1>6

(* Rows once committed change in status and code only, through every       *)
(* fault: no iteration, wording or audit row of a stored task is lost.     *)
THEOREM CommittedWorkKept == Spec => CommittedWorkIsKept
<1> DEFINE Kept(r) ==
      db[r].status # "absent" =>
          \E status \in TaskStatus, code \in Codes \cup {"none"} :
              db'[r] = [db[r] EXCEPT !.status = status, !.code = code]
<1>1. ASSUME IInv, NEW r \in Requests, db'[r] = db[r] PROVE Kept(r)
  <2>1. db[r] \in Rows
    BY <1>1 DEF IInv, TypeOK
  <2>2. db[r].status \in TaskStatus /\ db[r].code \in Codes \cup {"none"}
    BY <2>1 DEF Rows
  <2>3. db'[r] = [db[r] EXCEPT !.status = db[r].status, !.code = db[r].code]
    BY <1>1, <2>1 DEF Rows
  <2> QED BY <2>2, <2>3
<1>2. ASSUME IInv, OutcomeInv, NEW r \in Requests, Step(r) \/ Fault(r) PROVE Kept(r)
  <2>1. CASE db'[r] = db[r]
    BY <1>1, <1>2, <2>1
  <2>2. CASE db[r] = NoRows
    <3>1. db[r].status = "absent"
      <4> HIDE DEF Kept
      <4> QED BY <2>2 DEF NoRows
    <3> QED BY <3>1
  <2>3. CASE db'[r] = [db[r] EXCEPT !.status = "error", !.code = raised[r]]
    <3>1. "error" \in TaskStatus /\ raised[r] \in Codes \cup {"none"}
      BY <1>2 DEF IInv, TypeOK, TaskStatus
    <3> QED BY <2>3, <3>1
  <2> QED BY <1>2, <2>1, <2>2, <2>3, StepCommits
<1>3. ASSUME IInv, OutcomeInv, [Next]_vars
      PROVE  [\A r \in Requests : Kept(r)]_vars
  <2>1. CASE UNCHANGED vars
    BY <2>1
  <2>2. ASSUME NEW q \in Requests, Step(q) \/ Fault(q)
        PROVE  \A r \in Requests : Kept(r)
    <3>1. StepOK(q) /\ Kept(q)
      BY <1>2, <1>3, <2>2, EveryStepOK
    <3>2. ASSUME NEW r \in Requests \ {q} PROVE Kept(r)
      <4>1. db'[r] = db[r]
        BY <3>1 DEF StepOK, Untouched
      <4> QED BY <1>1, <1>3, <4>1
    <3> HIDE DEF Kept
    <3> QED BY <3>1, <3>2
  <2>3. CASE Crash
    <3>1. \A r \in Requests : db'[r] = db[r]
      BY <2>3 DEF Crash
    <3> HIDE DEF Kept
    <3> QED BY <1>1, <1>3, <3>1
  <2> HIDE DEF Kept
  <2> QED BY <1>3, <2>1, <2>2, <2>3 DEF Next, Finished
<1> QED BY OutcomeAlways, <1>3, PTL DEF Spec, CommittedWorkIsKept

-----------------------------------------------------------------------------
(* Connections *)

ConnInv == IsFiniteSet(conn) /\ ConnectionsAccounted

(* What a step of r does to the connection of r.                           *)
LEMMA StepConnection ==
  ASSUME IInv, NEW r \in Requests, Step(r) \/ Fault(r)
  PROVE  \/ /\ pc[r] = "start" /\ Connected(r)
            /\ conn' = conn \cup {r} /\ pc'[r] = "params"
         \/ conn' = conn \ {r} /\ pc'[r] \in {"load", "fail", "done"}
         \/ /\ conn' = conn /\ pc[r] \in InTransaction
            /\ pc'[r] \in InTransaction \cup {"mark"}
         \/ conn' = conn /\ pc[r] = "load" /\ pc'[r] = "mark"
<1>1. TypeOK
  BY DEF IInv
<1>2. CASE CreateTaskRow(r)
  BY <1>1, <1>2 DEF CreateTaskRow, Goto, TypeOK
<1>3. CASE \/ RejectParams(r) \/ ResolveParams(r) \/ StartIteration(r)
           \/ \E w \in Wordings : GenerateWording(r, w)
           \/ \E code \in GenerationFailures : GenerationFails(r, code)
  BY <1>1, <1>3 DEF RejectParams, ResolveParams, StartIteration, GenerateWording,
        GenerationFails, Raise, Goto, TypeOK, InTransaction, Iterating
<1>4. CASE \/ \E passed \in BOOLEAN : ValidateWording(r, passed)
           \/ \E failure \in ValidationFailures : ValidationFails(r, failure)
           \/ \E missing \in BOOLEAN : CheckNumericMatch(r, missing)
           \/ RecordRejectedIteration(r) \/ UnexpectedException(r)
  BY <1>1, <1>4 DEF ValidateWording, ValidationFails, CheckNumericMatch,
        RecordRejectedIteration, UnexpectedException, Raise, Goto, TypeOK,
        InTransaction, Iterating
<1>5. CASE LoadResponseUnavailable(r)
  BY <1>1, <1>5 DEF LoadResponseUnavailable, Raise, Goto, TypeOK
<1>6. CASE FinalizeAccepted(r) \/ FinalizeRejected(r) \/ MarkTaskError(r)
  BY <1>1, <1>6 DEF FinalizeAccepted, FinalizeRejected, MarkTaskError, Commit, Goto,
        TypeOK
<1>7. CASE \/ RefuseInput(r) \/ CreateTaskRowUnavailable(r) \/ LoadResponse(r)
           \/ MarkTaskErrorUnavailable(r) \/ AnswerError(r) \/ StatementFails(r)
           \/ CommitAckLost(r) \/ Cancel(r)
  BY <1>1, <1>7 DEF RefuseInput, CreateTaskRowUnavailable, LoadResponse,
        MarkTaskErrorUnavailable, AnswerError, StatementFails, CommitAckLost, Cancel,
        Abort, Close, Goto, TypeOK
<1> QED BY <1>2, <1>3, <1>4, <1>5, <1>6, <1>7 DEF Step, Fault

LEMMA StepKeepsConn ==
  ASSUME IInv, ConnInv, [Next]_vars PROVE ConnInv'
<1>1. CASE UNCHANGED vars
  BY <1>1 DEF vars, ConnInv, ConnectionsAccounted
<1>2. ASSUME NEW r \in Requests, Step(r) \/ Fault(r) PROVE ConnInv'
  <2>1. \A q \in Requests \ {r} : pc'[q] = pc[q]
    BY <1>2, EveryStepOK DEF StepOK, Untouched
  <2>2. "start" \notin InTransaction /\ "load" \notin InTransaction
        /\ "fail" \notin InTransaction /\ "done" \notin InTransaction
        /\ "mark" \notin InTransaction /\ "params" \in InTransaction
    BY DEF InTransaction, Iterating
  <2>3. CASE /\ pc[r] = "start" /\ Connected(r)
             /\ conn' = conn \cup {r} /\ pc'[r] = "params"
    <3>1. r \notin conn
      BY <2>2, <2>3 DEF ConnInv, ConnectionsAccounted
    <3>2. IsFiniteSet(conn') /\ Cardinality(conn') = Cardinality(conn) + 1
      BY <2>3, <3>1, FS_AddElement DEF ConnInv
    <3>3. Cardinality(conn) \in Nat
      BY FS_CardinalityType DEF ConnInv
    <3>4. Cardinality(conn') <= PoolLimit
      BY <2>3, <3>1, <3>2, <3>3, LimitsAssumption DEF Connected
    <3> QED BY <2>1, <2>2, <2>3, <3>2, <3>4 DEF ConnInv, ConnectionsAccounted
  <2>4. CASE conn' = conn \ {r} /\ pc'[r] \in {"load", "fail", "done"}
    <3>1. /\ IsFiniteSet(conn') /\ Cardinality(conn') <= Cardinality(conn)
          /\ Cardinality(conn') \in Nat /\ Cardinality(conn) \in Nat
      <4>1. conn' \subseteq conn
        BY <2>4
      <4> QED BY <4>1, FS_Subset, FS_CardinalityType DEF ConnInv
    <3>2. Cardinality(conn') <= PoolLimit
      BY <3>1, LimitsAssumption DEF ConnInv, ConnectionsAccounted
    <3> QED BY <2>1, <2>2, <2>4, <3>1, <3>2 DEF ConnInv, ConnectionsAccounted
  <2>5. CASE /\ conn' = conn /\ pc[r] \in InTransaction
             /\ pc'[r] \in InTransaction \cup {"mark"}
    BY <2>1, <2>5 DEF ConnInv, ConnectionsAccounted
  <2>6. CASE conn' = conn /\ pc[r] = "load" /\ pc'[r] = "mark"
    BY <2>1, <2>2, <2>6 DEF ConnInv, ConnectionsAccounted
  <2> QED BY <1>2, <2>3, <2>4, <2>5, <2>6, StepConnection
<1>3. CASE Crash
  <2>1. conn' = {} /\ \A r \in Requests : pc'[r] \in {"start", "done"}
    BY <1>3 DEF Crash, InFlight
  <2>2. IsFiniteSet({}) /\ Cardinality({}) = 0
    BY FS_EmptySet
  <2> QED BY <2>1, <2>2, LimitsAssumption
          DEF ConnInv, ConnectionsAccounted, InTransaction, Iterating
<1> QED BY <1>1, <1>2, <1>3 DEF Next, Finished

(* However requests end, no connection leaks, and the pool limit is kept   *)
(* for any number of requests.                                             *)
THEOREM NoConnectionLeaks == Spec => []ConnectionsAccounted
<1>1. Init => ConnInv
  <2>1. IsFiniteSet({}) /\ Cardinality({}) = 0
    BY FS_EmptySet
  <2> QED BY <2>1, LimitsAssumption
          DEF Init, ConnInv, ConnectionsAccounted, InTransaction, Iterating
<1>2. IInv /\ ConnInv /\ [Next]_vars => ConnInv'
  BY StepKeepsConn
<1>3. ConnInv => ConnectionsAccounted
  BY DEF ConnInv
<1> QED BY Invariant, <1>1, <1>2, <1>3, PTL DEF Spec

-----------------------------------------------------------------------------
(* The pipeline implements TaskPublication *)

(* The task of r appears with a final status, or becomes an error.         *)
Stores(r) ==
    \/ /\ db[r].status = "absent"
       /\ db'[r].status \in {"accepted", "rejected", "error"}
    \/ db[r].status \in {"accepted", "rejected"} /\ db'[r].status = "error"

(* The three commits of the pipeline, acknowledged or not.                 *)
LEMMA CommitStores ==
  ASSUME IInv, OutcomeInv, NEW r \in Requests,
         \/ pc[r] = "accept" /\ db' = [db EXCEPT ![r] = AcceptedRows(r)]
         \/ pc[r] = "loop" /\ db' = [db EXCEPT ![r] = RejectedRows(r)]
         \/ pc[r] = "mark" /\ db' = [db EXCEPT ![r] = ErrorRows(r)]
  PROVE  Stores(r)
<1>1. TypeOK /\ RequestInv(r) /\ OutcomeOf(r)
  BY DEF IInv, OutcomeInv
<1>2. tx[r] \in Rows
  BY <1>1 DEF TypeOK
<1>3. CASE pc[r] \in {"accept", "loop"}
  <2>1. db[r].status = "absent"
    BY <1>1, <1>3 DEF RequestInv, OutsideFollowsSteps, InTransaction, Iterating, NoRows
  <2>2. db'[r] \in {AcceptedRows(r), RejectedRows(r)}
    BY <1>1, <1>3 DEF TypeOK
  <2>3. db'[r].status \in {"accepted", "rejected"}
    BY <1>2, <2>2 DEF AcceptedRows, RejectedRows, Rows
  <2> QED BY <2>1, <2>3 DEF Stores
<1>4. CASE pc[r] = "mark"
  <2>1. db'[r] = ErrorRows(r)
    BY <1>1, <1>4 DEF TypeOK
  <2>2. db'[r].status = "error"
    BY <1>2, <2>1 DEF ErrorRows, Rows
  <2>3. db[r] = NoRows \/ db[r].status \in {"accepted", "rejected"}
    BY <1>1, <1>4 DEF OutcomeOf
  <2>4. NoRows.status = "absent"
    BY DEF NoRows
  <2> QED BY <2>2, <2>3, <2>4 DEF Stores
<1> QED BY <1>3, <1>4

(* What the outside sees of a step of r: it goes on, with its task stored  *)
(* or not, it ends in a failure, it is answered, or it is given up.        *)
LEMMA StepObserved ==
  ASSUME IInv, OutcomeInv, NEW r \in Requests, Step(r) \/ Fault(r)
  PROVE  /\ pc[r] # "done"
         /\ \/ /\ pc'[r] # "done" /\ reply' = reply
               /\ db'[r] = db[r] \/ Stores(r)
            \/ /\ pc'[r] = "done" /\ reply'[r] = "UNEXPECTED_INTERNAL_ERROR"
               /\ db'[r] = db[r] \/ Stores(r)
            \/ /\ pc'[r] = "done" /\ db'[r] = db[r]
               /\ reply'[r] \in {"accepted", "rejected", "INVALID_INPUT"} \cup Codes
            \/ /\ pc'[r] = "done" /\ db'[r] = db[r] /\ reply' = reply
<1>1. TypeOK /\ RequestInv(r) /\ OutcomeOf(r)
  BY DEF IInv, OutcomeInv
<1>2. CASE \/ CreateTaskRow(r) \/ RejectParams(r) \/ ResolveParams(r)
           \/ StartIteration(r)
           \/ \E w \in Wordings : GenerateWording(r, w)
           \/ \E code \in GenerationFailures : GenerationFails(r, code)
           \/ \E passed \in BOOLEAN : ValidateWording(r, passed)
           \/ \E failure \in ValidationFailures : ValidationFails(r, failure)
           \/ \E missing \in BOOLEAN : CheckNumericMatch(r, missing)
           \/ RecordRejectedIteration(r) \/ LoadResponseUnavailable(r)
           \/ UnexpectedException(r)
  BY <1>1, <1>2 DEF TypeOK, Goto, Raise, CreateTaskRow, RejectParams,
        ResolveParams, StartIteration, GenerateWording, GenerationFails,
        ValidateWording, ValidationFails, CheckNumericMatch,
        RecordRejectedIteration, LoadResponseUnavailable, UnexpectedException
<1>3. CASE FinalizeAccepted(r) \/ FinalizeRejected(r) \/ MarkTaskError(r)
  <2>1. Stores(r)
    BY <1>3, CommitStores DEF FinalizeAccepted, FinalizeRejected, MarkTaskError, Commit
  <2> QED
    BY <1>1, <1>3, <2>1 DEF FinalizeAccepted, FinalizeRejected, MarkTaskError, Goto,
          TypeOK
<1>4. CASE CommitAckLost(r)
  <2>1. Stores(r)
    BY <1>4, CommitStores DEF CommitAckLost
  <2> QED BY <1>1, <1>4, <2>1 DEF CommitAckLost, Abort, Close, Respond, Goto, TypeOK
<1>5. CASE \/ CreateTaskRowUnavailable(r) \/ MarkTaskErrorUnavailable(r)
           \/ StatementFails(r)
  BY <1>1, <1>5 DEF CreateTaskRowUnavailable, MarkTaskErrorUnavailable,
        StatementFails, Abort, Close, Respond, Goto, TypeOK
<1>6. CASE RefuseInput(r)
  BY <1>1, <1>6 DEF RefuseInput, Close, Respond, Goto, TypeOK
<1>7. CASE LoadResponse(r)
  <2>1. db[r].status \in {"accepted", "rejected"}
    BY <1>1, <1>7 DEF LoadResponse, RequestInv, OutsideFollowsSteps
  <2> QED BY <1>1, <1>7, <2>1 DEF LoadResponse, Close, Respond, Goto, TypeOK
<1>8. CASE AnswerError(r)
  <2>1. raised[r] \in Codes
    BY <1>1, <1>8 DEF AnswerError, RequestInv, OutsideFollowsSteps, Explained
  <2> QED BY <1>1, <1>8, <2>1 DEF AnswerError, Close, Respond, Goto, TypeOK
<1>9. CASE Cancel(r)
  BY <1>1, <1>9 DEF Cancel, Close, Goto, TypeOK
<1> QED
  BY <1>2, <1>3, <1>4, <1>5, <1>6, <1>7, <1>8, <1>9 DEF Step, Fault

-----------------------------------------------------------------------------
(* The variables of TaskPublication, by their values in this module.       *)
Stored == [r \in Requests |-> Published(db[r])]
Answers == [r \in Requests |-> Told(reply[r])]
Open == { r \in Requests : pc[r] # "done" }

(* The mapping of a step of r touches the entries of r only.               *)
LEMMA MappedEntries ==
  ASSUME NEW r \in Requests, \A q \in Requests \ {r} : Untouched(q), pc[r] # "done"
  PROVE  /\ Stored' = [Stored EXCEPT ![r] = Published(db'[r])]
         /\ Answers' = [Answers EXCEPT ![r] = Told(reply'[r])]
         /\ Open' = IF pc'[r] = "done" THEN Open \ {r} ELSE Open
         /\ r \in Open
<1>1. ASSUME NEW q \in Requests \ {r}
      PROVE  /\ Published(db'[q]) = Published(db[q])
             /\ Told(reply'[q]) = Told(reply[q])
             /\ pc'[q] = pc[q]
  BY DEF Untouched
<1>2. Stored' = [Stored EXCEPT ![r] = Published(db'[r])]
  <2> HIDE DEF Published
  <2> QED BY <1>1 DEF Stored
<1>3. Answers' = [Answers EXCEPT ![r] = Told(reply'[r])]
  BY <1>1 DEF Answers
<1>4. Open' = IF pc'[r] = "done" THEN Open \ {r} ELSE Open
  BY <1>1 DEF Open
<1> QED BY <1>2, <1>3, <1>4 DEF Open

LEMMA RefinesStep ==
  ASSUME IInv, OutcomeInv, NEW r \in Requests, Step(r) \/ Fault(r)
  PROVE  [Publication!Next]_(Publication!vars)
<1>1. /\ Stored' = [Stored EXCEPT ![r] = Published(db'[r])]
      /\ Answers' = [Answers EXCEPT ![r] = Told(reply'[r])]
      /\ Open' = IF pc'[r] = "done" THEN Open \ {r} ELSE Open
      /\ r \in Open
  BY StepObserved, EveryStepOK, MappedEntries DEF StepOK
<1>2. OutcomeOf(r)'
  BY StepOutcome, FaultOutcome
<1>3. Stored[r] = Published(db[r]) /\ Answers[r] = Told(reply[r])
  BY DEF Stored, Answers
<1>4. ASSUME db'[r] = db[r] PROVE Stored' = Stored
  BY <1>1, <1>3, <1>4 DEF Stored
<1>5. ASSUME reply' = reply PROVE Answers' = Answers
  BY <1>5 DEF Answers
<1>6. ASSUME Stores(r)
      PROVE  \E s \in Publication!Statuses :
                 /\ \/ Stored[r] = "none"
                    \/ Stored[r] \in {"accepted", "rejected"} /\ s = "error"
                 /\ Stored' = [Stored EXCEPT ![r] = s]
  <2>1. /\ Published(db'[r]) = db'[r].status
        /\ db'[r].status \in {"accepted", "rejected", "error"}
    BY <1>6 DEF Stores, Published
  <2>2. \/ Published(db[r]) = "none"
        \/ Published(db[r]) \in {"accepted", "rejected"} /\ db'[r].status = "error"
    BY <1>6 DEF Stores, Published
  <2> QED BY <1>1, <1>3, <2>1, <2>2 DEF Publication!Statuses
<1>7. CASE pc'[r] # "done" /\ reply' = reply /\ (db'[r] = db[r] \/ Stores(r))
  <2>1. Answers' = Answers /\ Open' = Open
    BY <1>1, <1>5, <1>7
  <2>2. CASE db'[r] = db[r]
    BY <1>4, <2>1, <2>2 DEF Publication!vars, Stored, Answers, Open
  <2>3. CASE Stores(r)
    <3>1. \E s \in Publication!Statuses : Publication!Publish(r, s)
      BY <1>1, <1>6, <2>1, <2>3
         DEF Publication!Publish, Publication!Store, Publication!Statuses,
             Stored, Answers, Open
    <3> QED BY <3>1 DEF Publication!Next
  <2> QED BY <1>7, <2>2, <2>3
<1>8. CASE /\ pc'[r] = "done" /\ reply'[r] = "UNEXPECTED_INTERNAL_ERROR"
           /\ db'[r] = db[r] \/ Stores(r)
  <2>1. Told(reply'[r]) = "failed"
    BY <1>8 DEF Told, DomainCodes
  <2>2. Publication!Answered(r, "failed")
    BY <1>1, <1>8, <2>1 DEF Publication!Answered, Answers, Open
  <2>3. CASE db'[r] = db[r]
    <3>1. Publication!Answer(r, "failed")
      BY <1>1, <1>4, <2>2, <2>3 DEF Publication!Answer, Stored, Open
    <3> QED BY <3>1 DEF Publication!Next, Publication!Answers
  <2>4. CASE Stores(r)
    <3>1. \E s \in Publication!Statuses : Publication!PublishUnnoticed(r, s)
      BY <1>1, <1>6, <2>2, <2>4
         DEF Publication!PublishUnnoticed, Publication!Store, Publication!Statuses,
             Stored, Open
    <3> QED BY <3>1 DEF Publication!Next
  <2> QED BY <1>8, <2>3, <2>4
<1>9. CASE /\ pc'[r] = "done" /\ db'[r] = db[r]
           /\ reply'[r] \in {"accepted", "rejected", "INVALID_INPUT"} \cup Codes
  <2> DEFINE told == Told(reply'[r])
  <2>1. Publication!Answered(r, told)
    BY <1>1, <1>9 DEF Publication!Answered, Answers, Open
  <2>2. told \in {"accepted", "rejected", "error", "refused", "failed"}
    BY <1>9 DEF Told, Codes, DomainCodes
  <2>3. told \in {"accepted", "rejected", "error"} => db[r].status = told
    BY <1>2, <1>9 DEF Told, Codes, DomainCodes, OutcomeOf
  <2>4. told = "refused" => db[r] = NoRows
    BY <1>2, <1>9 DEF Told, Codes, DomainCodes, OutcomeOf
  <2>5. told \in {"accepted", "rejected", "error"} => Published(db[r]) = told
    BY <2>3 DEF Published
  <2>6. NoRows.status = "absent"
    BY DEF NoRows
  <2>7. told = "refused" => Published(db[r]) = "none"
    BY <2>4, <2>6 DEF Published
  <2> HIDE DEF told
  <2>8. Publication!Answer(r, told)
    BY <1>1, <1>3, <1>4, <1>9, <2>1, <2>5, <2>7
       DEF Publication!Answer, Stored, Open
  <2> QED BY <2>2, <2>8 DEF Publication!Next, Publication!Answers, Publication!Statuses
<1>10. CASE pc'[r] = "done" /\ db'[r] = db[r] /\ reply' = reply
  <2>1. Publication!Vanish({r})
    BY <1>1, <1>4, <1>5, <1>10 DEF Publication!Vanish, Stored, Answers, Open
  <2>2. {r} \in SUBSET Requests
    OBVIOUS
  <2> QED BY <2>1, <2>2 DEF Publication!Next
<1> QED BY <1>7, <1>8, <1>9, <1>10, StepObserved

LEMMA RefinesNext ==
  ASSUME IInv, OutcomeInv, [Next]_vars PROVE [Publication!Next]_(Publication!vars)
<1>1. CASE UNCHANGED vars
  BY <1>1 DEF vars, Publication!vars
<1>2. CASE Crash
  <2>1. InFlight # {} /\ InFlight \subseteq Open /\ Open' = Open \ InFlight
    BY <1>2 DEF Crash, InFlight, Open
  <2>2. db' = db /\ reply' = reply /\ InFlight \in SUBSET Requests
    BY <1>2 DEF Crash, InFlight
  <2>3. \E lost \in SUBSET Requests : Publication!Vanish(lost)
    BY <2>1, <2>2 DEF Publication!Vanish, Open
  <2> QED BY <2>3 DEF Publication!Next
<1> QED BY <1>1, <1>2, RefinesStep DEF Next, Finished

(* For any requests, limits and faults, the pipeline does nothing that     *)
(* TaskPublication does not allow: tasks appear at once and final, answers *)
(* agree with them, and only an unanswered task can still change.          *)
THEOREM PipelinePublishes == Spec => ImplementsPublication
<1>1. Init => Publication!Init
  <2>1. NoRows.status = "absent"
    BY DEF NoRows
  <2>2. Published(NoRows) = "none" /\ Told("none") = "none"
    BY <2>1 DEF Published, Told, DomainCodes
  <2> QED BY <2>2 DEF Init, Publication!Init
<1> QED BY OutcomeAlways, <1>1, RefinesNext, PTL
        DEF Spec, ImplementsPublication, Publication!Spec
=============================================================================
