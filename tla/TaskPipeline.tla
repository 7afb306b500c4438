---------------------------- MODULE TaskPipeline ----------------------------
(***************************************************************************)
(* One uvicorn worker serving POST /tasks/generate: every request runs the *)
(* pipeline of TaskOrchestrator.execute in its own database session, and   *)
(* the requests of the worker share its connection pool.                   *)
(*                                                                         *)
(* A session writes its rows inside one transaction (session.flush), and   *)
(* only session.commit makes them visible: tx[r] holds the rows request r  *)
(* has written, db[r] the committed ones.  A step that fails, a cancelled  *)
(* handler and a dying process all roll the transaction back.              *)
(*                                                                         *)
(* Data is abstracted to what the properties distinguish: a wording is a   *)
(* member of Wordings, the five criteria of the validator are one reason   *)
(* "criterion", and parameters are resolved or not.                        *)
(***************************************************************************)
EXTENDS Integers, Sequences, FiniteSets

CONSTANTS
    Requests,          \* the generate requests this worker receives
    Wordings,          \* the texts the generating LLM may return
    NoWording,         \* NULL in a wording column
    MaxIterations,     \* MAX_LLM_ITERATIONS
    MaxParamAttempts,  \* ParamGeneratorService.MAX_PARAM_ATTEMPTS
    PoolLimit,         \* db_pool_size + db_max_overflow
    Faults             \* the faults of the environment that may happen

FaultKinds ==
    { "exception",    \* a non-domain exception outside the guarded LLM calls
      "statement",    \* the database refuses a statement or a COMMIT
      "lost_ack",     \* COMMIT is applied, its acknowledgement is lost
      "unreachable",  \* a connection cannot be opened
      "cancel",       \* the handler task is cancelled (client gone, shutdown)
      "crash" }       \* the worker process dies and is started again

ASSUME NoWordingAssumption == NoWording \notin Wordings
ASSUME LimitsAssumption ==
    /\ MaxIterations \in Nat \ {0}
    /\ MaxParamAttempts \in Nat \ {0}
    /\ PoolLimit \in Nat \ {0}
ASSUME FaultsAssumption == Faults \subseteq FaultKinds

VARIABLES
    pc,       \* where the coroutine of each request stands
    ctx,      \* _PipelineContext and the iteration counter
    raised,   \* error code of the exception being handled, "none" if none
    tx,       \* rows written by the request's open transaction
    db,       \* rows committed for the request's task
    conn,     \* requests that have a pooled connection checked out
    reply,    \* the HTTP answer given
    counted   \* status label the request added to tasks_generated_total

vars == <<pc, ctx, raised, tx, db, conn, reply, counted>>

-----------------------------------------------------------------------------
(* Values *)

Steps == { "start", "params", "loop", "generate", "validate", "numeric",
           "record", "accept", "load", "mark", "fail", "done" }

DomainCodes == { "PARAM_RETRY_EXHAUSTED", "LLM_GENERATION_FAILED",
                 "LLM_VALIDATION_FAILED", "LLM_TIMEOUT" }
Codes == DomainCodes \cup {"UNEXPECTED_INTERNAL_ERROR"}

(* Exceptions WordingGenerator.generate lets out; it has logged the call as *)
(* an error before raising either.                                          *)
GenerationFailures == { "LLM_TIMEOUT", "LLM_GENERATION_FAILED" }

(* Exceptions WordingValidator.validate lets out, each with the status its  *)
(* llm_calls row has: an answer that cannot be parsed was logged "success". *)
ValidationFailures ==
    { [code |-> "LLM_TIMEOUT",           call |-> "error"],
      [code |-> "LLM_VALIDATION_FAILED", call |-> "error"],
      [code |-> "LLM_VALIDATION_FAILED", call |-> "success"] }

Reasons == {"criterion", "numeric_match"}
CallStatus == {"none", "success", "error"}
MaybeWording == Wordings \cup {NoWording}
TaskStatus == {"absent", "pending", "accepted", "rejected", "error"}

(* A task_iterations row with the task_quality, rejection_reasons and      *)
(* llm_calls rows that point at it.                                        *)
Iteration == [ status     : {"absent", "error", "rejected", "accepted"},
               wording    : MaybeWording,
               stage      : {"none", "generation", "validation"},
               generation : CallStatus,
               validation : CallStatus,
               verdict    : {"none", "accepted", "rejected"},
               reasons    : SUBSET Reasons ]

NoIteration == [ status |-> "absent", wording |-> NoWording, stage |-> "none",
                 generation |-> "none", validation |-> "none",
                 verdict |-> "none", reasons |-> {} ]

(* A tasks row with its iterations and the number of its audit rows.       *)
Rows == [ status   : TaskStatus,
          resolved : BOOLEAN,
          final    : MaybeWording,
          total    : 0..MaxIterations,
          code     : Codes \cup {"none"},
          audits   : 0..MaxParamAttempts,
          iters    : [1..MaxIterations -> Iteration] ]

NoRows == [ status |-> "absent", resolved |-> FALSE, final |-> NoWording,
            total |-> 0, code |-> "none", audits |-> 0,
            iters |-> [k \in 1..MaxIterations |-> NoIteration] ]

NewContext == [ iter |-> 0, feedbacks |-> <<>>, previous |-> NoWording,
                last |-> NoWording ]

Context == [ iter      : 0..MaxIterations,
             feedbacks : Seq(SUBSET Reasons),
             previous  : MaybeWording,
             last      : MaybeWording ]

Replies == {"none", "INVALID_INPUT", "accepted", "rejected"} \cup Codes

TypeOK ==
    /\ pc \in [Requests -> Steps]
    /\ ctx \in [Requests -> Context]
    /\ raised \in [Requests -> Codes \cup {"none"}]
    /\ tx \in [Requests -> Rows]
    /\ db \in [Requests -> Rows]
    /\ conn \subseteq Requests
    /\ reply \in [Requests -> Replies]
    /\ counted \in [Requests -> {"none", "accepted", "rejected", "error"}]

Init ==
    /\ pc = [r \in Requests |-> "start"]
    /\ ctx = [r \in Requests |-> NewContext]
    /\ raised = [r \in Requests |-> "none"]
    /\ tx = [r \in Requests |-> NoRows]
    /\ db = [r \in Requests |-> NoRows]
    /\ conn = {}
    /\ reply = [r \in Requests |-> "none"]
    /\ counted = [r \in Requests |-> "none"]

-----------------------------------------------------------------------------
(* Sessions and connections *)

(* The session of r has a connection or the pool can hand it one.          *)
Connected(r) == r \in conn \/ Cardinality(conn) < PoolLimit

(* Checking a connection out fails: pool_timeout passed with the pool      *)
(* full, or the database cannot be reached.  The session stays usable.     *)
CheckoutFails(r) ==
    /\ r \notin conn
    /\ Cardinality(conn) >= PoolLimit \/ "unreachable" \in Faults

Goto(r, step) == pc' = [pc EXCEPT ![r] = step]

(* session.commit(): the rows become visible, the connection goes back.    *)
Commit(r, rows) ==
    /\ db' = [db EXCEPT ![r] = rows]
    /\ tx' = [tx EXCEPT ![r] = rows]
    /\ conn' = conn \ {r}

(* Mutant of Close: the connection is not given back.                      *)
CloseLeaksConnection(r) ==
    /\ Goto(r, "done")
    /\ ctx' = [ctx EXCEPT ![r] = NewContext]
    /\ raised' = [raised EXCEPT ![r] = "none"]
    /\ tx' = [tx EXCEPT ![r] = NoRows]
    /\ UNCHANGED conn

(* The end of get_db: closing the session rolls back what is not committed *)
(* and returns the connection; the coroutine's state is gone.              *)
Close(r) ==
    /\ Goto(r, "done")
    /\ ctx' = [ctx EXCEPT ![r] = NewContext]
    /\ raised' = [raised EXCEPT ![r] = "none"]
    /\ tx' = [tx EXCEPT ![r] = NoRows]
    /\ conn' = conn \ {r}

Respond(r, answer) == reply' = [reply EXCEPT ![r] = answer]

(* A database error leaves execute: _mark_task_error cannot commit on the  *)
(* broken session, so nothing is counted and the SQLAlchemyError handler   *)
(* answers 500.                                                            *)
Abort(r) == Close(r) /\ Respond(r, "UNEXPECTED_INTERNAL_ERROR")

(* An except clause of execute takes over.                                 *)
Raise(r, code) ==
    /\ raised' = [raised EXCEPT ![r] = code]
    /\ Goto(r, "mark")

-----------------------------------------------------------------------------
(* Input and parameters *)

(* _validate_input: an unknown type or subtype is refused before any row.  *)
RefuseInput(r) ==
    /\ pc[r] = "start"
    /\ Close(r)
    /\ Respond(r, "INVALID_INPUT")
    /\ UNCHANGED <<db, counted>>

(* Mutant of CreateTaskRow: the new row is committed, not only flushed.    *)
CreateTaskRowCommits(r) ==
    /\ pc[r] = "start"
    /\ Connected(r)
    /\ tx' = [tx EXCEPT ![r].status = "pending"]
    /\ db' = [db EXCEPT ![r].status = "pending"]
    /\ conn' = conn \cup {r}
    /\ Goto(r, "params")
    /\ UNCHANGED <<ctx, raised, reply, counted>>

CreateTaskRow(r) ==
    /\ pc[r] = "start"
    /\ Connected(r)
    /\ tx' = [tx EXCEPT ![r].status = "pending"]
    /\ conn' = conn \cup {r}
    /\ Goto(r, "params")
    /\ UNCHANGED <<ctx, raised, db, reply, counted>>

(* _create_task_row stands before the try block of execute: its error goes *)
(* straight to the SQLAlchemyError handler.                                *)
CreateTaskRowUnavailable(r) ==
    /\ pc[r] = "start"
    /\ CheckoutFails(r)
    /\ Abort(r)
    /\ UNCHANGED <<db, counted>>

(* Mutant of RejectParams: one attempt too many.                           *)
RejectParamsOnceMore(r) ==
    /\ pc[r] = "params"
    /\ tx' = [tx EXCEPT ![r].audits = @ + 1]
    /\ IF tx[r].audits < MaxParamAttempts
       THEN UNCHANGED <<pc, raised>>
       ELSE Raise(r, "PARAM_RETRY_EXHAUSTED")
    /\ UNCHANGED <<ctx, db, conn, reply, counted>>

(* One rejected attempt of ParamGeneratorService.generate leaves an audit  *)
(* row; the last one raises.                                               *)
RejectParams(r) ==
    /\ pc[r] = "params"
    /\ tx' = [tx EXCEPT ![r].audits = @ + 1]
    /\ IF tx[r].audits + 1 < MaxParamAttempts
       THEN UNCHANGED <<pc, raised>>
       ELSE Raise(r, "PARAM_RETRY_EXHAUSTED")
    /\ UNCHANGED <<ctx, db, conn, reply, counted>>

ResolveParams(r) ==
    /\ pc[r] = "params"
    /\ tx' = [tx EXCEPT ![r].resolved = TRUE]
    /\ ctx' = [ctx EXCEPT ![r] = NewContext]
    /\ Goto(r, "loop")
    /\ UNCHANGED <<raised, db, conn, reply, counted>>

-----------------------------------------------------------------------------
(* One iteration: generate, validate, check the numbers *)

StartIteration(r) ==
    /\ pc[r] = "loop"
    /\ ctx[r].iter < MaxIterations
    /\ ctx' = [ctx EXCEPT ![r].iter = @ + 1]
    /\ tx' = [tx EXCEPT ![r].iters[ctx[r].iter + 1].status = "error"]
    /\ Goto(r, "generate")
    /\ UNCHANGED <<raised, db, conn, reply, counted>>

GenerateWording(r, w) ==
    /\ pc[r] = "generate"
    /\ tx' = [tx EXCEPT ![r].iters[ctx[r].iter] =
                 [@ EXCEPT !.generation = "success", !.wording = w]]
    /\ ctx' = [ctx EXCEPT ![r].last = w]
    /\ Goto(r, "validate")
    /\ UNCHANGED <<raised, db, conn, reply, counted>>

(* Mutant of GenerationFails: the stage of the other step is written.      *)
GenerationFailsInValidation(r, code) ==
    /\ pc[r] = "generate"
    /\ tx' = [tx EXCEPT ![r].iters[ctx[r].iter] =
                 [@ EXCEPT !.generation = "error", !.stage = "validation"]]
    /\ Raise(r, code)
    /\ UNCHANGED <<ctx, db, conn, reply, counted>>

GenerationFails(r, code) ==
    /\ pc[r] = "generate"
    /\ tx' = [tx EXCEPT ![r].iters[ctx[r].iter] =
                 [@ EXCEPT !.generation = "error", !.stage = "generation"]]
    /\ Raise(r, code)
    /\ UNCHANGED <<ctx, db, conn, reply, counted>>

(* The validator answers; _save_quality stores the verdict and a rejection *)
(* reason for every failed criterion.                                      *)
ValidateWording(r, passed) ==
    /\ pc[r] = "validate"
    /\ tx' = [tx EXCEPT ![r].iters[ctx[r].iter] =
                 [@ EXCEPT !.validation = "success",
                           !.verdict = IF passed THEN "accepted" ELSE "rejected",
                           !.reasons = IF passed THEN {} ELSE {"criterion"}]]
    /\ Goto(r, IF passed THEN "numeric" ELSE "record")
    /\ UNCHANGED <<ctx, raised, db, conn, reply, counted>>

ValidationFails(r, failure) ==
    /\ pc[r] = "validate"
    /\ tx' = [tx EXCEPT ![r].iters[ctx[r].iter] =
                 [@ EXCEPT !.validation = failure.call, !.stage = "validation"]]
    /\ Raise(r, failure.code)
    /\ UNCHANGED <<ctx, db, conn, reply, counted>>

(* Mutant of CheckNumericMatch: the missing numbers are noted only.        *)
CheckNumericMatchOnlyNotes(r, missing) ==
    /\ pc[r] = "numeric"
    /\ tx' = [tx EXCEPT ![r].iters[ctx[r].iter].reasons =
                 IF missing THEN @ \cup {"numeric_match"} ELSE @]
    /\ Goto(r, "accept")
    /\ UNCHANGED <<ctx, raised, db, conn, reply, counted>>

CheckNumericMatch(r, missing) ==
    /\ pc[r] = "numeric"
    /\ tx' = [tx EXCEPT ![r].iters[ctx[r].iter].reasons =
                 IF missing THEN @ \cup {"numeric_match"} ELSE @]
    /\ Goto(r, IF missing THEN "record" ELSE "accept")
    /\ UNCHANGED <<ctx, raised, db, conn, reply, counted>>

(* Mutant of RecordRejectedIteration: only the last feedback is kept.      *)
RecordRejectedIterationForgets(r) ==
    /\ pc[r] = "record"
    /\ tx' = [tx EXCEPT ![r].iters[ctx[r].iter].status = "rejected"]
    /\ ctx' = [ctx EXCEPT ![r].feedbacks = <<tx[r].iters[ctx[r].iter].reasons>>,
                          ![r].previous = ctx[r].last]
    /\ Goto(r, "loop")
    /\ UNCHANGED <<raised, db, conn, reply, counted>>

(* Mutant of RecordRejectedIteration: the same iteration is run again, not *)
(* counted.                                                                *)
RecordRejectedIterationRepeats(r) ==
    /\ pc[r] = "record"
    /\ Goto(r, "generate")
    /\ UNCHANGED <<ctx, raised, tx, db, conn, reply, counted>>

RecordRejectedIteration(r) ==
    /\ pc[r] = "record"
    /\ tx' = [tx EXCEPT ![r].iters[ctx[r].iter].status = "rejected"]
    /\ ctx' = [ctx EXCEPT ![r].feedbacks =
                   Append(@, tx[r].iters[ctx[r].iter].reasons),
                          ![r].previous = ctx[r].last]
    /\ Goto(r, "loop")
    /\ UNCHANGED <<raised, db, conn, reply, counted>>

-----------------------------------------------------------------------------
(* Commit and answer *)

AcceptedRows(r) ==
    [tx[r] EXCEPT !.status = "accepted", !.final = ctx[r].last,
                  !.total = ctx[r].iter,
                  !.iters[ctx[r].iter].status = "accepted"]

RejectedRows(r) ==
    [tx[r] EXCEPT !.status = "rejected", !.final = ctx[r].last,
                  !.total = MaxIterations]

(* Mutant of ErrorRows: marking the error drops the wording.               *)
ErrorRowsWithoutWording(r) ==
    [tx[r] EXCEPT !.status = "error", !.code = raised[r], !.final = NoWording]

ErrorRows(r) == [tx[r] EXCEPT !.status = "error", !.code = raised[r]]

FinalizeAccepted(r) ==
    /\ pc[r] = "accept"
    /\ Commit(r, AcceptedRows(r))
    /\ Goto(r, "load")
    /\ UNCHANGED <<ctx, raised, reply, counted>>

(* Mutant of FinalizeRejected: the loop ends one iteration early.          *)
FinalizeRejectedEarly(r) ==
    /\ pc[r] = "loop"
    /\ ctx[r].iter >= MaxIterations - 1
    /\ Commit(r, RejectedRows(r))
    /\ Goto(r, "load")
    /\ UNCHANGED <<ctx, raised, reply, counted>>

FinalizeRejected(r) ==
    /\ pc[r] = "loop"
    /\ ctx[r].iter = MaxIterations
    /\ Commit(r, RejectedRows(r))
    /\ Goto(r, "load")
    /\ UNCHANGED <<ctx, raised, reply, counted>>

Profiled(rows) == { k \in 1..MaxIterations : rows.iters[k].verdict # "none" }

(* Mutant of Card: the profiles are looked through from the first one on.  *)
CardOfFirst(rows) ==
    IF Profiled(rows) = {}
    THEN NoIteration
    ELSE rows.iters[CHOOSE k \in Profiled(rows) : \A j \in Profiled(rows) : k <= j]

(* build_task_response: the card of a task, in the history, in an export   *)
(* or as the answer, shows the last quality profile there is.              *)
Card(rows) ==
    IF Profiled(rows) = {}
    THEN NoIteration
    ELSE rows.iters[CHOOSE k \in Profiled(rows) : \A j \in Profiled(rows) : j <= k]

(* _load_response_or_raise reads the card back over a connection checked   *)
(* out anew, execute counts the task and the endpoint answers 200.         *)
LoadResponse(r) ==
    /\ pc[r] = "load"
    /\ Connected(r)
    /\ Close(r)
    /\ Respond(r, db[r].status)
    /\ counted' = [counted EXCEPT ![r] = db[r].status]
    /\ UNCHANGED db

(* The checkout fails with sqlalchemy.exc.TimeoutError or a connection     *)
(* error; the "except Exception" clause of execute catches it.             *)
LoadResponseUnavailable(r) ==
    /\ pc[r] = "load"
    /\ CheckoutFails(r)
    /\ Raise(r, "UNEXPECTED_INTERNAL_ERROR")
    /\ UNCHANGED <<ctx, tx, db, conn, reply, counted>>

(* Mutant of MarkTaskError: the error status is flushed, not committed.    *)
MarkTaskErrorFlushes(r) ==
    /\ pc[r] = "mark"
    /\ Connected(r)
    /\ tx' = [tx EXCEPT ![r] = ErrorRows(r)]
    /\ conn' = conn \cup {r}
    /\ Goto(r, "fail")
    /\ UNCHANGED <<ctx, raised, db, reply, counted>>

MarkTaskError(r) ==
    /\ pc[r] = "mark"
    /\ Connected(r)
    /\ Commit(r, ErrorRows(r))
    /\ Goto(r, "fail")
    /\ UNCHANGED <<ctx, raised, reply, counted>>

(* Mutant of MarkTaskErrorUnavailable: the task is counted before it is    *)
(* known to be stored.                                                     *)
MarkTaskErrorUnavailableCounts(r) ==
    /\ pc[r] = "mark"
    /\ CheckoutFails(r)
    /\ Abort(r)
    /\ counted' = [counted EXCEPT ![r] = "error"]
    /\ UNCHANGED db

MarkTaskErrorUnavailable(r) ==
    /\ pc[r] = "mark"
    /\ CheckoutFails(r)
    /\ Abort(r)
    /\ UNCHANGED <<db, counted>>

(* _record_metrics("error"), re-raise, and the error handler's answer.     *)
AnswerError(r) ==
    /\ pc[r] = "fail"
    /\ Close(r)
    /\ Respond(r, raised[r])
    /\ counted' = [counted EXCEPT ![r] = "error"]
    /\ UNCHANGED db

-----------------------------------------------------------------------------
(* Faults *)

(* get_llm_adapter, _build_prompt and the parameter generators can raise   *)
(* outside the try blocks that turn exceptions into domain ones.           *)
UnexpectedException(r) ==
    /\ "exception" \in Faults
    /\ \/ pc[r] \in {"params", "generate", "validate"}
       \/ pc[r] = "loop" /\ ctx[r].iter = 0
    /\ Raise(r, "UNEXPECTED_INTERNAL_ERROR")
    /\ UNCHANGED <<ctx, tx, db, conn, reply, counted>>

(* Any flush, commit or select of the request is refused by the database.  *)
StatementFails(r) ==
    /\ "statement" \in Faults
    /\ pc[r] \notin {"fail", "done"}
    /\ Connected(r)
    /\ Abort(r)
    /\ UNCHANGED <<db, counted>>

(* COMMIT reaches the database, the connection breaks before the answer.   *)
CommitAckLost(r) ==
    /\ "lost_ack" \in Faults
    /\ Connected(r)
    /\ \/ /\ pc[r] = "accept"
          /\ db' = [db EXCEPT ![r] = AcceptedRows(r)]
       \/ /\ pc[r] = "loop" /\ ctx[r].iter = MaxIterations
          /\ db' = [db EXCEPT ![r] = RejectedRows(r)]
       \/ /\ pc[r] = "mark"
          /\ db' = [db EXCEPT ![r] = ErrorRows(r)]
    /\ Abort(r)
    /\ UNCHANGED counted

(* CancelledError is no Exception: execute does not handle it.             *)
Cancel(r) ==
    /\ "cancel" \in Faults
    /\ pc[r] \notin {"start", "done"}
    /\ Close(r)
    /\ UNCHANGED <<db, reply, counted>>

InFlight == { r \in Requests : pc[r] \notin {"start", "done"} }

(* The process dies: every request in flight is lost with its transaction, *)
(* the database drops the connections and the counters start from zero.    *)
Crash ==
    /\ "crash" \in Faults
    /\ InFlight # {}
    /\ pc' = [r \in Requests |-> IF r \in InFlight THEN "done" ELSE pc[r]]
    /\ ctx' = [r \in Requests |-> NewContext]
    /\ raised' = [r \in Requests |-> "none"]
    /\ tx' = [r \in Requests |-> NoRows]
    /\ conn' = {}
    /\ counted' = [r \in Requests |-> "none"]
    /\ UNCHANGED <<db, reply>>

-----------------------------------------------------------------------------
Step(r) ==
    \/ RefuseInput(r) \/ CreateTaskRow(r) \/ CreateTaskRowUnavailable(r)
    \/ RejectParams(r) \/ ResolveParams(r)
    \/ StartIteration(r)
    \/ \E w \in Wordings : GenerateWording(r, w)
    \/ \E code \in GenerationFailures : GenerationFails(r, code)
    \/ \E passed \in BOOLEAN : ValidateWording(r, passed)
    \/ \E failure \in ValidationFailures : ValidationFails(r, failure)
    \/ \E missing \in BOOLEAN : CheckNumericMatch(r, missing)
    \/ RecordRejectedIteration(r)
    \/ FinalizeAccepted(r) \/ FinalizeRejected(r)
    \/ LoadResponse(r) \/ LoadResponseUnavailable(r)
    \/ MarkTaskError(r) \/ MarkTaskErrorUnavailable(r)
    \/ AnswerError(r)

Fault(r) ==
    UnexpectedException(r) \/ StatementFails(r) \/ CommitAckLost(r) \/ Cancel(r)

(* Every request has been dealt with.                                      *)
Finished == (\A r \in Requests : pc[r] = "done") /\ UNCHANGED vars

Next ==
    \/ \E r \in Requests : Step(r) \/ Fault(r)
    \/ Crash
    \/ Finished

Spec == Init /\ [][Next]_vars

(* The event loop resumes every coroutine that can run, LLM calls end      *)
(* (timeout and attempt limit) and so does every wait for a connection.    *)
FairSpec == Spec /\ \A r \in Requests : WF_vars(Step(r))

-----------------------------------------------------------------------------
(* Safety *)

(* An iteration that was generated, judged and turned down, with a reason. *)
Rejected(it) ==
    /\ it.status = "rejected"
    /\ it.wording \in Wordings
    /\ it.stage = "none"
    /\ it.generation = "success" /\ it.validation = "success"
    /\ it.verdict \in {"accepted", "rejected"}
    /\ it.reasons = IF it.verdict = "rejected" THEN {"criterion"}
                                               ELSE {"numeric_match"}

Accepted(it) ==
    /\ it.status = "accepted"
    /\ it.wording \in Wordings
    /\ it.stage = "none"
    /\ it.generation = "success" /\ it.validation = "success"
    /\ it.verdict = "accepted"
    /\ it.reasons = {}

RejectedBefore(rows, n) == \A k \in 1..(n - 1) : Rejected(rows.iters[k])
AbsentAfter(rows, n) == \A k \in (n + 1)..MaxIterations : rows.iters[k] = NoIteration

Earned(rows) ==
    /\ rows.resolved
    /\ rows.total \in 1..MaxIterations
    /\ RejectedBefore(rows, rows.total)
    /\ Accepted(rows.iters[rows.total])
    /\ AbsentAfter(rows, rows.total)
    /\ rows.final = rows.iters[rows.total].wording

(* A task stored as accepted ends with the one iteration both the LLM and  *)
(* the numeric check let through, after rejected ones only; its wording is *)
(* that iteration's and no other (_run_iteration, _finalize_accepted).     *)
AcceptedIsEarned ==
    \A r \in Requests : db[r].status = "accepted" => Earned(db[r])

Exhausted(rows) ==
    /\ rows.resolved
    /\ rows.total = MaxIterations
    /\ RejectedBefore(rows, MaxIterations + 1)
    /\ rows.final = rows.iters[MaxIterations].wording

(* A task stored as rejected has used all its iterations, every one was    *)
(* rejected for a stored reason, and its wording is the last one generated *)
(* (_run_pipeline, _finalize_rejected).                                    *)
RejectedIsExhausted ==
    \A r \in Requests : db[r].status = "rejected" => Exhausted(db[r])

(* An iteration that broke off in a stage, and its llm_calls say so.       *)
BrokenGenerating == [NoIteration EXCEPT !.status = "error",
                        !.stage = "generation", !.generation = "error"]

BrokenValidating(w, call) ==
    [NoIteration EXCEPT !.status = "error", !.wording = w, !.stage = "validation",
                        !.generation = "success", !.validation = call]

BrokeOff(rows, shapes) ==
    \E n \in 1..MaxIterations :
        RejectedBefore(rows, n) /\ AbsentAfter(rows, n) /\ rows.iters[n] \in shapes

BrokeOffGenerating(rows) == BrokeOff(rows, {BrokenGenerating})
BrokeOffValidating(rows, calls) ==
    BrokeOff(rows, { BrokenValidating(w, call) : w \in Wordings, call \in calls })

Explained(rows, code) ==
    /\ code \in Codes
    /\ code = "PARAM_RETRY_EXHAUSTED" =>
          rows.audits = MaxParamAttempts /\ ~rows.resolved /\ AbsentAfter(rows, 0)
    /\ code = "LLM_GENERATION_FAILED" => BrokeOffGenerating(rows)
    /\ code = "LLM_VALIDATION_FAILED" =>
          BrokeOffValidating(rows, {"error", "success"})
    /\ code = "LLM_TIMEOUT" =>
          BrokeOffGenerating(rows) \/ BrokeOffValidating(rows, {"error"})

(* The error code of a stored task agrees with the rest of its rows: the   *)
(* audit of the parameter attempts, or the stage and the LLM calls of the  *)
(* last iteration, all earlier iterations being rejected (execute,         *)
(* _mark_task_error, _generate_wording, _validate_wording).                *)
ErrorIsExplained ==
    \A r \in Requests : db[r].status = "error" => Explained(db[r], db[r].code)

(* The profile on a card is that of the wording on it: an accepted task    *)
(* shows no reason of an earlier iteration, a rejected one shows why its   *)
(* last wording failed, and a task that broke off shows, if anything, why  *)
(* it was being regenerated (build_task_response).                         *)
CardAgrees ==
    \A r \in Requests :
        LET rows == db[r] IN
        /\ rows.status = "accepted" =>
              Card(rows).verdict = "accepted" /\ Card(rows).reasons = {}
        /\ rows.status = "rejected" => Card(rows).reasons # {}
        /\ rows.status \in {"accepted", "rejected"} => Card(rows).wording = rows.final
        /\ rows.status = "error" /\ rows.code # "UNEXPECTED_INTERNAL_ERROR" =>
              Card(rows).verdict = "none" \/ Card(rows).reasons # {}

(* The prompt of iteration n is built from the reasons of all n-1 rejected *)
(* iterations, in order, and from the wording rejected last: what the      *)
(* context carries is what the rows say (_record_rejected_iteration).      *)
RegenerationSeesHistory ==
    \A r \in Requests : pc[r] = "generate" =>
        LET n == ctx[r].iter IN
        /\ Len(ctx[r].feedbacks) = n - 1
        /\ \A k \in 1..(n - 1) :
              ctx[r].feedbacks[k] = tx[r].iters[k].reasons
        /\ ctx[r].previous = IF n = 1 THEN NoWording
                             ELSE tx[r].iters[n - 1].wording

-----------------------------------------------------------------------------
(* The inductive invariant: what holds of a request at every step, from    *)
(* which the properties of the stored rows follow once they are committed. *)

Iterating == {"loop", "generate", "validate", "numeric", "record", "accept"}
InTransaction == {"params"} \cup Iterating

Begun == [NoIteration EXCEPT !.status = "error"]
Generated(w) == [Begun EXCEPT !.generation = "success", !.wording = w]
Judged(w, verdict, reasons) ==
    [Generated(w) EXCEPT !.validation = "success", !.verdict = verdict,
                         !.reasons = reasons]

(* The rows in the transaction are those of the steps taken so far.        *)
RowsFollowSteps(r) ==
    LET n == ctx[r].iter
        last == ctx[r].last
        current == tx[r].iters[n]
    IN
    /\ pc[r] = "start" => tx[r] = NoRows
    /\ pc[r] = "params" =>
          /\ ~tx[r].resolved
          /\ tx[r].audits < MaxParamAttempts
          /\ AbsentAfter(tx[r], 0)
    /\ pc[r] \in Iterating => tx[r].resolved /\ AbsentAfter(tx[r], n)
    /\ pc[r] = "loop" =>
          /\ RejectedBefore(tx[r], n + 1)
          /\ n > 0 => last = current.wording
    /\ pc[r] \in Iterating \ {"loop"} =>
          n \in 1..MaxIterations /\ RejectedBefore(tx[r], n)
    /\ pc[r] = "generate" => current = Begun
    /\ pc[r] \in Iterating \ {"loop", "generate"} => last \in Wordings
    /\ pc[r] = "validate" => current = Generated(last)
    /\ pc[r] \in {"numeric", "accept"} => current = Judged(last, "accepted", {})
    /\ pc[r] = "record" =>
          \/ current = Judged(last, "rejected", {"criterion"})
          \/ current = Judged(last, "accepted", {"numeric_match"})
    /\ pc[r] = "mark" => Explained(tx[r], raised[r])

(* The number of iterations rejected so far.                               *)
Rejections(r) == IF pc[r] = "loop" THEN ctx[r].iter ELSE ctx[r].iter - 1

(* The context carries the reasons of the rejected iterations, in order.   *)
ContextFollowsRows(r) ==
    pc[r] \in Iterating =>
        /\ Len(ctx[r].feedbacks) = Rejections(r)
        /\ \A k \in 1..Rejections(r) :
              ctx[r].feedbacks[k] = tx[r].iters[k].reasons
        /\ ctx[r].previous = IF Rejections(r) = 0 THEN NoWording
                             ELSE tx[r].iters[Rejections(r)].wording

(* What is committed, answered and counted, by step.                       *)
OutsideFollowsSteps(r) ==
    /\ pc[r] \in {"start"} \cup InTransaction => db[r] = NoRows
    /\ pc[r] = "load" => db[r].status \in {"accepted", "rejected"}
    /\ pc[r] = "fail" => db[r].status = "error" /\ db[r].code = raised[r]
    /\ pc[r] # "done" => reply[r] = "none" /\ counted[r] = "none"
    /\ db[r].status = "accepted" => Earned(db[r])
    /\ db[r].status = "rejected" => Exhausted(db[r])
    /\ db[r].status = "error" => Explained(db[r], db[r].code)

RequestInv(r) ==
    RowsFollowSteps(r) /\ ContextFollowsRows(r) /\ OutsideFollowsSteps(r)

IInv == TypeOK /\ \A r \in Requests : RequestInv(r)

-----------------------------------------------------------------------------
(* Answers, counters and connections *)

(* What a client was told stays true of the stored task: 200 with a status *)
(* means a task with that status, an error code with a task_id means a     *)
(* task in error with that code, and refused input left nothing behind.    *)
ReplyMatchesRow ==
    \A r \in Requests :
        /\ reply[r] \in {"accepted", "rejected"} => db[r].status = reply[r]
        /\ reply[r] \in DomainCodes =>
              db[r].status = "error" /\ db[r].code = reply[r]
        /\ reply[r] = "INVALID_INPUT" => db[r] = NoRows

(* Every task counted in tasks_generated_total is stored with the status   *)
(* it was counted under (execute commits before _record_metrics).          *)
CountedMatchesRow ==
    \A r \in Requests : counted[r] # "none" => db[r].status = counted[r]

(* A connection is out of the pool exactly for the transactions that may   *)
(* hold one, and the pool limit is never passed: no path through success,  *)
(* error, cancellation or crash leaks a connection.                        *)
ConnectionsAccounted ==
    /\ { r \in Requests : pc[r] \in InTransaction } \subseteq conn
    /\ conn \subseteq { r \in Requests : pc[r] \in InTransaction \cup {"mark"} }
    /\ Cardinality(conn) <= PoolLimit

(* Rows once committed are not lost or rewritten: a later step may turn a  *)
(* stored task into an error, but keeps its iterations, wording and audit. *)
CommittedWorkIsKept ==
    [][\A r \in Requests : db[r].status # "absent" =>
          \E status \in TaskStatus, code \in Codes \cup {"none"} :
              db'[r] = [db[r] EXCEPT !.status = status, !.code = code]]_vars

-----------------------------------------------------------------------------
(* The abstract specification this one implements *)

(* The status readers see, and what an HTTP answer tells the client.       *)
Published(rows) == IF rows.status = "absent" THEN "none" ELSE rows.status

Told(answer) ==
    CASE answer \in DomainCodes -> "error"
      [] answer = "INVALID_INPUT" -> "refused"
      [] answer = "UNEXPECTED_INTERNAL_ERROR" -> "failed"
      [] OTHER -> answer

Publication == INSTANCE TaskPublication WITH
    stored <- [r \in Requests |-> Published(db[r])],
    answer <- [r \in Requests |-> Told(reply[r])],
    open <- { r \in Requests : pc[r] # "done" }

(* What clients and readers of the database can observe is a task that     *)
(* appears at once with a final status and an answer consistent with it.   *)
ImplementsPublication == Publication!Spec

-----------------------------------------------------------------------------
(* Liveness *)

(* Every request comes to its end, however the requests compete for        *)
(* connections and whatever befalls the others, and with an answer unless  *)
(* that end is its cancellation or the death of its process.               *)
EveryRequestIsAnswered ==
    /\ \A r \in Requests : (pc[r] = "start") ~> (pc[r] = "done")
    /\ [][\A r \in Requests :
             pc[r] # "done" /\ pc'[r] = "done" /\ reply'[r] = "none" => Cancel(r) \/ Crash]_vars

-----------------------------------------------------------------------------
(* What the repository says and the code does not do *)

(* test_persistence.py, TestTerminalStatusImmutability: the statuses       *)
(* accepted, rejected and error are irreversible.                          *)
TerminalStatusIsFinal ==
    [][\A r \in Requests : db[r].status \in {"accepted", "rejected", "error"} =>
          db'[r].status = db[r].status]_vars

(* _create_task_row: when the process dies between two stages the row      *)
(* stays in the database as pending.                                       *)
CrashLeavesPending ==
    [][Crash => \A r \in Requests :
          tx[r].status = "pending" => db'[r].status = "pending"]_vars

(* _handle_sqlalchemy_error: "the request was not carried out".            *)
InternalErrorMeansNotDone ==
    \A r \in Requests : reply[r] = "UNEXPECTED_INTERNAL_ERROR" =>
        db[r].status \notin {"accepted", "rejected"}
=============================================================================
