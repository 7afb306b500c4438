------------------------- MODULE TaskPipelineProofs -------------------------
(***************************************************************************)
(* Theorems about TaskPipeline, for every value of its constants.          *)
(*                                                                         *)
(* IInv says what holds of each request at each of its steps.  An action   *)
(* of request r leaves the other requests untouched (Untouched), so for    *)
(* every action one lemma shows that it keeps the types and the invariant  *)
(* of r itself (StepOK); StepKeepsIInv puts them together.                 *)
(***************************************************************************)
EXTENDS TaskPipeline, FiniteSetTheorems, TLAPS

-----------------------------------------------------------------------------
(* Types of the blank records, and the frame of a step *)

LEMMA BlankTypes == NoIteration \in Iteration /\ NoRows \in Rows /\ NewContext \in Context
  BY LimitsAssumption
     DEF NoIteration, Iteration, NoRows, Rows, NewContext, Context, CallStatus,
         MaybeWording, Reasons, TaskStatus, Codes, DomainCodes

(* What of request q a step of another request leaves as it is.            *)
Untouched(q) ==
    /\ pc'[q] = pc[q] /\ ctx'[q] = ctx[q] /\ raised'[q] = raised[q]
    /\ tx'[q] = tx[q] /\ db'[q] = db[q]
    /\ reply'[q] = reply[q] /\ counted'[q] = counted[q]

StepOK(r) ==
    /\ TypeOK'
    /\ RequestInv(r)'
    /\ \A q \in Requests \ {r} : Untouched(q)

LEMMA UntouchedKeepsInv ==
  ASSUME NEW q \in Requests, RequestInv(q), Untouched(q)
  PROVE  RequestInv(q)'
<1>1. RowsFollowSteps(q)'
  BY DEF RequestInv, Untouched, RowsFollowSteps
<1>2. ContextFollowsRows(q)'
  BY DEF RequestInv, Untouched, ContextFollowsRows, Rejections
<1>3. OutsideFollowsSteps(q)'
  BY DEF RequestInv, Untouched, OutsideFollowsSteps
<1> QED BY <1>1, <1>2, <1>3 DEF RequestInv

(* A request that is done has nothing left to say but what is committed.   *)
LEMMA ClosedInv ==
  ASSUME NEW r \in Requests, pc'[r] = "done",
         db'[r].status = "accepted" => Earned(db'[r]),
         db'[r].status = "rejected" => Exhausted(db'[r]),
         db'[r].status = "error" => Explained(db'[r], db'[r].code)
  PROVE  RequestInv(r)'
  BY DEF RequestInv, RowsFollowSteps, ContextFollowsRows, OutsideFollowsSteps,
         Iterating, InTransaction

-----------------------------------------------------------------------------
(* Input and parameters *)

LEMMA RefuseInputStep ==
  ASSUME IInv, NEW r \in Requests, RefuseInput(r) PROVE StepOK(r)
<1> USE DEF IInv
<1>1. TypeOK'
  BY BlankTypes DEF TypeOK, RefuseInput, Close, Respond, Goto, Steps, Replies
<1>2. RequestInv(r)'
  <2>1. pc'[r] = "done" /\ db'[r] = db[r]
    BY DEF TypeOK, RefuseInput, Close, Goto
  <2> QED BY <2>1, ClosedInv DEF RequestInv, OutsideFollowsSteps
<1>3. \A q \in Requests \ {r} : Untouched(q)
  BY DEF TypeOK, RefuseInput, Close, Respond, Goto, Untouched
<1> QED BY <1>1, <1>2, <1>3 DEF StepOK

LEMMA CreateTaskRowStep ==
  ASSUME IInv, NEW r \in Requests, CreateTaskRow(r) PROVE StepOK(r)
<1> USE DEF IInv
<1>1. TypeOK'
  BY DEF TypeOK, CreateTaskRow, Goto, Steps, Rows, TaskStatus
<1>2. RequestInv(r)'
  <2>1. pc'[r] = "params" /\ tx'[r] = [NoRows EXCEPT !.status = "pending"]
        /\ db'[r] = db[r] /\ reply'[r] = reply[r] /\ counted'[r] = counted[r]
    BY DEF TypeOK, CreateTaskRow, Goto, RequestInv, RowsFollowSteps
  <2>2. pc[r] = "start"
    BY DEF CreateTaskRow
  <2>3. RowsFollowSteps(r)'
    BY <2>1, LimitsAssumption
       DEF RowsFollowSteps, NoRows, AbsentAfter, Iterating
  <2>4. ContextFollowsRows(r)'
    BY <2>1 DEF ContextFollowsRows, Iterating
  <2>5. OutsideFollowsSteps(r)'
    BY <2>1, <2>2 DEF RequestInv, OutsideFollowsSteps, InTransaction
  <2> QED BY <2>3, <2>4, <2>5 DEF RequestInv
<1>3. \A q \in Requests \ {r} : Untouched(q)
  BY DEF TypeOK, CreateTaskRow, Goto, Untouched
<1> QED BY <1>1, <1>2, <1>3 DEF StepOK

LEMMA RejectParamsStep ==
  ASSUME IInv, NEW r \in Requests, RejectParams(r) PROVE StepOK(r)
<1> USE DEF IInv
<1>1. TypeOK'
  <2>1. tx[r].audits + 1 \in 0..MaxParamAttempts
    BY LimitsAssumption DEF TypeOK, RejectParams, RequestInv, RowsFollowSteps, Rows
  <2>2. tx' \in [Requests -> Rows]
    BY <2>1 DEF TypeOK, RejectParams, Rows
  <2> QED
    BY <2>2 DEF TypeOK, RejectParams, Raise, Goto, Steps, Codes, DomainCodes
<1>2. RequestInv(r)'
  <2>1. pc[r] = "params" /\ tx[r] \in Rows
    BY DEF TypeOK, RejectParams
  <2>2. tx'[r] = [tx[r] EXCEPT !.audits = @ + 1]
        /\ db'[r] = db[r] /\ reply'[r] = reply[r] /\ counted'[r] = counted[r]
    BY DEF TypeOK, RejectParams
  <2>3. tx'[r].iters = tx[r].iters /\ tx'[r].resolved = tx[r].resolved
        /\ tx'[r].audits = tx[r].audits + 1
    BY <2>1, <2>2 DEF Rows
  <2>4. ~tx[r].resolved /\ tx[r].audits < MaxParamAttempts /\ AbsentAfter(tx[r], 0)
        /\ db[r] = NoRows /\ reply[r] = "none" /\ counted[r] = "none"
    BY <2>1 DEF RequestInv, RowsFollowSteps, OutsideFollowsSteps, InTransaction
  <2>5. AbsentAfter(tx'[r], 0)
    BY <2>3, <2>4 DEF AbsentAfter
  <2>6. CASE tx[r].audits + 1 < MaxParamAttempts
    <3>1. pc'[r] = "params"
      BY <2>1, <2>6 DEF RejectParams
    <3> QED
      BY <3>1, <2>2, <2>3, <2>4, <2>5, <2>6
         DEF RequestInv, RowsFollowSteps, ContextFollowsRows, OutsideFollowsSteps,
             Iterating, NoRows
  <2>7. CASE ~(tx[r].audits + 1 < MaxParamAttempts)
    <3>1. pc'[r] = "mark" /\ raised'[r] = "PARAM_RETRY_EXHAUSTED"
      BY <2>7 DEF TypeOK, RejectParams, Raise, Goto
    <3>2. tx[r].audits + 1 = MaxParamAttempts
      BY <2>1, <2>4, <2>7, LimitsAssumption DEF Rows
    <3>3. Explained(tx'[r], raised'[r])
      BY <3>1, <3>2, <2>3, <2>4, <2>5 DEF Explained, Codes, DomainCodes
    <3> QED
      BY <3>1, <3>3, <2>2, <2>4
         DEF RequestInv, RowsFollowSteps, ContextFollowsRows, OutsideFollowsSteps,
             Iterating, InTransaction, NoRows
  <2> QED BY <2>6, <2>7
<1>3. \A q \in Requests \ {r} : Untouched(q)
  BY DEF TypeOK, RejectParams, Raise, Goto, Untouched
<1> QED BY <1>1, <1>2, <1>3 DEF StepOK

LEMMA ResolveParamsStep ==
  ASSUME IInv, NEW r \in Requests, ResolveParams(r) PROVE StepOK(r)
<1> USE DEF IInv
<1>1. TypeOK'
  BY BlankTypes DEF TypeOK, ResolveParams, Goto, Steps, Rows
<1>2. RequestInv(r)'
  <2>1. pc[r] = "params" /\ tx[r] \in Rows
    BY DEF TypeOK, ResolveParams
  <2>2. pc'[r] = "loop" /\ ctx'[r] = NewContext
        /\ tx'[r] = [tx[r] EXCEPT !.resolved = TRUE]
        /\ db'[r] = db[r] /\ reply'[r] = reply[r] /\ counted'[r] = counted[r]
    BY DEF TypeOK, ResolveParams, Goto
  <2>3. tx'[r].iters = tx[r].iters /\ tx'[r].resolved
    BY <2>1, <2>2 DEF Rows
  <2>4. AbsentAfter(tx'[r], 0)
    BY <2>1, <2>3 DEF RequestInv, RowsFollowSteps, AbsentAfter
  <2>5. RejectedBefore(tx'[r], 0 + 1)
    BY DEF RejectedBefore
  <2>6. RowsFollowSteps(r)'
    BY <2>2, <2>3, <2>4, <2>5 DEF RowsFollowSteps, NewContext, Iterating
  <2>7. ContextFollowsRows(r)'
    BY <2>2 DEF ContextFollowsRows, NewContext, Rejections
  <2>8. OutsideFollowsSteps(r)'
    BY <2>1, <2>2 DEF RequestInv, OutsideFollowsSteps, InTransaction, NoRows
  <2> QED BY <2>6, <2>7, <2>8 DEF RequestInv
<1>3. \A q \in Requests \ {r} : Untouched(q)
  BY DEF TypeOK, ResolveParams, Goto, Untouched
<1> QED BY <1>1, <1>2, <1>3 DEF StepOK

-----------------------------------------------------------------------------
(* One iteration *)

LEMMA RowsWithIteration ==
  ASSUME NEW rows \in Rows, NEW k \in 1..MaxIterations, NEW it \in Iteration
  PROVE  [rows EXCEPT !.iters[k] = it] \in Rows
  BY DEF Rows

(* Writing the row of one iteration: the types, and the rows around it.    *)
LEMMA WriteIteration ==
  ASSUME TypeOK, NEW r \in Requests, NEW n \in 1..MaxIterations,
         NEW it \in Iteration,
         tx' = [tx EXCEPT ![r].iters[n] = it]
  PROVE  /\ tx' \in [Requests -> Rows]
         /\ tx'[r].iters[n] = it
         /\ tx'[r].resolved = tx[r].resolved
         /\ \A k \in 1..MaxIterations : k # n => tx'[r].iters[k] = tx[r].iters[k]
         /\ RejectedBefore(tx[r], n) => RejectedBefore(tx'[r], n)
         /\ AbsentAfter(tx[r], n) => AbsentAfter(tx'[r], n)
<1>1. tx[r] \in Rows /\ tx[r].iters \in [1..MaxIterations -> Iteration]
  BY DEF TypeOK, Rows
<1>2. tx'[r] = [tx[r] EXCEPT !.iters[n] = it]
  BY DEF TypeOK
<1>4. tx'[r] \in Rows
  BY <1>1, <1>2, RowsWithIteration
<1>5. tx' \in [Requests -> Rows]
  BY <1>2, <1>4 DEF TypeOK
<1>6. tx'[r].iters = [tx[r].iters EXCEPT ![n] = it] /\ tx'[r].resolved = tx[r].resolved
  BY <1>1, <1>2 DEF Rows
<1>7. tx'[r].iters[n] = it
      /\ \A k \in 1..MaxIterations : k # n => tx'[r].iters[k] = tx[r].iters[k]
  BY <1>1, <1>6
<1>8. RejectedBefore(tx[r], n) => RejectedBefore(tx'[r], n)
  <2>1. \A k \in 1..(n - 1) : k \in 1..MaxIterations /\ k # n
    BY LimitsAssumption
  <2> QED BY <2>1, <1>7 DEF RejectedBefore
<1>9. AbsentAfter(tx[r], n) => AbsentAfter(tx'[r], n)
  <2>1. \A k \in (n + 1)..MaxIterations : k \in 1..MaxIterations /\ k # n
    BY LimitsAssumption
  <2> QED BY <2>1, <1>7 DEF AbsentAfter
<1> QED BY <1>5, <1>6, <1>7, <1>8, <1>9

(* The current iteration of a request that is working on one.              *)
LEMMA CurrentIteration ==
  ASSUME IInv, NEW r \in Requests, pc[r] \in Iterating \ {"loop"}
  PROVE  /\ ctx[r] \in Context /\ tx[r] \in Rows
         /\ ctx[r].iter \in 1..MaxIterations
         /\ tx[r].iters[ctx[r].iter] \in Iteration
         /\ tx[r].resolved
         /\ RejectedBefore(tx[r], ctx[r].iter) /\ AbsentAfter(tx[r], ctx[r].iter)
<1>1. ctx[r] \in Context /\ tx[r] \in Rows
  BY DEF IInv, TypeOK
<1>2. /\ ctx[r].iter \in 1..MaxIterations /\ tx[r].resolved
      /\ RejectedBefore(tx[r], ctx[r].iter) /\ AbsentAfter(tx[r], ctx[r].iter)
  BY DEF IInv, RequestInv, RowsFollowSteps
<1>3. tx[r].iters[ctx[r].iter] \in Iteration
  BY <1>1, <1>2 DEF Rows
<1> QED BY <1>1, <1>2, <1>3

(* Inside an iteration the context stands for the iterations before it, so *)
(* writing the current one keeps it true.                                  *)
LEMMA ContextKept ==
  ASSUME IInv, NEW r \in Requests, pc[r] \in Iterating \ {"loop"},
         pc'[r] # "loop",
         ctx'[r].iter = ctx[r].iter, ctx'[r].feedbacks = ctx[r].feedbacks,
         ctx'[r].previous = ctx[r].previous,
         \A k \in 1..MaxIterations : k # ctx[r].iter =>
            tx'[r].iters[k] = tx[r].iters[k]
  PROVE  ContextFollowsRows(r)'
<1> DEFINE n == ctx[r].iter
<1>1. n \in 1..MaxIterations
  BY CurrentIteration
<1>2. /\ Rejections(r) = n - 1 /\ n - 1 \in Nat
      /\ pc'[r] \in Iterating => Rejections(r)' = n - 1
  BY <1>1 DEF Rejections
<1>3. \A k \in 1..(n - 1) : tx'[r].iters[k] = tx[r].iters[k]
  <2> TAKE k \in 1..(n - 1)
  <2>1. k \in 1..MaxIterations /\ k # n
    BY <1>1, LimitsAssumption
  <2> QED BY <2>1
<1> HIDE DEF n
<1>4. /\ Len(ctx[r].feedbacks) = n - 1
      /\ \A k \in 1..(n - 1) : ctx[r].feedbacks[k] = tx[r].iters[k].reasons
      /\ ctx[r].previous = IF n - 1 = 0 THEN NoWording ELSE tx[r].iters[n - 1].wording
  BY <1>2 DEF IInv, RequestInv, ContextFollowsRows
<1>5. n - 1 # 0 => tx'[r].iters[n - 1] = tx[r].iters[n - 1]
  <2>1. n - 1 # 0 => n - 1 \in 1..(n - 1)
    BY <1>1
  <2> QED BY <2>1, <1>3
<1> QED BY <1>2, <1>3, <1>4, <1>5 DEF ContextFollowsRows

(* Between the first row and the commit nothing is visible outside.        *)
LEMMA NothingOutside ==
  ASSUME IInv, NEW r \in Requests, pc[r] \in {"start"} \cup InTransaction,
         db'[r] = db[r], reply'[r] = reply[r], counted'[r] = counted[r],
         pc'[r] \in InTransaction \cup {"mark"}
  PROVE  OutsideFollowsSteps(r)'
<1>1. db[r] = NoRows /\ pc[r] # "done"
  BY DEF IInv, RequestInv, OutsideFollowsSteps, InTransaction, Iterating
<1>2. reply[r] = "none" /\ counted[r] = "none"
  BY <1>1 DEF IInv, RequestInv, OutsideFollowsSteps
<1>3. pc'[r] # "load" /\ pc'[r] # "fail"
  BY DEF InTransaction, Iterating
<1> QED BY <1>1, <1>2, <1>3 DEF OutsideFollowsSteps, NoRows

LEMMA StartIterationStep ==
  ASSUME IInv, NEW r \in Requests, StartIteration(r) PROVE StepOK(r)
<1> DEFINE n == ctx[r].iter
<1>1. /\ TypeOK /\ RequestInv(r)
      /\ pc[r] = "loop" /\ tx[r] \in Rows /\ ctx[r] \in Context
      /\ n \in 0..MaxIterations /\ n + 1 \in 1..MaxIterations
  BY LimitsAssumption DEF IInv, TypeOK, StartIteration, Context
<1>2. AbsentAfter(tx[r], n) /\ RejectedBefore(tx[r], n + 1) /\ tx[r].resolved
  BY <1>1 DEF RequestInv, RowsFollowSteps, Iterating
<1>3. tx[r].iters[n + 1] = NoIteration /\ AbsentAfter(tx[r], n + 1)
  BY <1>1, <1>2 DEF AbsentAfter
<1>4. tx' = [tx EXCEPT ![r].iters[n + 1] = Begun]
  BY <1>1, <1>3 DEF StartIteration, Begun
<1>5. Begun \in Iteration
  BY DEF Begun, NoIteration, Iteration, CallStatus, MaybeWording, Reasons
<1>6. /\ tx' \in [Requests -> Rows]
      /\ tx'[r].iters[n + 1] = Begun /\ tx'[r].resolved
      /\ RejectedBefore(tx'[r], n + 1) /\ AbsentAfter(tx'[r], n + 1)
      /\ \A k \in 1..MaxIterations : k # n + 1 => tx'[r].iters[k] = tx[r].iters[k]
  <2> HIDE DEF n
  <2> QED BY <1>1, <1>2, <1>3, <1>4, <1>5, WriteIteration
<1>7. pc'[r] = "generate" /\ ctx'[r] = [ctx[r] EXCEPT !.iter = n + 1]
      /\ db'[r] = db[r] /\ reply'[r] = reply[r] /\ counted'[r] = counted[r]
  BY <1>1 DEF TypeOK, StartIteration, Goto
<1>8. ctx'[r].iter = n + 1 /\ ctx'[r].feedbacks = ctx[r].feedbacks
      /\ ctx'[r].previous = ctx[r].previous
  BY <1>1, <1>7 DEF Context
<1>9. TypeOK'
  <2>1. ctx'[r] \in Context
    BY <1>1, <1>7 DEF Context
  <2>2. ctx' \in [Requests -> Context]
    BY <1>1, <2>1 DEF TypeOK, StartIteration
  <2> QED BY <1>1, <1>6, <2>2 DEF TypeOK, StartIteration, Goto, Steps
<1>10. RowsFollowSteps(r)'
  BY <1>1, <1>6, <1>7, <1>8 DEF RowsFollowSteps, Iterating
<1>11. ContextFollowsRows(r)'
  <2>1. Rejections(r) = n /\ Rejections(r)' = n
    BY <1>1, <1>7, <1>8 DEF Rejections
  <2>2. \A k \in 1..n : tx'[r].iters[k] = tx[r].iters[k]
    <3> TAKE k \in 1..n
    <3>1. k \in 1..MaxIterations /\ k # n + 1
      BY <1>1, LimitsAssumption
    <3> QED BY <3>1, <1>6
  <2> HIDE DEF n
  <2>3. /\ Len(ctx[r].feedbacks) = n
        /\ \A k \in 1..n : ctx[r].feedbacks[k] = tx[r].iters[k].reasons
        /\ ctx[r].previous = IF n = 0 THEN NoWording ELSE tx[r].iters[n].wording
    BY <1>1, <2>1 DEF RequestInv, ContextFollowsRows, Iterating
  <2>4. n # 0 => tx'[r].iters[n] = tx[r].iters[n]
    BY <1>1, <2>2
  <2> QED BY <2>1, <2>2, <2>3, <2>4, <1>7, <1>8 DEF ContextFollowsRows
<1>12. OutsideFollowsSteps(r)'
  BY <1>1, <1>7, NothingOutside DEF InTransaction, Iterating
<1>13. \A q \in Requests \ {r} : Untouched(q)
  BY <1>1 DEF TypeOK, StartIteration, Goto, Untouched
<1> QED BY <1>9, <1>10, <1>11, <1>12, <1>13 DEF StepOK, RequestInv

LEMMA GenerateWordingStep ==
  ASSUME IInv, NEW r \in Requests, NEW w \in Wordings, GenerateWording(r, w)
  PROVE  StepOK(r)
<1> DEFINE n == ctx[r].iter
<1>1. TypeOK /\ RequestInv(r) /\ pc[r] = "generate" /\ tx[r].iters[n] = Begun
  BY DEF IInv, GenerateWording, RequestInv, RowsFollowSteps
<1>2. /\ ctx[r] \in Context /\ n \in 1..MaxIterations /\ tx[r].resolved
      /\ RejectedBefore(tx[r], n) /\ AbsentAfter(tx[r], n)
  BY <1>1, CurrentIteration DEF Iterating
<1>3. Generated(w) \in Iteration
  BY DEF Generated, Begun, NoIteration, Iteration, CallStatus, MaybeWording, Reasons
<1>4. tx' = [tx EXCEPT ![r].iters[n] = Generated(w)]
  BY <1>1 DEF GenerateWording, Generated
<1>5. /\ tx' \in [Requests -> Rows]
      /\ tx'[r].iters[n] = Generated(w) /\ tx'[r].resolved
      /\ RejectedBefore(tx'[r], n) /\ AbsentAfter(tx'[r], n)
      /\ \A k \in 1..MaxIterations : k # n => tx'[r].iters[k] = tx[r].iters[k]
  <2> HIDE DEF n
  <2> QED BY <1>1, <1>2, <1>3, <1>4, WriteIteration
<1>6. pc'[r] = "validate" /\ ctx'[r] = [ctx[r] EXCEPT !.last = w]
      /\ db'[r] = db[r] /\ reply'[r] = reply[r] /\ counted'[r] = counted[r]
  BY <1>1 DEF TypeOK, GenerateWording, Goto
<1>7. ctx'[r].iter = n /\ ctx'[r].last = w
      /\ ctx'[r].feedbacks = ctx[r].feedbacks /\ ctx'[r].previous = ctx[r].previous
  BY <1>2, <1>6 DEF Context
<1>8. TypeOK'
  <2>1. ctx'[r] \in Context
    BY <1>2, <1>6 DEF Context, MaybeWording
  <2>2. ctx' \in [Requests -> Context]
    BY <1>1, <2>1 DEF TypeOK, GenerateWording
  <2> QED BY <1>1, <1>5, <2>2 DEF TypeOK, GenerateWording, Goto, Steps
<1>9. RowsFollowSteps(r)'
  BY <1>2, <1>5, <1>6, <1>7 DEF RowsFollowSteps, Iterating
<1>10. ContextFollowsRows(r)'
  BY <1>1, <1>5, <1>6, <1>7, ContextKept DEF Iterating
<1>11. OutsideFollowsSteps(r)'
  BY <1>1, <1>6, NothingOutside DEF InTransaction, Iterating
<1>12. \A q \in Requests \ {r} : Untouched(q)
  BY <1>1 DEF TypeOK, GenerateWording, Goto, Untouched
<1> QED BY <1>8, <1>9, <1>10, <1>11, <1>12 DEF StepOK, RequestInv

LEMMA GenerationFailsStep ==
  ASSUME IInv, NEW r \in Requests, NEW code \in GenerationFailures,
         GenerationFails(r, code)
  PROVE  StepOK(r)
<1> DEFINE n == ctx[r].iter
           it == BrokenGenerating
<1>1. TypeOK /\ RequestInv(r) /\ pc[r] = "generate" /\ tx[r].iters[n] = Begun
  BY DEF IInv, GenerationFails, RequestInv, RowsFollowSteps
<1>2. /\ n \in 1..MaxIterations
      /\ RejectedBefore(tx[r], n) /\ AbsentAfter(tx[r], n)
  BY <1>1, CurrentIteration DEF Iterating
<1>3. it \in Iteration
  BY DEF BrokenGenerating, NoIteration, Iteration, CallStatus, MaybeWording, Reasons
<1>4. tx' = [tx EXCEPT ![r].iters[n] = it]
  <2>1. [Begun EXCEPT !.generation = "error", !.stage = "generation"] = it
    BY DEF BrokenGenerating, Begun, NoIteration
  <2> QED BY <1>1, <2>1 DEF GenerationFails
<1>5. /\ tx' \in [Requests -> Rows] /\ tx'[r].iters[n] = it
      /\ RejectedBefore(tx'[r], n) /\ AbsentAfter(tx'[r], n)
  <2> HIDE DEF n, it
  <2> QED BY <1>1, <1>2, <1>3, <1>4, WriteIteration
<1>6. pc'[r] = "mark" /\ raised'[r] = code
      /\ db'[r] = db[r] /\ reply'[r] = reply[r] /\ counted'[r] = counted[r]
  BY <1>1 DEF TypeOK, GenerationFails, Raise, Goto
<1>7. Explained(tx'[r], raised'[r])
  <2>1. BrokeOffGenerating(tx'[r])
    BY <1>2, <1>5 DEF BrokeOffGenerating, BrokeOff
  <2> QED BY <1>6, <2>1 DEF Explained, GenerationFailures, Codes, DomainCodes
<1>8. TypeOK'
  BY <1>1, <1>5
     DEF TypeOK, GenerationFails, GenerationFailures, Raise, Goto, Steps, Codes, DomainCodes
<1>9. RowsFollowSteps(r)'
  BY <1>6, <1>7 DEF RowsFollowSteps, Iterating
<1>10. ContextFollowsRows(r)'
  BY <1>6 DEF ContextFollowsRows, Iterating
<1>11. OutsideFollowsSteps(r)'
  BY <1>1, <1>6, NothingOutside DEF InTransaction, Iterating
<1>12. \A q \in Requests \ {r} : Untouched(q)
  BY <1>1 DEF TypeOK, GenerationFails, Raise, Goto, Untouched
<1> QED BY <1>8, <1>9, <1>10, <1>11, <1>12 DEF StepOK, RequestInv

LEMMA ValidateWordingStep ==
  ASSUME IInv, NEW r \in Requests, NEW passed \in BOOLEAN, ValidateWording(r, passed)
  PROVE  StepOK(r)
<1> DEFINE n == ctx[r].iter
           last == ctx[r].last
           it == IF passed THEN Judged(last, "accepted", {})
                           ELSE Judged(last, "rejected", {"criterion"})
<1>1. TypeOK /\ RequestInv(r) /\ pc[r] = "validate" /\ last \in Wordings
      /\ tx[r].iters[n] = Generated(last)
  BY DEF IInv, ValidateWording, RequestInv, RowsFollowSteps, Iterating
<1>2. /\ n \in 1..MaxIterations /\ tx[r].resolved
      /\ RejectedBefore(tx[r], n) /\ AbsentAfter(tx[r], n)
  BY <1>1, CurrentIteration DEF Iterating
<1>3. it \in Iteration
  BY <1>1 DEF Judged, Generated, Begun, NoIteration, Iteration, CallStatus,
              MaybeWording, Reasons
<1>4. tx' = [tx EXCEPT ![r].iters[n] = it]
  <2>1. [Generated(last) EXCEPT
            !.validation = "success",
            !.verdict = IF passed THEN "accepted" ELSE "rejected",
            !.reasons = IF passed THEN {} ELSE {"criterion"}] = it
    BY DEF Judged
  <2> QED BY <1>1, <2>1 DEF ValidateWording
<1>5. /\ tx' \in [Requests -> Rows] /\ tx'[r].iters[n] = it /\ tx'[r].resolved
      /\ RejectedBefore(tx'[r], n) /\ AbsentAfter(tx'[r], n)
      /\ \A k \in 1..MaxIterations : k # n => tx'[r].iters[k] = tx[r].iters[k]
  <2> HIDE DEF n, it
  <2> QED BY <1>1, <1>2, <1>3, <1>4, WriteIteration
<1>6. pc'[r] = (IF passed THEN "numeric" ELSE "record") /\ ctx'[r] = ctx[r]
      /\ db'[r] = db[r] /\ reply'[r] = reply[r] /\ counted'[r] = counted[r]
  BY <1>1 DEF TypeOK, ValidateWording, Goto
<1>7. TypeOK'
  BY <1>1, <1>5 DEF TypeOK, ValidateWording, Goto, Steps
<1>8. RowsFollowSteps(r)'
  BY <1>1, <1>2, <1>5, <1>6 DEF RowsFollowSteps, Iterating
<1>9. ContextFollowsRows(r)'
  BY <1>1, <1>5, <1>6, ContextKept DEF Iterating
<1>10. OutsideFollowsSteps(r)'
  BY <1>1, <1>6, NothingOutside DEF InTransaction, Iterating
<1>11. \A q \in Requests \ {r} : Untouched(q)
  BY <1>1 DEF TypeOK, ValidateWording, Goto, Untouched
<1> QED BY <1>7, <1>8, <1>9, <1>10, <1>11 DEF StepOK, RequestInv

LEMMA ValidationFailsStep ==
  ASSUME IInv, NEW r \in Requests, NEW failure \in ValidationFailures,
         ValidationFails(r, failure)
  PROVE  StepOK(r)
<1> DEFINE n == ctx[r].iter
           it == BrokenValidating(ctx[r].last, failure.call)
<1>1. TypeOK /\ RequestInv(r) /\ pc[r] = "validate" /\ ctx[r].last \in Wordings
      /\ tx[r].iters[n] = Generated(ctx[r].last)
  BY DEF IInv, ValidationFails, RequestInv, RowsFollowSteps, Iterating
<1>2. /\ n \in 1..MaxIterations
      /\ RejectedBefore(tx[r], n) /\ AbsentAfter(tx[r], n)
  BY <1>1, CurrentIteration DEF Iterating
<1>3. /\ failure.call \in {"error", "success"}
      /\ failure.code \in {"LLM_TIMEOUT", "LLM_VALIDATION_FAILED"}
      /\ failure.code = "LLM_TIMEOUT" => failure.call = "error"
  BY DEF ValidationFailures
<1>4. it \in Iteration
  BY <1>1, <1>3 DEF BrokenValidating, NoIteration, Iteration, CallStatus,
                    MaybeWording, Reasons
<1>5. tx' = [tx EXCEPT ![r].iters[n] = it]
  <2>1. [Generated(ctx[r].last) EXCEPT !.validation = failure.call,
                                       !.stage = "validation"] = it
    BY DEF BrokenValidating, Generated, Begun, NoIteration
  <2> QED BY <1>1, <2>1 DEF ValidationFails
<1>6. /\ tx' \in [Requests -> Rows] /\ tx'[r].iters[n] = it
      /\ RejectedBefore(tx'[r], n) /\ AbsentAfter(tx'[r], n)
  <2> HIDE DEF n, it
  <2> QED BY <1>1, <1>2, <1>4, <1>5, WriteIteration
<1>7. pc'[r] = "mark" /\ raised'[r] = failure.code
      /\ db'[r] = db[r] /\ reply'[r] = reply[r] /\ counted'[r] = counted[r]
  BY <1>1 DEF TypeOK, ValidationFails, Raise, Goto
<1>8. Explained(tx'[r], raised'[r])
  <2>1. \A calls : failure.call \in calls => BrokeOffValidating(tx'[r], calls)
    <3> TAKE calls
    <3> HAVE failure.call \in calls
    <3>1. it \in { BrokenValidating(w, call) : w \in Wordings, call \in calls }
      BY <1>1
    <3> HIDE DEF n, it
    <3> QED BY <1>2, <1>6, <3>1 DEF BrokeOffValidating, BrokeOff
  <2> QED BY <1>3, <1>7, <2>1 DEF Explained, Codes, DomainCodes
<1>9. TypeOK'
  BY <1>1, <1>3, <1>6
     DEF TypeOK, ValidationFails, Raise, Goto, Steps, Codes, DomainCodes
<1>10. RowsFollowSteps(r)'
  BY <1>7, <1>8 DEF RowsFollowSteps, Iterating
<1>11. ContextFollowsRows(r)'
  BY <1>7 DEF ContextFollowsRows, Iterating
<1>12. OutsideFollowsSteps(r)'
  BY <1>1, <1>7, NothingOutside DEF InTransaction, Iterating
<1>13. \A q \in Requests \ {r} : Untouched(q)
  BY <1>1 DEF TypeOK, ValidationFails, Raise, Goto, Untouched
<1> QED BY <1>9, <1>10, <1>11, <1>12, <1>13 DEF StepOK, RequestInv

LEMMA CheckNumericMatchStep ==
  ASSUME IInv, NEW r \in Requests, NEW missing \in BOOLEAN,
         CheckNumericMatch(r, missing)
  PROVE  StepOK(r)
<1> DEFINE n == ctx[r].iter
           last == ctx[r].last
           it == Judged(last, "accepted", IF missing THEN {"numeric_match"} ELSE {})
<1>1. TypeOK /\ RequestInv(r) /\ pc[r] = "numeric" /\ last \in Wordings
      /\ tx[r].iters[n] = Judged(last, "accepted", {})
  BY DEF IInv, CheckNumericMatch, RequestInv, RowsFollowSteps, Iterating
<1>2. /\ n \in 1..MaxIterations /\ tx[r].resolved
      /\ RejectedBefore(tx[r], n) /\ AbsentAfter(tx[r], n)
  BY <1>1, CurrentIteration DEF Iterating
<1>3. it \in Iteration
  BY <1>1 DEF Judged, Generated, Begun, NoIteration, Iteration, CallStatus,
              MaybeWording, Reasons
<1>4. tx' = [tx EXCEPT ![r].iters[n] = it]
  <2>1. /\ Judged(last, "accepted", {}).reasons = {}
        /\ [Judged(last, "accepted", {}) EXCEPT
              !.reasons = IF missing THEN {"numeric_match"} ELSE {}] = it
    BY DEF Judged, Generated, Begun, NoIteration
  <2> QED BY <1>1, <2>1 DEF CheckNumericMatch
<1>5. /\ tx' \in [Requests -> Rows] /\ tx'[r].iters[n] = it /\ tx'[r].resolved
      /\ RejectedBefore(tx'[r], n) /\ AbsentAfter(tx'[r], n)
      /\ \A k \in 1..MaxIterations : k # n => tx'[r].iters[k] = tx[r].iters[k]
  <2> HIDE DEF n, it
  <2> QED BY <1>1, <1>2, <1>3, <1>4, WriteIteration
<1>6. pc'[r] = (IF missing THEN "record" ELSE "accept") /\ ctx'[r] = ctx[r]
      /\ db'[r] = db[r] /\ reply'[r] = reply[r] /\ counted'[r] = counted[r]
  BY <1>1 DEF TypeOK, CheckNumericMatch, Goto
<1>7. TypeOK'
  BY <1>1, <1>5 DEF TypeOK, CheckNumericMatch, Goto, Steps
<1>8. RowsFollowSteps(r)'
  BY <1>1, <1>2, <1>5, <1>6 DEF RowsFollowSteps, Iterating
<1>9. ContextFollowsRows(r)'
  BY <1>1, <1>5, <1>6, ContextKept DEF Iterating
<1>10. OutsideFollowsSteps(r)'
  BY <1>1, <1>6, NothingOutside DEF InTransaction, Iterating
<1>11. \A q \in Requests \ {r} : Untouched(q)
  BY <1>1 DEF TypeOK, CheckNumericMatch, Goto, Untouched
<1> QED BY <1>7, <1>8, <1>9, <1>10, <1>11 DEF StepOK, RequestInv

LEMMA RecordRejectedIterationStep ==
  ASSUME IInv, NEW r \in Requests, RecordRejectedIteration(r) PROVE StepOK(r)
<1> DEFINE n == ctx[r].iter
           last == ctx[r].last
           reasons == tx[r].iters[n].reasons
           it == [tx[r].iters[n] EXCEPT !.status = "rejected"]
<1>1. /\ TypeOK /\ RequestInv(r) /\ pc[r] = "record" /\ last \in Wordings
      /\ \/ tx[r].iters[n] = Judged(last, "rejected", {"criterion"})
         \/ tx[r].iters[n] = Judged(last, "accepted", {"numeric_match"})
  BY DEF IInv, RecordRejectedIteration, RequestInv, RowsFollowSteps, Iterating
<1>2. /\ ctx[r] \in Context /\ n \in 1..MaxIterations /\ tx[r].resolved
      /\ RejectedBefore(tx[r], n) /\ AbsentAfter(tx[r], n)
      /\ tx[r].iters[n] \in Iteration
  BY <1>1, CurrentIteration DEF Iterating
<1>3. it \in Iteration /\ it.wording = last /\ it.reasons = reasons /\ Rejected(it)
      /\ reasons \in SUBSET Reasons
  <2>1. it \in Iteration /\ reasons \in SUBSET Reasons
    BY <1>2 DEF Iteration
  <2>2. it.wording = last /\ it.reasons = reasons /\ Rejected(it)
    BY <1>1 DEF Judged, Generated, Begun, NoIteration, Rejected
  <2> QED BY <2>1, <2>2
<1>4. tx' = [tx EXCEPT ![r].iters[n] = it]
  BY <1>1 DEF RecordRejectedIteration
<1>5. /\ tx' \in [Requests -> Rows] /\ tx'[r].iters[n] = it /\ tx'[r].resolved
      /\ RejectedBefore(tx'[r], n) /\ AbsentAfter(tx'[r], n)
      /\ \A k \in 1..MaxIterations : k # n => tx'[r].iters[k] = tx[r].iters[k]
  <2> HIDE DEF n, it
  <2> QED BY <1>1, <1>2, <1>3, <1>4, WriteIteration
<1>6. pc'[r] = "loop"
      /\ ctx'[r] = [ctx[r] EXCEPT !.feedbacks = Append(ctx[r].feedbacks, reasons),
                                  !.previous = last]
      /\ db'[r] = db[r] /\ reply'[r] = reply[r] /\ counted'[r] = counted[r]
  BY <1>1 DEF TypeOK, RecordRejectedIteration, Goto
<1>7. ctx'[r].iter = n /\ ctx'[r].last = last /\ ctx'[r].previous = last
      /\ ctx'[r].feedbacks = Append(ctx[r].feedbacks, reasons)
      /\ ctx[r].feedbacks \in Seq(SUBSET Reasons)
  BY <1>2, <1>6 DEF Context
<1>8. TypeOK'
  <2>1. ctx'[r] \in Context
    <3>1. Append(ctx[r].feedbacks, reasons) \in Seq(SUBSET Reasons)
      BY <1>3, <1>7
    <3> HIDE DEF reasons
    <3> QED BY <1>1, <1>2, <1>6, <3>1 DEF Context, MaybeWording
  <2>2. ctx' \in [Requests -> Context]
    BY <1>1, <2>1 DEF TypeOK, RecordRejectedIteration
  <2> QED BY <1>1, <1>5, <2>2 DEF TypeOK, RecordRejectedIteration, Goto, Steps
<1>9. RejectedBefore(tx'[r], n + 1)
  <2>1. \A k \in 1..((n + 1) - 1) : k \in 1..(n - 1) \/ k = n
    BY <1>2
  <2> HIDE DEF n, it
  <2> QED BY <2>1, <1>3, <1>5 DEF RejectedBefore
<1>10. RowsFollowSteps(r)'
  BY <1>2, <1>3, <1>5, <1>6, <1>7, <1>9 DEF RowsFollowSteps, Iterating
<1>11. ContextFollowsRows(r)'
  <2>1. Rejections(r) = n - 1 /\ Rejections(r)' = n
    BY <1>1, <1>6, <1>7 DEF Rejections
  <2>2. \A k \in 1..(n - 1) : tx'[r].iters[k] = tx[r].iters[k]
    <3> TAKE k \in 1..(n - 1)
    <3>1. k \in 1..MaxIterations /\ k # n
      BY <1>2, LimitsAssumption
    <3> QED BY <3>1, <1>5
  <2>3. /\ Len(ctx[r].feedbacks) = n - 1
        /\ \A k \in 1..(n - 1) : ctx[r].feedbacks[k] = tx[r].iters[k].reasons
    BY <1>1, <2>1 DEF RequestInv, ContextFollowsRows, Iterating
  <2> HIDE DEF n, it, reasons
  <2>4. Len(ctx'[r].feedbacks) = n
    BY <1>2, <1>3, <1>7, <2>3
  <2>5. \A k \in 1..n : ctx'[r].feedbacks[k] = tx'[r].iters[k].reasons
    <3> TAKE k \in 1..n
    <3>1. CASE k = n
      BY <3>1, <1>2, <1>3, <1>5, <1>7, <2>3
    <3>2. CASE k \in 1..(n - 1)
      <4>1. ctx'[r].feedbacks[k] = ctx[r].feedbacks[k]
        BY <3>2, <1>2, <1>3, <1>7, <2>3
      <4> QED BY <4>1, <3>2, <2>2, <2>3
    <3> QED BY <3>1, <3>2, <1>2
  <2>6. n # 0 /\ ctx'[r].previous = tx'[r].iters[n].wording
    BY <1>2, <1>3, <1>5, <1>7
  <2> QED BY <2>1, <2>4, <2>5, <2>6 DEF ContextFollowsRows
<1>12. OutsideFollowsSteps(r)'
  BY <1>1, <1>6, NothingOutside DEF InTransaction, Iterating
<1>13. \A q \in Requests \ {r} : Untouched(q)
  BY <1>1 DEF TypeOK, RecordRejectedIteration, Goto, Untouched
<1> QED BY <1>8, <1>10, <1>11, <1>12, <1>13 DEF StepOK, RequestInv

-----------------------------------------------------------------------------
(* Commit and answer *)

(* The rows the accepting step commits are earned.                         *)
LEMMA AcceptedRowsEarned ==
  ASSUME IInv, NEW r \in Requests, pc[r] = "accept"
  PROVE  /\ AcceptedRows(r) \in Rows /\ AcceptedRows(r).status = "accepted"
         /\ Earned(AcceptedRows(r))
<1> DEFINE n == ctx[r].iter
           last == ctx[r].last
           it == [tx[r].iters[n] EXCEPT !.status = "accepted"]
           rows == AcceptedRows(r)
<1>1. TypeOK /\ last \in Wordings /\ tx[r].iters[n] = Judged(last, "accepted", {})
  BY DEF IInv, RequestInv, RowsFollowSteps, Iterating
<1>2. /\ n \in 1..MaxIterations /\ tx[r] \in Rows /\ tx[r].resolved
      /\ RejectedBefore(tx[r], n) /\ AbsentAfter(tx[r], n)
      /\ tx[r].iters[n] \in Iteration
  BY CurrentIteration DEF Iterating
<1>3. it \in Iteration
  BY <1>2 DEF Iteration
<1>4. Accepted(it) /\ it.wording = last
  BY <1>1 DEF Judged, Generated, Begun, NoIteration, Accepted
<1>5. /\ rows \in Rows /\ rows.status = "accepted" /\ rows.resolved
      /\ rows.total = n /\ rows.final = last
      /\ rows.iters = [tx[r].iters EXCEPT ![n] = it]
  <2> DEFINE base == [tx[r] EXCEPT !.status = "accepted", !.final = last, !.total = n]
  <2>1. /\ base \in Rows /\ base.status = "accepted" /\ base.resolved
        /\ base.total = n /\ base.final = last /\ base.iters = tx[r].iters
    <3>1. n \in 0..MaxIterations /\ last \in MaybeWording
      BY <1>1, <1>2, LimitsAssumption DEF MaybeWording
    <3> HIDE DEF n, last
    <3>2. base \in Rows
      BY <3>1, <1>2 DEF Rows, TaskStatus
    <3>3. base.status = "accepted" /\ base.resolved = tx[r].resolved
          /\ base.total = n /\ base.final = last /\ base.iters = tx[r].iters
      BY <1>2 DEF Rows
    <3> QED BY <3>2, <3>3, <1>2
  <2>2. rows = [base EXCEPT !.iters[n].status = "accepted"]
    BY DEF AcceptedRows
  <2> HIDE DEF base
  <2>3. rows = [base EXCEPT !.iters[n] = it]
    BY <2>1, <2>2
  <2> HIDE DEF rows, it
  <2>4. rows \in Rows
    BY <1>2, <1>3, <2>1, <2>3, RowsWithIteration
  <2>5. /\ rows.status = base.status /\ rows.resolved = base.resolved
        /\ rows.total = base.total /\ rows.final = base.final
        /\ rows.iters = [base.iters EXCEPT ![n] = it]
    BY <2>1, <2>3 DEF Rows
  <2> QED BY <2>1, <2>4, <2>5
<1>6. tx[r].iters \in [1..MaxIterations -> Iteration]
  BY <1>2 DEF Rows
<1> HIDE DEF n, it, rows
<1>7. /\ rows.iters[n] = it
      /\ \A k \in 1..MaxIterations : k # n => rows.iters[k] = tx[r].iters[k]
  BY <1>2, <1>5, <1>6
<1>8. RejectedBefore(rows, n)
  <2>1. \A k \in 1..(n - 1) : k \in 1..MaxIterations /\ k # n
    BY <1>2, LimitsAssumption
  <2> QED BY <2>1, <1>2, <1>7 DEF RejectedBefore
<1>9. AbsentAfter(rows, n)
  <2>1. \A k \in (n + 1)..MaxIterations : k \in 1..MaxIterations /\ k # n
    BY <1>2, LimitsAssumption
  <2> QED BY <2>1, <1>2, <1>7 DEF AbsentAfter
<1> QED BY <1>2, <1>4, <1>5, <1>7, <1>8, <1>9 DEF Earned, rows

(* The rows committed after the last iteration are exhausted.              *)
LEMMA RejectedRowsExhausted ==
  ASSUME IInv, NEW r \in Requests, pc[r] = "loop", ctx[r].iter = MaxIterations
  PROVE  /\ RejectedRows(r) \in Rows /\ RejectedRows(r).status = "rejected"
         /\ Exhausted(RejectedRows(r))
<1> DEFINE rows == RejectedRows(r)
<1>1. /\ tx[r] \in Rows /\ ctx[r] \in Context /\ tx[r].resolved
      /\ RejectedBefore(tx[r], MaxIterations + 1)
      /\ ctx[r].last = tx[r].iters[MaxIterations].wording
  BY LimitsAssumption DEF IInv, TypeOK, RequestInv, RowsFollowSteps, Iterating
<1>2. /\ rows \in Rows /\ rows.status = "rejected" /\ rows.resolved
      /\ rows.total = MaxIterations /\ rows.final = ctx[r].last
      /\ rows.iters = tx[r].iters
  BY <1>1, LimitsAssumption DEF RejectedRows, Rows, TaskStatus, Context
<1> HIDE DEF rows
<1>3. RejectedBefore(rows, MaxIterations + 1)
  BY <1>1, <1>2 DEF RejectedBefore
<1> QED BY <1>1, <1>2, <1>3 DEF Exhausted, rows

(* What explains an error code is read off these three columns only.       *)
LEMMA ExplainedFrame ==
  ASSUME NEW a, NEW b, NEW code, Explained(a, code),
         b.iters = a.iters, b.audits = a.audits, b.resolved = a.resolved
  PROVE  Explained(b, code)
<1>1. \A n : RejectedBefore(a, n) => RejectedBefore(b, n)
  BY DEF RejectedBefore
<1>2. \A n : AbsentAfter(a, n) => AbsentAfter(b, n)
  BY DEF AbsentAfter
<1>3. \A shapes : BrokeOff(a, shapes) => BrokeOff(b, shapes)
  BY <1>1, <1>2 DEF BrokeOff
<1> QED BY <1>2, <1>3 DEF Explained, BrokeOffGenerating, BrokeOffValidating

(* The rows _mark_task_error commits explain their error code.             *)
LEMMA ErrorRowsExplained ==
  ASSUME IInv, NEW r \in Requests, pc[r] = "mark"
  PROVE  /\ ErrorRows(r) \in Rows /\ ErrorRows(r).status = "error"
         /\ ErrorRows(r).code = raised[r]
         /\ Explained(ErrorRows(r), raised[r])
<1>1. tx[r] \in Rows /\ Explained(tx[r], raised[r]) /\ raised[r] \in Codes
  BY DEF IInv, TypeOK, RequestInv, RowsFollowSteps, Explained
<1>2. /\ ErrorRows(r) \in Rows /\ ErrorRows(r).status = "error"
      /\ ErrorRows(r).code = raised[r]
      /\ ErrorRows(r).iters = tx[r].iters /\ ErrorRows(r).audits = tx[r].audits
      /\ ErrorRows(r).resolved = tx[r].resolved
  BY <1>1 DEF ErrorRows, Rows, TaskStatus
<1>3. Explained(ErrorRows(r), raised[r])
  <2> HIDE DEF ErrorRows
  <2> QED BY <1>1, <1>2, ExplainedFrame
<1> QED BY <1>2, <1>3

LEMMA FinalizeAcceptedStep ==
  ASSUME IInv, NEW r \in Requests, FinalizeAccepted(r) PROVE StepOK(r)
<1>1. TypeOK /\ RequestInv(r) /\ pc[r] = "accept"
  BY DEF IInv, FinalizeAccepted
<1>2. /\ AcceptedRows(r) \in Rows /\ AcceptedRows(r).status = "accepted"
      /\ Earned(AcceptedRows(r))
  BY <1>1, AcceptedRowsEarned
<1>3. /\ pc'[r] = "load" /\ db'[r] = AcceptedRows(r)
      /\ reply'[r] = reply[r] /\ counted'[r] = counted[r]
  BY <1>1 DEF TypeOK, FinalizeAccepted, Commit, Goto
<1>4. TypeOK'
  BY <1>1, <1>2 DEF TypeOK, FinalizeAccepted, Commit, Goto, Steps
<1>5. RowsFollowSteps(r)' /\ ContextFollowsRows(r)'
  BY <1>3 DEF RowsFollowSteps, ContextFollowsRows, Iterating
<1>6. OutsideFollowsSteps(r)'
  BY <1>1, <1>2, <1>3 DEF RequestInv, OutsideFollowsSteps, InTransaction, Iterating
<1>7. \A q \in Requests \ {r} : Untouched(q)
  BY <1>1 DEF TypeOK, FinalizeAccepted, Commit, Goto, Untouched
<1> QED BY <1>4, <1>5, <1>6, <1>7 DEF StepOK, RequestInv

LEMMA FinalizeRejectedStep ==
  ASSUME IInv, NEW r \in Requests, FinalizeRejected(r) PROVE StepOK(r)
<1>1. TypeOK /\ RequestInv(r) /\ pc[r] = "loop" /\ ctx[r].iter = MaxIterations
  BY DEF IInv, FinalizeRejected
<1>2. /\ RejectedRows(r) \in Rows /\ RejectedRows(r).status = "rejected"
      /\ Exhausted(RejectedRows(r))
  BY <1>1, RejectedRowsExhausted
<1>3. /\ pc'[r] = "load" /\ db'[r] = RejectedRows(r)
      /\ reply'[r] = reply[r] /\ counted'[r] = counted[r]
  BY <1>1 DEF TypeOK, FinalizeRejected, Commit, Goto
<1>4. TypeOK'
  BY <1>1, <1>2 DEF TypeOK, FinalizeRejected, Commit, Goto, Steps
<1>5. RowsFollowSteps(r)' /\ ContextFollowsRows(r)'
  BY <1>3 DEF RowsFollowSteps, ContextFollowsRows, Iterating
<1>6. OutsideFollowsSteps(r)'
  BY <1>1, <1>2, <1>3 DEF RequestInv, OutsideFollowsSteps, InTransaction, Iterating
<1>7. \A q \in Requests \ {r} : Untouched(q)
  BY <1>1 DEF TypeOK, FinalizeRejected, Commit, Goto, Untouched
<1> QED BY <1>4, <1>5, <1>6, <1>7 DEF StepOK, RequestInv

LEMMA LoadResponseStep ==
  ASSUME IInv, NEW r \in Requests, LoadResponse(r) PROVE StepOK(r)
<1> USE DEF IInv
<1>1. db[r].status \in {"accepted", "rejected"}
  BY DEF LoadResponse, RequestInv, OutsideFollowsSteps
<1>2. TypeOK'
  BY <1>1, BlankTypes DEF TypeOK, LoadResponse, Close, Respond, Goto, Steps, Replies
<1>3. RequestInv(r)'
  <2>1. pc'[r] = "done" /\ db'[r] = db[r]
    BY DEF TypeOK, LoadResponse, Close, Goto
  <2> QED BY <2>1, ClosedInv DEF RequestInv, OutsideFollowsSteps
<1>4. \A q \in Requests \ {r} : Untouched(q)
  BY DEF TypeOK, LoadResponse, Close, Respond, Goto, Untouched
<1> QED BY <1>2, <1>3, <1>4 DEF StepOK

(* An unexpected exception explains itself: its code says nothing of rows. *)
LEMMA RaiseUnexpected ==
  ASSUME IInv, NEW r \in Requests, pc[r] \notin {"fail", "done"},
         Raise(r, "UNEXPECTED_INTERNAL_ERROR"),
         UNCHANGED <<ctx, tx, db, conn, reply, counted>>
  PROVE  StepOK(r)
<1> USE DEF IInv
<1>1. TypeOK'
  BY DEF TypeOK, Raise, Goto, Steps, Codes
<1>2. pc'[r] = "mark" /\ raised'[r] = "UNEXPECTED_INTERNAL_ERROR"
  BY DEF TypeOK, Raise, Goto
<1>3. Explained(tx'[r], raised'[r])
  BY <1>2 DEF Explained, Codes
<1>4. RowsFollowSteps(r)' /\ ContextFollowsRows(r)'
  BY <1>2, <1>3 DEF RowsFollowSteps, ContextFollowsRows, Iterating
<1>5. OutsideFollowsSteps(r)'
  BY <1>2 DEF RequestInv, OutsideFollowsSteps, InTransaction, Iterating
<1>6. \A q \in Requests \ {r} : Untouched(q)
  BY DEF TypeOK, Raise, Goto, Untouched
<1> QED BY <1>1, <1>4, <1>5, <1>6 DEF StepOK, RequestInv

LEMMA LoadResponseUnavailableStep ==
  ASSUME IInv, NEW r \in Requests, LoadResponseUnavailable(r) PROVE StepOK(r)
  BY RaiseUnexpected DEF LoadResponseUnavailable

LEMMA MarkTaskErrorStep ==
  ASSUME IInv, NEW r \in Requests, MarkTaskError(r) PROVE StepOK(r)
<1>1. TypeOK /\ RequestInv(r) /\ pc[r] = "mark"
  BY DEF IInv, MarkTaskError
<1>2. /\ ErrorRows(r) \in Rows /\ ErrorRows(r).status = "error"
      /\ ErrorRows(r).code = raised[r] /\ Explained(ErrorRows(r), raised[r])
  BY <1>1, ErrorRowsExplained
<1>3. /\ pc'[r] = "fail" /\ db'[r] = ErrorRows(r) /\ raised'[r] = raised[r]
      /\ reply'[r] = reply[r] /\ counted'[r] = counted[r]
  BY <1>1 DEF TypeOK, MarkTaskError, Commit, Goto
<1>4. TypeOK'
  BY <1>1, <1>2 DEF TypeOK, MarkTaskError, Commit, Goto, Steps
<1>5. RowsFollowSteps(r)' /\ ContextFollowsRows(r)'
  BY <1>3 DEF RowsFollowSteps, ContextFollowsRows, Iterating
<1>6. OutsideFollowsSteps(r)'
  BY <1>1, <1>2, <1>3 DEF RequestInv, OutsideFollowsSteps, InTransaction, Iterating
<1>7. \A q \in Requests \ {r} : Untouched(q)
  BY <1>1 DEF TypeOK, MarkTaskError, Commit, Goto, Untouched
<1> QED BY <1>4, <1>5, <1>6, <1>7 DEF StepOK, RequestInv

LEMMA AnswerErrorStep ==
  ASSUME IInv, NEW r \in Requests, AnswerError(r) PROVE StepOK(r)
<1> USE DEF IInv
<1>1. TypeOK'
  BY BlankTypes DEF TypeOK, AnswerError, Close, Respond, Goto, Steps, Replies
<1>2. RequestInv(r)'
  <2>1. pc'[r] = "done" /\ db'[r] = db[r]
    BY DEF TypeOK, AnswerError, Close, Goto
  <2> QED BY <2>1, ClosedInv DEF RequestInv, OutsideFollowsSteps
<1>3. \A q \in Requests \ {r} : Untouched(q)
  BY DEF TypeOK, AnswerError, Close, Respond, Goto, Untouched
<1> QED BY <1>1, <1>2, <1>3 DEF StepOK

LEMMA CreateTaskRowUnavailableStep ==
  ASSUME IInv, NEW r \in Requests, CreateTaskRowUnavailable(r) PROVE StepOK(r)
<1> USE DEF IInv
<1>1. TypeOK'
  BY BlankTypes DEF TypeOK, CreateTaskRowUnavailable, Abort, Close, Respond, Goto, Steps, Replies, Codes
<1>2. RequestInv(r)'
  <2>1. pc'[r] = "done" /\ db'[r] = db[r]
    BY DEF TypeOK, CreateTaskRowUnavailable, Abort, Close, Goto
  <2> QED BY <2>1, ClosedInv DEF RequestInv, OutsideFollowsSteps
<1>3. \A q \in Requests \ {r} : Untouched(q)
  BY DEF TypeOK, CreateTaskRowUnavailable, Abort, Close, Respond, Goto, Untouched
<1> QED BY <1>1, <1>2, <1>3 DEF StepOK

LEMMA MarkTaskErrorUnavailableStep ==
  ASSUME IInv, NEW r \in Requests, MarkTaskErrorUnavailable(r) PROVE StepOK(r)
<1> USE DEF IInv
<1>1. TypeOK'
  BY BlankTypes DEF TypeOK, MarkTaskErrorUnavailable, Abort, Close, Respond, Goto, Steps, Replies, Codes
<1>2. RequestInv(r)'
  <2>1. pc'[r] = "done" /\ db'[r] = db[r]
    BY DEF TypeOK, MarkTaskErrorUnavailable, Abort, Close, Goto
  <2> QED BY <2>1, ClosedInv DEF RequestInv, OutsideFollowsSteps
<1>3. \A q \in Requests \ {r} : Untouched(q)
  BY DEF TypeOK, MarkTaskErrorUnavailable, Abort, Close, Respond, Goto, Untouched
<1> QED BY <1>1, <1>2, <1>3 DEF StepOK

-----------------------------------------------------------------------------
(* Faults *)

LEMMA UnexpectedExceptionStep ==
  ASSUME IInv, NEW r \in Requests, UnexpectedException(r) PROVE StepOK(r)
  BY RaiseUnexpected DEF UnexpectedException

LEMMA StatementFailsStep ==
  ASSUME IInv, NEW r \in Requests, StatementFails(r) PROVE StepOK(r)
<1> USE DEF IInv
<1>1. TypeOK'
  BY BlankTypes DEF TypeOK, StatementFails, Abort, Close, Respond, Goto, Steps, Replies, Codes
<1>2. RequestInv(r)'
  <2>1. pc'[r] = "done" /\ db'[r] = db[r]
    BY DEF TypeOK, StatementFails, Abort, Close, Goto
  <2> QED BY <2>1, ClosedInv DEF RequestInv, OutsideFollowsSteps
<1>3. \A q \in Requests \ {r} : Untouched(q)
  BY DEF TypeOK, StatementFails, Abort, Close, Respond, Goto, Untouched
<1> QED BY <1>1, <1>2, <1>3 DEF StepOK

LEMMA CancelStep ==
  ASSUME IInv, NEW r \in Requests, Cancel(r) PROVE StepOK(r)
<1> USE DEF IInv
<1>1. TypeOK'
  BY BlankTypes DEF TypeOK, Cancel, Close, Respond, Goto, Steps, Replies
<1>2. RequestInv(r)'
  <2>1. pc'[r] = "done" /\ db'[r] = db[r]
    BY DEF TypeOK, Cancel, Close, Goto
  <2> QED BY <2>1, ClosedInv DEF RequestInv, OutsideFollowsSteps
<1>3. \A q \in Requests \ {r} : Untouched(q)
  BY DEF TypeOK, Cancel, Close, Respond, Goto, Untouched
<1> QED BY <1>1, <1>2, <1>3 DEF StepOK

LEMMA CommitAckLostStep ==
  ASSUME IInv, NEW r \in Requests, CommitAckLost(r) PROVE StepOK(r)
<1>1. TypeOK
  BY DEF IInv
<1>2. PICK rows \in Rows :
        /\ db' = [db EXCEPT ![r] = rows]
        /\ rows.status = "accepted" => Earned(rows)
        /\ rows.status = "rejected" => Exhausted(rows)
        /\ rows.status = "error" => Explained(rows, rows.code)
  <2>1. CASE pc[r] = "accept" /\ db' = [db EXCEPT ![r] = AcceptedRows(r)]
    BY <2>1, AcceptedRowsEarned
  <2>2. CASE /\ pc[r] = "loop" /\ ctx[r].iter = MaxIterations
             /\ db' = [db EXCEPT ![r] = RejectedRows(r)]
    BY <2>2, RejectedRowsExhausted
  <2>3. CASE pc[r] = "mark" /\ db' = [db EXCEPT ![r] = ErrorRows(r)]
    BY <2>3, ErrorRowsExplained
  <2> QED BY <2>1, <2>2, <2>3 DEF CommitAckLost
<1>3. TypeOK'
  BY <1>1, <1>2, BlankTypes
     DEF TypeOK, CommitAckLost, Abort, Close, Respond, Goto, Steps, Replies, Codes
<1>4. RequestInv(r)'
  <2>1. pc'[r] = "done" /\ db'[r] = rows
    BY <1>1, <1>2 DEF TypeOK, CommitAckLost, Abort, Close, Goto
  <2> QED BY <2>1, <1>2, ClosedInv
<1>5. \A q \in Requests \ {r} : Untouched(q)
  BY <1>1, <1>2 DEF TypeOK, CommitAckLost, Abort, Close, Respond, Goto, Untouched
<1> QED BY <1>3, <1>4, <1>5 DEF StepOK

(* A crash leaves of every request only what it has committed.             *)
LEMMA CrashKeepsIInv ==
  ASSUME IInv, Crash PROVE IInv'
<1>1. TypeOK'
  BY BlankTypes DEF IInv, TypeOK, Crash, Steps
<1>2. ASSUME NEW r \in Requests PROVE RequestInv(r)'
  <2>1. TypeOK /\ RequestInv(r)
    BY DEF IInv
  <2>2. CASE r \in InFlight
    <3>1. pc'[r] = "done" /\ db'[r] = db[r]
      BY <2>2 DEF Crash
    <3> QED BY <2>1, <3>1, ClosedInv DEF RequestInv, OutsideFollowsSteps
  <2>3. CASE pc[r] = "done"
    <3>1. pc'[r] = "done" /\ db'[r] = db[r]
      BY <2>3 DEF Crash
    <3> QED BY <2>1, <3>1, ClosedInv DEF RequestInv, OutsideFollowsSteps
  <2>4. CASE pc[r] = "start"
    <3>1. pc'[r] = "start" /\ db'[r] = db[r] /\ tx'[r] = NoRows
          /\ reply'[r] = reply[r] /\ counted'[r] = "none"
      BY <2>4 DEF Crash, InFlight
    <3>2. RowsFollowSteps(r)' /\ ContextFollowsRows(r)'
      BY <3>1 DEF RowsFollowSteps, ContextFollowsRows, Iterating
    <3>3. OutsideFollowsSteps(r)'
      BY <2>1, <2>4, <3>1
         DEF RequestInv, OutsideFollowsSteps, InTransaction, Iterating
    <3> QED BY <3>2, <3>3 DEF RequestInv
  <2> QED BY <2>2, <2>3, <2>4 DEF InFlight
<1> QED BY <1>1, <1>2 DEF IInv

-----------------------------------------------------------------------------
(* The invariant and what follows from it *)

LEMMA InitIInv == Init => IInv
<1> SUFFICES ASSUME Init PROVE IInv
  OBVIOUS
<1>1. TypeOK
  BY BlankTypes DEF Init, TypeOK, Steps, Replies
<1>2. ASSUME NEW r \in Requests PROVE RequestInv(r)
  <2>1. pc[r] = "start" /\ tx[r] = NoRows /\ db[r] = NoRows
        /\ reply[r] = "none" /\ counted[r] = "none"
    BY DEF Init
  <2> QED
    BY <2>1 DEF RequestInv, RowsFollowSteps, ContextFollowsRows,
                OutsideFollowsSteps, Iterating, InTransaction, NoRows
<1> QED BY <1>1, <1>2 DEF IInv

(* Every action of one request keeps the invariant of that request.        *)
LEMMA EveryStepOK ==
  ASSUME IInv, NEW r \in Requests, Step(r) \/ Fault(r) PROVE StepOK(r)
<1>1. CASE Step(r)
  BY <1>1, RefuseInputStep, CreateTaskRowStep, CreateTaskRowUnavailableStep,
     RejectParamsStep, ResolveParamsStep, StartIterationStep, GenerateWordingStep,
     GenerationFailsStep, ValidateWordingStep, ValidationFailsStep,
     CheckNumericMatchStep, RecordRejectedIterationStep, FinalizeAcceptedStep,
     FinalizeRejectedStep, LoadResponseStep, LoadResponseUnavailableStep,
     MarkTaskErrorStep, MarkTaskErrorUnavailableStep, AnswerErrorStep DEF Step
<1>2. CASE Fault(r)
  BY <1>2, UnexpectedExceptionStep, StatementFailsStep, CommitAckLostStep, CancelStep
     DEF Fault
<1> QED BY <1>1, <1>2

LEMMA StepKeepsIInv ==
  ASSUME IInv, [Next]_vars PROVE IInv'
<1>1. CASE UNCHANGED vars
  BY <1>1 DEF vars, IInv, TypeOK, RequestInv, RowsFollowSteps, ContextFollowsRows,
              Rejections, OutsideFollowsSteps
<1>2. ASSUME NEW r \in Requests, Step(r) \/ Fault(r) PROVE IInv'
  <2>1. StepOK(r)
    BY <1>2, EveryStepOK
  <2>2. ASSUME NEW q \in Requests \ {r} PROVE RequestInv(q)'
    BY <2>1, UntouchedKeepsInv DEF IInv, StepOK
  <2> QED BY <2>1, <2>2 DEF IInv, StepOK
<1>3. CASE Crash
  BY <1>3, CrashKeepsIInv
<1> QED BY <1>1, <1>2, <1>3 DEF Next, Finished

(* The inductive invariant holds throughout: the rows, the context and     *)
(* what is committed, answered and counted follow the steps of every       *)
(* request, for any number of requests, iterations and attempts and under  *)
(* every fault.                                                            *)
THEOREM Invariant == Spec => []IInv
<1>1. IInv /\ [Next]_vars => IInv'
  BY StepKeepsIInv
<1> QED BY InitIInv, <1>1, PTL DEF Spec

(* Types hold throughout; in particular the audit rows of a task never     *)
(* pass MAX_PARAM_ATTEMPTS nor its iterations MAX_LLM_ITERATIONS.          *)
THEOREM TypeCorrect == Spec => []TypeOK
<1>1. IInv => TypeOK
  BY DEF IInv
<1> QED BY Invariant, <1>1, PTL

(* No task is ever stored as accepted unless both checks let its last      *)
(* iteration through.                                                      *)
THEOREM AcceptedEarned == Spec => []AcceptedIsEarned
<1>1. IInv => AcceptedIsEarned
  BY DEF IInv, RequestInv, OutsideFollowsSteps, AcceptedIsEarned
<1> QED BY Invariant, <1>1, PTL

(* No task is ever stored as rejected with an iteration unused.            *)
THEOREM RejectedExhausted == Spec => []RejectedIsExhausted
<1>1. IInv => RejectedIsExhausted
  BY DEF IInv, RequestInv, OutsideFollowsSteps, RejectedIsExhausted
<1> QED BY Invariant, <1>1, PTL

(* The error code of a stored task agrees with its rows.                   *)
THEOREM ErrorExplained == Spec => []ErrorIsExplained
<1>1. IInv => ErrorIsExplained
  BY DEF IInv, RequestInv, OutsideFollowsSteps, ErrorIsExplained
<1> QED BY Invariant, <1>1, PTL

(* Every regeneration prompt is built from the whole history of rejected   *)
(* iterations.                                                             *)
THEOREM RegenerationComplete == Spec => []RegenerationSeesHistory
<1>1. ASSUME IInv, NEW r \in Requests, pc[r] = "generate"
      PROVE  LET n == ctx[r].iter IN
             /\ Len(ctx[r].feedbacks) = n - 1
             /\ \A k \in 1..(n - 1) :
                   ctx[r].feedbacks[k] = tx[r].iters[k].reasons
             /\ ctx[r].previous = IF n = 1 THEN NoWording
                                  ELSE tx[r].iters[n - 1].wording
  <2>1. ctx[r].iter \in 1..MaxIterations /\ Rejections(r) = ctx[r].iter - 1
    BY <1>1, CurrentIteration DEF Iterating, Rejections
  <2>2. ctx[r].iter - 1 = 0 <=> ctx[r].iter = 1
    BY <2>1
  <2> QED
    BY <1>1, <2>1, <2>2 DEF IInv, RequestInv, ContextFollowsRows, Iterating
<1>2. IInv => RegenerationSeesHistory
  BY <1>1 DEF RegenerationSeesHistory
<1> QED BY Invariant, <1>2, PTL

-----------------------------------------------------------------------------
(* The card of a task *)

LEMMA CardOfLast ==
    ASSUME NEW rows, NEW n \in 1..MaxIterations,
           rows.iters[n].verdict # "none",
           \A k \in (n + 1)..MaxIterations : rows.iters[k].verdict = "none"
    PROVE  Card(rows) = rows.iters[n]
<1>1. n \in Profiled(rows) /\ \A j \in Profiled(rows) : j <= n
  BY LimitsAssumption DEF Profiled
<1>2. Profiled(rows) \subseteq Int
  BY LimitsAssumption DEF Profiled
<1>3. \A k \in Profiled(rows) : (\A j \in Profiled(rows) : j <= k) <=> k = n
  BY <1>1, <1>2
<1>4. (CHOOSE k \in Profiled(rows) : \A j \in Profiled(rows) : j <= k) = n
  BY <1>1, <1>3
<1> QED BY <1>1, <1>4 DEF Card

LEMMA CardOfBroken ==
    ASSUME NEW rows, NEW shapes, BrokeOff(rows, shapes),
           \A it \in shapes : it.verdict = "none"
    PROVE  Card(rows).verdict = "none" \/ Card(rows).reasons # {}
<1>1. PICK n \in 1..MaxIterations :
         RejectedBefore(rows, n) /\ AbsentAfter(rows, n) /\ rows.iters[n] \in shapes
  BY DEF BrokeOff
<1>2. \A k \in n..MaxIterations : rows.iters[k].verdict = "none"
  BY <1>1, LimitsAssumption DEF AbsentAfter, NoIteration
<1>3. CASE n = 1
  <2>1. Profiled(rows) = {}
    BY <1>2, <1>3, LimitsAssumption DEF Profiled
  <2> QED BY <2>1 DEF Card, NoIteration
<1>4. CASE n # 1
  <2>1. n - 1 \in 1..MaxIterations /\ (n - 1) + 1 = n
    BY <1>4, LimitsAssumption
  <2>2. Rejected(rows.iters[n - 1])
    BY <1>1, <2>1 DEF RejectedBefore
  <2>3. Card(rows) = rows.iters[n - 1]
    BY <1>2, <2>1, <2>2, CardOfLast DEF Rejected
  <2> QED BY <2>2, <2>3 DEF Rejected
<1> QED BY <1>3, <1>4

LEMMA ExplainedCard ==
    ASSUME NEW rows, Explained(rows, rows.code), rows.code # "UNEXPECTED_INTERNAL_ERROR"
    PROVE  Card(rows).verdict = "none" \/ Card(rows).reasons # {}
<1>1. CASE rows.code = "PARAM_RETRY_EXHAUSTED"
  <2>1. AbsentAfter(rows, 0)
    BY <1>1 DEF Explained
  <2>2. Profiled(rows) = {}
    BY <2>1, LimitsAssumption DEF AbsentAfter, Profiled, NoIteration
  <2> QED BY <2>2 DEF Card, NoIteration
<1>2. CASE BrokeOffGenerating(rows)
  <2>1. BrokeOff(rows, {BrokenGenerating})
    BY <1>2 DEF BrokeOffGenerating
  <2>2. \A it \in {BrokenGenerating} : it.verdict = "none"
    BY DEF BrokenGenerating, NoIteration
  <2> QED BY <2>1, <2>2, CardOfBroken
<1>3. CASE \E calls : BrokeOffValidating(rows, calls)
  <2>1. PICK calls : BrokeOffValidating(rows, calls)
    BY <1>3
  <2>. DEFINE shapes == { BrokenValidating(w, call) : w \in Wordings, call \in calls }
  <2>2. \A w, call : BrokenValidating(w, call).verdict = "none"
    BY DEF BrokenValidating, NoIteration
  <2>3. ASSUME NEW it \in shapes PROVE it.verdict = "none"
    <3>1. PICK w \in Wordings, call \in calls : it = BrokenValidating(w, call)
      BY <2>3
    <3> QED BY <3>1, <2>2
  <2>4. BrokeOff(rows, shapes)
    BY <2>1 DEF BrokeOffValidating
  <2>. HIDE DEF shapes
  <2> QED BY <2>3, <2>4, CardOfBroken
<1>4. rows.code \in { "PARAM_RETRY_EXHAUSTED", "LLM_GENERATION_FAILED",
                      "LLM_VALIDATION_FAILED", "LLM_TIMEOUT" }
  BY DEF Explained, Codes, DomainCodes
<1> QED BY <1>1, <1>2, <1>3, <1>4 DEF Explained

(* Every card shows the quality profile of the wording it shows, or the    *)
(* reasons for which a task that broke off was being regenerated.          *)
THEOREM CardsAgree == Spec => []CardAgrees
<1>1. ASSUME IInv, NEW r \in Requests, db[r].status = "accepted"
      PROVE  /\ Card(db[r]).verdict = "accepted" /\ Card(db[r]).reasons = {}
             /\ Card(db[r]).wording = db[r].final
  <2>1. Earned(db[r])
    BY <1>1 DEF IInv, RequestInv, OutsideFollowsSteps
  <2>2. Card(db[r]) = db[r].iters[db[r].total]
    BY <2>1, CardOfLast DEF Earned, Accepted, AbsentAfter, NoIteration
  <2> QED BY <2>1, <2>2 DEF Earned, Accepted
<1>2. ASSUME IInv, NEW r \in Requests, db[r].status = "rejected"
      PROVE  Card(db[r]).reasons # {} /\ Card(db[r]).wording = db[r].final
  <2>1. Exhausted(db[r])
    BY <1>2 DEF IInv, RequestInv, OutsideFollowsSteps
  <2>2. Rejected(db[r].iters[MaxIterations])
    BY <2>1, LimitsAssumption DEF Exhausted, RejectedBefore
  <2>3. Card(db[r]) = db[r].iters[MaxIterations]
    BY <2>2, CardOfLast, LimitsAssumption DEF Rejected
  <2> QED BY <2>1, <2>2, <2>3 DEF Exhausted, Rejected
<1>3. ASSUME IInv, NEW r \in Requests, db[r].status = "error",
             db[r].code # "UNEXPECTED_INTERNAL_ERROR"
      PROVE  Card(db[r]).verdict = "none" \/ Card(db[r]).reasons # {}
  BY <1>3, ExplainedCard DEF IInv, RequestInv, OutsideFollowsSteps
<1>4. IInv => CardAgrees
  BY <1>1, <1>2, <1>3 DEF CardAgrees
<1> QED BY Invariant, <1>4, PTL
=============================================================================
