# Verification of the EGE task generator

The service generates exam tasks (types 7 and 11). `POST /tasks/generate` draws
parameters, lets one LLM write a wording and another judge it, checks that the
numbers of the task occur in the text, repeats this at most three times and
stores everything it did in PostgreSQL. This directory models the service in
TLA+ - its concurrency, its failures and the decisions it takes - checks it with
TLC and proves the main results with TLAPS.

Paths below are relative to `src/backend/app/`.

## Inventory

| component | state it keeps | operations | what makes it correct |
|---|---|---|---|
| Task orchestrator, `services/task_orchestrator.py` | `_PipelineContext`, the rows of one task in an open transaction | `execute` and its steps | a final status says what really happened; an answer is true of the stored task; every request is answered |
| Parameter generator, `services/param_generator.py` | audit rows | up to 5 attempts, each rejected one audited | exhausted exactly after 5 audited attempts |
| Generators and answer calculator, `generators/`, `services/answer_calculator.py` | none | pure functions | the answer given is the answer of the parameters, within 2^31-1 |
| Wording generator, `services/wording_generator.py` | `llm_calls` rows | `generate` | the row's status agrees with the outcome; the prompt has the whole feedback history |
| Wording validator, `services/wording_validator.py` | `llm_calls` rows | `validate`, `_parse_result` | fail-closed: no broken answer passes a criterion |
| Numeric check, `services/wording_numeric_check.py` | none | `find_missing_params` | overrides an LLM that accepts |
| LLM guards, `services/llm_adapter.py` | `_llm_semaphore` (8 permits per process) | `_call_llm_with_guards` | permits conserved, queue in order, retry and timeout contract |
| LLM adapters, `services/llm_adapter.py` | `last_token_usage` | vendor calls, `generate_json` | an answer is used only if it is JSON |
| Sessions and pool, `core/database.py` | up to 20 + 10 connections per process | checkout, flush, commit, rollback, close | no connection leaks; the limit is kept |
| Error handlers, `core/error_handler.py` | none | exception to HTTP answer | the answer does not contradict the stored task |
| Metrics, `core/metrics.py`, `services/llm_logger.py` | counters in memory | `inc`, `observe` | a counted task is stored with that status |
| Rate limiter, `core/rate_limit.py` | counters in memory, per process | slowapi | at most 5 generate requests a minute and client |
| History, statistics, export | none | reads | several statements of one answer disagree only in ways a reader can expect |

How they interact: one `uvicorn` worker runs the coroutines of all its requests
in one event loop. A request has one database session. Its first flush checks a
connection out of the pool and the session keeps it through all LLM calls, until
`session.commit()` at the end returns it; the card is then read back over a
connection checked out anew. The LLM calls of all requests queue at the
semaphore. Whatever leaves `execute` as an exception is turned into an answer by
the handlers of `core/error_handler.py`.

Hard here:

- *Interleaving*: requests compete for connections and permits.
- *Partial failure*: the except clauses of `execute` write to the session that
  has just failed; the read after the commit can fail although the task is stored.
- *Crash, lost acknowledgement, cancellation*: everything of a task is in one
  transaction that ends with its final status.
- *Order and retries*: the semaphore's queue, the attempts of a call, the
  feedback history over the iterations.

Every hazard is listed with its line in `PROJECT.json`.

## Modules

| module | what it is |
|---|---|
| `TaskPublication` | what clients and readers of the table may observe, without how tasks are made |
| `TaskPipeline` | `execute` for several requests of one worker, with transactions, the pool and the faults |
| `MCTaskPipeline` | its symmetry sets for TLC |
| `TaskPipelineProofs` | the inductive invariant of `TaskPipeline` and the theorems that follow from it |
| `TaskPipelineOutcomeProofs` | proofs about answers, counters, committed work, connections, and of the implementation of `TaskPublication` |
| `LlmGuards` | the semaphore, retries, timeouts and cancellations of the guarded LLM calls |
| `LlmPermits` | what the semaphore promises to the calls, without its queue and counter: a line before a room |
| `LlmGuardsProofs` | the inductive invariant of `LlmGuards`, the proofs of its safety properties, and of the implementation of `LlmPermits` |
| `Worker` | one worker as a whole: requests, permits, the pool, and the readers of history and statistics |
| `WorkerProofs` | its inductive invariant, and proofs about permits, the pool and the shares |
| `WorkerReaderProofs` | proofs about the pages of the history and the parts of the statistics |
| `TaskParams7`, `TaskParams11` | the parameter generators and the arithmetic of the answers |
| `ParamGeneration` | from a request to its parameter set: input check, draw, validation, recalculation |
| `MCParamGeneration` | the requests TLC tries |
| `ParamGenerationProofs` | the arithmetic of the answers for any parameters, and the proofs about what is drawn |
| `NumericCheck` | which numbers a wording contains and which parameters it lacks |
| `WordingChecks` | one iteration after generation: the validator's answer read and parsed, the profile saved, the numbers checked, the verdict recorded |
| `MCWordingChecks` | answers, wordings and parameters for TLC |
| `WordingChecksProofs` | its invariant and proofs |
| `OrderLemmas` | a set of natural numbers has a least element |

`ParamGeneration`, `WordingChecks` and `LlmGuards` each open what is one action
or a free choice in `TaskPipeline`: `ResolveParams` and `RejectParams`,
`ValidateWording`/`ValidationFails`/`CheckNumericMatch`/`RecordRejectedIteration`,
and the time a call takes. `Worker` composes the resources of `TaskPipeline` and
`LlmGuards` and reduces both to what they hold and commit.

Some operators are marked `Mutant of X`: each is `X` with a plausible programming
error. No specification uses them; with one in the place of `X`, TLC finds the
property that `PROJECT.json` pairs it with violated, which shows that the property
depends on the code.

### TaskPipeline

State. `pc[r]` is the place of request `r` in `execute`: `start`, `params`
(parameter attempts), `loop` (before an iteration or the final rejection),
`generate`, `validate`, `numeric`, `record`, `accept`, `load` (reading the card
after the commit), `mark` (an except clause), `fail` (error stored, answer due),
`done`. `ctx[r]` is `_PipelineContext`, `raised[r]` the exception in flight,
`tx[r]` the rows written in the open transaction, `db[r]` the committed ones,
`conn` the requests that hold a connection, `reply[r]` the answer, `counted[r]`
the label added to `tasks_generated_total`.

| action | code |
|---|---|
| `RefuseInput` | `_validate_input` |
| `CreateTaskRow`, `CreateTaskRowUnavailable` | `_create_task_row`, outside the `try` |
| `RejectParams`, `ResolveParams` | `ParamGeneratorService.generate`, `_prepare_pipeline_context` |
| `StartIteration` | the loop head and the insert of the iteration with status error |
| `GenerateWording`, `GenerationFails` | `WordingGenerator.generate` with its `llm_calls` row, `_generate_wording` |
| `ValidateWording`, `ValidationFails` | `WordingValidator.validate`, `_validate_wording`, `_save_quality` |
| `CheckNumericMatch` | `_check_numeric_match` |
| `RecordRejectedIteration` | `_record_rejected_iteration` and the flush after it |
| `FinalizeAccepted`, `FinalizeRejected` | status, wording, iteration count and `session.commit()` |
| `LoadResponse`, `LoadResponseUnavailable` | `_load_response_or_raise`, then metrics and 200, or the except clause |
| `MarkTaskError`, `MarkTaskErrorUnavailable` | `_mark_task_error`, or its failure |
| `AnswerError` | metrics, re-raise, the error handler |
| `UnexpectedException`, `StatementFails`, `CommitAckLost`, `Cancel`, `Crash` | faults |

An action ends at a point where another coroutine may run or where an exception
may part the path; what the code does between two such points is one action.

Data. A wording is a member of a small set. The five criteria are one reason
`criterion`, next to `numeric_match`. A parse failure of the validator is the
`ValidationFailures` record with a call logged as `success`. Texts, timestamps,
token counts and costs are left out. The plain 500 of an exception no handler
knows and the 500 of the SQLAlchemy handler are the one reply
`UNEXPECTED_INTERNAL_ERROR`.

Sessions. The first statement after `start`, after a commit or after the release
of a connection needs a connection (`Connected`); `CheckoutFails` stands for
`pool_timeout` and for an unreachable database and leaves the session usable, as
SQLAlchemy does when no connection was ever given. A refused statement or COMMIT
breaks the session: `_mark_task_error` raises on it in turn, so the request ends
in the SQLAlchemy handler with everything rolled back (`Abort`).

The faults a run admits are the constant `Faults`.

`Card` is the profile that `build_task_response` puts on the card: of the last
iteration that has one. `CardAgrees` relates it to the status and the wording,
which come from the task.

### LlmGuards

`value` and `waiters` are the fields of `asyncio.Semaphore` as in Python 3.11
(the image of `backend/Dockerfile`); `phase[c]` says whether call `c` is queued,
has been granted a permit without having run yet, is in an attempt, pauses before
the next one or is done; `attempts[c]` are the results of its attempts. A permit
is released to the first waiter (`WakeUpNext`), also when the call that holds it
is cancelled (`CancelHolding`) and when the waiter it was just granted to is
(`CancelWaiting`).

`LlmPermits` is the contract behind it: calls stand in a line, known by who is ahead
of whom, before a room of `MaxConcurrency` places; who leaves the room lets the first
one in with the same step. `ImplementsPermits` maps to it. A call that was granted a
permit is in the room at once, although its coroutine has not run and it is still in
`waiters`; an attempt that fails and the pause after it are no steps; a cancelled
call leaves the line or the room, depending on where it was.

### Worker

`at[r]` is the place of a request, reduced to where it holds or waits for
something: `start`, `ready` (between LLM calls, its transaction open), `calling`
(inside `_llm_semaphore`), `accepted`, `rejected`, `failed` (about to commit that
status), `reload` (committed, waiting for a connection to read the card), `read`,
`unread`, `marked`, `done`. `rows` and `db` hold the task's status, its
`total_iterations` and the numbers of its `llm_calls` rows. A reader runs its
statements one by one, each over what is committed at that moment
(READ COMMITTED): `HistoryCount` and `HistoryPage`, and the five statements of
`get_statistics` whose results are related. `created` is the order of
`created_at`; two tasks never share one. `Page` gives the tasks their places by
counting the newer ones (`Newer`), which is what `ORDER BY ... OFFSET ... LIMIT`
does.

`FullPoolDrains` is what keeps the pool from blocking for good: when every
connection is out, one of the holders needs neither a connection nor a permit that
it does not have (`Unhindered`).

`PageKeepsTotal` and `WalkSkipsNothing` say what two statements per page still
guarantee: tasks are only added at the head of the list. A client that reads
until a page is empty misses nothing; one that stops at the `total` of its first
page may. With a status filter they hold as long as no task leaves the filter,
as an accepted task turned into an error does (`Overturned`).

### ParamGeneration, TaskParams7, TaskParams11

Every subtype's draws are the sets of its `random.choice` lists, every answer the
formula of its branch. `Attempt` is one turn of the loop of
`ParamGeneratorService.generate`. Quantities are scaled by powers of two so that
TLC's 32 bits hold them; each scaling divides exactly. The code divides in binary
floating point, which rounds like the rationals for all draws but those of
`RoundedUp`; there the rounding is modelled.

`Fits` states what the task asks as an inequality, without the formulas, and
`AnswerIsExtremal` that the answer satisfies it and the next value does not, for all
twelve subtypes. The second half leaves out exactly three draws (`InexactDraw`: 96000
Hz, ratio 0.72, 840 KB/s, for 1, 2 and 4 channels), where the rounding takes one off
the bit depth; run `param_bit_depth` shows these.

For two subtypes of task 11, `min_alphabet_size` and `min_serial_length`, `Fits` says
what the code aims at, and not what the wording of such a task asks: the bits the
symbols of one serial number carry fill its share of the memory, rounded up to whole
bytes, and n symbols carry as many bits as the greatest power of two up to n. The
examples given to the LLM (`resources/prompts/task11/few_shot/min_alphabet_size.txt:2`,
`min_serial_length.txt:2`) ask for serial numbers that fit the memory. That is
`MinimumsFit`, which run `param_minimums_fit` refutes; no draw of the two subtypes
satisfies it. Nor is it claimed that 2^b is the least number of symbols that need b
bits each: 2^(b-1) + 1 is.

In 55 of the
draws a number the wording must name equals the answer, which rule 6 of
`wording_generator.tmpl` forbids to mention; no code looks at it.

`PARAM_RETRY_EXHAUSTED` is modelled in `TaskPipeline`, as the service handles it,
although the generators never cause it: that is `FirstAttemptSucceeds`.

### WordingChecks, NumericCheck

The answer of the model is a shape (bare JSON, JSON in prose, in a `json` fence, in
an unnamed one, in one that is not closed) around a body (broken, no object, or an
object with its criteria and with nested values). `Readable` is what
`generate_json` of each adapter extracts, `Carrier`, `Malformed` and `Assess` are
`_parse_result`. A message is known by its length and by whether it is one of the
phrases that say nothing. The steps of an iteration are `validate`, `save`,
`numeric`, `record` and the three ends.

A wording is the sequence of its maximal digit runs with values, widths and whether
one white space separates each from the run before; `Continues` is the regular
expression of a grouped number. `Spelled` and `SpelledWhole` say when a reader finds
a value in it, as part of any group and as a number of its own. The wording is
chosen when it is first looked at. Numbers below 10 and fractions are not looked
for, as the tests document.

## Runs

| run | instance | shows |
|---|---|---|
| `pipeline_one_request` | 1 request, 2 wordings, 3 iterations, 5 parameter attempts, all faults | `AcceptedIsEarned`, `RejectedIsExhausted`, `ErrorIsExplained`, `RegenerationSeesHistory`, and that the invariant of the proofs holds |
| `pipeline_shared_pool` | 2 requests, 1 connection, 2 iterations, 2 parameter attempts, all faults, fair | `ReplyMatchesRow`, `CountedMatchesRow`, `ConnectionsAccounted`, `CommittedWorkIsKept`, `ImplementsPublication`, `EveryRequestIsAnswered` |
| `llm_guards` | 4 calls, 2 permits, 3 attempts, fair | `PermitsConserved`, `NoStrandedWaiter`, `NoOvertaking`, `RetryContract`, `ImplementsPermits`, `EveryCallEnds` |
| `worker` | 2 requests of 1 iteration, 2 readers, 2 connections, 1 permit, pages of 1, fair | `PermitHolderHasConnection`, `FullPoolDrains`, `EveryoneEnds`, `PageKeepsTotal`, `WalkSkipsNothing`, `SharesSumToOne`, `LaterPartsIncludeEarlier` |
| `param_generation` | all subtypes, all draws | `FirstAttemptSucceeds`, `AnswerIsExtremal` |
| `wording_checks` | 2 criteria, 3 adapters, 5 parameters, all wordings of up to 3 numbers out of 5 | `AcceptedIsJustified`, `GoodWordingPasses`, `RejectedIsExplained`, `FailureIsLogged` |
| `pipeline_terminal_status` | 2 requests, 1 connection, no fault | violates `TerminalStatusIsFinal` |
| `pipeline_crash_pending` | 1 request, crash | violates `CrashLeavesPending` |
| `pipeline_internal_error` | 3 requests, 1 connection, no fault | violates `InternalErrorMeansNotDone` |
| `param_bit_depth` | subtype `sound_bit_depth`, all draws | violates `BitDepthIsMaximal` |
| `param_minimums_fit` | subtypes `min_alphabet_size`, `min_serial_length`, all draws | violates `MinimumsFit` |
| `wording_numbers` | as `wording_checks`, one adapter | violates `WholeNumbersOnly` |

Why the bounds are enough. The first run has the code's own limits, so no path
through one request is cut short; two wordings are needed to tell the last
wording from an earlier one. Requests share nothing but the pool, so two of them
with one connection show every competition: holding and waiting, and a
connection lost between a commit and the read after it. The rejected and the
accepted path both occur with two iterations. Four calls for two permits let two
calls run, and of two waiters one be granted a permit and the other follow or be
cancelled in between; three attempts are `llm_retry_attempts`. In `worker` one
permit for two requests makes calls queue, two connections for two requests and
two readers make everybody wait for everybody, and a page of one task lets the
list shift between pages; the status filter is tried with and without a value.
`param_generation` is complete: the draws are finite. In `wording_checks` two
criteria tell "some" from "all", the message lengths lie on both sides of 8, and
the wordings contain 2500 as one number, in groups, cut in two, and glued to what
follows.

Fairness. `WF_vars(Step(r))`: the event loop resumes every coroutine that can
run; LLM calls end (by `asyncio.wait_for` and the limit of attempts, see
`LlmGuards`), PostgreSQL answers, and the wait for a connection ends with a
connection or with `pool_timeout`. It says nothing about who gets the
connection, and faults need not happen. `EveryRequestIsAnswered` holds although
the step that comes may be the failing one. A cancelled request and one in
flight at a crash get no answer; the property says that these are the only ones,
and that whatever befalls them the others come to their end.
`WF_vars(Proceed(c))` in `LlmGuards` is the same for the calls. `Worker` assumes
it of every request and of both readers, but not of `PoolTimesOut` and `Cancel`:
`EveryoneEnds` holds without the pool's timeout ever helping.

No symmetry is used in the runs that check liveness.

What the violated runs show (`findings` in `PROJECT.json`):

1. A task committed as accepted or rejected becomes `error` when its card cannot
   be read back, for instance because another request took the last connection
   and `pool_timeout` passed. The persistence tests call terminal statuses
   irreversible.
2. A crash leaves no `pending` row, as the docstring of `_create_task_row` says
   it does: that row was only flushed.
3. A client can be told "Запрос не был выполнен" although its task is stored as
   accepted or rejected.
4. The bit depth of three draws of `sound_bit_depth` is one too small, because
   `1 - 0.72` rounds up; the recalculation repeats the expression and agrees.
5. The last group of a number written with spaces counts as a number: "2 500"
   satisfies the check for a parameter 500 that the wording never names.
6. The answers of `min_alphabet_size` and `min_serial_length` make all serial numbers
   together exceed the given memory, in every draw; the examples of the prompts ask
   for the least value with which they fit.

A divergence between two texts that needs no run: a rejected request can be answered
with the reason `numeric_match` (`services/task_orchestrator.py:386`,
`services/history_service.py:146`), which the schema `RejectionReason` of that answer
(`resources/openapi.yaml:790-795`) does not list, although the one of the statistics
(line 897) does. The models keep `numeric_match` apart from the five criteria and
claim nothing about the schema.

`TaskPublication` states what remains true: a task appears at once with a final
status, accepted or rejected can become error only before the answer, an answer
that names a status is true, and a 500 without a task promises nothing.

## Proofs

`TaskPipelineProofs` proves, for every set of requests and wordings, every
positive number of iterations, attempts and connections and every set of faults,

- `Invariant`: `Spec => []IInv`,
- `TypeCorrect`, `AcceptedEarned`, `RejectedExhausted`, `ErrorExplained`,
  `RegenerationComplete` and `CardsAgree`: the properties of run
  `pipeline_one_request`.

Assumptions: `NoWordingAssumption` (NULL is no wording), `LimitsAssumption` (the
limits are positive), `FaultsAssumption`. TLC evaluates them in every run.

Why an inductive invariant is needed. `AcceptedIsEarned` speaks of committed rows
only; that they are right follows from the state before the commit. `IInv` says
for each request what its rows look like at each step (`RowsFollowSteps`: all
iterations before the current one are rejected with a reason, none exists after
it, the current one is begun, generated or judged according to `pc`, and at
`mark` the rows explain the exception), what the context carries
(`ContextFollowsRows`) and what is committed, answered and counted
(`OutsideFollowsSteps`).

The argument. An action of one request leaves the other requests' state alone
(`Untouched`, `UntouchedKeepsInv`), so each action has one lemma (`...Step`) that
it keeps the types and the invariant of its own request. Actions that write the
current iteration share `WriteIteration` (the rows around it), `ContextKept` and
`NothingOutside`; those that end a request share `ClosedInv`. That the committed
rows are earned, exhausted or explained is `AcceptedRowsEarned`,
`RejectedRowsExhausted` and `ErrorRowsExplained`, used for the commit and for the
commit whose acknowledgement is lost. `Crash` touches all requests and has its
own lemma. `StepKeepsIInv` puts them together.

`TaskPipelineOutcomeProofs` proves, from the same assumptions,

- `AnswersAreTrue`, `CountsAreTrue`, `CommittedWorkKept`, `NoConnectionLeaks`:
  the safety properties of run `pipeline_shared_pool`, for any number of requests and
  any size of the pool,
- `PipelinePublishes`: `Spec => ImplementsPublication`.

`IInv` does not say enough for these: an answer is given long after the commit it
speaks of. `OutcomeInv` adds, for each request, that its answer and its counter
agree with its stored task, that the session still holds the committed rows while
the card is read back, and that an except clause meets a task that is not stored
or one that is stored as accepted or rejected (`StepKeepsOutcome`). The
connections need `ConnInv`, which adds to the property only that finitely many are
out (`StepKeepsConn`, over the four ways a step treats its connection,
`StepConnection`).

The implementation proof has one lemma on the pipeline's side and one on the
mapping's. `StepObserved` says what a step looks like from outside: the request
goes on with its task stored or not, ends in a failure, is answered, or is given
up; `CommitStores` covers the three commits. `MappedEntries` says that the mapped
variables change at that request only. `RefinesStep` matches each case with
`Publish`, `PublishUnnoticed`, `Answer`, `Vanish` or a stutter; `Crash` is a
`Vanish` of all requests in flight.

`LlmGuardsProofs` proves `GuardsTypeCorrect`, `PermitsKept`, `NobodyStranded`,
`RetriesKept` and `NobodyOvertaken` (from `WokenInTurn`: leaving the queue keeps its
order, and the first one that waits is woken) for any finite set of calls and any limits (`GuardsAssumption`). The
properties speak of counts; the invariant says who is behind them: the queue holds
exactly the waiting calls, once each, and the counter is what the calls inside
leave free. Every action prepares phases, queue and counter and then may pass a
permit on; `Semaphore` describes the state before that and `WakeUpKeeps` shows
once that passing on keeps it.

`GuardsImplementPermits` proves the refinement `ImplementsPermits`. On the side of
the queue it needs that leaving it changes the order of no two others
(`WithoutBefore`) and that nobody who waits stands before the call that is woken
(`WokenIsFirst`); `PermitPasses` turns this into what happens to the line and the
room. Then each action is one step of `LlmPermits` (`AcquireEnters`,
`EnqueueArrives`, `ResumeAdmits`, `LeaveLeaves`, `CancelWaitingMaps`) or none
(`PauseStutters`).

`WordingChecksProofs` proves all properties of run `wording_checks` for every set of
criteria, parameters, answers and wordings (`ChecksAssumption`: there are criteria,
`numeric_match` is none of them, nested values are indexed by numbers, wordings are
sequences of runs). `StepInv` says for each step what is known when it is
reached; the rest are facts about the operators: `CarrierIsValue` (the object
parsed is one the answer consists of), `PassedIsApproved` and `ApprovedPasses`
(a criterion passes exactly when it was explicitly approved with a reason),
`TokenIsSpelled` and `SpelledIsToken` (the tokens extracted are the numbers a
reader finds).

`WorkerProofs` proves `WorkerTypeCorrect`, `PermitHoldersConnected`, `PoolDrains` and
`SharesAreWhole` for any number of requests, connections and permits
(`WorkerAssumption`). `HoldsInv` ties permits and connections to the places of the
requests, in both directions: whoever is at such a place holds one, and nobody else does.
`HoldsMoved` and `HoldsKept` show once that moving on keeps it. `SharesAddUp` counts
the visible tasks by status. `PoolDrains` is the safety half of `EveryoneEnds`: a
request that waits for a permit with a connection in its hands waits for one inside
a call, and that one has a connection too.

`WorkerReaderProofs` proves `PagesKeepTotal`, `WalksSkipNothing` and
`LaterPartsInclude`, for any page size too. The readers' guarantees relate statements
that run at different times, so the proof goes in two steps. `TaskInv` says that each
row is what its request's place demands and that no task is listed twice; from it
follows how the committed rows may change at all (`Published`: a task appears, or a
finished one turns into an error) and how the list may (`Listed`: a task nobody can
see yet is put at the head). The rest uses only that. For the pages, `PageIsFull`
(a slice of a list by rank has as many elements as its bounds allow) and
`UnseenStayBehind` (a task not yet seen never moves to an earlier place) keep
`WalkInv`: the tasks of the first total that are not yet seen stand behind what the
pages covered. For the statistics, `StatsInv` compares each number already read with
what the same statement would count now; that never shrinks, and each count bounds the
next (`TasksInNumbers`). The sums over `llm_calls` are those of `MapThenSumSet`;
`SumExists` and `SumCounts` establish the recursive function behind it by a least
counterexample, without an induction theorem.

`ParamGenerationProofs` proves `ParamsTypeCorrect`, `NoDrawRejected`
and `AnswersAreExtremal` for every set of requests and every `MAX_PARAM_ATTEMPTS`
(`ParamsAssumption`). Rounding down and up are adjoints of the
multiplication (`FloorFits`, `CeilFits`, `MulDivFits`); from this each lemma named
`...Fits` shows, for *arbitrary* positive parameters, that the values which fit the
task's quantities are exactly those up to the answer, or from the answer on. So an
extended list in a generator cannot make an answer wrong that way. `BitsType` does it
for the bits of an alphabet, up to 65536 symbols. What depends on the lists
is left to one lemma per subtype and unknown quantity (`...Right`): the answer is
positive and at most 2^31 - 1, the parameters pass the validation, and the
recalculation agrees, in particular that subtracting before dividing makes no
difference for the images of `traffic_saving` (`SavedUnits`). `DrawsAreValid` puts them
together; the inductive invariant, `GenerationInvariant`, adds that generation starts
only for a subtype that has a generator. For the bit depth, `BitDepthFits` is about the
exact quotient, and `BitDepthRight` shows that the answer is that quotient in every draw
but the three of `InexactDraw`. What `AnswersAreExtremal` says of the two minimums of
task 11 is what `Fits` says of them, see above: the answer is the least value that fills
the share of one serial number, and no more is claimed.

With this every property that a passing run checks is a theorem but for the liveness
ones. Model-checked only: `EveryRequestIsAnswered`, `EveryCallEnds` and `EveryoneEnds`
(fairness and ENABLED are out of the prover's reach), and the violations.

## Not modelled

- The texts: prompts, feedback wordings, exports (JSON, TXT, PDF). One hazard of
  the PDF's layout is listed in `PROJECT.json`.
- The vendors' SDKs, token counts and costs; logging, request ids, configuration,
  migrations and deployment.
- `llm_calls_total` and the duration histogram: no condition of the code depends
  on them.
- Top rejection reasons and the period filters of the statistics: they stand in no
  relation to the other parts. `get_task_list` has the statements of the history
  with other filters.
- The rate limiter: slowapi, a library the code configures with one number.
- Numbers that touch letters, and the order of tasks with equal `created_at`.
- More than one worker process: processes share nothing but the database, where a
  request touches only its own rows.

## What could follow

- `Worker` as an implementation of an abstract resource allocator, with
  `LlmPermits` in the place of its permits.
- Safety lemmas for the liveness of the other modules, as `PoolDrains` is for
  `EveryoneEnds`.
