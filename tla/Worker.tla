------------------------------- MODULE Worker -------------------------------
(***************************************************************************)
(* One worker process as a whole: generate requests, a client that walks   *)
(* through the pages of GET /tasks/history and one that asks for           *)
(* GET /statistics share the connection pool and the database; the         *)
(* requests also share the permits for LLM calls.                          *)
(*                                                                         *)
(* What a request does between two awaits is in TaskPipeline, how permits  *)
(* are handed out in LlmGuards; here a request is reduced to what it holds *)
(* and waits for and to the rows its one commit publishes.  The database   *)
(* is READ COMMITTED: every statement of a reader sees what is committed   *)
(* when it runs.                                                           *)
(***************************************************************************)
EXTENDS Integers, Sequences, FiniteSets, FiniteSetsExt, SequencesExt

CONSTANTS
    Requests,        \* the generate requests
    PoolLimit,       \* db_pool_size + db_max_overflow
    MaxConcurrency,  \* llm_max_concurrency
    MaxIterations,   \* MAX_LLM_ITERATIONS
    PageSize,        \* page_size of the history client
    Filters          \* its status filter: a status, or "any" for none

ASSUME WorkerAssumption ==
    /\ IsFiniteSet(Requests) /\ {"history", "statistics"} \cap Requests = {}
    /\ PoolLimit \in Nat \ {0}
    /\ MaxConcurrency \in Nat \ {0}
    /\ MaxIterations \in Nat \ {0}
    /\ PageSize \in Nat \ {0}

VARIABLES
    at,       \* where each request stands
    conn,     \* who has a pooled connection checked out
    permits,  \* requests inside _llm_semaphore
    rows,     \* what the open transaction of each request holds
    db,       \* what is committed of its task
    created,  \* tasks in order of created_at, the newest first
    history,  \* the client of the history
    stats     \* the client of the statistics

vars == <<at, conn, permits, rows, db, created, history, stats>>

(* A tasks row with the numbers of its llm_calls rows of either type.      *)
NoTask == [status |-> "absent", total |-> 0, generation |-> 0, validation |-> 0]

Init ==
    /\ at = [r \in Requests |-> "start"]
    /\ conn = {}
    /\ permits = {}
    /\ rows = [r \in Requests |-> NoTask]
    /\ db = [r \in Requests |-> NoTask]
    /\ created = <<>>
    /\ history \in [at : {"waiting"}, filter : Filters, page : {1}, total : {0},
                    first : {{}}, items : {{}}, seen : {{}}]
    /\ stats = [at |-> "waiting", total |-> 0, accepted |-> 0, rejected |-> 0, error |-> 0,
                averaged |-> 0, types |-> 0, generation |-> 0, validation |-> 0]

Room == Cardinality(conn) < PoolLimit

Goto(r, place) == at' = [at EXCEPT ![r] = place]

Reading == <<history, stats>>

-----------------------------------------------------------------------------
(* A generate request *)

(* Mutant of Begin: the pending row is committed at once.                  *)
BeginCommits(r) ==
    /\ at[r] = "start"
    /\ Room
    /\ conn' = conn \cup {r}
    /\ created' = <<r>> \o created
    /\ rows' = [rows EXCEPT ![r].status = "pending"]
    /\ db' = [db EXCEPT ![r].status = "pending"]
    /\ Goto(r, "ready")
    /\ UNCHANGED <<permits, Reading>>

(* The first flush: a connection is checked out, created_at is set.        *)
Begin(r) ==
    /\ at[r] = "start"
    /\ Room
    /\ conn' = conn \cup {r}
    /\ created' = <<r>> \o created
    /\ rows' = [rows EXCEPT ![r].status = "pending"]
    /\ Goto(r, "ready")
    /\ UNCHANGED <<permits, db, Reading>>

(* Mutant of TakePermit: the connection is given back for the call.        *)
TakePermitAlone(r) ==
    /\ at[r] = "ready"
    /\ Cardinality(permits) < MaxConcurrency
    /\ permits' = permits \cup {r}
    /\ conn' = conn \ {r}
    /\ Goto(r, "calling")
    /\ UNCHANGED <<rows, db, created, Reading>>

(* The next LLM call gets its permit; the transaction stays open.          *)
TakePermit(r) ==
    /\ at[r] = "ready"
    /\ Cardinality(permits) < MaxConcurrency
    /\ permits' = permits \cup {r}
    /\ Goto(r, "calling")
    /\ UNCHANGED <<conn, rows, db, created, Reading>>

NextCall(r) ==
    IF rows[r].generation = rows[r].validation THEN "generation" ELSE "validation"

(* log_llm_call: every call leaves a row, the failed one included.         *)
Logged(r) == rows' = [rows EXCEPT ![r][NextCall(r)] = @ + 1]

(* The call returned; a validation accepts or ends the iteration.          *)
Answered(r, accepts) ==
    /\ Logged(r)
    /\ Goto(r, IF NextCall(r) = "generation" THEN "ready"
               ELSE IF accepts THEN "accepted"
               ELSE IF rows[r].validation + 1 = MaxIterations THEN "rejected" ELSE "ready")

(* Mutant of Failed: the failed call is made again, without end.           *)
FailedRepeats(r) ==
    /\ Goto(r, "ready")
    /\ UNCHANGED rows

Failed(r) == Logged(r) /\ Goto(r, "failed")

EndCall(r) ==
    /\ at[r] = "calling"
    /\ permits' = permits \ {r}
    /\ (\E accepts \in BOOLEAN : Answered(r, accepts)) \/ Failed(r)
    /\ UNCHANGED <<conn, db, created, Reading>>

(* Mutant of Commit: the calls of a failed task are not kept.              *)
CommitWithoutCalls(r, status, total) ==
    /\ rows' = [rows EXCEPT ![r].status = status, ![r].total = total]
    /\ db' = [db EXCEPT ![r] = [NoTask EXCEPT !.status = status, !.total = total]]
    /\ conn' = conn \ {r}

(* Mutant of Close: the session is not closed.                             *)
CloseKeepsConnection(r) ==
    /\ rows' = [rows EXCEPT ![r] = NoTask]
    /\ Goto(r, "done")
    /\ UNCHANGED conn

(* The end of get_db, in a transaction or not.                             *)
Close(r) ==
    /\ rows' = [rows EXCEPT ![r] = NoTask]
    /\ conn' = conn \ {r}
    /\ Goto(r, "done")

(* session.commit(): one transaction publishes all rows, the connection    *)
(* goes back to the pool.                                                  *)
Commit(r, status, total) ==
    LET row == [rows[r] EXCEPT !.status = status, !.total = total] IN
    /\ rows' = [rows EXCEPT ![r] = row]
    /\ db' = [db EXCEPT ![r] = row]
    /\ conn' = conn \ {r}

(* _finalize_accepted and _finalize_rejected, up to their commit.          *)
Finalize(r) ==
    /\ at[r] \in {"accepted", "rejected"}
    /\ Commit(r, at[r], rows[r].validation)
    /\ Goto(r, "reload")
    /\ UNCHANGED <<permits, created, Reading>>

(* _mark_task_error, in the transaction of the failed call or, after the   *)
(* card could not be read, in a new one.                                   *)
MarkTaskError(r) ==
    /\ at[r] \in {"failed", "unread"}
    /\ r \in conn \/ Room
    /\ Commit(r, "error", rows[r].total)
    /\ Goto(r, "marked")
    /\ UNCHANGED <<permits, created, Reading>>

(* _load_response_or_raise over a connection checked out anew.             *)
Reload(r) ==
    /\ at[r] = "reload"
    /\ Room
    /\ conn' = conn \cup {r}
    /\ Goto(r, "read")
    /\ UNCHANGED <<permits, rows, db, created, Reading>>

CloseSession(r) ==
    /\ at[r] \in {"read", "marked"}
    /\ Close(r)
    /\ UNCHANGED <<permits, db, created, Reading>>

(* pool_timeout: the request is refused, a finished task is marked as an   *)
(* error, and that fails too if there is still no connection.              *)
PoolTimesOut(r) ==
    /\ at[r] \in {"start", "reload", "unread"}
    /\ ~Room
    /\ IF at[r] = "reload" THEN Goto(r, "unread") /\ UNCHANGED <<rows, conn>> ELSE Close(r)
    /\ UNCHANGED <<permits, db, created, Reading>>

(* The handler is cancelled: rollback, and everything held is given back.  *)
Cancel(r) ==
    /\ at[r] # "done"
    /\ Close(r)
    /\ permits' = permits \ {r}
    /\ UNCHANGED <<db, created, Reading>>

-----------------------------------------------------------------------------
(* The client of the history: page after page until one is empty *)

Visible(filter) ==
    { r \in Requests : db[r].status # "absent" /\ filter \in {"any", db[r].status} }

Generating == <<at, permits, rows, db, created>>

(* Mutant of HistoryCheckout: the pool grows for readers.                  *)
HistoryCheckoutOverflows ==
    /\ history.at = "waiting"
    /\ history' = [history EXCEPT !.at = "count"]
    /\ conn' = conn \cup {"history"}
    /\ UNCHANGED <<Generating, stats>>

HistoryCheckout ==
    /\ history.at = "waiting"
    /\ Room
    /\ history' = [history EXCEPT !.at = "count"]
    /\ conn' = conn \cup {"history"}
    /\ UNCHANGED <<Generating, stats>>

(* Mutant of HistoryCount: the filter of the page is not applied.          *)
HistoryCountUnfiltered ==
    /\ history.at = "count"
    /\ history' = [history EXCEPT
          !.at = "page",
          !.total = Cardinality(Visible("any")),
          !.first = IF history.page = 1 THEN Visible(history.filter) ELSE @]
    /\ UNCHANGED <<Generating, conn, stats>>

HistoryCount ==
    /\ history.at = "count"
    /\ history' = [history EXCEPT
          !.at = "page",
          !.total = Cardinality(Visible(history.filter)),
          !.first = IF history.page = 1 THEN Visible(history.filter) ELSE @]
    /\ UNCHANGED <<Generating, conn, stats>>

Offset == (history.page - 1) * PageSize

(* The listed tasks that stand before r: created later, listed earlier.    *)
Newer(r) ==
    { s \in Visible(history.filter) :
        \E i, j \in DOMAIN created : i < j /\ created[i] = s /\ created[j] = r }

(* Mutant of Page: the offset counts pages from one.                       *)
PageFromOne ==
    { r \in Visible(history.filter) :
        Cardinality(Newer(r)) \in (Offset + PageSize)..(Offset + 2 * PageSize - 1) }

(* ORDER BY created_at DESC OFFSET (page - 1) * page_size LIMIT page_size  *)
Page ==
    { r \in Visible(history.filter) :
        Cardinality(Newer(r)) \in Offset..(Offset + PageSize - 1) }

(* The page is read, the session closed; after a page that is not empty    *)
(* the client asks for the next.                                           *)
HistoryPage ==
    /\ history.at = "page"
    /\ history' = [history EXCEPT
          !.items = Page,
          !.seen = @ \cup Page,
          !.at = IF Page = {} THEN "done" ELSE "received"]
    /\ conn' = conn \ {"history"}
    /\ UNCHANGED <<Generating, stats>>

HistoryNextPage ==
    /\ history.at = "received"
    /\ history' = [history EXCEPT !.at = "waiting", !.page = @ + 1]
    /\ UNCHANGED <<Generating, conn, stats>>

-----------------------------------------------------------------------------
(* The client of the statistics: get_statistics, statement by statement.   *)
(* The five most frequent rejection reasons stand in no relation to the    *)
(* other parts; their statement is left out.                               *)

Count(status) == Cardinality(Visible(status))
Total(column) == MapThenSumSet(LAMBDA r : db[r][column], Requests)

StatisticsCheckout ==
    /\ stats.at = "waiting"
    /\ Room
    /\ stats' = [stats EXCEPT !.at = "statuses"]
    /\ conn' = conn \cup {"statistics"}
    /\ UNCHANGED <<Generating, history>>

Read(statement, next, answer) ==
    /\ stats.at = statement
    /\ stats' = [answer EXCEPT !.at = next]
    /\ conn' = IF next = "done" THEN conn \ {"statistics"} ELSE conn
    /\ UNCHANGED <<Generating, history>>

StatusShares ==
    Read("statuses", "average",
         [stats EXCEPT !.total = Count("any"), !.accepted = Count("accepted"),
                       !.rejected = Count("rejected"), !.error = Count("error")])

(* avg(total_iterations) over the tasks that have one.                     *)
AverageIterations ==
    Read("average", "types",
         [stats EXCEPT !.averaged = Cardinality({ r \in Requests : db[r].total > 0 })])

ByTaskType ==
    Read("types", "generation", [stats EXCEPT !.types = Count("any")])

GenerationModels ==
    Read("generation", "validation", [stats EXCEPT !.generation = Total("generation")])

ValidationModels ==
    Read("validation", "done", [stats EXCEPT !.validation = Total("validation")])

-----------------------------------------------------------------------------
Proceed(r) ==
    \/ Begin(r) \/ TakePermit(r) \/ EndCall(r) \/ Finalize(r) \/ MarkTaskError(r)
    \/ Reload(r) \/ CloseSession(r)

History == HistoryCheckout \/ HistoryCount \/ HistoryPage \/ HistoryNextPage

Statistics ==
    \/ StatisticsCheckout \/ StatusShares \/ AverageIterations \/ ByTaskType
    \/ GenerationModels \/ ValidationModels

Ended ==
    /\ \A r \in Requests : at[r] = "done"
    /\ history.at = "done"
    /\ stats.at = "done"

Finished == Ended /\ UNCHANGED vars

Next ==
    \/ \E r \in Requests : Proceed(r) \/ PoolTimesOut(r) \/ Cancel(r)
    \/ History
    \/ Statistics
    \/ Finished

(* The event loop runs whoever can go on, wait_for ends the LLM calls.     *)
(* Nobody is helped by a timeout of the pool or by a cancellation.         *)
Spec ==
    /\ Init /\ [][Next]_vars
    /\ \A r \in Requests : WF_vars(Proceed(r))
    /\ WF_vars(History)
    /\ WF_vars(Statistics)

-----------------------------------------------------------------------------
(* Properties *)

Places == { "start", "ready", "calling", "failed", "accepted", "rejected",
            "reload", "read", "unread", "marked", "done" }

TypeOK ==
    /\ at \in [Requests -> Places]
    /\ conn \subseteq Requests \cup {"history", "statistics"}
    /\ Cardinality(conn) <= PoolLimit
    /\ permits \subseteq Requests /\ Cardinality(permits) <= MaxConcurrency
    /\ \A r \in Requests :
          db[r].status \in {"absent", "pending", "accepted", "rejected", "error"}
    /\ ToSet(created) \subseteq Requests
    /\ history.at \in {"waiting", "count", "page", "received", "done"}
    /\ stats.at \in { "waiting", "statuses", "average", "types", "generation",
                      "validation", "done" }

(* Permits and connections are always taken in the same order: whoever     *)
(* holds a permit already has its connection and waits for no other, so    *)
(* the two limits cannot wait for each other.                              *)
PermitHolderHasConnection == permits \subseteq conn

(* Those whose next step needs no connection and no permit that they do    *)
(* not have.                                                               *)
Unhindered ==
    { r \in Requests :
        \/ at[r] \in {"calling", "failed", "accepted", "rejected", "read"}
        \/ at[r] = "ready" /\ Cardinality(permits) < MaxConcurrency }
    \cup (IF history.at \in {"count", "page"} THEN {"history"} ELSE {})
    \cup (IF stats.at \notin {"waiting", "done"} THEN {"statistics"} ELSE {})

(* When all connections are checked out, one of those who have one can go  *)
(* on without waiting for anybody: neither a leaked connection nor waiting *)
(* for permits can block the pool for good.                                *)
FullPoolDrains == Room \/ conn \cap Unhindered # {}

(* Without any timeout of the pool to help, every request comes to its end *)
(* and both readers get their answers, whatever number of connections and  *)
(* permits they share; the run has two connections and one permit.         *)
EveryoneEnds == <>Ended

(* The accepted task whose card could not be read is the only thing that   *)
(* ever leaves a filtered list.                                            *)
Overturned == { r \in Requests : db[r].status = "error" /\ db[r].total > 0 }

(* A page holds at least what the total counted before it promises, even   *)
(* if tasks are committed between the two statements.                      *)
PageKeepsTotal ==
    history.at \in {"received", "done"} /\ (history.filter = "any" \/ Overturned = {}) =>
        Cardinality(history.items) >= Min({PageSize, history.total - Offset})

(* A client that reads on until a page is empty sees every task that was   *)
(* there when it began: tasks committed meanwhile push others down, to     *)
(* pages still to come.  A filtered walk may miss one when another task    *)
(* leaves the filter, as an accepted task turned into an error does.       *)
WalkSkipsNothing ==
    history.at = "done" /\ (history.filter = "any" \/ Overturned = {}) =>
        history.first \subseteq history.seen

(* The shares of the three final statuses make up the whole, although the  *)
(* tasks being generated are in the same table.                            *)
SharesSumToOne == stats.total = stats.accepted + stats.rejected + stats.error

(* Statistics read while tasks are committed may disagree in one direction *)
(* only: what a later statement counts includes what the earlier ones saw. *)
LaterPartsIncludeEarlier ==
    /\ stats.at \notin {"waiting", "statuses", "average"} =>
          stats.averaged >= stats.accepted + stats.rejected
    /\ stats.at \in {"generation", "validation", "done"} => stats.types >= stats.total
    /\ stats.at \in {"validation", "done"} => stats.generation >= stats.averaged
    /\ stats.at = "done" => stats.validation >= stats.averaged
=============================================================================
