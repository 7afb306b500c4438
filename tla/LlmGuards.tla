----------------------------- MODULE LlmGuards -----------------------------
(***************************************************************************)
(* _call_llm_with_guards: the calls to the LLM provider that the requests  *)
(* of one worker process make at the same time.  A call                    *)
(*   - waits for a permit of _llm_semaphore, in order of arrival,          *)
(*   - keeps the permit over all its attempts and the pauses between them, *)
(*   - bounds each attempt by asyncio.wait_for, gives up at a timeout and  *)
(*     repeats any other failure until stop_after_attempt,                 *)
(*   - can be cancelled with its request anywhere on the way.              *)
(*                                                                         *)
(* asyncio.Semaphore (Python 3.11, external) hands a released permit to    *)
(* the first waiter, which owns it before its coroutine runs again: such a *)
(* waiter is "granted" and still in the queue.                             *)
(***************************************************************************)
EXTENDS Integers, Sequences, FiniteSets

CONSTANTS
    Calls,           \* the guarded calls, each made once
    MaxConcurrency,  \* llm_max_concurrency
    RetryAttempts    \* llm_retry_attempts

ASSUME GuardsAssumption ==
    /\ IsFiniteSet(Calls)
    /\ MaxConcurrency \in Nat \ {0}
    /\ RetryAttempts \in Nat \ {0}

VARIABLES
    value,     \* permits the semaphore has left
    waiters,   \* its queue
    phase,     \* where each call stands
    attempts,  \* what the attempts of each call came to
    outcome    \* what each call returned or raised

vars == <<value, waiters, phase, attempts, outcome>>

Phases == {"idle", "queued", "granted", "attempt", "backoff", "done"}
Results == {"success", "failure", "timeout"}
Outcomes == Results \cup {"none", "cancelled"}

TypeOK ==
    /\ value \in 0..MaxConcurrency
    /\ waiters \in Seq(Calls)
    /\ phase \in [Calls -> Phases]
    /\ attempts \in [Calls -> Seq(Results)]
    /\ outcome \in [Calls -> Outcomes]

Init ==
    /\ value = MaxConcurrency
    /\ waiters = <<>>
    /\ phase = [c \in Calls |-> "idle"]
    /\ attempts = [c \in Calls |-> <<>>]
    /\ outcome = [c \in Calls |-> "none"]

-----------------------------------------------------------------------------
(* The semaphore *)

Waiting(ph, queue) == { i \in 1..Len(queue) : ph[queue[i]] = "queued" }

(* Mutant of FirstWaiting: the newest waiter is woken.                     *)
LastWaiting(ph, queue) ==
    queue[CHOOSE i \in Waiting(ph, queue) : \A j \in Waiting(ph, queue) : j <= i]

FirstWaiting(ph, queue) ==
    queue[CHOOSE i \in Waiting(ph, queue) : \A j \in Waiting(ph, queue) : i <= j]

(* _wake_up_next: a free permit goes to the first waiter without one.      *)
WakeUpNext(ph, queue, free) ==
    IF free > 0 /\ Waiting(ph, queue) # {}
    THEN /\ phase' = [ph EXCEPT ![FirstWaiting(ph, queue)] = "granted"]
         /\ value' = free - 1
    ELSE /\ phase' = ph
         /\ value' = free

(* deque.remove: the queue without the one entry of c.                     *)
Without(queue, c) ==
    LET place == CHOOSE i \in 1..Len(queue) : queue[i] = c
    IN  [i \in 1..(Len(queue) - 1) |-> queue[IF i < place THEN i ELSE i + 1]]

(* locked(): no permit, or somebody is already in the queue.               *)
Locked == value = 0 \/ waiters # <<>>

-----------------------------------------------------------------------------
(* The call *)

Acquire(c) ==
    /\ phase[c] = "idle"
    /\ ~Locked
    /\ value' = value - 1
    /\ phase' = [phase EXCEPT ![c] = "attempt"]
    /\ UNCHANGED <<waiters, attempts, outcome>>

Enqueue(c) ==
    /\ phase[c] = "idle"
    /\ Locked
    /\ waiters' = Append(waiters, c)
    /\ phase' = [phase EXCEPT ![c] = "queued"]
    /\ UNCHANGED <<value, attempts, outcome>>

(* Mutant of Resume: acquire() does not pass a second free permit on.      *)
ResumeAlone(c) ==
    /\ phase[c] = "granted"
    /\ waiters' = Without(waiters, c)
    /\ phase' = [phase EXCEPT ![c] = "attempt"]
    /\ UNCHANGED <<value, attempts, outcome>>

(* The woken coroutine runs, leaves the queue and wakes the next waiter if *)
(* another permit became free in the meantime.                             *)
Resume(c) ==
    /\ phase[c] = "granted"
    /\ waiters' = Without(waiters, c)
    /\ WakeUpNext([phase EXCEPT ![c] = "attempt"], Without(waiters, c), value)
    /\ UNCHANGED <<attempts, outcome>>

(* Mutant of Leave: a released permit wakes nobody.                        *)
LeaveAlone(c, result) ==
    /\ outcome' = [outcome EXCEPT ![c] = result]
    /\ phase' = [phase EXCEPT ![c] = "done"]
    /\ value' = value + 1
    /\ UNCHANGED waiters

(* Leaving "async with _llm_semaphore" by return or by exception.          *)
Leave(c, result) ==
    /\ outcome' = [outcome EXCEPT ![c] = result]
    /\ WakeUpNext([phase EXCEPT ![c] = "done"], waiters, value + 1)
    /\ UNCHANGED waiters

(* Mutant of EndAttempt: a timeout is repeated like any other failure.     *)
EndAttemptRetriesTimeout(c, result) ==
    /\ phase[c] = "attempt"
    /\ attempts' = [attempts EXCEPT ![c] = Append(@, result)]
    /\ IF result # "success" /\ Len(attempts[c]) + 1 < RetryAttempts
       THEN /\ phase' = [phase EXCEPT ![c] = "backoff"]
            /\ UNCHANGED <<value, waiters, outcome>>
       ELSE Leave(c, result)

(* An attempt returns, raises or is cut off by wait_for.                   *)
EndAttempt(c, result) ==
    /\ phase[c] = "attempt"
    /\ attempts' = [attempts EXCEPT ![c] = Append(@, result)]
    /\ IF result = "failure" /\ Len(attempts[c]) + 1 < RetryAttempts
       THEN /\ phase' = [phase EXCEPT ![c] = "backoff"]
            /\ UNCHANGED <<value, waiters, outcome>>
       ELSE Leave(c, result)

(* The exponential pause of tenacity ends; the permit was kept.            *)
Retry(c) ==
    /\ phase[c] = "backoff"
    /\ phase' = [phase EXCEPT ![c] = "attempt"]
    /\ UNCHANGED <<value, waiters, attempts, outcome>>

(* Mutant of CancelHolding: the permit of a cancelled call is lost.        *)
CancelHoldingKeepsPermit(c) ==
    /\ phase[c] \in {"attempt", "backoff"}
    /\ phase' = [phase EXCEPT ![c] = "done"]
    /\ outcome' = [outcome EXCEPT ![c] = "cancelled"]
    /\ UNCHANGED <<value, waiters, attempts>>

(* CancelledError inside the semaphore: not retried, the permit returns.   *)
CancelHolding(c) ==
    /\ phase[c] \in {"attempt", "backoff"}
    /\ Leave(c, "cancelled")
    /\ UNCHANGED attempts

(* Mutant of CancelWaiting: every cancelled waiter gives a permit back, the *)
(* ones that were never granted one included.                              *)
CancelWaitingReleases(c) ==
    /\ phase[c] \in {"queued", "granted"}
    /\ waiters' = Without(waiters, c)
    /\ outcome' = [outcome EXCEPT ![c] = "cancelled"]
    /\ WakeUpNext([phase EXCEPT ![c] = "done"], Without(waiters, c), value + 1)
    /\ UNCHANGED attempts

(* CancelledError in the queue: a waiter that was just granted a permit    *)
(* gives it back and wakes the next one.                                   *)
CancelWaiting(c) ==
    /\ phase[c] \in {"queued", "granted"}
    /\ waiters' = Without(waiters, c)
    /\ outcome' = [outcome EXCEPT ![c] = "cancelled"]
    /\ IF phase[c] = "granted"
       THEN WakeUpNext([phase EXCEPT ![c] = "done"], Without(waiters, c), value + 1)
       ELSE /\ phase' = [phase EXCEPT ![c] = "done"]
            /\ UNCHANGED value
    /\ UNCHANGED attempts

Proceed(c) ==
    \/ Acquire(c) \/ Enqueue(c) \/ Resume(c) \/ Retry(c)
    \/ \E result \in Results : EndAttempt(c, result)

Finished == (\A c \in Calls : phase[c] = "done") /\ UNCHANGED vars

Next ==
    \/ \E c \in Calls : Proceed(c) \/ CancelHolding(c) \/ CancelWaiting(c)
    \/ Finished

Spec == Init /\ [][Next]_vars

(* The event loop runs every coroutine that is ready; wait_for ends every  *)
(* attempt and asyncio.sleep every pause.                                  *)
FairSpec == Spec /\ \A c \in Calls : WF_vars(Proceed(c))

-----------------------------------------------------------------------------
(* Properties *)

Holders == { c \in Calls : phase[c] \in {"granted", "attempt", "backoff"} }

(* However calls end - answer, timeout, last failure, cancellation while   *)
(* queued, just granted, calling or pausing - no permit of _llm_semaphore  *)
(* is lost or invented, so at most MaxConcurrency attempts run at once.    *)
PermitsConserved == value + Cardinality(Holders) = MaxConcurrency

(* A free permit and a waiter without one exist together only while a      *)
(* granted waiter, which will pass the permit on, has not run yet: no call *)
(* is stranded in the queue of the semaphore.                              *)
NoStrandedWaiter ==
    value > 0 /\ (\E c \in Calls : phase[c] = "queued")
        => \E c \in Calls : phase[c] = "granted"

(* The queue is served in order of arrival and nobody passes it: when a    *)
(* call gets a permit, no call queued before it is still without one.      *)
NoOvertaking ==
    [][\A c \in Calls :
          phase[c] \in {"idle", "queued"} /\ phase'[c] \in {"granted", "attempt"}
          => \A i \in 1..Len(waiters) :
                phase[waiters[i]] = "queued" /\ waiters[i] # c
                => \E j \in 1..(i - 1) : waiters[j] = c]_vars

(* The contract of the retries: all attempts but the last failed, there    *)
(* are at most RetryAttempts, success and timeout end the call at once,    *)
(* and a call fails only after its last permitted attempt.                 *)
RetryContract ==
    \A c \in Calls :
        LET n == Len(attempts[c]) IN
        /\ n <= RetryAttempts
        /\ \A i \in 1..(n - 1) : attempts[c][i] = "failure"
        /\ n > 0 /\ phase[c] # "done" => attempts[c][n] = "failure"
        /\ outcome[c] \in Results => n > 0 /\ attempts[c][n] = outcome[c]
        /\ outcome[c] = "failure" => n = RetryAttempts

(* Who waits, and who of them stands before c in the queue.                *)
Queued == { c \in Calls : phase[c] = "queued" }
Before(queue, d, c) ==
    \E i, j \in 1..Len(queue) : i < j /\ queue[i] = d /\ queue[j] = c

Ahead ==
    [c \in Calls |-> IF c \in Queued THEN { d \in Queued : Before(waiters, d, c) } ELSE {}]

Permits == INSTANCE LlmPermits WITH waiting <- Queued, ahead <- Ahead, inside <- Holders

(* Granted but unresumed waiters, wakeups handed on, the retries of a call *)
(* and cancellations at any point come down to a line before a room for    *)
(* MaxConcurrency calls, in which who leaves lets the next one in.         *)
ImplementsPermits == Permits!Spec

(* Every call that is not cancelled ends, whatever the others do with the  *)
(* permits.                                                                *)
EveryCallEnds == \A c \in Calls : (phase[c] # "idle") ~> (phase[c] = "done")
=============================================================================
