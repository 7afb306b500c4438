--------------------------- MODULE LlmGuardsProofs --------------------------
(***************************************************************************)
(* Theorems about LlmGuards, for any number of calls, permits and          *)
(* attempts.                                                               *)
(*                                                                         *)
(* Passing a permit on is the last thing an action does (WakeUpNext), so   *)
(* the semaphore is described for any phases, queue and number of permits  *)
(* (Semaphore), each action is shown to prepare them well, and WakeUpKeeps *)
(* does the rest, for every action at once.                                *)
(*                                                                         *)
(* The refinement of LlmPermits goes the same way: PermitPasses says what  *)
(* waking the next one is for the line, and each action is one step of     *)
(* LlmPermits or none.                                                     *)
(***************************************************************************)
EXTENDS LlmGuards, OrderLemmas, FiniteSetTheorems, TLAPS

Inside == {"granted", "attempt", "backoff"}
Holding(ph) == { c \in Calls : ph[c] \in Inside }

(* The permits that a change of phase sets free.                           *)
Freed(old, new) == (IF old \in Inside THEN 1 ELSE 0) - (IF new \in Inside THEN 1 ELSE 0)

InQueue(queue, c) == \E i \in 1..Len(queue) : queue[i] = c

(* The queue holds the calls that wait or were just granted a permit, once *)
(* each, and every permit is free or held.                                 *)
Semaphore(ph, queue, free) ==
    /\ ph \in [Calls -> Phases]
    /\ queue \in Seq(Calls)
    /\ free \in Nat
    /\ \A c \in Calls : InQueue(queue, c) <=> ph[c] \in {"queued", "granted"}
    /\ \A i, j \in 1..Len(queue) : queue[i] = queue[j] => i = j
    /\ free + Cardinality(Holding(ph)) = MaxConcurrency

Served(ph, free) ==
    free > 0 /\ (\E c \in Calls : ph[c] = "queued") => \E c \in Calls : ph[c] = "granted"

(* What a call has made so far: a call that is not over has attempts left  *)
(* and no outcome.                                                         *)
Retries(ph, tried, out) ==
    /\ tried \in Seq(Results)
    /\ out \in Outcomes
    /\ Len(tried) <= RetryAttempts
    /\ \A i \in 1..(Len(tried) - 1) : tried[i] = "failure"
    /\ ph # "done" =>
          /\ Len(tried) < RetryAttempts
          /\ Len(tried) > 0 => tried[Len(tried)] = "failure"
          /\ out = "none"
    /\ out \in Results => Len(tried) > 0 /\ tried[Len(tried)] = out
    /\ out = "failure" => Len(tried) = RetryAttempts

IInv ==
    /\ Semaphore(phase, waiters, value)
    /\ Served(phase, value)
    /\ attempts \in [Calls -> Seq(Results)] /\ outcome \in [Calls -> Outcomes]
    /\ \A c \in Calls : Retries(phase[c], attempts[c], outcome[c])

-----------------------------------------------------------------------------
(* Counting and queueing *)

LEMMA HoldingFinite ==
    ASSUME NEW ph
    PROVE  IsFiniteSet(Holding(ph)) /\ Cardinality(Holding(ph)) \in Nat
  BY GuardsAssumption, FS_Subset, FS_CardinalityType DEF Holding

(* The number of permits held as one call changes its phase.               *)
LEMMA HoldingChanges ==
    ASSUME NEW ph \in [Calls -> Phases], NEW c \in Calls, NEW new \in Phases
    PROVE  LET after == Cardinality(Holding([ph EXCEPT ![c] = new]))
               before == Cardinality(Holding(ph))
           IN  /\ ph[c] \in Inside /\ new \in Inside => after = before
               /\ ph[c] \notin Inside /\ new \notin Inside => after = before
               /\ ph[c] \in Inside /\ new \notin Inside => after = before - 1
               /\ ph[c] \notin Inside /\ new \in Inside => after = before + 1
<1>. DEFINE after == Holding([ph EXCEPT ![c] = new])
<1>1. ph[c] \in Inside /\ new \in Inside => after = Holding(ph)
  BY DEF Holding
<1>2. ph[c] \notin Inside /\ new \notin Inside => after = Holding(ph)
  BY DEF Holding
<1>3. ph[c] \in Inside /\ new \notin Inside => after = Holding(ph) \ {c} /\ c \in Holding(ph)
  BY DEF Holding
<1>4. ph[c] \notin Inside /\ new \in Inside => after = Holding(ph) \cup {c} /\ c \notin Holding(ph)
  BY DEF Holding
<1>. HIDE DEF after
<1>5. /\ Cardinality(Holding(ph) \ {c}) =
             IF c \in Holding(ph) THEN Cardinality(Holding(ph)) - 1 ELSE Cardinality(Holding(ph))
      /\ Cardinality(Holding(ph) \cup {c}) =
             IF c \in Holding(ph) THEN Cardinality(Holding(ph)) ELSE Cardinality(Holding(ph)) + 1
  BY HoldingFinite, FS_AddElement, FS_RemoveElement
<1>6. /\ ph[c] \in Inside /\ new \in Inside => Cardinality(after) = Cardinality(Holding(ph))
      /\ ph[c] \notin Inside /\ new \notin Inside => Cardinality(after) = Cardinality(Holding(ph))
      /\ ph[c] \in Inside /\ new \notin Inside => Cardinality(after) = Cardinality(Holding(ph)) - 1
      /\ ph[c] \notin Inside /\ new \in Inside => Cardinality(after) = Cardinality(Holding(ph)) + 1
  BY <1>1, <1>2, <1>3, <1>4, <1>5
<1> QED BY <1>6 DEF after

(* Only a call that waits is chosen to be woken.                           *)
LEMMA FirstIsWaiting ==
    ASSUME NEW ph, NEW queue \in Seq(Calls), Waiting(ph, queue) # {}
    PROVE  /\ FirstWaiting(ph, queue) \in Calls
           /\ ph[FirstWaiting(ph, queue)] = "queued"
<1>1. Waiting(ph, queue) \subseteq Nat
  BY DEF Waiting
<1>2. PICK i \in Waiting(ph, queue) : \A j \in Waiting(ph, queue) : i <= j
  BY <1>1, LeastElement
<1>3. (CHOOSE k \in Waiting(ph, queue) : \A j \in Waiting(ph, queue) : k <= j)
          \in Waiting(ph, queue)
  BY <1>2
<1> QED BY <1>3 DEF FirstWaiting, Waiting

(* Leaving the queue takes nobody else out of it.                          *)
LEMMA WithoutLeaves ==
    ASSUME NEW queue \in Seq(Calls), NEW c \in Calls, InQueue(queue, c),
           \A i, j \in 1..Len(queue) : queue[i] = queue[j] => i = j
    PROVE  /\ Without(queue, c) \in Seq(Calls)
           /\ ~InQueue(Without(queue, c), c)
           /\ \A d \in Calls \ {c} : InQueue(Without(queue, c), d) <=> InQueue(queue, d)
           /\ \A i, j \in 1..Len(Without(queue, c)) :
                 Without(queue, c)[i] = Without(queue, c)[j] => i = j
<1>. DEFINE place == CHOOSE i \in 1..Len(queue) : queue[i] = c
            rest == [i \in 1..(Len(queue) - 1) |-> queue[IF i < place THEN i ELSE i + 1]]
<1>1. place \in 1..Len(queue) /\ queue[place] = c
  BY DEF InQueue
<1>2. Without(queue, c) = rest
  BY DEF Without
<1>. HIDE DEF place
<1>3. Len(queue) \in Nat /\ \A i \in 1..Len(queue) : queue[i] \in Calls
  OBVIOUS
<1>4. rest \in Seq(Calls) /\ Len(rest) = Len(queue) - 1
  <2>1. \A i \in 1..(Len(queue) - 1) : (IF i < place THEN i ELSE i + 1) \in 1..Len(queue)
    BY <1>1, <1>3
  <2>2. rest \in [1..(Len(queue) - 1) -> Calls] /\ Len(queue) - 1 \in Nat
    BY <2>1, <1>1, <1>3
  <2> QED BY <2>2
<1>5. ~InQueue(rest, c)
  <2>1. ASSUME NEW i \in 1..Len(rest) PROVE rest[i] # c
    <3>1. PICK k \in 1..Len(queue) : rest[i] = queue[k] /\ k # place
      BY <1>1, <1>3, <1>4
    <3> QED BY <3>1, <1>1
  <2> QED BY <2>1 DEF InQueue
<1>6. ASSUME NEW d \in Calls \ {c} PROVE InQueue(rest, d) <=> InQueue(queue, d)
  <2>1. ASSUME InQueue(rest, d) PROVE InQueue(queue, d)
    BY <2>1, <1>1, <1>3, <1>4 DEF InQueue
  <2>2. ASSUME InQueue(queue, d) PROVE InQueue(rest, d)
    <3>1. PICK i \in 1..Len(queue) : queue[i] = d
      BY <2>2 DEF InQueue
    <3>2. i # place
      BY <3>1, <1>1
    <3>3. CASE i < place
      <4>1. i \in 1..Len(rest) /\ rest[i] = d
        BY <3>1, <3>3, <1>1, <1>3, <1>4
      <4> QED BY <4>1 DEF InQueue
    <3>4. CASE i > place
      <4>1. i - 1 \in 1..Len(rest) /\ ~(i - 1 < place) /\ (i - 1) + 1 = i
        BY <3>1, <3>4, <1>1, <1>3, <1>4
      <4>2. rest[i - 1] = d
        BY <3>1, <4>1, <1>4
      <4> QED BY <4>1, <4>2 DEF InQueue
    <3> QED BY <3>2, <3>3, <3>4, <1>1, <1>3
  <2> QED BY <2>1, <2>2
<1>7. \A i, j \in 1..Len(rest) : rest[i] = rest[j] => i = j
  BY <1>1, <1>3, <1>4
<1> QED BY <1>2, <1>4, <1>5, <1>6, <1>7

-----------------------------------------------------------------------------
(* The semaphore *)

(* Whatever an action leaves behind, waking the next waiter ends with a    *)
(* sound semaphore in which nobody is stranded.                            *)
LEMMA WakeUpKeeps ==
    ASSUME NEW ph, NEW queue, NEW free, Semaphore(ph, queue, free),
           WakeUpNext(ph, queue, free), waiters' = queue
    PROVE  /\ Semaphore(phase', waiters', value')
           /\ Served(phase', value')
           /\ \A c \in Calls :
                 phase'[c] = ph[c] \/ (ph[c] = "queued" /\ phase'[c] = "granted")
<1>. DEFINE first == FirstWaiting(ph, queue)
<1>1. CASE free > 0 /\ Waiting(ph, queue) # {}
  <2>1. phase' = [ph EXCEPT ![first] = "granted"] /\ value' = free - 1
    BY <1>1 DEF WakeUpNext
  <2>2. first \in Calls /\ ph[first] = "queued"
    BY <1>1, FirstIsWaiting DEF Semaphore
  <2>. HIDE DEF first
  <2>3. phase' \in [Calls -> Phases] /\ value' \in Nat
    <3>1. phase' \in [Calls -> Phases]
      BY <2>1 DEF Semaphore, Phases
    <3>2. free \in Nat
      BY DEF Semaphore
    <3> QED BY <3>1, <3>2, <1>1, <2>1
  <2>4. \A c \in Calls : phase'[c] = IF c = first THEN "granted" ELSE ph[c]
    BY <2>1, <2>2 DEF Semaphore
  <2>5. \A c \in Calls : InQueue(queue, c) <=> phase'[c] \in {"queued", "granted"}
    BY <2>2, <2>4 DEF Semaphore
  <2>6. Cardinality(Holding(phase')) = Cardinality(Holding(ph)) + 1
    BY <2>1, <2>2, HoldingChanges DEF Semaphore, Phases, Inside
  <2>7. value' + Cardinality(Holding(phase')) = MaxConcurrency
    BY <1>1, <2>1, <2>6, HoldingFinite DEF Semaphore
  <2>8. Served(phase', value')
    BY <2>2, <2>4 DEF Served
  <2>9. Semaphore(phase', waiters', value')
    BY <2>3, <2>5, <2>7 DEF Semaphore
  <2> QED BY <2>2, <2>4, <2>8, <2>9
<1>2. CASE ~(free > 0 /\ Waiting(ph, queue) # {})
  <2>1. phase' = ph /\ value' = free
    BY <1>2 DEF WakeUpNext
  <2>2. Waiting(ph, queue) = {} => \A c \in Calls : ph[c] # "queued"
    BY DEF Waiting, Semaphore, InQueue
  <2> QED BY <1>2, <2>1, <2>2 DEF Served
<1> QED BY <1>1, <1>2

(* A call takes another place: the semaphore stays sound if the queue and  *)
(* the free permits follow it.                                             *)
LEMMA MoveKeeps ==
    ASSUME NEW c \in Calls, NEW new \in Phases, NEW queue \in Seq(Calls), NEW free \in Nat,
           Semaphore(phase, waiters, value),
           InQueue(queue, c) <=> new \in {"queued", "granted"},
           \A d \in Calls \ {c} : InQueue(queue, d) <=> InQueue(waiters, d),
           \A i, j \in 1..Len(queue) : queue[i] = queue[j] => i = j,
           free = value + Freed(phase[c], new)
    PROVE  Semaphore([phase EXCEPT ![c] = new], queue, free)
<1>. DEFINE ph == [phase EXCEPT ![c] = new]
<1>1. ph \in [Calls -> Phases] /\ \A d \in Calls : ph[d] = IF d = c THEN new ELSE phase[d]
  BY DEF Semaphore
<1>2. free + Cardinality(Holding(ph)) = MaxConcurrency
  <2>. DEFINE before == Cardinality(Holding(phase))
              after == Cardinality(Holding(ph))
  <2>1. /\ phase[c] \in Inside /\ new \in Inside => after = before
        /\ phase[c] \notin Inside /\ new \notin Inside => after = before
        /\ phase[c] \in Inside /\ new \notin Inside => after = before - 1
        /\ phase[c] \notin Inside /\ new \in Inside => after = before + 1
    BY HoldingChanges DEF Semaphore
  <2>2. before \in Nat /\ value \in Nat /\ value + before = MaxConcurrency
    BY HoldingFinite DEF Semaphore
  <2>. HIDE DEF before, after
  <2>3. free + after = MaxConcurrency
    BY <2>1, <2>2 DEF Freed
  <2> QED BY <2>3 DEF after
<1>. HIDE DEF ph
<1>3. \A d \in Calls : InQueue(queue, d) <=> ph[d] \in {"queued", "granted"}
  BY <1>1 DEF Semaphore
<1>4. Semaphore(ph, queue, free)
  BY <1>1, <1>2, <1>3 DEF Semaphore
<1> QED BY <1>4 DEF ph

LEMMA WokenKeeps ==
    ASSUME NEW c \in Calls, NEW new \in Phases \ {"queued"}, NEW queue \in Seq(Calls),
           NEW free \in Nat,
           Semaphore(phase, waiters, value),
           InQueue(queue, c) <=> new = "granted",
           \A d \in Calls \ {c} : InQueue(queue, d) <=> InQueue(waiters, d),
           \A i, j \in 1..Len(queue) : queue[i] = queue[j] => i = j,
           free = value + Freed(phase[c], new),
           WakeUpNext([phase EXCEPT ![c] = new], queue, free), waiters' = queue
    PROVE  /\ Semaphore(phase', waiters', value')
           /\ Served(phase', value')
           /\ phase'[c] = new
           /\ \A d \in Calls \ {c} :
                 phase'[d] = phase[d] \/ (phase[d] = "queued" /\ phase'[d] = "granted")
<1>. DEFINE ph == [phase EXCEPT ![c] = new]
<1>1. Semaphore(ph, queue, free)
  BY MoveKeeps
<1>2. \A d \in Calls : ph[d] = IF d = c THEN new ELSE phase[d]
  BY DEF Semaphore
<1>. HIDE DEF ph
<1>3. WakeUpNext(ph, queue, free)
  BY DEF ph
<1> QED BY <1>1, <1>2, <1>3, WakeUpKeeps

-----------------------------------------------------------------------------
(* One action at a time *)

(* What a step of call c keeps: the semaphore, its own attempts, and those *)
(* of the other calls, of which one may have been granted a permit.        *)
StepOK(c) ==
    /\ Semaphore(phase', waiters', value')
    /\ Served(phase', value')
    /\ attempts' \in [Calls -> Seq(Results)] /\ outcome' \in [Calls -> Outcomes]
    /\ Retries(phase'[c], attempts'[c], outcome'[c])
    /\ \A d \in Calls \ {c} :
          /\ phase'[d] = phase[d] \/ (phase[d] = "queued" /\ phase'[d] = "granted")
          /\ attempts'[d] = attempts[d] /\ outcome'[d] = outcome[d]

LEMMA StepKeepsIInv ==
    ASSUME IInv, NEW c \in Calls, StepOK(c)
    PROVE  IInv'
<1>1. ASSUME NEW d \in Calls PROVE Retries(phase'[d], attempts'[d], outcome'[d])
  <2>1. CASE d = c
    BY <2>1 DEF StepOK
  <2>2. CASE d # c
    <3>1. Retries(phase[d], attempts[d], outcome[d])
      BY DEF IInv
    <3>2. /\ attempts'[d] = attempts[d] /\ outcome'[d] = outcome[d]
          /\ phase'[d] # "done" => phase[d] # "done"
      BY <2>2 DEF StepOK
    <3>3. \A x, y, ph, ph2 : Retries(ph, x, y) /\ (ph2 # "done" => ph # "done")
                              => Retries(ph2, x, y)
      BY DEF Retries
    <3> QED BY <3>1, <3>2, <3>3
  <2> QED BY <2>1, <2>2
<1>2. \A d \in Calls : Retries(phase[d], attempts[d], outcome[d])'
  BY <1>1
<1>3. Semaphore(phase, waiters, value)' /\ Served(phase, value)'
  BY DEF StepOK
<1> QED BY <1>2, <1>3 DEF IInv, StepOK

LEMMA AcquireStep ==
    ASSUME IInv, NEW c \in Calls, Acquire(c)
    PROVE  StepOK(c)
<1>1. waiters = <<>> /\ value # 0 /\ value \in Nat /\ phase \in [Calls -> Phases]
  BY DEF Acquire, Locked, IInv, Semaphore
<1>2. \A d \in Calls : ~InQueue(waiters, d)
  BY <1>1 DEF InQueue
<1>3. Semaphore([phase EXCEPT ![c] = "attempt"], waiters, value - 1)
  <2>1. value - 1 \in Nat /\ value - 1 = value + Freed(phase[c], "attempt")
    BY <1>1 DEF Acquire, Freed, Inside
  <2>2. "attempt" \in Phases /\ waiters \in Seq(Calls) /\ Semaphore(phase, waiters, value)
    BY <1>1 DEF Phases, IInv
  <2>3. /\ InQueue(waiters, c) <=> "attempt" \in {"queued", "granted"}
        /\ \A i, j \in 1..Len(waiters) : waiters[i] = waiters[j] => i = j
    BY <1>2 DEF IInv, Semaphore
  <2> QED BY <2>1, <2>2, <2>3, MoveKeeps
<1>4. Semaphore(phase', waiters', value')
  BY <1>3 DEF Acquire
<1>5. \A d \in Calls : phase'[d] = IF d = c THEN "attempt" ELSE phase[d]
  BY <1>1 DEF Acquire
<1>6. Served(phase', value')
  BY <1>2, <1>5 DEF Served, IInv, Semaphore
<1>7. Retries(phase'[c], attempts'[c], outcome'[c])
  BY <1>5 DEF Acquire, IInv, Retries
<1> QED BY <1>4, <1>5, <1>6, <1>7 DEF StepOK, Acquire, IInv

LEMMA EnqueueStep ==
    ASSUME IInv, NEW c \in Calls, Enqueue(c)
    PROVE  StepOK(c)
<1>. DEFINE queue == Append(waiters, c)
<1>1. /\ waiters \in Seq(Calls) /\ value \in Nat /\ phase \in [Calls -> Phases]
      /\ ~InQueue(waiters, c)
      /\ \A i, j \in 1..Len(waiters) : waiters[i] = waiters[j] => i = j
  BY DEF Enqueue, IInv, Semaphore
<1>2. /\ queue \in Seq(Calls) /\ Len(queue) = Len(waiters) + 1 /\ Len(waiters) \in Nat
      /\ queue[Len(queue)] = c
      /\ \A i \in 1..Len(waiters) : queue[i] = waiters[i]
  BY <1>1
<1>. HIDE DEF queue
<1>3. InQueue(queue, c) /\ \A d \in Calls \ {c} : InQueue(queue, d) <=> InQueue(waiters, d)
  BY <1>2 DEF InQueue
<1>4. \A i, j \in 1..Len(queue) : queue[i] = queue[j] => i = j
  BY <1>1, <1>2 DEF InQueue
<1>5. Semaphore([phase EXCEPT ![c] = "queued"], queue, value)
  <2>1. value = value + Freed(phase[c], "queued")
    BY <1>1 DEF Enqueue, Freed, Inside
  <2>2. "queued" \in Phases /\ Semaphore(phase, waiters, value)
    BY DEF Phases, IInv
  <2> QED BY <1>1, <1>2, <1>3, <1>4, <2>1, <2>2, MoveKeeps
<1>6. Semaphore(phase', waiters', value')
  BY <1>5 DEF Enqueue, queue
<1>7. \A d \in Calls : phase'[d] = IF d = c THEN "queued" ELSE phase[d]
  BY <1>1 DEF Enqueue
<1>8. Served(phase', value')
  <2>1. SUFFICES ASSUME value > 0 PROVE \E d \in Calls : phase'[d] = "granted"
    BY DEF Served, Enqueue
  <2>2. waiters # <<>>
    BY <1>1, <2>1 DEF Enqueue, Locked
  <2>3. waiters[1] \in Calls /\ InQueue(waiters, waiters[1])
    BY <1>1, <2>2 DEF InQueue
  <2>4. PICK d \in Calls : phase[d] = "granted"
    BY <2>1, <2>3 DEF IInv, Semaphore, Served
  <2>5. d # c
    BY <2>4 DEF Enqueue
  <2> QED BY <1>7, <2>4, <2>5
<1>9. Retries(phase'[c], attempts'[c], outcome'[c])
  BY <1>7 DEF Enqueue, IInv, Retries
<1> QED BY <1>6, <1>7, <1>8, <1>9 DEF StepOK, Enqueue, IInv

LEMMA ResumeStep ==
    ASSUME IInv, NEW c \in Calls, Resume(c)
    PROVE  StepOK(c)
<1>1. waiters \in Seq(Calls) /\ value \in Nat /\ InQueue(waiters, c) /\ phase[c] = "granted"
  BY DEF Resume, IInv, Semaphore
<1>2. /\ Without(waiters, c) \in Seq(Calls)
      /\ ~InQueue(Without(waiters, c), c)
      /\ \A d \in Calls \ {c} : InQueue(Without(waiters, c), d) <=> InQueue(waiters, d)
      /\ \A i, j \in 1..Len(Without(waiters, c)) :
            Without(waiters, c)[i] = Without(waiters, c)[j] => i = j
  BY <1>1, WithoutLeaves DEF IInv, Semaphore
<1>3. /\ Semaphore(phase', waiters', value') /\ Served(phase', value')
      /\ phase'[c] = "attempt"
      /\ \A d \in Calls \ {c} :
            phase'[d] = phase[d] \/ (phase[d] = "queued" /\ phase'[d] = "granted")
  <2>1. value = value + Freed(phase[c], "attempt")
    BY <1>1 DEF Freed, Inside
  <2>2. /\ "attempt" \in Phases \ {"queued"} /\ Semaphore(phase, waiters, value)
        /\ waiters' = Without(waiters, c)
        /\ WakeUpNext([phase EXCEPT ![c] = "attempt"], Without(waiters, c), value)
    BY DEF Phases, IInv, Resume
  <2> QED BY <1>1, <1>2, <2>1, <2>2, WokenKeeps
<1>4. Retries(phase'[c], attempts'[c], outcome'[c])
  BY <1>1, <1>3 DEF Resume, IInv, Retries
<1> QED BY <1>3, <1>4 DEF StepOK, Resume, IInv

(* Leaving "async with": what it does to the semaphore.                    *)
LEMMA LeaveKeeps ==
    ASSUME IInv, NEW c \in Calls, NEW result \in Outcomes, phase[c] \in {"attempt", "backoff"},
           Leave(c, result)
    PROVE  /\ Semaphore(phase', waiters', value') /\ Served(phase', value')
           /\ phase'[c] = "done"
           /\ outcome' \in [Calls -> Outcomes] /\ outcome'[c] = result
           /\ \A d \in Calls \ {c} :
                 /\ phase'[d] = phase[d] \/ (phase[d] = "queued" /\ phase'[d] = "granted")
                 /\ outcome'[d] = outcome[d]
<1>1. /\ waiters \in Seq(Calls) /\ value \in Nat
      /\ InQueue(waiters, c) <=> phase[c] \in {"queued", "granted"}
      /\ \A i, j \in 1..Len(waiters) : waiters[i] = waiters[j] => i = j
  BY DEF IInv, Semaphore
<1>2. /\ Semaphore(phase', waiters', value') /\ Served(phase', value')
      /\ phase'[c] = "done"
      /\ \A d \in Calls \ {c} :
            phase'[d] = phase[d] \/ (phase[d] = "queued" /\ phase'[d] = "granted")
  <2>1. value + 1 \in Nat /\ value + 1 = value + Freed(phase[c], "done")
    BY <1>1 DEF Freed, Inside
  <2>2. /\ "done" \in Phases \ {"queued"} /\ Semaphore(phase, waiters, value)
        /\ waiters' = waiters
        /\ WakeUpNext([phase EXCEPT ![c] = "done"], waiters, value + 1)
    BY DEF Phases, IInv, Leave
  <2>3. ~InQueue(waiters, c)
    BY <1>1
  <2> QED BY <1>1, <2>1, <2>2, <2>3, WokenKeeps
<1> QED BY <1>2 DEF Leave, IInv

LEMMA EndAttemptStep ==
    ASSUME IInv, NEW c \in Calls, NEW result \in Results, EndAttempt(c, result)
    PROVE  StepOK(c)
<1>. DEFINE tried == Append(attempts[c], result)
            n == Len(attempts[c])
<1>1. /\ phase[c] = "attempt" /\ phase \in [Calls -> Phases]
      /\ Retries("attempt", attempts[c], outcome[c])
      /\ attempts' = [attempts EXCEPT ![c] = tried]
  BY DEF EndAttempt, IInv, Semaphore
<1>2. /\ attempts[c] \in Seq(Results) /\ n \in Nat /\ n < RetryAttempts
      /\ \A i \in 1..n : attempts[c][i] = "failure"
      /\ outcome[c] = "none"
  BY <1>1 DEF Retries
<1>3. /\ tried \in Seq(Results) /\ Len(tried) = n + 1 /\ tried[n + 1] = result
      /\ \A i \in 1..n : tried[i] = "failure"
  BY <1>2
<1>4. /\ attempts' \in [Calls -> Seq(Results)] /\ attempts'[c] = tried
      /\ \A d \in Calls \ {c} : attempts'[d] = attempts[d]
  BY <1>1, <1>3 DEF IInv
<1>. HIDE DEF tried, n
<1>5. CASE result = "failure" /\ n + 1 < RetryAttempts
  <2>1. phase' = [phase EXCEPT ![c] = "backoff"] /\ UNCHANGED <<value, waiters, outcome>>
    BY <1>5 DEF EndAttempt, n
  <2>2. \A d \in Calls : phase'[d] = IF d = c THEN "backoff" ELSE phase[d]
    BY <1>1, <2>1
  <2>3. Semaphore(phase', waiters', value')
    <3>1. /\ "backoff" \in Phases /\ waiters \in Seq(Calls) /\ value \in Nat
          /\ Semaphore(phase, waiters, value)
          /\ InQueue(waiters, c) <=> "backoff" \in {"queued", "granted"}
          /\ \A i, j \in 1..Len(waiters) : waiters[i] = waiters[j] => i = j
      BY <1>1 DEF Phases, IInv, Semaphore
    <3>2. value = value + Freed(phase[c], "backoff")
      BY <1>1, <3>1 DEF Freed, Inside
    <3> QED BY <2>1, <3>1, <3>2, MoveKeeps
  <2>4. Served(phase', value')
    BY <1>1, <2>1, <2>2 DEF Served, IInv
  <2>5. Retries("backoff", tried, "none")
    BY <1>2, <1>3, <1>5, GuardsAssumption DEF Retries, Outcomes, Results
  <2> QED BY <1>2, <1>4, <2>1, <2>2, <2>3, <2>4, <2>5 DEF StepOK, IInv
<1>6. CASE ~(result = "failure" /\ n + 1 < RetryAttempts)
  <2>1. Leave(c, result)
    BY <1>6 DEF EndAttempt, n
  <2>2. result \in Outcomes
    BY DEF Outcomes
  <2>3. /\ Semaphore(phase', waiters', value') /\ Served(phase', value')
        /\ phase'[c] = "done"
        /\ outcome' \in [Calls -> Outcomes] /\ outcome'[c] = result
        /\ \A d \in Calls \ {c} :
              /\ phase'[d] = phase[d] \/ (phase[d] = "queued" /\ phase'[d] = "granted")
              /\ outcome'[d] = outcome[d]
    BY <1>1, <2>1, <2>2, LeaveKeeps
  <2>4. Retries("done", tried, result)
    BY <1>2, <1>3, <1>6, <2>2, GuardsAssumption DEF Retries
  <2> QED BY <1>4, <2>3, <2>4 DEF StepOK
<1> QED BY <1>5, <1>6

LEMMA RetryStep ==
    ASSUME IInv, NEW c \in Calls, Retry(c)
    PROVE  StepOK(c)
<1>1. /\ phase[c] = "backoff" /\ phase \in [Calls -> Phases]
      /\ phase' = [phase EXCEPT ![c] = "attempt"]
      /\ UNCHANGED <<value, waiters, attempts, outcome>>
  BY DEF Retry, IInv, Semaphore
<1>2. \A d \in Calls : phase'[d] = IF d = c THEN "attempt" ELSE phase[d]
  BY <1>1
<1>3. Semaphore(phase', waiters', value')
  <2>1. /\ "attempt" \in Phases /\ waiters \in Seq(Calls) /\ value \in Nat
        /\ Semaphore(phase, waiters, value)
        /\ InQueue(waiters, c) <=> "attempt" \in {"queued", "granted"}
        /\ \A i, j \in 1..Len(waiters) : waiters[i] = waiters[j] => i = j
    BY <1>1 DEF Phases, IInv, Semaphore
  <2>2. value = value + Freed(phase[c], "attempt")
    BY <1>1, <2>1 DEF Freed, Inside
  <2> QED BY <1>1, <2>1, <2>2, MoveKeeps
<1>4. Served(phase', value')
  BY <1>1, <1>2 DEF Served, IInv
<1>5. Retries(phase'[c], attempts'[c], outcome'[c])
  BY <1>1, <1>2 DEF IInv, Retries
<1> QED BY <1>1, <1>2, <1>3, <1>4, <1>5 DEF StepOK, IInv

LEMMA CancelHoldingStep ==
    ASSUME IInv, NEW c \in Calls, CancelHolding(c)
    PROVE  StepOK(c)
<1>1. /\ phase[c] \in {"attempt", "backoff"} /\ Leave(c, "cancelled")
      /\ attempts' = attempts /\ "cancelled" \in Outcomes
  BY DEF CancelHolding, Outcomes
<1>2. /\ Semaphore(phase', waiters', value') /\ Served(phase', value')
      /\ phase'[c] = "done"
      /\ outcome' \in [Calls -> Outcomes] /\ outcome'[c] = "cancelled"
      /\ \A d \in Calls \ {c} :
            /\ phase'[d] = phase[d] \/ (phase[d] = "queued" /\ phase'[d] = "granted")
            /\ outcome'[d] = outcome[d]
  BY <1>1, LeaveKeeps
<1>3. Retries("done", attempts[c], "cancelled")
  BY <1>1 DEF IInv, Retries, Results
<1> QED BY <1>1, <1>2, <1>3 DEF StepOK, IInv

LEMMA CancelWaitingStep ==
    ASSUME IInv, NEW c \in Calls, CancelWaiting(c)
    PROVE  StepOK(c)
<1>. DEFINE queue == Without(waiters, c)
<1>1. /\ waiters \in Seq(Calls) /\ value \in Nat /\ InQueue(waiters, c)
      /\ phase \in [Calls -> Phases] /\ phase[c] \in {"queued", "granted"}
      /\ Semaphore(phase, waiters, value)
  BY DEF CancelWaiting, IInv, Semaphore
<1>2. /\ queue \in Seq(Calls)
      /\ ~InQueue(queue, c)
      /\ \A d \in Calls \ {c} : InQueue(queue, d) <=> InQueue(waiters, d)
      /\ \A i, j \in 1..Len(queue) : queue[i] = queue[j] => i = j
  BY <1>1, WithoutLeaves DEF Semaphore
<1>3. waiters' = queue /\ attempts' = attempts /\ outcome' = [outcome EXCEPT ![c] = "cancelled"]
  BY DEF CancelWaiting
<1>4. /\ outcome' \in [Calls -> Outcomes] /\ outcome'[c] = "cancelled"
      /\ \A d \in Calls \ {c} : outcome'[d] = outcome[d]
  BY <1>3 DEF IInv, Outcomes
<1>5. Retries("done", attempts[c], "cancelled")
  BY <1>1 DEF IInv, Retries, Results, Outcomes
<1>6. /\ Semaphore(phase', waiters', value') /\ Served(phase', value')
      /\ phase'[c] = "done"
      /\ \A d \in Calls \ {c} :
            phase'[d] = phase[d] \/ (phase[d] = "queued" /\ phase'[d] = "granted")
  <2>1. CASE phase[c] = "granted"
    <3>1. WakeUpNext([phase EXCEPT ![c] = "done"], queue, value + 1)
      BY <2>1 DEF CancelWaiting
    <3>. HIDE DEF queue
    <3>2. value + 1 \in Nat /\ value + 1 = value + Freed(phase[c], "done")
      BY <1>1, <2>1 DEF Freed, Inside
    <3>3. "done" \in Phases \ {"queued"}
      BY DEF Phases
    <3> QED BY <1>1, <1>2, <1>3, <3>1, <3>2, <3>3, WokenKeeps
  <2>2. CASE phase[c] = "queued"
    <3>1. phase' = [phase EXCEPT ![c] = "done"] /\ value' = value
      BY <2>2 DEF CancelWaiting
    <3>. HIDE DEF queue
    <3>2. value = value + Freed(phase[c], "done")
      BY <1>1, <2>2 DEF Freed, Inside
    <3>3. "done" \in Phases
      BY DEF Phases
    <3>4. InQueue(queue, c) <=> "done" \in {"queued", "granted"}
      BY <1>2
    <3>5. Semaphore([phase EXCEPT ![c] = "done"], queue, value)
      BY <1>1, <1>2, <3>2, <3>3, <3>4, MoveKeeps
    <3>6. \A d \in Calls : phase'[d] = IF d = c THEN "done" ELSE phase[d]
      BY <1>1, <3>1
    <3>7. Served(phase', value')
      BY <2>2, <3>1, <3>6 DEF Served, IInv
    <3> QED BY <1>3, <3>1, <3>5, <3>6, <3>7
  <2> QED BY <1>1, <2>1, <2>2
<1> QED BY <1>3, <1>4, <1>5, <1>6 DEF StepOK, IInv

-----------------------------------------------------------------------------
(* The order of the queue *)

(* d is the next to be served: whoever waits without a permit stands       *)
(* behind it.                                                              *)
InTurn(d) ==
    \A i \in 1..Len(waiters) :
        phase[waiters[i]] = "queued" /\ waiters[i] # d
        => \E j \in 1..(i - 1) : waiters[j] = d

(* What an action does to the others: a permit goes to the next in turn.   *)
OthersInTurn(c) ==
    \A d \in Calls \ {c} :
        phase'[d] = phase[d] \/ (phase'[d] = "granted" /\ InTurn(d))

(* The calls that remain in the queue stand in the order they stood in.    *)
SameOrder(queue) ==
    \A i, j \in 1..Len(queue) :
        i < j => \E k, l \in 1..Len(waiters) :
                    k < l /\ waiters[k] = queue[i] /\ waiters[l] = queue[j]

LEMMA WithoutKeepsOrder ==
    ASSUME NEW c \in Calls, waiters \in Seq(Calls), InQueue(waiters, c)
    PROVE  SameOrder(Without(waiters, c))
<1>. DEFINE place == CHOOSE i \in 1..Len(waiters) : waiters[i] = c
            old(i) == IF i < place THEN i ELSE i + 1
            rest == [i \in 1..(Len(waiters) - 1) |-> waiters[old(i)]]
<1>1. place \in 1..Len(waiters) /\ Len(waiters) \in Nat
  BY DEF InQueue
<1>2. Without(waiters, c) = rest
  BY DEF Without
<1>. HIDE DEF place
<1>3. Len(rest) = Len(waiters) - 1
  BY <1>1
<1>4. ASSUME NEW i \in 1..Len(rest), NEW j \in 1..Len(rest), i < j
      PROVE  \E k, l \in 1..Len(waiters) :
                 k < l /\ waiters[k] = rest[i] /\ waiters[l] = rest[j]
  <2>1. old(i) \in 1..Len(waiters) /\ old(j) \in 1..Len(waiters) /\ old(i) < old(j)
    BY <1>1, <1>3, <1>4
  <2>2. rest[i] = waiters[old(i)] /\ rest[j] = waiters[old(j)]
    BY <1>1, <1>3
  <2> QED BY <2>1, <2>2
<1>. HIDE DEF rest
<1>5. SameOrder(rest)
  BY <1>4 DEF SameOrder
<1> QED BY <1>2, <1>5

(* The call that is woken is the next in turn, when the one that wakes it  *)
(* was not waiting itself.                                                 *)
LEMMA WokenInTurn ==
    ASSUME NEW c \in Calls, phase[c] # "queued", NEW new \in Phases \ {"queued"},
           NEW queue \in Seq(Calls), NEW free,
           Semaphore(phase, waiters, value),
           \A d \in Calls \ {c} : InQueue(queue, d) <=> InQueue(waiters, d),
           SameOrder(queue),
           WakeUpNext([phase EXCEPT ![c] = new], queue, free)
    PROVE  OthersInTurn(c)
<1>. DEFINE ph == [phase EXCEPT ![c] = new]
            first == FirstWaiting(ph, queue)
<1>1. /\ \A d \in Calls : ph[d] = IF d = c THEN new ELSE phase[d]
      /\ waiters \in Seq(Calls)
      /\ \A i, j \in 1..Len(waiters) : waiters[i] = waiters[j] => i = j
  BY DEF Semaphore
<1>2. CASE free > 0 /\ Waiting(ph, queue) # {}
  <2>1. phase' = [ph EXCEPT ![first] = "granted"]
    BY <1>2 DEF WakeUpNext
  <2>2. PICK p \in Waiting(ph, queue) :
            queue[p] = first /\ \A q \in Waiting(ph, queue) : p <= q
    <3>1. Waiting(ph, queue) \subseteq Nat
      BY DEF Waiting
    <3>2. \E p \in Waiting(ph, queue) : \A q \in Waiting(ph, queue) : p <= q
      BY <1>2, <3>1, LeastElement
    <3> QED BY <3>2 DEF FirstWaiting
  <2>. HIDE DEF first, ph
  <2>3. /\ p \in 1..Len(queue) /\ first \in Calls /\ ph[first] = "queued" /\ first # c
    BY <1>1, <2>2 DEF Waiting
  <2>4. ASSUME NEW i \in 1..Len(waiters), phase[waiters[i]] = "queued", waiters[i] # first
        PROVE  \E j \in 1..(i - 1) : waiters[j] = first
    <3>1. waiters[i] \in Calls \ {c} /\ InQueue(waiters, waiters[i])
      BY <1>1, <2>4 DEF InQueue
    <3>2. PICK q \in 1..Len(queue) : queue[q] = waiters[i]
      BY <3>1 DEF InQueue
    <3>3. q \in Waiting(ph, queue)
      BY <1>1, <2>4, <3>1, <3>2 DEF Waiting
    <3>4. p < q
      BY <2>2, <2>3, <2>4, <3>2, <3>3
    <3>5. PICK k, l \in 1..Len(waiters) :
              k < l /\ waiters[k] = queue[p] /\ waiters[l] = queue[q]
      BY <2>3, <3>4 DEF SameOrder
    <3>6. l = i
      BY <1>1, <3>2, <3>5
    <3> QED BY <2>2, <3>5, <3>6
  <2>5. InTurn(first)
    BY <2>4 DEF InTurn
  <2>6. \A d \in Calls : ph[d] = phase[d] \/ d = c
    BY <1>1
  <2>7. ph \in [Calls -> Phases]
    BY DEF ph, Semaphore
  <2>8. \A d \in Calls : phase'[d] = IF d = first THEN "granted" ELSE ph[d]
    BY <2>1, <2>3, <2>7
  <2> QED BY <2>5, <2>6, <2>8 DEF OthersInTurn
<1>3. CASE ~(free > 0 /\ Waiting(ph, queue) # {})
  <2>1. phase' = ph
    BY <1>3 DEF WakeUpNext
  <2> QED BY <1>1, <2>1 DEF OthersInTurn
<1> QED BY <1>2, <1>3

LEMMA LeaveInTurn ==
    ASSUME IInv, NEW c \in Calls, NEW result, phase[c] \in {"attempt", "backoff"},
           Leave(c, result)
    PROVE  OthersInTurn(c)
<1>1. waiters \in Seq(Calls) /\ Semaphore(phase, waiters, value)
  BY DEF IInv, Semaphore
<1>2. SameOrder(waiters)
  BY DEF SameOrder
<1>3. "done" \in Phases \ {"queued"}
  BY DEF Phases
<1>4. WakeUpNext([phase EXCEPT ![c] = "done"], waiters, value + 1)
  BY DEF Leave
<1> QED BY <1>1, <1>2, <1>3, <1>4, WokenInTurn

(* Resume and CancelWaiting leave the queue before they wake the next.     *)
LEMMA LeaveQueueInTurn ==
    ASSUME IInv, NEW c \in Calls, phase[c] = "granted", NEW new \in Phases \ {"queued"},
           NEW free, WakeUpNext([phase EXCEPT ![c] = new], Without(waiters, c), free)
    PROVE  OthersInTurn(c)
<1>1. /\ waiters \in Seq(Calls) /\ Semaphore(phase, waiters, value) /\ InQueue(waiters, c)
  BY DEF IInv, Semaphore
<1>2. /\ Without(waiters, c) \in Seq(Calls)
      /\ \A d \in Calls \ {c} : InQueue(Without(waiters, c), d) <=> InQueue(waiters, d)
  BY <1>1, WithoutLeaves DEF Semaphore
<1>3. SameOrder(Without(waiters, c))
  BY <1>1, WithoutKeepsOrder
<1> QED BY <1>1, <1>2, <1>3, WokenInTurn

(* A step of c: the others are served in turn, and c itself gets a permit  *)
(* only when nobody waits.                                                 *)
LEMMA StepInTurn ==
    ASSUME IInv, NEW c \in Calls, Proceed(c) \/ CancelHolding(c) \/ CancelWaiting(c)
    PROVE  /\ OthersInTurn(c)
           /\ phase[c] \in {"idle", "queued"} /\ phase'[c] \in {"granted", "attempt"}
              => waiters = <<>>
<1>1. phase \in [Calls -> Phases] /\ "done" \in Phases \ {"queued"}
      /\ "attempt" \in Phases \ {"queued"}
  BY DEF IInv, Semaphore, Phases
<1>2. CASE Acquire(c)
  BY <1>1, <1>2 DEF Acquire, Locked, OthersInTurn
<1>3. CASE Enqueue(c)
  BY <1>1, <1>3 DEF Enqueue, OthersInTurn
<1>4. CASE Resume(c)
  <2>1. phase[c] = "granted"
        /\ WakeUpNext([phase EXCEPT ![c] = "attempt"], Without(waiters, c), value)
    BY <1>4 DEF Resume
  <2> QED BY <1>1, <2>1, LeaveQueueInTurn
<1>5. CASE Retry(c)
  BY <1>1, <1>5 DEF Retry, OthersInTurn
<1>6. ASSUME NEW result \in Results, EndAttempt(c, result)
      PROVE  OthersInTurn(c) /\ phase[c] = "attempt"
  <2>1. CASE Leave(c, result)
    BY <1>6, <2>1, LeaveInTurn DEF EndAttempt
  <2>2. CASE phase' = [phase EXCEPT ![c] = "backoff"]
    BY <1>1, <1>6, <2>2 DEF EndAttempt, OthersInTurn
  <2> QED BY <1>6, <2>1, <2>2 DEF EndAttempt
<1>7. CASE CancelHolding(c)
  BY <1>7, LeaveInTurn DEF CancelHolding
<1>8. CASE CancelWaiting(c)
  <2>1. CASE phase[c] = "granted"
    <3>1. WakeUpNext([phase EXCEPT ![c] = "done"], Without(waiters, c), value + 1)
      BY <1>8, <2>1 DEF CancelWaiting
    <3> QED BY <1>1, <2>1, <3>1, LeaveQueueInTurn
  <2>2. CASE phase[c] = "queued"
    <3>1. phase' = [phase EXCEPT ![c] = "done"]
      BY <1>8, <2>2 DEF CancelWaiting
    <3> QED BY <1>1, <3>1 DEF OthersInTurn
  <2> QED BY <1>8, <2>1, <2>2 DEF CancelWaiting
<1> QED BY <1>2, <1>3, <1>4, <1>5, <1>6, <1>7, <1>8 DEF Proceed

LEMMA NextInTurn ==
    ASSUME IInv, [Next]_vars
    PROVE  \A d \in Calls :
               phase[d] \in {"idle", "queued"} /\ phase'[d] \in {"granted", "attempt"}
               => InTurn(d)
<1>1. CASE UNCHANGED vars
  BY <1>1 DEF vars
<1>2. ASSUME NEW c \in Calls, Proceed(c) \/ CancelHolding(c) \/ CancelWaiting(c),
             NEW d \in Calls,
             phase[d] \in {"idle", "queued"}, phase'[d] \in {"granted", "attempt"}
      PROVE  InTurn(d)
  <2>1. CASE d = c
    <3>1. waiters = <<>>
      BY <1>2, <2>1, StepInTurn
    <3> QED BY <3>1 DEF InTurn
  <2>2. CASE d # c
    BY <1>2, <2>2, StepInTurn DEF OthersInTurn
  <2> QED BY <2>1, <2>2
<1> QED BY <1>1, <1>2 DEF Next, Finished

-----------------------------------------------------------------------------
(* The theorems *)

LEMMA InitIInv == Init => IInv
<1>. SUFFICES ASSUME Init PROVE IInv
  OBVIOUS
<1>1. Holding(phase) = {}
  BY DEF Init, Holding, Inside
<1>2. Cardinality(Holding(phase)) = 0
  BY <1>1, FS_EmptySet
<1>3. Semaphore(phase, waiters, value)
  BY <1>2, GuardsAssumption DEF Init, Semaphore, InQueue, Phases
<1>4. Served(phase, value)
  BY DEF Init, Served
<1>5. Retries("idle", <<>>, "none")
  BY GuardsAssumption DEF Retries, Outcomes, Results
<1> QED BY <1>3, <1>4, <1>5 DEF Init, IInv, Outcomes

LEMMA NextKeepsIInv == IInv /\ [Next]_vars => IInv'
<1>. SUFFICES ASSUME IInv, [Next]_vars PROVE IInv'
  OBVIOUS
<1>1. CASE UNCHANGED vars
  BY <1>1 DEF vars, IInv, Semaphore, Served, Retries, InQueue, Holding
<1>2. ASSUME NEW c \in Calls, Proceed(c) \/ CancelHolding(c) \/ CancelWaiting(c)
      PROVE  IInv'
  <2>1. StepOK(c)
    BY <1>2, AcquireStep, EnqueueStep, ResumeStep, RetryStep, EndAttemptStep,
       CancelHoldingStep, CancelWaitingStep DEF Proceed
  <2> QED BY <2>1, StepKeepsIInv
<1> QED BY <1>1, <1>2 DEF Next, Finished

(* The semaphore is sound and every call within its contract at any time,  *)
(* for any number of calls, permits and attempts.                          *)
THEOREM GuardsInvariant == Spec => []IInv
  BY InitIInv, NextKeepsIInv, PTL DEF Spec

(* Types hold throughout; value never leaves 0..llm_max_concurrency.       *)
THEOREM GuardsTypeCorrect == Spec => []TypeOK
<1>1. ASSUME IInv PROVE TypeOK
  <2>1. value \in 0..MaxConcurrency
    BY HoldingFinite, GuardsAssumption, <1>1 DEF IInv, Semaphore
  <2> QED BY <1>1, <2>1 DEF IInv, Semaphore, TypeOK
<1> QED BY <1>1, GuardsInvariant, PTL

(* However calls end, no permit of _llm_semaphore is lost or invented.     *)
THEOREM PermitsKept == Spec => []PermitsConserved
<1>1. IInv => PermitsConserved
  BY DEF IInv, Semaphore, PermitsConserved, Holders, Holding, Inside
<1> QED BY <1>1, GuardsInvariant, PTL

(* No call is stranded in the queue while a permit is free.                *)
THEOREM NobodyStranded == Spec => []NoStrandedWaiter
<1>1. IInv => NoStrandedWaiter
  BY DEF IInv, Served, NoStrandedWaiter
<1> QED BY <1>1, GuardsInvariant, PTL

(* Every call keeps the contract of the retries.                           *)
THEOREM RetriesKept == Spec => []RetryContract
<1>1. ASSUME IInv PROVE RetryContract
  <2>1. ASSUME NEW c \in Calls PROVE Retries(phase[c], attempts[c], outcome[c])
    BY <1>1 DEF IInv
  <2> QED BY <2>1 DEF Retries, RetryContract
<1> QED BY <1>1, GuardsInvariant, PTL

(* The queue is served in order of arrival, whoever leaves it in between.  *)
THEOREM NobodyOvertaken == Spec => NoOvertaking
<1>1. IInv /\ [Next]_vars
      => [\A c \in Calls :
             phase[c] \in {"idle", "queued"} /\ phase'[c] \in {"granted", "attempt"}
             => \A i \in 1..Len(waiters) :
                   phase[waiters[i]] = "queued" /\ waiters[i] # c
                   => \E j \in 1..(i - 1) : waiters[j] = c]_vars
  BY NextInTurn DEF InTurn
<1> QED BY <1>1, GuardsInvariant, PTL DEF Spec, NoOvertaking

-----------------------------------------------------------------------------
(* The abstract permits *)

(* The line of LlmPermits for any phases and queue.                        *)
QueuedIn(ph) == { c \in Calls : ph[c] = "queued" }
AheadIn(ph, queue) ==
    [c \in Calls |->
        IF c \in QueuedIn(ph) THEN { d \in QueuedIn(ph) : Before(queue, d, c) } ELSE {}]

(* The line after n left it.                                               *)
Passed(ahead, n) == [d \in Calls |-> IF d = n THEN {} ELSE ahead[d] \ {n}]

(* Who leaves is before nobody any more; the others keep their places.     *)
LEMMA LeavesLine ==
    ASSUME NEW ph, NEW queue, NEW ph2, NEW queue2, NEW n,
           QueuedIn(ph2) = QueuedIn(ph) \ {n},
           \A d, e \in QueuedIn(ph2) : Before(queue2, d, e) <=> Before(queue, d, e)
    PROVE  AheadIn(ph2, queue2) = Passed(AheadIn(ph, queue), n)
<1>1. ASSUME NEW c \in Calls
      PROVE  AheadIn(ph2, queue2)[c] = IF c = n THEN {} ELSE AheadIn(ph, queue)[c] \ {n}
  BY DEF AheadIn
<1> QED BY <1>1 DEF AheadIn, Passed

(* Leaving the queue changes the order of no two others.                   *)
LEMMA WithoutBefore ==
    ASSUME NEW c \in Calls, waiters \in Seq(Calls), InQueue(waiters, c),
           NEW d \in Calls \ {c}, NEW e \in Calls \ {c}
    PROVE  Before(Without(waiters, c), d, e) <=> Before(waiters, d, e)
<1>. DEFINE place == CHOOSE i \in 1..Len(waiters) : waiters[i] = c
            rest == [i \in 1..(Len(waiters) - 1) |-> waiters[IF i < place THEN i ELSE i + 1]]
<1>1. place \in 1..Len(waiters) /\ waiters[place] = c /\ Len(waiters) \in Nat
  BY DEF InQueue
<1>2. Without(waiters, c) = rest
  BY DEF Without
<1>. HIDE DEF place
<1>3. Len(rest) = Len(waiters) - 1
  BY <1>1
<1>4. ASSUME Before(rest, d, e) PROVE Before(waiters, d, e)
  <2>1. SameOrder(rest)
    BY <1>2, WithoutKeepsOrder
  <2>. HIDE DEF rest
  <2>2. PICK i, j \in 1..Len(rest) : i < j /\ rest[i] = d /\ rest[j] = e
    BY <1>4 DEF Before
  <2>3. PICK k, l \in 1..Len(waiters) : k < l /\ waiters[k] = rest[i] /\ waiters[l] = rest[j]
    BY <2>1, <2>2 DEF SameOrder
  <2> QED BY <2>2, <2>3 DEF Before
<1>5. ASSUME Before(waiters, d, e) PROVE Before(rest, d, e)
  <2>1. PICK i, j \in 1..Len(waiters) : i < j /\ waiters[i] = d /\ waiters[j] = e
    BY <1>5 DEF Before
  <2>. DEFINE new(k) == IF k < place THEN k ELSE k - 1
  <2>2. ASSUME NEW k \in 1..Len(waiters), k # place
        PROVE  new(k) \in 1..Len(rest) /\ rest[new(k)] = waiters[k]
    <3>1. CASE k < place
      BY <3>1, <1>1, <1>3
    <3>2. CASE k > place
      <4>1. k - 1 \in 1..Len(rest) /\ ~(k - 1 < place) /\ (k - 1) + 1 = k
        BY <3>2, <1>1, <1>3
      <4> QED BY <4>1, <3>2, <1>1, <1>3
    <3> QED BY <2>2, <3>1, <3>2, <1>1
  <2>3. i # place /\ j # place
    BY <1>1, <2>1
  <2>4. new(i) < new(j)
    BY <1>1, <2>1, <2>3
  <2>5. /\ new(i) \in 1..Len(rest) /\ rest[new(i)] = d
        /\ new(j) \in 1..Len(rest) /\ rest[new(j)] = e
    BY <2>1, <2>2, <2>3
  <2>. HIDE DEF new, rest
  <2> QED BY <2>4, <2>5 DEF Before
<1>. HIDE DEF rest
<1> QED BY <1>2, <1>4, <1>5

(* Nobody who waits stands before the call that is woken.                  *)
LEMMA WokenIsFirst ==
    ASSUME NEW ph, NEW queue, NEW free, Semaphore(ph, queue, free),
           WakeUpNext(ph, queue, free)
    PROVE  \/ (free = 0 \/ QueuedIn(ph) = {}) /\ phase' = ph
           \/ /\ free > 0
              /\ \E n \in QueuedIn(ph) :
                    AheadIn(ph, queue)[n] = {} /\ phase' = [ph EXCEPT ![n] = "granted"]
<1>. DEFINE n == FirstWaiting(ph, queue)
<1>1. free \in Nat /\ queue \in Seq(Calls) /\ Len(queue) \in Nat
  BY DEF Semaphore
<1>2. CASE free > 0 /\ Waiting(ph, queue) # {}
  <2>1. phase' = [ph EXCEPT ![n] = "granted"]
    BY <1>2 DEF WakeUpNext
  <2>2. PICK p \in Waiting(ph, queue) :
            queue[p] = n /\ \A q \in Waiting(ph, queue) : p <= q
    <3>1. Waiting(ph, queue) \subseteq Nat
      BY DEF Waiting
    <3>2. \E p \in Waiting(ph, queue) : \A q \in Waiting(ph, queue) : p <= q
      BY <1>2, <3>1, LeastElement
    <3> QED BY <3>2 DEF FirstWaiting
  <2>. HIDE DEF n
  <2>3. p \in 1..Len(queue) /\ n \in QueuedIn(ph)
    BY <1>1, <2>2 DEF Waiting, QueuedIn
  <2>4. ASSUME NEW d \in QueuedIn(ph), Before(queue, d, n) PROVE FALSE
    <3>1. PICK i, j \in 1..Len(queue) : i < j /\ queue[i] = d /\ queue[j] = n
      BY <2>4 DEF Before
    <3>2. j = p
      BY <2>2, <2>3, <3>1 DEF Semaphore
    <3>3. i \in Waiting(ph, queue)
      BY <3>1 DEF Waiting, QueuedIn
    <3> QED BY <1>1, <2>2, <2>3, <3>1, <3>2, <3>3
  <2>5. AheadIn(ph, queue)[n] = {}
    BY <2>3, <2>4 DEF AheadIn, QueuedIn
  <2> QED BY <1>2, <2>1, <2>3, <2>5
<1>3. CASE ~(free > 0 /\ Waiting(ph, queue) # {})
  <2>1. phase' = ph
    BY <1>3 DEF WakeUpNext
  <2>2. Waiting(ph, queue) = {} => QueuedIn(ph) = {}
    BY DEF Waiting, Semaphore, InQueue, QueuedIn
  <2> QED BY <1>1, <1>3, <2>1, <2>2
<1> QED BY <1>2, <1>3

(* Who is in the line, who is before whom and who has a permit, in the     *)
(* words of this module.                                                   *)
LEMMA LineOf ==
    /\ Queued = QueuedIn(phase) /\ Queued' = QueuedIn(phase')
    /\ Ahead = AheadIn(phase, waiters) /\ Ahead' = AheadIn(phase', waiters')
    /\ Holders = Holding(phase) /\ Holders' = Holding(phase')
  BY DEF Queued, QueuedIn, Ahead, AheadIn, Holders, Holding, Inside

(* Call c, which has a permit, takes another place and wakes the next one. *)
LEMMA PermitPasses ==
    ASSUME NEW c \in Calls, NEW new \in Phases \ {"queued"}, NEW queue, NEW free,
           phase \in [Calls -> Phases], phase[c] \in Inside,
           Semaphore([phase EXCEPT ![c] = new], queue, free),
           \A d, e \in Calls \ {c} : Before(queue, d, e) <=> Before(waiters, d, e),
           WakeUpNext([phase EXCEPT ![c] = new], queue, free), waiters' = queue
    PROVE  LET kept == IF new \in Inside THEN Holders ELSE Holders \ {c} IN
           \/ /\ free = 0 \/ Queued = {}
              /\ Queued' = Queued /\ Ahead' = Ahead /\ Holders' = kept
           \/ /\ free > 0
              /\ \E n \in Queued :
                    /\ Ahead[n] = {}
                    /\ Queued' = Queued \ {n} /\ Ahead' = Passed(Ahead, n)
                    /\ Holders' = kept \cup {n}
<1>. DEFINE ph == [phase EXCEPT ![c] = new]
            kept == IF new \in Inside THEN Holders ELSE Holders \ {c}
<1>1. \A d \in Calls : ph[d] = IF d = c THEN new ELSE phase[d]
  OBVIOUS
<1>2. ph \in [Calls -> Phases] /\ phase[c] # "queued"
  BY DEF Inside
<1>. HIDE DEF ph
<1>3. QueuedIn(ph) = QueuedIn(phase) /\ c \notin QueuedIn(phase)
  BY <1>1, <1>2 DEF QueuedIn
<1>4. Holding(ph) = kept
  BY <1>1, LineOf DEF Holding
<1>. HIDE DEF kept
<1>5. AheadIn(ph, queue) = Ahead
  <2>1. /\ QueuedIn(ph) = QueuedIn(phase) \ {c}
        /\ \A d, e \in QueuedIn(ph) : Before(queue, d, e) <=> Before(waiters, d, e)
    BY <1>3 DEF QueuedIn
  <2>2. AheadIn(ph, queue) = AheadIn(phase, waiters)
    BY <1>3, <2>1 DEF AheadIn
  <2> QED BY <2>2, LineOf
<1>6. CASE (free = 0 \/ QueuedIn(ph) = {}) /\ phase' = ph
  <2>1. Queued' = Queued /\ Ahead' = Ahead /\ Holders' = kept
    BY <1>3, <1>4, <1>5, <1>6, LineOf
  <2> QED BY <1>3, <1>6, <2>1, LineOf DEF kept
<1>7. ASSUME free > 0, NEW n \in QueuedIn(ph), AheadIn(ph, queue)[n] = {},
             phase' = [ph EXCEPT ![n] = "granted"]
      PROVE  /\ n \in Queued /\ Ahead[n] = {}
             /\ Queued' = Queued \ {n} /\ Ahead' = Passed(Ahead, n)
             /\ Holders' = kept \cup {n}
  <2>1. n \in Calls /\ \A d \in Calls : phase'[d] = IF d = n THEN "granted" ELSE ph[d]
    BY <1>2, <1>7 DEF QueuedIn
  <2>2. QueuedIn(phase') = QueuedIn(ph) \ {n}
    BY <2>1 DEF QueuedIn
  <2>3. Holding(phase') = Holding(ph) \cup {n}
    BY <2>1 DEF Holding, Inside
  <2>4. AheadIn(phase', queue) = Passed(AheadIn(ph, queue), n)
    BY <2>2, LeavesLine
  <2> QED BY <1>3, <1>4, <1>5, <1>7, <2>2, <2>3, <2>4, LineOf
<1>8. \/ (free = 0 \/ QueuedIn(ph) = {}) /\ phase' = ph
      \/ /\ free > 0
         /\ \E n \in QueuedIn(ph) :
               AheadIn(ph, queue)[n] = {} /\ phase' = [ph EXCEPT ![n] = "granted"]
  BY WokenIsFirst DEF ph
<1> QED BY <1>6, <1>7, <1>8 DEF kept

(* An instance brings a copy of what its module extends; the copy counts   *)
(* the same.                                                               *)
LEMMA SameCardinality == \A S : Permits!Cardinality(S) = Cardinality(S)
  BY DEF Permits!Cardinality, Cardinality

(* One action at a time: what a step of c is for the abstract permits.     *)

LEMMA AcquireEnters ==
    ASSUME IInv, NEW c \in Calls, Acquire(c)
    PROVE  Permits!Enter(c)
<1>1. /\ phase \in [Calls -> Phases] /\ phase[c] = "idle" /\ waiters = <<>> /\ value # 0
      /\ phase' = [phase EXCEPT ![c] = "attempt"] /\ waiters' = waiters
      /\ outcome' = outcome /\ value \in Nat
  BY DEF Acquire, Locked, IInv, Semaphore
<1>2. \A d \in Calls : phase'[d] = IF d = c THEN "attempt" ELSE phase[d]
  BY <1>1
<1>3. Queued = {} /\ Queued' = Queued
  <2>1. \A d \in Calls : phase[d] # "queued"
    BY <1>1 DEF IInv, Semaphore, InQueue
  <2> QED BY <1>2, <2>1 DEF Queued
<1>4. Ahead' = Ahead
  BY <1>3 DEF Ahead
<1>5. Holders' = Holders \cup {c} /\ c \notin Holders
  BY <1>1, <1>2 DEF Holders
<1>6. outcome[c] = "none"
  BY <1>1 DEF IInv, Retries
<1>7. Cardinality(Holders) < MaxConcurrency
  BY <1>1, LineOf, HoldingFinite DEF IInv, Semaphore
<1> QED BY <1>1, <1>3, <1>4, <1>5, <1>6, <1>7, SameCardinality
        DEF Permits!Enter, Permits!Outside, Permits!Room

LEMMA EnqueueArrives ==
    ASSUME IInv, NEW c \in Calls, Enqueue(c)
    PROVE  Permits!Arrive(c)
<1>1. /\ phase \in [Calls -> Phases] /\ phase[c] = "idle" /\ waiters \in Seq(Calls)
      /\ phase' = [phase EXCEPT ![c] = "queued"] /\ waiters' = Append(waiters, c)
      /\ outcome' = outcome /\ Len(waiters) \in Nat
  BY DEF Enqueue, IInv, Semaphore
<1>2. \A d \in Calls : phase'[d] = IF d = c THEN "queued" ELSE phase[d]
  BY <1>1
<1>3. /\ Len(waiters') = Len(waiters) + 1 /\ waiters'[Len(waiters) + 1] = c
      /\ \A i \in 1..Len(waiters) : waiters'[i] = waiters[i] /\ waiters[i] # c
  <2>1. ~InQueue(waiters, c)
    BY <1>1 DEF IInv, Semaphore
  <2> QED BY <1>1, <2>1 DEF InQueue
<1>4. Queued' = Queued \cup {c} /\ c \notin Queued
  BY <1>1, <1>2 DEF Queued
<1>5. Holders' = Holders /\ c \notin Holders
  BY <1>1, <1>2 DEF Holders
<1>6. ASSUME NEW d \in Queued PROVE Before(waiters', d, c) /\ ~Before(waiters', c, d)
  <2>1. PICK i \in 1..Len(waiters) : waiters[i] = d
    BY DEF Queued, IInv, Semaphore, InQueue
  <2>2. Before(waiters', d, c)
    <3>1. i \in 1..Len(waiters') /\ Len(waiters) + 1 \in 1..Len(waiters') /\ i < Len(waiters) + 1
      BY <1>1, <1>3, <2>1
    <3> QED BY <1>3, <2>1, <3>1 DEF Before
  <2>3. ASSUME Before(waiters', c, d) PROVE FALSE
    <3>1. PICK k, l \in 1..Len(waiters') : k < l /\ waiters'[k] = c /\ waiters'[l] = d
      BY <2>3 DEF Before
    <3>2. k \in 1..Len(waiters)
      BY <1>1, <1>3, <3>1
    <3> QED BY <1>3, <3>1, <3>2
  <2> QED BY <2>2, <2>3
<1>7. ASSUME NEW d \in Queued, NEW e \in Queued
      PROVE  Before(waiters', d, e) <=> Before(waiters, d, e)
  <2>1. \A i \in 1..Len(waiters') :
            waiters'[i] \in {d, e} => i \in 1..Len(waiters) /\ waiters[i] = waiters'[i]
    BY <1>1, <1>3, <1>4
  <2>2. \A i \in 1..Len(waiters) : i \in 1..Len(waiters') /\ waiters'[i] = waiters[i]
    BY <1>1, <1>3
  <2> QED BY <2>1, <2>2 DEF Before
<1>8. ~Before(waiters', c, c)
  <2>1. \A i \in 1..Len(waiters') : waiters'[i] = c => i = Len(waiters) + 1
    BY <1>1, <1>3
  <2> QED BY <1>1, <2>1 DEF Before
<1>9. Ahead' = [Ahead EXCEPT ![c] = Queued]
  <2>1. ASSUME NEW d \in Calls
        PROVE  Ahead'[d] = IF d = c THEN Queued ELSE Ahead[d]
    <3>1. Ahead'[d] = IF d \in Queued' THEN { e \in Queued' : Before(waiters', e, d) } ELSE {}
      BY DEF Ahead
    <3>2. Ahead[d] = IF d \in Queued THEN { e \in Queued : Before(waiters, e, d) } ELSE {}
      BY DEF Ahead
    <3>3. CASE d = c
      BY <1>4, <1>6, <1>8, <3>1, <3>3
    <3>4. CASE d # c /\ d \in Queued
      BY <1>4, <1>6, <1>7, <3>1, <3>2, <3>4
    <3>5. CASE d # c /\ d \notin Queued
      BY <1>4, <3>1, <3>2, <3>5
    <3> QED BY <3>3, <3>4, <3>5
  <2> QED BY <2>1 DEF Ahead
<1>10. outcome[c] = "none"
  BY <1>1 DEF IInv, Retries
<1> QED BY <1>1, <1>4, <1>5, <1>9, <1>10 DEF Permits!Arrive, Permits!Outside

LEMMA ResumeAdmits ==
    ASSUME IInv, NEW c \in Calls, Resume(c)
    PROVE  \/ \E n \in Calls : Permits!Admit(n)
           \/ UNCHANGED <<Queued, Ahead, Holders, outcome>>
<1>. DEFINE queue == Without(waiters, c)
<1>1. /\ phase \in [Calls -> Phases] /\ phase[c] = "granted" /\ InQueue(waiters, c)
      /\ waiters \in Seq(Calls) /\ value \in Nat /\ Semaphore(phase, waiters, value)
      /\ waiters' = queue /\ outcome' = outcome
      /\ WakeUpNext([phase EXCEPT ![c] = "attempt"], queue, value)
  BY DEF Resume, IInv, Semaphore
<1>2. \A d, e \in Calls \ {c} : Before(queue, d, e) <=> Before(waiters, d, e)
  BY <1>1, WithoutBefore
<1>3. "attempt" \in Phases \ {"queued"} /\ "attempt" \in Inside /\ phase[c] \in Inside
  BY <1>1 DEF Phases, Inside
<1>4. Semaphore([phase EXCEPT ![c] = "attempt"], queue, value)
  <2>1. /\ queue \in Seq(Calls) /\ ~InQueue(queue, c)
        /\ \A d \in Calls \ {c} : InQueue(queue, d) <=> InQueue(waiters, d)
        /\ \A i, j \in 1..Len(queue) : queue[i] = queue[j] => i = j
    BY <1>1, WithoutLeaves DEF Semaphore
  <2>. HIDE DEF queue
  <2>2. value = value + Freed(phase[c], "attempt")
    BY <1>1, <1>3 DEF Freed
  <2> QED BY <1>1, <1>3, <2>1, <2>2, MoveKeeps
<1>. HIDE DEF queue
<1>5. \/ /\ value = 0 \/ Queued = {}
         /\ Queued' = Queued /\ Ahead' = Ahead /\ Holders' = Holders
      \/ /\ value > 0
         /\ \E n \in Queued :
               /\ Ahead[n] = {}
               /\ Queued' = Queued \ {n} /\ Ahead' = Passed(Ahead, n)
               /\ Holders' = Holders \cup {n}
  <2>. DEFINE kept == IF "attempt" \in Inside THEN Holders ELSE Holders \ {c}
  <2>1. \/ /\ value = 0 \/ Queued = {}
           /\ Queued' = Queued /\ Ahead' = Ahead /\ Holders' = kept
        \/ /\ value > 0
           /\ \E n \in Queued :
                 /\ Ahead[n] = {}
                 /\ Queued' = Queued \ {n} /\ Ahead' = Passed(Ahead, n)
                 /\ Holders' = kept \cup {n}
    BY <1>1, <1>2, <1>3, <1>4, PermitPasses
  <2>2. kept = Holders
    BY <1>3
  <2>. HIDE DEF kept
  <2> QED BY <2>1, <2>2
<1>6. ASSUME value > 0, NEW n \in Queued, Ahead[n] = {}, Queued' = Queued \ {n},
             Ahead' = Passed(Ahead, n), Holders' = Holders \cup {n}
      PROVE  n \in Calls /\ Permits!Admit(n)
  <2>1. Cardinality(Holders) < MaxConcurrency
    BY <1>1, <1>6, LineOf, HoldingFinite DEF Semaphore
  <2>2. Permits!Room
    BY <2>1, SameCardinality DEF Permits!Room
  <2>3. n \in Calls
    BY DEF Queued
  <2> QED BY <1>1, <1>6, <2>2, <2>3
          DEF Permits!Admit, Permits!First, Permits!LeaveLine, Passed
<1> QED BY <1>1, <1>5, <1>6

(* A call with a permit that ends, however it does.                        *)
LEMMA EndLeaves ==
    ASSUME IInv, NEW c \in Calls, phase[c] \in Inside, NEW result,
           NEW queue \in Seq(Calls), ~InQueue(queue, c),
           \A d \in Calls \ {c} : InQueue(queue, d) <=> InQueue(waiters, d),
           \A i, j \in 1..Len(queue) : queue[i] = queue[j] => i = j,
           \A d, e \in Calls \ {c} : Before(queue, d, e) <=> Before(waiters, d, e),
           WakeUpNext([phase EXCEPT ![c] = "done"], queue, value + 1), waiters' = queue,
           outcome' = [outcome EXCEPT ![c] = result]
    PROVE  Permits!Leave(c, result)
<1>1. phase \in [Calls -> Phases] /\ value \in Nat /\ Semaphore(phase, waiters, value)
  BY DEF IInv, Semaphore
<1>2. "done" \in Phases \ {"queued"} /\ "done" \notin Inside
  BY DEF Phases, Inside
<1>3. Semaphore([phase EXCEPT ![c] = "done"], queue, value + 1)
  <2>1. value + 1 \in Nat /\ value + 1 = value + Freed(phase[c], "done")
    BY <1>1, <1>2 DEF Freed
  <2> QED BY <1>1, <1>2, <2>1, MoveKeeps
<1>4. \/ /\ value + 1 = 0 \/ Queued = {}
         /\ Queued' = Queued /\ Ahead' = Ahead /\ Holders' = Holders \ {c}
      \/ \E n \in Queued :
            /\ Ahead[n] = {}
            /\ Queued' = Queued \ {n} /\ Ahead' = Passed(Ahead, n)
            /\ Holders' = (Holders \ {c}) \cup {n}
  BY <1>1, <1>2, <1>3, PermitPasses
<1>5. value + 1 # 0 /\ c \in Holders
  BY <1>1, LineOf DEF Holding
<1> QED BY <1>4, <1>5
        DEF Permits!Leave, Permits!First, Permits!LeaveLine, Permits!Ends, Passed

LEMMA LeaveLeaves ==
    ASSUME IInv, NEW c \in Calls, phase[c] \in {"attempt", "backoff"}, NEW result,
           Leave(c, result)
    PROVE  Permits!Leave(c, result)
<1>1. /\ waiters \in Seq(Calls) /\ ~InQueue(waiters, c)
      /\ \A i, j \in 1..Len(waiters) : waiters[i] = waiters[j] => i = j
  BY DEF IInv, Semaphore
<1>2. /\ phase[c] \in Inside /\ waiters' = waiters
      /\ outcome' = [outcome EXCEPT ![c] = result]
      /\ WakeUpNext([phase EXCEPT ![c] = "done"], waiters, value + 1)
  BY DEF Leave, Inside
<1> QED BY <1>1, <1>2, EndLeaves

LEMMA CancelWaitingMaps ==
    ASSUME IInv, NEW c \in Calls, CancelWaiting(c)
    PROVE  Permits!Leave(c, "cancelled") \/ Permits!GiveUp(c)
<1>. DEFINE queue == Without(waiters, c)
<1>1. /\ phase \in [Calls -> Phases] /\ phase[c] \in {"queued", "granted"}
      /\ InQueue(waiters, c) /\ waiters \in Seq(Calls) /\ waiters' = queue
      /\ outcome' = [outcome EXCEPT ![c] = "cancelled"]
  BY DEF CancelWaiting, IInv, Semaphore
<1>2. \A d, e \in Calls \ {c} : Before(queue, d, e) <=> Before(waiters, d, e)
  BY <1>1, WithoutBefore
<1>3. CASE phase[c] = "granted"
  <2>1. /\ queue \in Seq(Calls) /\ ~InQueue(queue, c)
        /\ \A d \in Calls \ {c} : InQueue(queue, d) <=> InQueue(waiters, d)
        /\ \A i, j \in 1..Len(queue) : queue[i] = queue[j] => i = j
    BY <1>1, WithoutLeaves DEF IInv, Semaphore
  <2>2. WakeUpNext([phase EXCEPT ![c] = "done"], queue, value + 1) /\ phase[c] \in Inside
    BY <1>3 DEF CancelWaiting, Inside
  <2>. HIDE DEF queue
  <2> QED BY <1>1, <1>2, <2>1, <2>2, EndLeaves
<1>4. CASE phase[c] = "queued"
  <2>. HIDE DEF queue
  <2>1. \A d \in Calls : phase'[d] = IF d = c THEN "done" ELSE phase[d]
    BY <1>1, <1>4 DEF CancelWaiting
  <2>2. QueuedIn(phase') = QueuedIn(phase) \ {c} /\ Holders' = Holders /\ c \in Queued
    BY <1>4, <2>1 DEF QueuedIn, Holders, Queued
  <2>3. AheadIn(phase', queue) = Passed(AheadIn(phase, waiters), c)
    <3>1. \A d, e \in QueuedIn(phase') : Before(queue, d, e) <=> Before(waiters, d, e)
      BY <1>2, <2>2 DEF QueuedIn
    <3> QED BY <2>2, <3>1, LeavesLine
  <2>4. Queued' = Queued \ {c} /\ Ahead' = Passed(Ahead, c)
    BY <1>1, <2>2, <2>3, LineOf
  <2> QED BY <1>1, <2>2, <2>4
          DEF Permits!GiveUp, Permits!LeaveLine, Permits!Ends, Passed
<1> QED BY <1>1, <1>3, <1>4

(* A pause between attempts keeps the permit and the line as they are.     *)
LEMMA PauseStutters ==
    ASSUME IInv, NEW c \in Calls, phase[c] \in {"attempt", "backoff"},
           NEW new \in {"attempt", "backoff"}, phase' = [phase EXCEPT ![c] = new],
           UNCHANGED <<waiters, outcome>>
    PROVE  UNCHANGED <<Queued, Ahead, Holders, outcome>>
<1>1. \A d \in Calls : phase'[d] = IF d = c THEN new ELSE phase[d]
  BY DEF IInv, Semaphore
<1>2. Queued' = Queued /\ Holders' = Holders
  BY <1>1 DEF Queued, Holders
<1>3. Ahead' = Ahead
  BY <1>2 DEF Ahead
<1> QED BY <1>2, <1>3

LEMMA PermitsStep ==
    ASSUME IInv, [Next]_vars
    PROVE  [Permits!Next]_(Permits!vars)
<1>1. CASE UNCHANGED vars
  <2>1. UNCHANGED <<Queued, Ahead, Holders, outcome>>
    BY <1>1 DEF vars, Queued, Ahead, Holders
  <2> QED BY <2>1 DEF Permits!vars
<1>2. ASSUME NEW c \in Calls, Proceed(c) \/ CancelHolding(c) \/ CancelWaiting(c)
      PROVE  Permits!Next \/ UNCHANGED <<Queued, Ahead, Holders, outcome>>
  <2>1. CASE Acquire(c)
    BY <2>1, AcquireEnters DEF Permits!Next
  <2>2. CASE Enqueue(c)
    BY <2>2, EnqueueArrives DEF Permits!Next
  <2>3. CASE Resume(c)
    BY <2>3, ResumeAdmits DEF Permits!Next
  <2>4. CASE Retry(c)
    BY <2>4, PauseStutters DEF Retry
  <2>5. ASSUME NEW result \in Results, EndAttempt(c, result)
        PROVE  Permits!Next \/ UNCHANGED <<Queued, Ahead, Holders, outcome>>
    <3>1. CASE Leave(c, result)
      <4>1. Permits!Leave(c, result)
        BY <2>5, <3>1, LeaveLeaves DEF EndAttempt
      <4> QED BY <4>1 DEF Permits!Next, Permits!Results, Results
    <3>2. CASE phase' = [phase EXCEPT ![c] = "backoff"] /\ UNCHANGED <<waiters, outcome>>
      BY <2>5, <3>2, PauseStutters DEF EndAttempt
    <3> QED BY <2>5, <3>1, <3>2 DEF EndAttempt
  <2>6. CASE CancelHolding(c)
    <3>1. Permits!Leave(c, "cancelled")
      BY <2>6, LeaveLeaves DEF CancelHolding
    <3> QED BY <3>1 DEF Permits!Next
  <2>7. CASE CancelWaiting(c)
    BY <2>7, CancelWaitingMaps DEF Permits!Next
  <2> QED BY <1>2, <2>1, <2>2, <2>3, <2>4, <2>5, <2>6, <2>7 DEF Proceed
<1>3. Permits!Next \/ UNCHANGED <<Queued, Ahead, Holders, outcome>>
      => [Permits!Next]_(Permits!vars)
  BY DEF Permits!vars
<1> QED BY <1>1, <1>2, <1>3 DEF Next, Finished

(* The semaphore of asyncio, with the calls that retry and are cancelled   *)
(* around it, implements a line before a room of MaxConcurrency places:    *)
(* for any number of calls, permits and attempts.                          *)
THEOREM GuardsImplementPermits == Spec => ImplementsPermits
<1>1. Init => Permits!Init
  <2>. SUFFICES ASSUME Init PROVE Permits!Init
    OBVIOUS
  <2>2. Queued = {} /\ Holders = {}
    BY DEF Init, Queued, Holders
  <2>3. Ahead = [c \in Calls |-> {}]
    BY <2>2 DEF Ahead
  <2> QED BY <2>2, <2>3 DEF Init, Permits!Init
<1>2. IInv /\ [Next]_vars => [Permits!Next]_(Permits!vars)
  BY PermitsStep
<1> QED BY <1>1, <1>2, GuardsInvariant, PTL DEF Spec, ImplementsPermits, Permits!Spec
=============================================================================
