-------------------------- MODULE WorkerReaderProofs --------------------------
(***************************************************************************)
(* Theorems about what the readers of Worker get, for any number of        *)
(* requests, connections, permits and any page size.                       *)
(*                                                                         *)
(* A reader runs several statements while tasks are committed.  What it    *)
(* may rely on is that the committed rows change in two ways only          *)
(* (Published): a task appears, or a finished one turns into an error.     *)
(* The list of tasks grows at its head, so a task never moves to an        *)
(* earlier place, and the numbers that the statistics count never shrink.  *)
(***************************************************************************)
EXTENDS WorkerProofs, OrderLemmas

-----------------------------------------------------------------------------
(* Places in a list *)

Distinct(V, pos) == \A r, s \in V : pos[r] = pos[s] => r = s
Below(V, pos, r) == { s \in V : pos[s] < pos[r] }
Rank(V, pos, r) == Cardinality(Below(V, pos, r))
Slice(V, pos, a, size) == { r \in V : Rank(V, pos, r) \in a..(a + size - 1) }

LEMMA RankType ==
    ASSUME NEW V, IsFiniteSet(V), NEW pos, NEW r
    PROVE  IsFiniteSet(Below(V, pos, r)) /\ Rank(V, pos, r) \in Nat
BY FS_Subset, FS_CardinalityType DEF Below, Rank

(* Of the elements that satisfy a condition, one stands first.             *)
LEMMA FirstOf ==
    ASSUME NEW V, NEW pos \in [V -> Nat], NEW W \in SUBSET V, W # {}
    PROVE  \E r \in W : \A s \in W : pos[r] <= pos[s]
<1>. DEFINE T == { pos[r] : r \in W }
<1>1. T \subseteq Nat /\ T # {}
  OBVIOUS
<1>2. PICK x \in T : \A y \in T : x <= y
  BY <1>1, LeastElement
<1> QED BY <1>2

(* Every rank below the number of elements is the rank of some element.    *)
LEMMA RankReached ==
    ASSUME NEW V, IsFiniteSet(V), NEW pos \in [V -> Nat], Distinct(V, pos),
           NEW n \in Nat, n < Cardinality(V)
    PROVE  \E r \in V : Rank(V, pos, r) = n
<1>. DEFINE Missed == { k \in Nat : k < Cardinality(V) /\ ~\E r \in V : Rank(V, pos, r) = k }
<1>1. SUFFICES ASSUME Missed # {} PROVE FALSE
  OBVIOUS
<1>2. PICK k \in Missed : \A l \in Missed : k <= l
  <2>1. Missed \subseteq Nat
    OBVIOUS
  <2> QED BY <1>1, <2>1, LeastElement
<1>3. Cardinality(V) \in Nat
  BY FS_CardinalityType
<1>4. CASE k = 0
  <2>1. V # {}
    BY <1>2, <1>3, <1>4, FS_EmptySet
  <2>2. PICK r \in V : \A s \in V : pos[r] <= pos[s]
    BY <2>1, FirstOf
  <2>3. Below(V, pos, r) = {}
    BY <2>2 DEF Below
  <2>4. Rank(V, pos, r) = 0
    BY <2>3, FS_EmptySet DEF Rank
  <2> QED BY <1>2, <1>4, <2>4
<1>5. CASE k # 0
  <2>1. k - 1 \in Nat /\ k - 1 \notin Missed /\ k - 1 < Cardinality(V)
    BY <1>2, <1>3, <1>5
  <2>2. PICK r \in V : Rank(V, pos, r) = k - 1
    BY <2>1
  <2>. DEFINE rest == { s \in V : pos[r] < pos[s] }
              upto == Below(V, pos, r) \cup {r}
  <2>3. r \notin Below(V, pos, r)
    BY DEF Below
  <2>4. Cardinality(upto) = k
    <3>1. Cardinality(upto) = Cardinality(Below(V, pos, r)) + 1
      BY <2>3, RankType, FS_AddElement
    <3> QED BY <2>2, <3>1, <1>2 DEF Rank
  <2>5. rest # {}
    <3>1. V = upto \cup rest
      BY DEF Below, Distinct
    <3>2. rest = {} => V = upto
      BY <3>1
    <3>. HIDE DEF rest, upto
    <3> QED BY <2>4, <3>2, <1>2, <1>3
  <2>6. PICK s \in rest : \A t \in rest : pos[s] <= pos[t]
    BY <2>5, FirstOf
  <2>7. Below(V, pos, s) = upto
    BY <2>6 DEF Below, Distinct
  <2>8. Rank(V, pos, s) = k
    BY <2>4, <2>7 DEF Rank
  <2> QED BY <1>2, <2>6, <2>8
<1> QED BY <1>4, <1>5

(* A page of consecutive ranks is full as long as the list lasts.          *)
LEMMA PageIsFull ==
    ASSUME NEW V, IsFiniteSet(V), NEW pos \in [V -> Nat], Distinct(V, pos),
           NEW a \in Nat, NEW size \in Nat, NEW m \in Nat,
           m <= size, a + m <= Cardinality(V)
    PROVE  m <= Cardinality(Slice(V, pos, a, size))
<1>. DEFINE R == Slice(V, pos, a, size)
            I == a..(a + m - 1)
            at_rank == [k \in I |-> CHOOSE r \in V : Rank(V, pos, r) = k]
<1>1. ASSUME NEW k \in I
      PROVE  at_rank[k] \in V /\ Rank(V, pos, at_rank[k]) = k
  <2>1. k \in Nat /\ k < Cardinality(V)
    BY <1>1, FS_CardinalityType
  <2>2. \E r \in V : Rank(V, pos, r) = k
    BY <2>1, RankReached
  <2> QED BY <2>2
<1>2. IsFiniteSet(R)
  BY FS_Subset DEF Slice
<1>3. I \subseteq a..(a + size - 1)
  OBVIOUS
<1>4. at_rank \in Injection(I, R)
  <2>1. at_rank \in [I -> R]
    BY <1>1, <1>3 DEF Slice
  <2>2. \A k, l \in I : at_rank[k] = at_rank[l] => k = l
    BY <1>1
  <2> QED BY <2>1, <2>2 DEF Injection, IsInjective
<1>5. Cardinality(I) <= Cardinality(R)
  BY <1>2, <1>4, FS_Injection
<1>6. Cardinality(I) = m
  BY FS_Interval
<1> QED BY <1>5, <1>6
-----------------------------------------------------------------------------
(* The committed tasks *)

InList(line, r) == \E i \in DOMAIN line : line[i] = r

(* Where a request has rows of its own that are not committed, and where   *)
(* they are.                                                               *)
Open == {"ready", "calling", "failed", "accepted", "rejected"}
Stored == {"reload", "read", "unread", "marked"}

Counted(row) == row.total \in Nat /\ row.generation \in Nat /\ row.validation \in Nat

(* What can be read of a task: a judged one has iterations, and each of    *)
(* them calls of both types.                                               *)
Consistent(row) ==
    /\ row.status = "absent" => row.total = 0
    /\ row.status \in {"accepted", "rejected"} => row.total > 0
    /\ row.total > 0 => row.generation > 0 /\ row.validation > 0

RequestInv(r) ==
    /\ Counted(rows[r]) /\ Counted(db[r]) /\ Consistent(db[r])
    /\ at[r] \in Open => db[r].status = "absent" /\ rows[r].total = 0
    /\ at[r] \in {"ready", "calling"} =>
          rows[r].generation \in {rows[r].validation, rows[r].validation + 1}
    /\ at[r] \in {"accepted", "rejected"} => rows[r].validation > 0 /\ rows[r].generation > 0
    /\ at[r] \in Stored => rows[r] = db[r]
    /\ at[r] \in {"reload", "read", "unread"} => db[r].status \in {"accepted", "rejected"}
    /\ at[r] = "start" =>
          db[r].status = "absent" /\ rows[r] = NoTask /\ ~InList(created, r)
    /\ at[r] \in Open \cup Stored \/ db[r].status # "absent" => InList(created, r)

TaskInv ==
    /\ \A r \in Requests : RequestInv(r)
    /\ \A i, j \in DOMAIN created : created[i] = created[j] => i = j

(* What a step may do to the committed row of a task: it appears, or a     *)
(* finished one turns into an error.                                       *)
Published(r) ==
    \/ db'[r] = db[r]
    \/ db[r].status = "absent"
    \/ db[r].status \in {"accepted", "rejected"} /\ db'[r] = [db[r] EXCEPT !.status = "error"]

(* What a step may do to the list: a task that nobody can see yet is put   *)
(* before all others.                                                      *)
Listed ==
    \/ UNCHANGED created
    \/ /\ UNCHANGED db
       /\ \E r \in Requests :
             created' = <<r>> \o created /\ db[r].status = "absent" /\ ~InList(created, r)

LEMMA PutFirst ==
    ASSUME NEW line \in Seq(Requests), NEW r \in Requests
    PROVE  /\ <<r>> \o line \in Seq(Requests)
           /\ Len(<<r>> \o line) = Len(line) + 1
           /\ (<<r>> \o line)[1] = r
           /\ \A i \in 1..Len(line) : (<<r>> \o line)[i + 1] = line[i]
           /\ \A x : InList(<<r>> \o line, x) <=> x = r \/ InList(line, x)
<1>. DEFINE new == <<r>> \o line
<1>1. /\ new \in Seq(Requests) /\ Len(new) = Len(line) + 1 /\ new[1] = r
      /\ \A i \in 1..Len(line) : new[i + 1] = line[i]
  OBVIOUS
<1>. HIDE DEF new
<1>2. ASSUME NEW x PROVE InList(new, x) <=> x = r \/ InList(line, x)
  <2>1. ASSUME NEW i \in 1..Len(new), i # 1 PROVE i - 1 \in 1..Len(line) /\ new[i] = line[i - 1]
    BY <1>1, <2>1
  <2>2. DOMAIN new = 1..Len(new) /\ DOMAIN line = 1..Len(line) /\ Len(line) \in Nat
    BY <1>1
  <2>3. InList(new, x) => x = r \/ InList(line, x)
    BY <1>1, <2>1, <2>2 DEF InList
  <2>4. InList(line, x) => InList(new, x)
    BY <1>1, <2>2 DEF InList
  <2>5. InList(new, r)
    BY <1>1, <2>2 DEF InList
  <2> QED BY <2>3, <2>4, <2>5
<1> QED BY <1>1, <1>2 DEF new

(* A request that does not move keeps its part.                            *)
LEMMA StaysKeeps ==
    ASSUME NEW s \in Requests, RequestInv(s),
           at'[s] = at[s], rows'[s] = rows[s], db'[s] = db[s],
           InList(created', s) <=> InList(created, s)
    PROVE  RequestInv(s)' /\ Published(s)
BY DEF RequestInv, Published

(* A step of request r that keeps the list.                                *)
MovedAlone(r) ==
    /\ UNCHANGED created
    /\ \A s \in Requests \ {r} : at'[s] = at[s] /\ rows'[s] = rows[s] /\ db'[s] = db[s]
    /\ RequestInv(r)' /\ Published(r)

LEMMA MoveKeepsTasks ==
    ASSUME TaskInv, NEW r \in Requests, MovedAlone(r)
    PROVE  TaskInv' /\ (\A s \in Requests : Published(s)) /\ Listed
<1>1. ASSUME NEW s \in Requests PROVE RequestInv(s)' /\ Published(s)
  <2>1. CASE s = r
    BY <2>1 DEF MovedAlone
  <2>2. CASE s # r
    BY <2>2, StaysKeeps DEF MovedAlone, TaskInv
  <2> QED BY <2>1, <2>2
<1> QED BY <1>1 DEF TaskInv, MovedAlone, Listed

LEMMA InitTasks == Init => TaskInv
BY DEF Init, TaskInv, RequestInv, Counted, Consistent, NoTask, Open, Stored, InList

LEMMA StepKeepsTasks ==
    ASSUME IInv, TaskInv, [Next]_vars
    PROVE  TaskInv' /\ (\A s \in Requests : Published(s)) /\ Listed
<1>0. /\ at \in [Requests -> Places]
      /\ DOMAIN db = Requests /\ \A r \in Requests : DOMAIN db[r] = DOMAIN NoTask
      /\ DOMAIN rows = Requests /\ \A r \in Requests : DOMAIN rows[r] = DOMAIN NoTask
      /\ created \in Seq(Requests)
  BY DEF IInv, HoldsInv, RowsInv
<1>. DEFINE Goal == TaskInv' /\ (\A s \in Requests : Published(s)) /\ Listed
<1>1. ASSUME NEW r \in Requests, Begin(r)
      PROVE  Goal
  <2>1. /\ at[r] = "start" /\ db[r].status = "absent" /\ rows[r] = NoTask /\ ~InList(created, r)
        /\ created' = <<r>> \o created /\ UNCHANGED db
        /\ at' = [at EXCEPT ![r] = "ready"] /\ rows' = [rows EXCEPT ![r].status = "pending"]
    BY <1>1 DEF Begin, Goto, TaskInv, RequestInv
  <2>2. \A s \in Requests : InList(created', s) <=> s = r \/ InList(created, s)
    BY <1>0, <2>1, PutFirst
  <2>3. \A i, j \in DOMAIN created' : created'[i] = created'[j] => i = j
    <3>1. /\ created' \in Seq(Requests) /\ Len(created') = Len(created) + 1 /\ created'[1] = r
          /\ \A i \in 1..Len(created) : created'[i + 1] = created[i]
      BY <1>0, <2>1, PutFirst
    <3>2. ASSUME NEW i \in DOMAIN created', i # 1
          PROVE  /\ i - 1 \in DOMAIN created /\ created'[i] = created[i - 1]
                 /\ created[i - 1] # r
      <4>1. i - 1 \in 1..Len(created) /\ (i - 1) + 1 = i
        BY <1>0, <3>1, <3>2
      <4> QED BY <1>0, <2>1, <3>1, <4>1 DEF InList
    <3>3. \A i, j \in DOMAIN created : created[i] = created[j] => i = j
      BY DEF TaskInv
    <3>4. ASSUME NEW i \in DOMAIN created', NEW j \in DOMAIN created', created'[i] = created'[j]
          PROVE  i = j
      <4>1. i \in Nat /\ j \in Nat
        BY <3>1
      <4> QED BY <3>1, <3>2, <3>3, <3>4, <4>1
    <3> QED BY <3>4
  <2>4. ASSUME NEW s \in Requests, s # r PROVE RequestInv(s)' /\ Published(s)
    BY <1>0, <2>1, <2>2, <2>4, StaysKeeps DEF TaskInv
  <2>5. RequestInv(r)' /\ Published(r)
    <3>1. /\ at'[r] = "ready" /\ db'[r] = db[r] /\ InList(created', r)
          /\ rows'[r].total = 0 /\ rows'[r].generation = 0 /\ rows'[r].validation = 0
      BY <1>0, <2>1, <2>2 DEF NoTask
    <3>2. Counted(db[r]) /\ Consistent(db[r]) /\ db[r].status = "absent"
      BY <2>1 DEF TaskInv, RequestInv
    <3> QED BY <3>1, <3>2 DEF RequestInv, Published, Counted, Open, Stored
  <2>6. Listed
    BY <2>1 DEF Listed
  <2> QED BY <2>3, <2>4, <2>5, <2>6 DEF TaskInv
<1>2. ASSUME NEW r \in Requests, TakePermit(r)
      PROVE  Goal
  <2>1. MovedAlone(r)
    BY <1>0, <1>2 DEF TakePermit, Goto, MovedAlone, TaskInv, RequestInv, Published, Open, Stored
  <2> QED BY <2>1, MoveKeepsTasks
<1>3. ASSUME NEW r \in Requests, EndCall(r)
      PROVE  Goal
  <2>1. /\ at[r] = "calling" /\ UNCHANGED <<db, created>>
        /\ RequestInv(r) /\ Logged(r)
    BY <1>3 DEF EndCall, Answered, Failed, TaskInv
  <2>2. PICK place : /\ Goto(r, place)
                     /\ \/ place = "failed"
                        \/ NextCall(r) = "generation" /\ place = "ready"
                        \/ NextCall(r) = "validation" /\ place \in {"ready", "accepted", "rejected"}
    BY <1>3 DEF EndCall, Answered, Failed, NextCall
  <2>3. /\ at' = [at EXCEPT ![r] = place]
        /\ \A s \in Requests \ {r} : at'[s] = at[s] /\ rows'[s] = rows[s] /\ db'[s] = db[s]
    BY <1>0, <2>1, <2>2 DEF Goto, Logged
  <2>4. /\ rows'[r].total = rows[r].total
        /\ NextCall(r) = "generation" =>
              /\ rows'[r].generation = rows[r].generation + 1
              /\ rows'[r].validation = rows[r].validation
        /\ NextCall(r) = "validation" =>
              /\ rows'[r].generation = rows[r].generation
              /\ rows'[r].validation = rows[r].validation + 1
        /\ NextCall(r) \in {"generation", "validation"}
    BY <1>0, <2>1 DEF Logged, NextCall, NoTask
  <2>5. /\ rows[r].generation \in Nat /\ rows[r].validation \in Nat /\ rows[r].total = 0
        /\ rows[r].generation \in {rows[r].validation, rows[r].validation + 1}
        /\ db[r].status = "absent" /\ InList(created, r) /\ Counted(db[r]) /\ Consistent(db[r])
    BY <2>1 DEF RequestInv, Counted, Open
  <2>6. NextCall(r) = "generation" <=> rows[r].generation = rows[r].validation
    BY DEF NextCall
  <2>7. RequestInv(r)'
    BY <1>0, <2>1, <2>2, <2>3, <2>4, <2>5, <2>6 DEF RequestInv, Counted, Open, Stored
  <2> QED BY <2>1, <2>3, <2>7, MoveKeepsTasks DEF MovedAlone, Published
<1>4. ASSUME NEW r \in Requests, Finalize(r)
      PROVE  Goal
  <2>1. MovedAlone(r)
    BY <1>0, <1>4 DEF Finalize, Commit, Goto, MovedAlone, TaskInv, RequestInv, Published,
                      Counted, Consistent, NoTask, Open, Stored
  <2> QED BY <2>1, MoveKeepsTasks
<1>5. ASSUME NEW r \in Requests, MarkTaskError(r)
      PROVE  Goal
  <2>. DEFINE row == [rows[r] EXCEPT !.status = "error", !.total = rows[r].total]
  <2>1. /\ at' = [at EXCEPT ![r] = "marked"] /\ UNCHANGED created
        /\ rows' = [rows EXCEPT ![r] = row] /\ db' = [db EXCEPT ![r] = row]
    BY <1>5 DEF MarkTaskError, Commit, Goto
  <2>2. /\ at'[r] = "marked" /\ rows'[r] = row /\ db'[r] = row
        /\ \A s \in Requests \ {r} : at'[s] = at[s] /\ rows'[s] = rows[s] /\ db'[s] = db[s]
    BY <1>0, <2>1
  <2>3. row = [rows[r] EXCEPT !.status = "error"]
    BY <1>0 DEF NoTask
  <2>4. /\ row.status = "error" /\ row.total = rows[r].total
        /\ row.generation = rows[r].generation /\ row.validation = rows[r].validation
    BY <1>0, <2>3 DEF NoTask
  <2>. HIDE DEF row
  <2>5. RequestInv(r) /\ at[r] \in {"failed", "unread"}
    BY <1>5 DEF TaskInv, MarkTaskError
  <2>6. Counted(row) /\ Consistent(row) /\ InList(created, r) /\ Published(r)
    <3>1. CASE at[r] = "failed"
      BY <2>4, <2>5, <3>1 DEF RequestInv, Counted, Consistent, Published, Open
    <3>2. CASE at[r] = "unread"
      <4>1. rows[r] = db[r] /\ Counted(db[r]) /\ Consistent(db[r]) /\ InList(created, r)
        BY <2>5, <3>2 DEF RequestInv, Stored
      <4>2. db[r].status \in {"accepted", "rejected"}
        BY <2>5, <3>2 DEF RequestInv
      <4>3. Published(r)
        BY <2>2, <2>3, <4>1, <4>2 DEF Published
      <4>4. Counted(row) /\ Consistent(row)
        BY <2>4, <4>1 DEF Counted, Consistent
      <4> QED BY <4>1, <4>3, <4>4
    <3> QED BY <2>5, <3>1, <3>2
  <2>7. RequestInv(r)'
    BY <2>1, <2>2, <2>4, <2>6 DEF RequestInv, Open, Stored
  <2>8. MovedAlone(r)
    BY <2>1, <2>2, <2>6, <2>7 DEF MovedAlone
  <2> QED BY <2>8, MoveKeepsTasks
<1>6. ASSUME NEW r \in Requests, Reload(r)
      PROVE  Goal
  <2>1. MovedAlone(r)
    BY <1>0, <1>6 DEF Reload, Goto, MovedAlone, TaskInv, RequestInv, Published, Open, Stored
  <2> QED BY <2>1, MoveKeepsTasks
<1>7. ASSUME NEW r \in Requests, Close(r), UNCHANGED <<db, created>>
      PROVE  Goal
  <2>1. MovedAlone(r)
    BY <1>0, <1>7 DEF Close, Goto, MovedAlone, TaskInv, RequestInv, Published, Counted, NoTask,
                      Open, Stored
  <2> QED BY <2>1, MoveKeepsTasks
<1>8. ASSUME NEW r \in Requests, PoolTimesOut(r)
      PROVE  Goal
  <2>1. CASE at[r] = "reload"
    <3>1. MovedAlone(r)
      BY <1>0, <1>8, <2>1 DEF PoolTimesOut, Goto, MovedAlone, TaskInv, RequestInv, Published,
                              Open, Stored
    <3> QED BY <3>1, MoveKeepsTasks
  <2>2. CASE at[r] # "reload"
    BY <1>7, <1>8, <2>2 DEF PoolTimesOut
  <2> QED BY <2>1, <2>2
<1>9. CASE UNCHANGED <<at, rows, db, created>>
  <2>1. ASSUME NEW s \in Requests PROVE RequestInv(s)' /\ Published(s)
    BY <1>9, StaysKeeps DEF TaskInv
  <2> QED BY <1>9, <2>1 DEF TaskInv, Listed
<1>10. ASSUME NEW r \in Requests, Proceed(r) \/ PoolTimesOut(r) \/ Cancel(r)
       PROVE  Goal
  BY <1>1, <1>2, <1>3, <1>4, <1>5, <1>6, <1>7, <1>8, <1>10 DEF Proceed, CloseSession, Cancel
<1>11. CASE History \/ Statistics \/ Finished \/ UNCHANGED vars
  BY <1>9, <1>11
  DEF History, HistoryCheckout, HistoryCount, HistoryPage, HistoryNextPage, Statistics,
      StatisticsCheckout, StatusShares, AverageIterations, ByTaskType, GenerationModels,
      ValidationModels, Read, Finished, Generating, vars
<1> QED BY <1>10, <1>11 DEF Next

(* The tasks with iterations, which average, generation and validation     *)
(* count.                                                                  *)
Iterated == { r \in Requests : db[r].total > 0 }

(* No task has left the list of the reader.                                *)
Steady == history.filter = "any" \/ Overturned = {}

LEMMA TasksRemain ==
    ASSUME IInv, TaskInv, TaskInv', \A r \in Requests : Published(r)
    PROVE  /\ Visible("any") \subseteq Visible("any")'
           /\ Iterated \subseteq Iterated'
           /\ Overturned \subseteq Overturned'
           /\ \A f : Overturned' = {} => Visible(f) \subseteq Visible(f)'
<1>1. ASSUME NEW r \in Requests
      PROVE  /\ db[r].status # "absent" => db'[r].status # "absent"
             /\ db[r].total > 0 => db'[r].total > 0
             /\ db[r].status = "error" /\ db[r].total > 0 => db'[r].status = "error"
             /\ \/ db'[r].status = db[r].status
                \/ db[r].status = "absent"
                \/ db'[r].status = "error" /\ db'[r].total > 0
  <2>1. Published(r) /\ Consistent(db[r]) /\ Counted(db[r])
    BY DEF TaskInv, RequestInv
  <2>2. CASE db'[r] = db[r]
    BY <2>2
  <2>3. CASE db[r].status = "absent"
    BY <2>1, <2>3 DEF Consistent
  <2>4. CASE /\ db[r].status \in {"accepted", "rejected"}
             /\ db'[r] = [db[r] EXCEPT !.status = "error"]
    <3>1. DOMAIN db[r] = DOMAIN NoTask
      BY DEF IInv, RowsInv
    <3>2. db'[r].status = "error" /\ db'[r].total = db[r].total
      BY <2>4, <3>1 DEF NoTask
    <3> QED BY <2>1, <2>4, <3>2 DEF Consistent
  <2> QED BY <2>1, <2>2, <2>3, <2>4 DEF Published
<1>2. Visible("any") \subseteq Visible("any")'
  BY <1>1 DEF Visible
<1>3. Iterated \subseteq Iterated'
  BY <1>1 DEF Iterated
<1>4. Overturned \subseteq Overturned'
  BY <1>1 DEF Overturned
<1>5. ASSUME NEW f, Overturned' = {} PROVE Visible(f) \subseteq Visible(f)'
  BY <1>1, <1>5 DEF Visible, Overturned
<1> QED BY <1>2, <1>3, <1>4, <1>5

(* While nobody leaves the list of a reader, it only grows, and whoever    *)
(* stood before a task still does.                                         *)
LEMMA ListGrows ==
    ASSUME IInv, TaskInv, TaskInv', \A r \in Requests : Published(r), Listed,
           history'.filter = history.filter, Steady'
    PROVE  /\ Steady
           /\ Visible(history.filter) \subseteq Visible(history.filter)'
           /\ \A r : Newer(r) \subseteq Newer(r)'
<1>1. Steady
  BY TasksRemain DEF Steady
<1>2. Visible(history.filter) \subseteq Visible(history.filter)'
  BY TasksRemain DEF Steady, Visible
<1>3. ASSUME NEW r, NEW s \in Newer(r) PROVE s \in Newer(r)'
  <2>1. PICK i \in DOMAIN created, j \in DOMAIN created :
            i < j /\ created[i] = s /\ created[j] = r
    BY <1>3 DEF Newer
  <2>2. \E k, l \in DOMAIN created' : k < l /\ created'[k] = s /\ created'[l] = r
    <3>1. CASE UNCHANGED created
      BY <2>1, <3>1
    <3>2. CASE \E t \in Requests : created' = <<t>> \o created
      <4>1. created \in Seq(Requests)
        BY DEF IInv, RowsInv
      <4>2. PICK t \in Requests : created' = <<t>> \o created
        BY <3>2
      <4>3. /\ created' \in Seq(Requests) /\ Len(created') = Len(created) + 1
            /\ \A k \in 1..Len(created) : created'[k + 1] = created[k]
        BY <4>1, <4>2, PutFirst
      <4>4. /\ i \in 1..Len(created) /\ j \in 1..Len(created) /\ Len(created) \in Nat
            /\ DOMAIN created' = 1..Len(created')
        BY <2>1, <4>1, <4>3
      <4>5. i + 1 \in DOMAIN created' /\ j + 1 \in DOMAIN created' /\ i + 1 < j + 1
        BY <2>1, <4>3, <4>4
      <4> QED BY <2>1, <4>3, <4>4, <4>5
    <3> QED BY <3>1, <3>2 DEF Listed
  <2>3. s \in Visible(history.filter)'
    BY <1>2, <1>3 DEF Newer
  <2> QED BY <2>2, <2>3 DEF Newer
<1> QED BY <1>1, <1>2, <1>3

(* The listed tasks and their places in the list.                          *)
LEMMA ListIsOrdered ==
    ASSUME IInv, TaskInv
    PROVE  \E pos \in [Visible(history.filter) -> Nat] :
               /\ Distinct(Visible(history.filter), pos)
               /\ \A r \in Visible(history.filter) :
                     Newer(r) = Below(Visible(history.filter), pos, r)
<1>. DEFINE V == Visible(history.filter)
            pos == [r \in V |-> CHOOSE i \in DOMAIN created : created[i] = r]
<1>1. created \in Seq(Requests) /\ \A i, j \in DOMAIN created : created[i] = created[j] => i = j
  BY DEF IInv, RowsInv, TaskInv
<1>2. \A r \in V : InList(created, r)
  BY DEF Visible, TaskInv, RequestInv
<1>3. \A r \in V : pos[r] \in DOMAIN created /\ created[pos[r]] = r
  BY <1>2 DEF InList
<1>4. pos \in [V -> Nat] /\ Distinct(V, pos)
  <2>1. DOMAIN created \subseteq Nat
    BY <1>1
  <2>2. pos \in [V -> DOMAIN created]
    BY <1>3
  <2> QED BY <1>3, <2>1, <2>2 DEF Distinct
<1>5. ASSUME NEW r \in V PROVE Newer(r) = Below(V, pos, r)
  <2>. HIDE DEF pos
  <2>1. ASSUME NEW s \in V
        PROVE  (\E i, j \in DOMAIN created : i < j /\ created[i] = s /\ created[j] = r)
               <=> pos[s] < pos[r]
    BY <1>1, <1>3
  <2> QED BY <2>1 DEF Newer, Below
<1>. HIDE DEF pos
<1> QED BY <1>4, <1>5

-----------------------------------------------------------------------------
(* The pages of the history *)

LEMMA MinOfTwo ==
    ASSUME NEW a \in Int, NEW b \in Int
    PROVE  Min({a, b}) = IF a <= b THEN a ELSE b
<1>. DEFINE least == IF a <= b THEN a ELSE b
<1>1. least \in {a, b} /\ \A y \in {a, b} : least <= y
  OBVIOUS
<1>2. \A x \in {a, b} : (\A y \in {a, b} : x <= y) => x = least
  OBVIOUS
<1> QED BY <1>1, <1>2 DEF Min

LEMMA ListIsFinite ==
    ASSUME NEW f
    PROVE  /\ IsFiniteSet(Visible(f)) /\ Cardinality(Visible(f)) \in Nat
           /\ IsFiniteSet(Visible(f)') /\ Cardinality(Visible(f)') \in Nat
<1>1. Visible(f) \subseteq Requests /\ Visible(f)' \subseteq Requests
  BY DEF Visible
<1> QED BY <1>1, FS_Subset, FS_CardinalityType, WorkerAssumption

LEMMA OffsetType ==
    ASSUME history.page \in Nat \ {0}
    PROVE  /\ Offset \in Nat /\ history.page * PageSize \in Nat
           /\ history.page * PageSize = Offset + PageSize
           /\ (history.page + 1 - 1) * PageSize = history.page * PageSize
BY WorkerAssumption DEF Offset

(* A page is as long as the list allows, and it leaves no gap to the next. *)
LEMMA PageHolds ==
    ASSUME IInv, TaskInv, history.page \in Nat \ {0}
    PROVE  LET size == Cardinality(Visible(history.filter)) IN
           /\ Page \subseteq Visible(history.filter) /\ Cardinality(Page) \in Nat
           /\ Cardinality(Page) >= Min({PageSize, size - Offset})
           /\ Page = {} => size <= Offset
           /\ \A r \in Visible(history.filter) :
                 /\ Cardinality(Newer(r)) \in Nat /\ Cardinality(Newer(r)) < size
                 /\ Cardinality(Newer(r)) >= Offset /\ r \notin Page
                    => Cardinality(Newer(r)) >= history.page * PageSize
<1>. DEFINE V == Visible(history.filter)
            size == Cardinality(V)
<1>1. PICK pos \in [V -> Nat] :
          Distinct(V, pos) /\ \A r \in V : Newer(r) = Below(V, pos, r)
  BY ListIsOrdered
<1>2. IsFiniteSet(V) /\ size \in Nat
  BY ListIsFinite
<1>3. Offset \in Nat /\ PageSize \in Nat \ {0} /\ history.page * PageSize = Offset + PageSize
  BY OffsetType, WorkerAssumption
<1>4. Page = Slice(V, pos, Offset, PageSize)
  BY <1>1 DEF Page, Rank, Slice
<1>. HIDE DEF V
<1>5. Page \subseteq V /\ IsFiniteSet(Page) /\ Cardinality(Page) \in Nat
  BY <1>2, <1>4, FS_Subset, FS_CardinalityType DEF Slice
<1>6. ASSUME NEW m \in Nat, m <= PageSize, Offset + m <= size
      PROVE  m <= Cardinality(Page)
  BY <1>1, <1>2, <1>3, <1>4, <1>6, PageIsFull
<1>7. Cardinality(Page) >= Min({PageSize, size - Offset})
  <2>. DEFINE m == IF PageSize <= size - Offset THEN PageSize ELSE size - Offset
  <2>1. Min({PageSize, size - Offset}) = m
    BY <1>2, <1>3, MinOfTwo
  <2>2. m \in Int /\ m <= PageSize /\ Offset + m <= size
    BY <1>2, <1>3
  <2>3. m \in Nat => m <= Cardinality(Page)
    BY <1>6, <2>2
  <2>. HIDE DEF m
  <2> QED BY <1>5, <2>1, <2>2, <2>3
<1>8. Page = {} => size <= Offset
  <2>1. SUFFICES ASSUME Offset + 1 <= size PROVE Page # {}
    BY <1>2, <1>3
  <2>2. 1 <= Cardinality(Page)
    BY <1>3, <1>6, <2>1
  <2> QED BY <2>2, FS_EmptySet
<1>9. ASSUME NEW r \in V
      PROVE  /\ Cardinality(Newer(r)) \in Nat /\ Cardinality(Newer(r)) < size
             /\ Cardinality(Newer(r)) >= Offset /\ r \notin Page
                => Cardinality(Newer(r)) >= history.page * PageSize
  <2>1. Cardinality(Newer(r)) = Rank(V, pos, r) /\ Rank(V, pos, r) \in Nat
    BY <1>1, <1>2, RankType DEF Rank
  <2>2. Rank(V, pos, r) < size
    <3>1. Below(V, pos, r) \in SUBSET (V \ {r})
      BY <1>1 DEF Below
    <3>2. IsFiniteSet(V \ {r}) /\ Cardinality(V \ {r}) = size - 1
      BY <1>2, FS_RemoveElement
    <3> QED BY <1>2, <2>1, <3>1, <3>2, FS_Subset DEF Rank
  <2>3. Rank(V, pos, r) >= Offset /\ r \notin Page => Rank(V, pos, r) >= Offset + PageSize
    BY <1>3, <1>4, <2>1 DEF Slice
  <2> QED BY <1>3, <2>1, <2>2, <2>3
<1> QED BY <1>5, <1>7, <1>8, <1>9 DEF V

(* The places of the list that the client has been given.                  *)
Covered ==
    IF history.at \in {"received", "done"} THEN history.page * PageSize ELSE Offset

(* While nobody leaves the list: the first total was of tasks that are     *)
(* still there, and those not yet seen stand behind what was covered.      *)
WalkInv ==
    /\ history.page \in Nat \ {0} /\ history.total \in Nat
    /\ Cardinality(history.items) \in Nat
    /\ Steady =>
          /\ history.first \subseteq Visible(history.filter)
          /\ \A r \in history.first :
                r \in history.seen \/ Cardinality(Newer(r)) >= Covered
          /\ history.at = "page" => history.total <= Cardinality(Visible(history.filter))
          /\ history.at \in {"received", "done"} =>
                Cardinality(history.items) >= Min({PageSize, history.total - Offset})
          /\ history.at = "done" => history.first \subseteq history.seen

LEMMA InitWalk == Init => WalkInv
<1> SUFFICES ASSUME Init PROVE WalkInv
  OBVIOUS
<1>1. /\ history.at = "waiting" /\ history.page = 1 /\ history.total = 0
      /\ history.first = {} /\ history.items = {}
  BY DEF Init
<1> QED BY <1>1, FS_EmptySet DEF WalkInv

(* The tasks not yet seen stay behind what was covered, as the list grows  *)
(* at its head.                                                            *)
LEMMA UnseenStayBehind ==
    ASSUME IInv, TaskInv, TaskInv', WalkInv, \A r \in Requests : Published(r), Listed,
           history'.filter = history.filter, Steady'
    PROVE  /\ Steady
           /\ Cardinality(Visible(history.filter)) <= Cardinality(Visible(history.filter)')
           /\ history.first \subseteq Visible(history.filter)'
           /\ \A r \in history.first \ history.seen : Cardinality(Newer(r)') >= Covered
<1>1. /\ Steady
      /\ Visible(history.filter) \subseteq Visible(history.filter)'
      /\ \A r : Newer(r) \subseteq Newer(r)'
  BY ListGrows
<1>2. Cardinality(Visible(history.filter)) <= Cardinality(Visible(history.filter)')
  BY <1>1, ListIsFinite, FS_Subset
<1>3. ASSUME NEW r \in history.first \ history.seen PROVE Cardinality(Newer(r)') >= Covered
  <2>1. Newer(r)' \subseteq Visible(history.filter)'
    BY DEF Newer
  <2>2. IsFiniteSet(Newer(r)')
    BY <2>1, <1>1, ListIsFinite, FS_Subset
  <2>3. Cardinality(Newer(r)) <= Cardinality(Newer(r)') /\ IsFiniteSet(Newer(r))
    BY <1>1, <2>2, FS_Subset
  <2>4. Cardinality(Newer(r)) \in Nat /\ Cardinality(Newer(r)') \in Nat
    BY <2>2, <2>3, FS_CardinalityType
  <2>5. Covered \in Int
    BY OffsetType DEF Covered, WalkInv
  <2>6. Cardinality(Newer(r)) >= Covered
    BY <1>1 DEF WalkInv
  <2> QED BY <2>3, <2>4, <2>5, <2>6
<1> QED BY <1>1, <1>2, <1>3 DEF WalkInv

LEMMA HistoryStays ==
    ASSUME IInv, TaskInv, TaskInv', WalkInv, \A r \in Requests : Published(r), Listed,
           UNCHANGED history
    PROVE  WalkInv'
<1>1. Covered' = Covered /\ Offset' = Offset /\ history'.filter = history.filter
  BY DEF Covered, Offset
<1>2. ASSUME Steady'
      PROVE  /\ Steady
             /\ history.first \subseteq Visible(history.filter)'
             /\ \A r \in history.first \ history.seen : Cardinality(Newer(r)') >= Covered
             /\ history.at = "page" => history.total <= Cardinality(Visible(history.filter)')
  <2>1. /\ Steady
        /\ Cardinality(Visible(history.filter)) <= Cardinality(Visible(history.filter)')
        /\ history.first \subseteq Visible(history.filter)'
        /\ \A r \in history.first \ history.seen : Cardinality(Newer(r)') >= Covered
    BY <1>1, <1>2, UnseenStayBehind
  <2> QED BY <2>1, ListIsFinite DEF WalkInv
<1> QED BY <1>1, <1>2 DEF WalkInv

LEMMA StepKeepsWalk ==
    ASSUME IInv, TaskInv, TaskInv', WalkInv, \A r \in Requests : Published(r), Listed,
           [Next]_vars
    PROVE  WalkInv'
<1>0. /\ DOMAIN history = {"at", "filter", "page", "total", "first", "items", "seen"}
      /\ history.page \in Nat \ {0} /\ history.total \in Nat
      /\ Cardinality(history.items) \in Nat
  BY DEF IInv, ReadersInv, WalkInv
<1>1. ASSUME history'.filter = history.filter, UNCHANGED <<db, created>>
      PROVE  /\ Steady' <=> Steady
             /\ Visible(history.filter)' = Visible(history.filter)
             /\ \A r : Newer(r)' = Newer(r)
  BY <1>1 DEF Steady, Overturned, Visible, Newer
<1>2. CASE HistoryCheckout
  <2>1. /\ history' = [history EXCEPT !.at = "count"] /\ history.at = "waiting"
        /\ UNCHANGED <<db, created>>
    BY <1>2 DEF HistoryCheckout, Generating
  <2>2. /\ history'.at = "count" /\ history'.filter = history.filter
        /\ history'.page = history.page /\ history'.total = history.total
        /\ history'.first = history.first /\ history'.items = history.items
        /\ history'.seen = history.seen
    BY <1>0, <2>1
  <2>3. Offset' = Offset /\ Covered' = Covered
    BY <2>1, <2>2 DEF Offset, Covered
  <2> QED BY <1>0, <1>1, <2>1, <2>2, <2>3 DEF WalkInv
<1>3. CASE HistoryCount
  <2>1. /\ history.at = "count" /\ UNCHANGED <<db, created>>
        /\ history' = [history EXCEPT
              !.at = "page",
              !.total = Cardinality(Visible(history.filter)),
              !.first = IF history.page = 1 THEN Visible(history.filter) ELSE history.first]
    BY <1>3 DEF HistoryCount, Generating
  <2>2. /\ history'.at = "page" /\ history'.filter = history.filter
        /\ history'.page = history.page
        /\ history'.total = Cardinality(Visible(history.filter))
        /\ history'.first = IF history.page = 1 THEN Visible(history.filter) ELSE history.first
        /\ history'.items = history.items /\ history'.seen = history.seen
    BY <1>0, <2>1
  <2>3. Offset' = Offset /\ Covered' = Offset /\ Covered = Offset
    BY <2>1, <2>2 DEF Offset, Covered
  <2>4. Cardinality(Visible(history.filter)) \in Nat
    BY ListIsFinite
  <2>5. history.page = 1 =>
           \A r \in Visible(history.filter) : Cardinality(Newer(r)) >= Offset
    <3>1. history.page = 1 => Offset = 0
      BY WorkerAssumption DEF Offset
    <3> QED BY <1>0, <3>1, PageHolds
  <2> QED BY <1>0, <1>1, <2>1, <2>2, <2>3, <2>4, <2>5 DEF WalkInv
<1>4. CASE HistoryPage
  <2>. DEFINE place == IF Page = {} THEN "done" ELSE "received"
              size == Cardinality(Visible(history.filter))
  <2>1. /\ history.at = "page" /\ UNCHANGED <<db, created>>
        /\ history' = [history EXCEPT !.items = Page, !.seen = history.seen \cup Page,
                                      !.at = place]
    BY <1>4 DEF HistoryPage, Generating
  <2>2. /\ history'.at = place /\ history'.filter = history.filter
        /\ history'.page = history.page /\ history'.total = history.total
        /\ history'.first = history.first /\ history'.items = Page
        /\ history'.seen = history.seen \cup Page
    BY <1>0, <2>1
  <2>3. Offset' = Offset /\ Covered' = history.page * PageSize /\ Covered = Offset
    BY <2>1, <2>2 DEF Offset, Covered
  <2>4. /\ Page \subseteq Visible(history.filter) /\ Cardinality(Page) \in Nat
        /\ Cardinality(Page) >= Min({PageSize, size - Offset})
        /\ Page = {} => size <= Offset
        /\ \A r \in Visible(history.filter) :
              /\ Cardinality(Newer(r)) \in Nat /\ Cardinality(Newer(r)) < size
              /\ Cardinality(Newer(r)) >= Offset /\ r \notin Page
                 => Cardinality(Newer(r)) >= history.page * PageSize
    BY <1>0, PageHolds
  <2>5. size \in Nat /\ Offset \in Nat /\ PageSize \in Nat
    BY <1>0, ListIsFinite, OffsetType, WorkerAssumption
  <2>6. history.page \in Nat \ {0} /\ history.total \in Nat
    BY <1>0
  <2>. HIDE DEF size
  <2>7. ASSUME Steady
        PROVE  /\ history.first \subseteq Visible(history.filter)
               /\ \A r \in history.first :
                     r \in history.seen \cup Page
                     \/ Cardinality(Newer(r)) >= history.page * PageSize
               /\ Cardinality(Page) >= Min({PageSize, history.total - Offset})
               /\ Page = {} => history.first \subseteq history.seen \cup Page
    <3>1. /\ history.first \subseteq Visible(history.filter)
          /\ \A r \in history.first : r \in history.seen \/ Cardinality(Newer(r)) >= Offset
          /\ history.total <= size
      BY <2>1, <2>3, <2>7 DEF WalkInv, size
    <3>2. Cardinality(Page) >= Min({PageSize, history.total - Offset})
      <4>1. Min({PageSize, size - Offset}) =
              IF PageSize <= size - Offset THEN PageSize ELSE size - Offset
        BY <2>5, MinOfTwo
      <4>2. Min({PageSize, history.total - Offset}) =
              IF PageSize <= history.total - Offset THEN PageSize ELSE history.total - Offset
        BY <2>5, <2>6, MinOfTwo
      <4> QED BY <2>4, <2>5, <2>6, <3>1, <4>1, <4>2
    <3>3. \A r \in history.first :
             r \in history.seen \cup Page \/ Cardinality(Newer(r)) >= history.page * PageSize
      BY <2>4, <3>1
    <3>4. Page = {} => history.first \subseteq history.seen \cup Page
      <4>1. ASSUME Page = {}, NEW r \in history.first, r \notin history.seen PROVE FALSE
        <5>1. /\ Cardinality(Newer(r)) \in Nat /\ Cardinality(Newer(r)) < size
              /\ Cardinality(Newer(r)) >= Offset
          BY <2>4, <3>1, <4>1
        <5>2. size <= Offset
          BY <2>4, <4>1
        <5> QED BY <2>5, <5>1, <5>2
      <4> QED BY <4>1
    <3> QED BY <3>1, <3>2, <3>3, <3>4
  <2>8. /\ place \in {"received", "done"} /\ place = "done" => Page = {}
    OBVIOUS
  <2>. HIDE DEF place
  <2> QED BY <1>1, <2>1, <2>2, <2>3, <2>4, <2>6, <2>7, <2>8 DEF WalkInv
<1>5. CASE HistoryNextPage
  <2>1. /\ history.at = "received" /\ UNCHANGED <<db, created>>
        /\ history' = [history EXCEPT !.at = "waiting", !.page = history.page + 1]
    BY <1>5 DEF HistoryNextPage, Generating
  <2>2. /\ history'.at = "waiting" /\ history'.filter = history.filter
        /\ history'.page = history.page + 1 /\ history'.total = history.total
        /\ history'.first = history.first /\ history'.items = history.items
        /\ history'.seen = history.seen
    BY <1>0, <2>1
  <2>3. Covered' = Covered /\ history'.page \in Nat \ {0}
    <3>1. Covered = history.page * PageSize
      BY <2>1 DEF Covered
    <3>2. Covered' = Offset'
      BY <2>2 DEF Covered
    <3>3. Offset' = (history'.page - 1) * PageSize /\ history'.page - 1 = history.page
      BY <1>0, <2>2 DEF Offset
    <3> QED BY <1>0, <2>2, <3>1, <3>2, <3>3
  <2> QED BY <1>0, <1>1, <2>1, <2>2, <2>3 DEF WalkInv
<1>6. CASE UNCHANGED history
  BY <1>6, HistoryStays
<1>7. ASSUME NEW r \in Requests, Proceed(r) \/ PoolTimesOut(r) \/ Cancel(r)
      PROVE  UNCHANGED history
  BY <1>7 DEF Proceed, Begin, TakePermit, EndCall, Finalize, MarkTaskError, Reload,
              CloseSession, PoolTimesOut, Cancel, Reading
<1>8. Statistics \/ Finished \/ UNCHANGED vars => UNCHANGED history
  BY DEF Statistics, StatisticsCheckout, StatusShares, AverageIterations, ByTaskType,
         GenerationModels, ValidationModels, Read, Finished, vars
<1> QED BY <1>2, <1>3, <1>4, <1>5, <1>6, <1>7, <1>8 DEF Next, History

(* Published, listed and read: what every reader may rely on.              *)
THEOREM ReaderInvariant == Spec => [](IInv /\ TaskInv /\ WalkInv)
<1>1. Init => IInv /\ TaskInv /\ WalkInv
  BY InitInv, InitTasks, InitWalk
<1>2. (IInv /\ TaskInv /\ WalkInv) /\ [Next]_vars => (IInv /\ TaskInv /\ WalkInv)'
  BY NextInv, StepKeepsTasks, StepKeepsWalk
<1> QED BY <1>1, <1>2, PTL DEF Spec

(* No page is shorter than the total promised before it, however many      *)
(* tasks are committed between the two statements.                         *)
THEOREM PagesKeepTotal == Spec => []PageKeepsTotal
<1>1. WalkInv => PageKeepsTotal
  BY DEF WalkInv, PageKeepsTotal, Steady
<1> QED BY <1>1, ReaderInvariant, PTL

(* A walk through all pages misses no task that was there when it began.   *)
THEOREM WalksSkipNothing == Spec => []WalkSkipsNothing
<1>1. WalkInv => WalkSkipsNothing
  BY DEF WalkInv, WalkSkipsNothing, Steady
<1> QED BY <1>1, ReaderInvariant, PTL

-----------------------------------------------------------------------------
(* Sums over the tasks *)

Taken(s) == CHOOSE x \in s : TRUE

(* h is the sum of g over the subsets of S, in the order MapThenSumSet     *)
(* takes their elements.                                                   *)
IsSum(h, g, S) ==
    h = [s \in SUBSET S |-> IF s = {} THEN 0 ELSE g[Taken(s)] + h[s \ {Taken(s)}]]

LEMMA TotalIsSum ==
    ASSUME NEW column
    PROVE  LET g == [r \in Requests |-> db[r][column]]
           IN  Total(column) = (CHOOSE h : IsSum(h, g, Requests))[Requests]
<1>. DEFINE g == [r \in Requests |-> db[r][column]]
<1>1. ASSUME NEW s \in SUBSET Requests, s # {}
      PROVE  g[Taken(s)] = db[Taken(s)][column]
  <2>1. Taken(s) \in Requests
    BY <1>1 DEF Taken
  <2> QED BY <2>1
<1>2. \A h : IsSum(h, g, Requests) <=>
             h = [s \in SUBSET Requests |->
                    IF s = {} THEN 0 ELSE db[Taken(s)][column] + h[s \ {Taken(s)}]]
  BY <1>1 DEF IsSum
<1>3. (CHOOSE h : IsSum(h, g, Requests)) =
      (CHOOSE h : h = [s \in SUBSET Requests |->
                    IF s = {} THEN 0 ELSE db[Taken(s)][column] + h[s \ {Taken(s)}]])
  BY <1>2
<1> QED BY <1>3 DEF Total, MapThenSumSet, MapThenFoldSet, Taken

LEMMA TakenFrom == ASSUME NEW s, s # {} PROVE Taken(s) \in s
BY DEF Taken

LEMMA SmallerRest ==
    ASSUME NEW S, IsFiniteSet(S), NEW s \in SUBSET S, s # {}
    PROVE  /\ s \ {Taken(s)} \in SUBSET S
           /\ Cardinality(s) \in Nat /\ Cardinality(s \ {Taken(s)}) \in Nat
           /\ Cardinality(s) = Cardinality(s \ {Taken(s)}) + 1
<1>1. IsFiniteSet(s) /\ Taken(s) \in s
  BY TakenFrom, FS_Subset
<1>2. IsFiniteSet(s \ {Taken(s)}) /\ Cardinality(s \ {Taken(s)}) = Cardinality(s) - 1
  BY <1>1, FS_RemoveElement
<1>3. Cardinality(s) \in Nat /\ Cardinality(s \ {Taken(s)}) \in Nat
  BY <1>1, <1>2, FS_CardinalityType
<1> QED BY <1>2, <1>3

(* The sum exists: otherwise there would be a least number of elements     *)
(* from which on it does not.                                              *)
LEMMA SumExists ==
    ASSUME NEW S, IsFiniteSet(S), NEW g
    PROVE  \E h : IsSum(h, g, S)
<1>. DEFINE Small(n) == { s \in SUBSET S : Cardinality(s) <= n }
            Partial(h, n) ==
                h = [s \in Small(n) |-> IF s = {} THEN 0 ELSE g[Taken(s)] + h[s \ {Taken(s)}]]
            Missing == { n \in Nat : ~\E h : Partial(h, n) }
<1>1. \A s \in SUBSET S : IsFiniteSet(s) /\ Cardinality(s) \in Nat
  BY FS_Subset, FS_CardinalityType
<1>2. Missing = {}
  <2>1. SUFFICES ASSUME Missing # {} PROVE FALSE
    OBVIOUS
  <2>2. PICK k \in Missing : \A l \in Missing : k <= l
    <3>1. Missing \subseteq Nat
      OBVIOUS
    <3> QED BY <2>1, <3>1, LeastElement
  <2>3. CASE k = 0
    <3>. DEFINE h == [s \in Small(0) |-> 0]
    <3>1. \A s \in Small(0) : s = {}
      BY <1>1, FS_EmptySet
    <3>2. Partial(h, 0)
      BY <3>1
    <3> QED BY <2>2, <2>3, <3>2
  <2>4. CASE k # 0
    <3>1. k - 1 \in Nat /\ k - 1 \notin Missing
      <4>1. k \in Nat
        OBVIOUS
      <4>. HIDE DEF Missing
      <4> QED BY <2>2, <2>4, <4>1
    <3>2. PICK f : Partial(f, k - 1)
      BY <3>1
    <3>. DEFINE h == [s \in Small(k) |-> IF s = {} THEN 0 ELSE g[Taken(s)] + f[s \ {Taken(s)}]]
    <3>3. ASSUME NEW s \in Small(k), s # {}
          PROVE  s \ {Taken(s)} \in Small(k - 1) /\ s \ {Taken(s)} \in Small(k)
      <4>1. /\ s \ {Taken(s)} \in SUBSET S /\ Cardinality(s) <= k
            /\ Cardinality(s) \in Nat /\ Cardinality(s \ {Taken(s)}) \in Nat
            /\ Cardinality(s) = Cardinality(s \ {Taken(s)}) + 1
        BY <3>3, SmallerRest
      <4> QED BY <4>1, <2>2
    <3>4. ASSUME NEW s \in Small(k - 1) PROVE s \in Small(k) /\ f[s] = h[s]
      <4>1. s \in Small(k)
        BY <1>1, <2>2
      <4> QED BY <4>1, <3>2
    <3>5. \A s \in Small(k) : s # {} => f[s \ {Taken(s)}] = h[s \ {Taken(s)}]
      BY <3>3, <3>4
    <3>6. Partial(h, k)
      BY <3>5
    <3> QED BY <2>2, <3>6
  <2> QED BY <2>3, <2>4
<1>3. Cardinality(S) \in Nat
  BY FS_CardinalityType
<1>4. PICK h : Partial(h, Cardinality(S))
  BY <1>2, <1>3
<1>5. Small(Cardinality(S)) = SUBSET S
  BY FS_Subset
<1> QED BY <1>4, <1>5 DEF IsSum

(* A sum of natural numbers is at least the number of the positive ones.   *)
LEMMA SumCounts ==
    ASSUME NEW S, IsFiniteSet(S), NEW g \in [S -> Nat], NEW h, IsSum(h, g, S)
    PROVE  h[S] \in Nat /\ h[S] >= Cardinality({ x \in S : g[x] > 0 })
<1>. DEFINE Positive(s) == { x \in s : g[x] > 0 }
            Right(s) == h[s] \in Nat /\ h[s] >= Cardinality(Positive(s))
            Wrong == { s \in SUBSET S : ~Right(s) }
            Sizes == { Cardinality(s) : s \in Wrong }
<1>1. SUFFICES ASSUME Wrong # {} PROVE FALSE
  OBVIOUS
<1>2. Sizes \subseteq Nat /\ Sizes # {}
  <2>1. \A s \in SUBSET S : Cardinality(s) \in Nat
    BY FS_Subset, FS_CardinalityType
  <2>. HIDE DEF Right
  <2> QED BY <1>1, <2>1
<1>3. PICK n \in Sizes : \A m \in Sizes : n <= m
  BY <1>2, LeastElement
<1>4. PICK s \in Wrong : Cardinality(s) = n
  BY <1>3
<1>5. CASE s = {}
  <2>1. h[s] = 0 /\ Positive(s) = {}
    BY <1>4, <1>5 DEF IsSum
  <2> QED BY <1>4, <2>1, FS_EmptySet
<1>6. CASE s # {}
  <2>. DEFINE rest == s \ {Taken(s)}
  <2>1. /\ rest \in SUBSET S /\ Cardinality(s) \in Nat /\ Cardinality(rest) \in Nat
        /\ Cardinality(s) = Cardinality(rest) + 1
    BY <1>4, <1>6, SmallerRest
  <2>2. Taken(s) \in S /\ g[Taken(s)] \in Nat
    BY <1>4, <1>6, TakenFrom
  <2>3. h[s] = g[Taken(s)] + h[rest]
    BY <1>4, <1>6 DEF IsSum
  <2>4. Right(rest)
    <3>1. Cardinality(rest) \notin Sizes
      <4>. HIDE DEF Sizes, rest
      <4> QED BY <1>3, <1>4, <2>1
    <3>2. rest \notin Wrong
      BY <3>1
    <3> QED BY <2>1, <3>2
  <2>5. IsFiniteSet(Positive(rest)) /\ Cardinality(Positive(rest)) \in Nat
    BY <2>1, FS_Subset, FS_CardinalityType
  <2>6. Positive(s) = IF g[Taken(s)] > 0 THEN Positive(rest) \cup {Taken(s)} ELSE Positive(rest)
    BY <1>6, TakenFrom
  <2>7. Cardinality(Positive(rest) \cup {Taken(s)}) = Cardinality(Positive(rest)) + 1
    <3>1. Taken(s) \notin Positive(rest)
      OBVIOUS
    <3>. HIDE DEF Positive
    <3> QED BY <2>5, <3>1, FS_AddElement
  <2>8. Cardinality(Positive(s)) =
          IF g[Taken(s)] > 0 THEN Cardinality(Positive(rest)) + 1 ELSE Cardinality(Positive(rest))
    BY <2>6, <2>7
  <2>9. h[rest] \in Nat /\ h[rest] >= Cardinality(Positive(rest))
    BY <2>4
  <2>. HIDE DEF Positive, rest
  <2>10. h[s] \in Nat /\ h[s] >= Cardinality(Positive(s))
    BY <2>2, <2>3, <2>5, <2>8, <2>9
  <2> QED BY <1>4, <2>10
<1> QED BY <1>5, <1>6

(* Every task with a call of a type adds at least one to their number.     *)
LEMMA TotalCounts ==
    ASSUME NEW column, \A r \in Requests : db[r][column] \in Nat
    PROVE  /\ Total(column) \in Nat
           /\ Total(column) >= Cardinality({ r \in Requests : db[r][column] > 0 })
<1>. DEFINE g == [r \in Requests |-> db[r][column]]
            h == CHOOSE f : IsSum(f, g, Requests)
<1>1. IsSum(h, g, Requests)
  BY SumExists, WorkerAssumption
<1>2. g \in [Requests -> Nat]
  OBVIOUS
<1>3. { r \in Requests : g[r] > 0 } = { r \in Requests : db[r][column] > 0 }
  OBVIOUS
<1>4. Total(column) = h[Requests]
  BY TotalIsSum
<1>. HIDE DEF g, h
<1>5. h[Requests] \in Nat /\ h[Requests] >= Cardinality({ r \in Requests : g[r] > 0 })
  BY <1>1, <1>2, SumCounts, WorkerAssumption
<1> QED BY <1>3, <1>4, <1>5

-----------------------------------------------------------------------------
(* The statements of the statistics *)

Counts(S) == IsFiniteSet(S) /\ Cardinality(S) \in Nat

LEMMA TasksAreCounted ==
    /\ Counts(Visible("any")) /\ Counts(Visible("any")')
    /\ Counts(Iterated) /\ Counts(Iterated')
<1>1. Iterated \subseteq Requests /\ Iterated' \subseteq Requests
  BY DEF Iterated
<1> QED BY <1>1, ListIsFinite, FS_Subset, FS_CardinalityType, WorkerAssumption DEF Counts

(* Accepted and rejected tasks have iterations, tasks with iterations have *)
(* calls of both types.                                                    *)
LEMMA TasksInNumbers ==
    ASSUME TaskInv
    PROVE  /\ Count("accepted") \in Nat /\ Count("rejected") \in Nat
           /\ Count("accepted") + Count("rejected") <= Cardinality(Iterated)
           /\ Total("generation") \in Nat /\ Total("generation") >= Cardinality(Iterated)
           /\ Total("validation") \in Nat /\ Total("validation") >= Cardinality(Iterated)
<1>1. \A r \in Requests : Counted(db[r]) /\ Consistent(db[r])
  BY DEF TaskInv, RequestInv
<1>2. Count("accepted") + Count("rejected") <= Cardinality(Iterated)
  <2>. DEFINE A == Visible("accepted")
              R == Visible("rejected")
  <2>1. A \cap R = {} /\ A \cup R \subseteq Iterated
    BY <1>1 DEF Visible, Consistent, Iterated
  <2>2. IsFiniteSet(A) /\ IsFiniteSet(R) /\ Cardinality(A) \in Nat /\ Cardinality(R) \in Nat
    BY ListIsFinite
  <2>3. Count("accepted") = Cardinality(A) /\ Count("rejected") = Cardinality(R)
    BY DEF Count
  <2>. HIDE DEF A, R
  <2>4. Cardinality(A \cup R) = Cardinality(A) + Cardinality(R) - Cardinality(A \cap R)
    BY <2>2, FS_Union
  <2>5. Cardinality(A \cap R) = 0
    BY <2>1, FS_EmptySet, Zenon
  <2>6. Cardinality(A \cup R) <= Cardinality(Iterated)
    BY <2>1, TasksAreCounted, FS_Subset DEF Counts
  <2> QED BY <2>2, <2>3, <2>4, <2>5, <2>6
<1>3. ASSUME NEW column \in {"generation", "validation"}
      PROVE  Total(column) \in Nat /\ Total(column) >= Cardinality(Iterated)
  <2>. DEFINE P == { r \in Requests : db[r][column] > 0 }
  <2>1. Iterated \subseteq P
    BY <1>1 DEF Iterated, Consistent
  <2>2. Total(column) \in Nat /\ Total(column) >= Cardinality(P)
    BY <1>1, TotalCounts DEF Counted
  <2>3. IsFiniteSet(P) /\ Cardinality(P) \in Nat
    BY FS_Subset, FS_CardinalityType, WorkerAssumption
  <2>. HIDE DEF P
  <2>4. Cardinality(Iterated) <= Cardinality(P)
    BY <2>1, <2>3, FS_Subset
  <2> QED BY <2>2, <2>3, <2>4, TasksAreCounted DEF Counts
<1> QED BY <1>2, <1>3, ListIsFinite DEF Count

(* What was counted is still there, and what was averaged covers it.       *)
StatsInv ==
    /\ stats.total \in Nat /\ stats.accepted \in Nat /\ stats.rejected \in Nat
    /\ stats.averaged \in Nat /\ stats.types \in Nat /\ stats.generation \in Nat
    /\ stats.validation \in Nat
    /\ stats.at \notin {"waiting", "statuses"} =>
          /\ stats.total <= Cardinality(Visible("any"))
          /\ stats.accepted + stats.rejected <= Cardinality(Iterated)
    /\ stats.at \notin {"waiting", "statuses", "average"} =>
          stats.averaged <= Cardinality(Iterated)
    /\ LaterPartsIncludeEarlier

LEMMA InitStats == Init => StatsInv
BY DEF Init, StatsInv, LaterPartsIncludeEarlier

LEMMA StepKeepsStats ==
    ASSUME IInv, TaskInv, TaskInv', StatsInv, \A r \in Requests : Published(r), [Next]_vars
    PROVE  StatsInv'
<1>0. /\ DOMAIN stats = { "at", "total", "accepted", "rejected", "error",
                          "averaged", "types", "generation", "validation" }
      /\ stats.at \in StatsPlaces
  BY DEF IInv, ReadersInv
<1>1. /\ Counts(Visible("any")) /\ Counts(Iterated)
      /\ Counts(Visible("any")') /\ Counts(Iterated')
  BY TasksAreCounted
<1>2. /\ Cardinality(Visible("any")) <= Cardinality(Visible("any")')
      /\ Cardinality(Iterated) <= Cardinality(Iterated')
  BY <1>1, TasksRemain, FS_Subset DEF Counts
<1>3. UNCHANGED db => UNCHANGED <<Visible("any"), Iterated>>
  BY DEF Visible, Iterated
<1>4. CASE UNCHANGED stats
  BY <1>1, <1>2, <1>4 DEF StatsInv, LaterPartsIncludeEarlier, Counts
<1>5. CASE StatisticsCheckout
  <2>1. stats.at = "waiting" /\ stats' = [stats EXCEPT !.at = "statuses"]
    BY <1>5 DEF StatisticsCheckout
  <2> QED BY <1>0, <2>1 DEF StatsInv, LaterPartsIncludeEarlier
<1>6. CASE StatusShares
  <2>1. /\ stats.at = "statuses" /\ UNCHANGED db
        /\ stats' = [[stats EXCEPT !.total = Count("any"), !.accepted = Count("accepted"),
                                   !.rejected = Count("rejected"), !.error = Count("error")]
                        EXCEPT !.at = "average"]
    BY <1>6 DEF StatusShares, Read, Generating
  <2>2. /\ stats'.at = "average" /\ stats'.total = Count("any")
        /\ stats'.accepted = Count("accepted") /\ stats'.rejected = Count("rejected")
        /\ stats'.averaged = stats.averaged /\ stats'.types = stats.types
        /\ stats'.generation = stats.generation /\ stats'.validation = stats.validation
    BY <1>0, <2>1
  <2>3. Count("any") = Cardinality(Visible("any"))
    BY DEF Count
  <2> QED BY <1>1, <1>3, <2>1, <2>2, <2>3, TasksInNumbers
          DEF StatsInv, LaterPartsIncludeEarlier, Counts
<1>7. CASE AverageIterations
  <2>1. /\ stats.at = "average" /\ UNCHANGED db
        /\ stats' = [[stats EXCEPT !.averaged = Cardinality(Iterated)] EXCEPT !.at = "types"]
    BY <1>7 DEF AverageIterations, Read, Generating, Iterated
  <2>2. /\ stats'.at = "types" /\ stats'.total = stats.total
        /\ stats'.accepted = stats.accepted /\ stats'.rejected = stats.rejected
        /\ stats'.averaged = Cardinality(Iterated) /\ stats'.types = stats.types
        /\ stats'.generation = stats.generation /\ stats'.validation = stats.validation
    BY <1>0, <2>1
  <2> QED BY <1>1, <1>3, <2>1, <2>2 DEF StatsInv, LaterPartsIncludeEarlier, Counts
<1>8. CASE ByTaskType
  <2>1. /\ stats.at = "types" /\ UNCHANGED db
        /\ stats' = [[stats EXCEPT !.types = Count("any")] EXCEPT !.at = "generation"]
    BY <1>8 DEF ByTaskType, Read, Generating
  <2>2. /\ stats'.at = "generation" /\ stats'.total = stats.total
        /\ stats'.accepted = stats.accepted /\ stats'.rejected = stats.rejected
        /\ stats'.averaged = stats.averaged /\ stats'.types = Count("any")
        /\ stats'.generation = stats.generation /\ stats'.validation = stats.validation
    BY <1>0, <2>1
  <2>3. Count("any") = Cardinality(Visible("any"))
    BY DEF Count
  <2> QED BY <1>1, <1>3, <2>1, <2>2, <2>3 DEF StatsInv, LaterPartsIncludeEarlier, Counts
<1>9. CASE GenerationModels
  <2>1. /\ stats.at = "generation" /\ UNCHANGED db
        /\ stats' = [[stats EXCEPT !.generation = Total("generation")] EXCEPT !.at = "validation"]
    BY <1>9 DEF GenerationModels, Read, Generating
  <2>2. /\ stats'.at = "validation" /\ stats'.total = stats.total
        /\ stats'.accepted = stats.accepted /\ stats'.rejected = stats.rejected
        /\ stats'.averaged = stats.averaged /\ stats'.types = stats.types
        /\ stats'.generation = Total("generation") /\ stats'.validation = stats.validation
    BY <1>0, <2>1
  <2> QED BY <1>1, <1>3, <2>1, <2>2, TasksInNumbers
          DEF StatsInv, LaterPartsIncludeEarlier, Counts
<1>10. CASE ValidationModels
  <2>1. /\ stats.at = "validation" /\ UNCHANGED db
        /\ stats' = [[stats EXCEPT !.validation = Total("validation")] EXCEPT !.at = "done"]
    BY <1>10 DEF ValidationModels, Read, Generating
  <2>2. /\ stats'.at = "done" /\ stats'.total = stats.total
        /\ stats'.accepted = stats.accepted /\ stats'.rejected = stats.rejected
        /\ stats'.averaged = stats.averaged /\ stats'.types = stats.types
        /\ stats'.generation = stats.generation /\ stats'.validation = Total("validation")
    BY <1>0, <2>1
  <2> QED BY <1>1, <1>3, <2>1, <2>2, TasksInNumbers
          DEF StatsInv, LaterPartsIncludeEarlier, Counts
<1>11. ASSUME NEW r \in Requests, Proceed(r) \/ PoolTimesOut(r) \/ Cancel(r)
       PROVE  UNCHANGED stats
  BY <1>11 DEF Proceed, Begin, TakePermit, EndCall, Finalize, MarkTaskError, Reload,
               CloseSession, PoolTimesOut, Cancel, Reading
<1>12. History \/ Finished \/ UNCHANGED vars => UNCHANGED stats
  BY DEF History, HistoryCheckout, HistoryCount, HistoryPage, HistoryNextPage, Finished, vars
<1> QED BY <1>4, <1>5, <1>6, <1>7, <1>8, <1>9, <1>10, <1>11, <1>12 DEF Next, Statistics

(* What a later statement of the statistics counts includes what an        *)
(* earlier one saw, for any number of requests that commit in between.     *)
THEOREM LaterPartsInclude == Spec => []LaterPartsIncludeEarlier
<1>1. Init => IInv /\ TaskInv /\ StatsInv
  BY InitInv, InitTasks, InitStats
<1>2. (IInv /\ TaskInv /\ StatsInv) /\ [Next]_vars => (IInv /\ TaskInv /\ StatsInv)'
  BY NextInv, StepKeepsTasks, StepKeepsStats
<1>3. StatsInv => LaterPartsIncludeEarlier
  BY DEF StatsInv
<1> QED BY <1>1, <1>2, <1>3, PTL DEF Spec
=============================================================================
