---------------------------- MODULE WorkerProofs ----------------------------
(***************************************************************************)
(* Theorems about Worker, for any number of requests, connections and      *)
(* permits.                                                                *)
(*                                                                         *)
(* The invariant ties what a request holds to where it stands (HoldsInv):  *)
(* the permits are those of the requests inside a call, the connections    *)
(* those of the requests with an open transaction and of the readers       *)
(* between their first statement and their last.  What is committed of a   *)
(* task is absent or final (RowsInv), which is what the shares of the      *)
(* statistics are computed from.                                           *)
(***************************************************************************)
EXTENDS Worker, FiniteSetTheorems, TLAPS

Final == {"absent", "accepted", "rejected", "error"}

HistoryPlaces == {"waiting", "count", "page", "received", "done"}
StatsPlaces == { "waiting", "statuses", "average", "types", "generation",
                 "validation", "done" }

(* Where a request has a connection.                                       *)
Connected == {"ready", "calling", "failed", "accepted", "rejected", "read"}

HoldsInv ==
    /\ at \in [Requests -> Places]
    /\ conn \subseteq Requests \cup {"history", "statistics"}
    /\ Cardinality(conn) <= PoolLimit
    /\ permits = { r \in Requests : at[r] = "calling" }
    /\ Cardinality(permits) <= MaxConcurrency
    /\ \A r \in Requests : r \in conn <=> at[r] \in Connected

RowsInv ==
    /\ DOMAIN db = Requests /\ \A r \in Requests : DOMAIN db[r] = DOMAIN NoTask
    /\ DOMAIN rows = Requests /\ \A r \in Requests : DOMAIN rows[r] = DOMAIN NoTask
    /\ \A r \in Requests : db[r].status \in Final
    /\ created \in Seq(Requests)

ReadersInv ==
    /\ DOMAIN history = {"at", "filter", "page", "total", "first", "items", "seen"}
    /\ history.at \in HistoryPlaces
    /\ DOMAIN stats = { "at", "total", "accepted", "rejected", "error",
                        "averaged", "types", "generation", "validation" }
    /\ stats.at \in StatsPlaces
    /\ SharesSumToOne
    /\ "history" \in conn <=> history.at \in {"count", "page"}
    /\ "statistics" \in conn <=> stats.at \notin {"waiting", "done"}

IInv == HoldsInv /\ RowsInv /\ ReadersInv

-----------------------------------------------------------------------------
(* Counting *)

LEMMA Everybody == IsFiniteSet(Requests \cup {"history", "statistics"})
<1>1. IsFiniteSet({"history"}) /\ IsFiniteSet({"statistics"})
  BY FS_Singleton
<1>2. IsFiniteSet({"history"} \cup {"statistics"})
  BY <1>1, FS_Union
<1>3. {"history", "statistics"} = {"history"} \cup {"statistics"}
  OBVIOUS
<1> QED BY <1>2, <1>3, FS_Union, WorkerAssumption

(* One more connection or permit fits where there was room for one.        *)
LEMMA OneMore ==
    ASSUME NEW T, IsFiniteSet(T), NEW S \in SUBSET T, NEW x \in T, NEW n \in Nat,
           Cardinality(S) < n
    PROVE  Cardinality(S \cup {x}) <= n
<1>1. IsFiniteSet(S)
  BY FS_Subset
<1>2. Cardinality(S) \in Nat
  BY <1>1, FS_CardinalityType
<1>3. Cardinality(S \cup {x}) = IF x \in S THEN Cardinality(S) ELSE Cardinality(S) + 1
  BY <1>1, FS_AddElement
<1> QED BY <1>2, <1>3

(* Giving one back keeps the limit.                                        *)
LEMMA OneLess ==
    ASSUME NEW T, IsFiniteSet(T), NEW S \in SUBSET T, NEW x, NEW n \in Nat,
           Cardinality(S) <= n
    PROVE  Cardinality(S \ {x}) <= n
<1>1. IsFiniteSet(S)
  BY FS_Subset
<1>2. IsFiniteSet(S \ {x}) /\ Cardinality(S \ {x}) <= Cardinality(S)
  BY <1>1, FS_Subset
<1>3. Cardinality(S \ {x}) \in Nat /\ Cardinality(S) \in Nat
  BY <1>1, <1>2, FS_CardinalityType
<1> QED BY <1>2, <1>3

(* Every visible task has one of the three final statuses.                 *)
LEMMA SharesAddUp ==
    ASSUME RowsInv
    PROVE  Count("any") = Count("accepted") + Count("rejected") + Count("error")
<1>. DEFINE A == Visible("accepted")
            R == Visible("rejected")
            E == Visible("error")
<1>1. Visible("any") = (A \cup R) \cup E
  BY DEF RowsInv, Final, Visible
<1>2. A \cap R = {} /\ (A \cup R) \cap E = {}
  BY DEF Visible
<1>3. A \subseteq Requests /\ R \subseteq Requests /\ E \subseteq Requests
  BY DEF Visible
<1>0. /\ Count("any") = Cardinality((A \cup R) \cup E)
      /\ Count("accepted") = Cardinality(A)
      /\ Count("rejected") = Cardinality(R)
      /\ Count("error") = Cardinality(E)
  BY <1>1 DEF Count
<1>. HIDE DEF A, R, E
<1>4. IsFiniteSet(A) /\ IsFiniteSet(R) /\ IsFiniteSet(E)
  BY <1>3, FS_Subset, WorkerAssumption
<1>5. IsFiniteSet(A \cup R) /\ Cardinality(A \cup R) =
        Cardinality(A) + Cardinality(R) - Cardinality(A \cap R)
  BY <1>4, FS_Union
<1>6. Cardinality((A \cup R) \cup E) =
        Cardinality(A \cup R) + Cardinality(E) - Cardinality((A \cup R) \cap E)
  BY <1>4, <1>5, FS_Union
<1>7. Cardinality(A \cap R) = 0 /\ Cardinality((A \cup R) \cap E) = 0
  BY <1>2, FS_EmptySet, Zenon
<1>8. Cardinality(A) \in Nat /\ Cardinality(R) \in Nat /\ Cardinality(E) \in Nat
  BY <1>4, FS_CardinalityType
<1>9. Cardinality(A \cup R) = Cardinality(A) + Cardinality(R)
  BY <1>5, <1>7, <1>8
<1>10. Cardinality((A \cup R) \cup E) = Cardinality(A) + Cardinality(R) + Cardinality(E)
  BY <1>6, <1>7, <1>8, <1>9
<1> QED BY <1>0, <1>10

-----------------------------------------------------------------------------
(* Every step keeps the invariant *)

LEMMA InitInv == Init => IInv
<1> SUFFICES ASSUME Init PROVE IInv
  OBVIOUS
<1>1. permits = {} /\ conn = {} /\ Cardinality({}) = 0
  BY FS_EmptySet DEF Init
<1>2. HoldsInv
  BY <1>1, WorkerAssumption DEF Init, HoldsInv, Places, Connected
<1>3. RowsInv
  BY DEF Init, RowsInv, NoTask, Final
<1>4. ReadersInv
  BY DEF Init, ReadersInv, HistoryPlaces, StatsPlaces, SharesSumToOne
<1> QED BY <1>2, <1>3, <1>4 DEF IInv

(* A step of a request leaves the readers and their connections alone.     *)
LEMMA ReadersKept ==
    ASSUME ReadersInv, UNCHANGED Reading,
           \A x \in {"history", "statistics"} : x \in conn' <=> x \in conn
    PROVE  ReadersInv'
BY DEF ReadersInv, Reading, SharesSumToOne

(* A step of a reader changes nothing a request holds but may take or give *)
(* back the connection of the reader.                                      *)
LEMMA HoldsKept ==
    ASSUME HoldsInv, UNCHANGED <<at, permits>>, NEW reader \in {"history", "statistics"},
           \/ UNCHANGED conn
           \/ conn' = conn \ {reader}
           \/ conn' = conn \cup {reader} /\ Room
    PROVE  HoldsInv'
<1>1. Cardinality(conn') <= PoolLimit
  BY OneMore, OneLess, Everybody, WorkerAssumption DEF HoldsInv, Room
<1> QED BY <1>1, WorkerAssumption DEF HoldsInv

LEMMA RowsKept == ASSUME RowsInv, UNCHANGED <<rows, db, created>> PROVE RowsInv'
BY DEF RowsInv

(* Rows of one request are written, and committed with a final status.     *)
LEMMA RowsWritten ==
    ASSUME RowsInv, NEW r \in Requests, UNCHANGED created,
           NEW row, DOMAIN row = DOMAIN NoTask, rows' = [rows EXCEPT ![r] = row],
           \/ UNCHANGED db
           \/ row.status \in Final /\ db' = [db EXCEPT ![r] = row]
    PROVE  RowsInv'
BY DEF RowsInv

(* What a request takes and gives back when it moves on.                   *)
LEMMA HoldsMoved ==
    ASSUME HoldsInv, NEW r \in Requests, NEW place \in Places, Goto(r, place),
           \/ UNCHANGED conn /\ (r \in conn <=> place \in Connected)
           \/ conn' = conn \cup {r} /\ Room /\ place \in Connected
           \/ conn' = conn \ {r} /\ place \notin Connected,
           \/ UNCHANGED permits /\ at[r] # "calling" /\ place # "calling"
           \/ permits' = permits \ {r} /\ place # "calling"
           \/ /\ permits' = permits \cup {r} /\ place = "calling"
              /\ Cardinality(permits) < MaxConcurrency
    PROVE  /\ HoldsInv'
           /\ \A x \in {"history", "statistics"} : x \in conn' <=> x \in conn
<1>1. Cardinality(conn') <= PoolLimit
  <2>. DEFINE T == Requests \cup {"history", "statistics"}
  <2>1. /\ IsFiniteSet(T) /\ r \in T /\ conn \in SUBSET T
        /\ PoolLimit \in Nat /\ Cardinality(conn) <= PoolLimit
    BY Everybody, WorkerAssumption DEF HoldsInv
  <2>. HIDE DEF T
  <2>2. Cardinality(conn) < PoolLimit => Cardinality(conn \cup {r}) <= PoolLimit
    BY <2>1, OneMore
  <2>3. Cardinality(conn \ {r}) <= PoolLimit
    BY <2>1, OneLess
  <2> QED BY <2>1, <2>2, <2>3 DEF Room
<1>2. Cardinality(permits') <= MaxConcurrency
  <2>1. /\ permits \in SUBSET Requests /\ IsFiniteSet(Requests)
        /\ MaxConcurrency \in Nat /\ Cardinality(permits) <= MaxConcurrency
    BY WorkerAssumption DEF HoldsInv
  <2>2. Cardinality(permits) < MaxConcurrency => Cardinality(permits \cup {r}) <= MaxConcurrency
    BY <2>1, OneMore
  <2>3. Cardinality(permits \ {r}) <= MaxConcurrency
    BY <2>1, OneLess
  <2> QED BY <2>1, <2>2, <2>3
<1>3. at' \in [Requests -> Places] /\ at'[r] = place
      /\ \A s \in Requests \ {r} : at'[s] = at[s]
  BY DEF HoldsInv, Goto
<1>4. permits' = { s \in Requests : at'[s] = "calling" }
  BY <1>3 DEF HoldsInv
<1>5. conn' \subseteq Requests \cup {"history", "statistics"}
  BY DEF HoldsInv
<1>6. \A s \in Requests : s \in conn' <=> at'[s] \in Connected
  BY <1>3 DEF HoldsInv
<1>7. \A x \in {"history", "statistics"} : x \in conn' <=> x \in conn
  BY WorkerAssumption
<1> QED BY <1>1, <1>2, <1>3, <1>4, <1>5, <1>6, <1>7 DEF HoldsInv

-----------------------------------------------------------------------------
LEMMA NextInv == IInv /\ [Next]_vars => IInv'
<1> SUFFICES ASSUME IInv, [Next]_vars PROVE IInv'
  OBVIOUS
<1>. USE DEF IInv
<1>1. ASSUME NEW r \in Requests, Begin(r)
      PROVE  IInv'
  <2>1. HoldsInv' /\ ReadersInv'
    BY <1>1, HoldsMoved, ReadersKept DEF Begin, Places, Connected
  <2>2. RowsInv'
    BY <1>1 DEF Begin, RowsInv, NoTask
  <2> QED BY <2>1, <2>2
<1>2. ASSUME NEW r \in Requests, TakePermit(r)
      PROVE  IInv'
  <2>1. r \in conn
    BY <1>2 DEF TakePermit, HoldsInv, Connected
  <2>2. HoldsInv' /\ ReadersInv'
    BY <1>2, <2>1, HoldsMoved, ReadersKept DEF TakePermit, Places, Connected
  <2> QED BY <1>2, <2>2, RowsKept DEF TakePermit
<1>3. ASSUME NEW r \in Requests, EndCall(r)
      PROVE  IInv'
  <2>1. at[r] = "calling" /\ r \in conn /\ permits' = permits \ {r}
        /\ UNCHANGED <<conn, db, created, Reading>>
    BY <1>3 DEF EndCall, HoldsInv, Connected
  <2>2. Logged(r) /\ \E place \in {"ready", "accepted", "rejected", "failed"} : Goto(r, place)
    BY <1>3 DEF EndCall, Answered, Failed
  <2>3. HoldsInv' /\ ReadersInv'
    BY <2>1, <2>2, HoldsMoved, ReadersKept DEF Places, Connected
  <2>4. RowsInv'
    BY <2>1, <2>2 DEF Logged, RowsInv, NoTask
  <2> QED BY <2>3, <2>4
<1>4. ASSUME NEW r \in Requests, Finalize(r)
      PROVE  IInv'
  <2>1. HoldsInv' /\ ReadersInv'
    BY <1>4, HoldsMoved, ReadersKept DEF Finalize, Commit, Places, Connected
  <2>2. RowsInv'
    BY <1>4 DEF Finalize, Commit, RowsInv, NoTask, Final
  <2> QED BY <2>1, <2>2
<1>5. ASSUME NEW r \in Requests, MarkTaskError(r)
      PROVE  IInv'
  <2>1. HoldsInv' /\ ReadersInv'
    BY <1>5, HoldsMoved, ReadersKept DEF MarkTaskError, Commit, Places, Connected
  <2>2. RowsInv'
    BY <1>5 DEF MarkTaskError, Commit, RowsInv, NoTask, Final
  <2> QED BY <2>1, <2>2
<1>6. ASSUME NEW r \in Requests, Reload(r)
      PROVE  IInv'
  <2>1. HoldsInv' /\ ReadersInv'
    BY <1>6, HoldsMoved, ReadersKept DEF Reload, Places, Connected
  <2> QED BY <1>6, <2>1, RowsKept DEF Reload
<1>7. ASSUME NEW r \in Requests, Close(r), UNCHANGED <<db, created>>
      PROVE  RowsInv'
  BY <1>7 DEF Close, RowsInv, NoTask
<1>8. ASSUME NEW r \in Requests, CloseSession(r)
      PROVE  IInv'
  <2>1. HoldsInv' /\ ReadersInv'
    BY <1>8, HoldsMoved, ReadersKept DEF CloseSession, Close, Places, Connected
  <2> QED BY <1>7, <1>8, <2>1 DEF CloseSession
<1>9. ASSUME NEW r \in Requests, PoolTimesOut(r)
      PROVE  IInv'
  <2>1. CASE at[r] = "reload"
    <3>1. r \notin conn
      BY <2>1 DEF HoldsInv, Connected
    <3>2. HoldsInv' /\ ReadersInv'
      BY <1>9, <2>1, <3>1, HoldsMoved, ReadersKept DEF PoolTimesOut, Places, Connected
    <3> QED BY <1>9, <2>1, <3>2, RowsKept DEF PoolTimesOut
  <2>2. CASE at[r] # "reload"
    <3>1. HoldsInv' /\ ReadersInv'
      BY <1>9, <2>2, HoldsMoved, ReadersKept DEF PoolTimesOut, Close, Places, Connected
    <3> QED BY <1>7, <1>9, <2>2, <3>1 DEF PoolTimesOut
  <2> QED BY <2>1, <2>2
<1>10. ASSUME NEW r \in Requests, Cancel(r)
       PROVE  IInv'
  <2>1. HoldsInv' /\ ReadersInv'
    BY <1>10, HoldsMoved, ReadersKept DEF Cancel, Close, Places, Connected
  <2> QED BY <1>7, <1>10, <2>1 DEF Cancel
<1>11. CASE History
  <2>1. UNCHANGED <<Generating, stats>>
    BY <1>11 DEF History, HistoryCheckout, HistoryCount, HistoryPage, HistoryNextPage
  <2>2. \/ UNCHANGED conn
        \/ conn' = conn \ {"history"}
        \/ conn' = conn \cup {"history"} /\ Room
    BY <1>11 DEF History, HistoryCheckout, HistoryCount, HistoryPage, HistoryNextPage
  <2>3. /\ DOMAIN history' = DOMAIN history /\ history'.at \in HistoryPlaces
        /\ "history" \in conn' <=> history'.at \in {"count", "page"}
    <3>1. CASE HistoryCheckout
      BY <3>1 DEF HistoryCheckout, ReadersInv, HistoryPlaces
    <3>2. CASE HistoryCount
      BY <3>2 DEF HistoryCount, ReadersInv, HistoryPlaces
    <3>3. CASE HistoryPage
      BY <3>3 DEF HistoryPage, ReadersInv, HistoryPlaces
    <3>4. CASE HistoryNextPage
      BY <3>4 DEF HistoryNextPage, ReadersInv, HistoryPlaces
    <3> QED BY <1>11, <3>1, <3>2, <3>3, <3>4 DEF History
  <2>4. HoldsInv' /\ RowsInv'
    BY <2>1, <2>2, HoldsKept, RowsKept DEF Generating
  <2>5. "statistics" \in conn' <=> "statistics" \in conn
    BY <2>2
  <2> QED BY <2>1, <2>3, <2>4, <2>5 DEF ReadersInv, SharesSumToOne
<1>12. CASE Statistics
  <2>. USE DEF Read
  <2>1. UNCHANGED <<Generating, history>>
    BY <1>12 DEF Statistics, StatisticsCheckout, StatusShares, AverageIterations,
                 ByTaskType, GenerationModels, ValidationModels
  <2>2. \/ UNCHANGED conn
        \/ conn' = conn \ {"statistics"}
        \/ conn' = conn \cup {"statistics"} /\ Room
    BY <1>12 DEF Statistics, StatisticsCheckout, StatusShares, AverageIterations,
                 ByTaskType, GenerationModels, ValidationModels
  <2>3. /\ DOMAIN stats' = DOMAIN stats /\ stats'.at \in StatsPlaces
        /\ SharesSumToOne'
        /\ "statistics" \in conn' <=> stats'.at \notin {"waiting", "done"}
    <3>1. CASE StatisticsCheckout
      BY <3>1 DEF StatisticsCheckout, ReadersInv, StatsPlaces, SharesSumToOne
    <3>2. CASE StatusShares
      BY <3>2, SharesAddUp DEF StatusShares, ReadersInv, StatsPlaces, SharesSumToOne
    <3>3. CASE AverageIterations
      BY <3>3 DEF AverageIterations, ReadersInv, StatsPlaces, SharesSumToOne
    <3>4. CASE ByTaskType
      BY <3>4 DEF ByTaskType, ReadersInv, StatsPlaces, SharesSumToOne
    <3>5. CASE GenerationModels
      BY <3>5 DEF GenerationModels, ReadersInv, StatsPlaces, SharesSumToOne
    <3>6. CASE ValidationModels
      BY <3>6 DEF ValidationModels, ReadersInv, StatsPlaces, SharesSumToOne
    <3> QED BY <1>12, <3>1, <3>2, <3>3, <3>4, <3>5, <3>6 DEF Statistics
  <2>4. HoldsInv' /\ RowsInv'
    BY <2>1, <2>2, HoldsKept, RowsKept DEF Generating
  <2>5. "history" \in conn' <=> "history" \in conn
    BY <2>2
  <2> QED BY <2>1, <2>3, <2>4, <2>5 DEF ReadersInv
<1>13. CASE UNCHANGED vars
  <2>1. HoldsInv'
    BY <1>13, HoldsKept DEF vars
  <2> QED BY <1>13, <2>1, ReadersKept, RowsKept DEF vars, Reading
<1> QED
  BY <1>1, <1>2, <1>3, <1>4, <1>5, <1>6, <1>8, <1>9, <1>10, <1>11, <1>12, <1>13
  DEF Next, Proceed, Finished

-----------------------------------------------------------------------------
(* The theorems *)

(* What everybody holds follows from where it stands.                      *)
THEOREM WorkerInvariant == Spec => []IInv
BY InitInv, NextInv, PTL DEF Spec

(* Neither the pool nor the permits are ever overdrawn, and no task is     *)
(* committed but with a status of the schema.                              *)
THEOREM WorkerTypeCorrect == Spec => []TypeOK
<1>1. IInv => TypeOK
  <2> SUFFICES ASSUME IInv PROVE TypeOK
    OBVIOUS
  <2>1. ToSet(created) \subseteq Requests
    BY DEF IInv, RowsInv, ToSet
  <2>2. permits \subseteq Requests
    BY DEF IInv, HoldsInv
  <2> QED BY <2>1, <2>2 DEF IInv, HoldsInv, RowsInv, ReadersInv, TypeOK, Final,
                            HistoryPlaces, StatsPlaces
<1> QED BY <1>1, WorkerInvariant, PTL

(* Whoever holds a permit for LLM calls has its connection already and     *)
(* waits for no other: the two limits cannot wait for each other, whatever *)
(* they are.                                                               *)
THEOREM PermitHoldersConnected == Spec => []PermitHolderHasConnection
<1>1. IInv => PermitHolderHasConnection
  BY DEF IInv, HoldsInv, PermitHolderHasConnection, Connected
<1> QED BY <1>1, WorkerInvariant, PTL

(* A full pool always has somebody in it who can go on without waiting:    *)
(* whoever waits for a permit with a connection in hand waits for a        *)
(* request inside a call, which has a connection of its own.               *)
THEOREM PoolDrains == Spec => []FullPoolDrains
<1>1. ASSUME IInv, ~Room PROVE conn \cap Unhindered # {}
  <2>1. conn # {}
    <3>1. Cardinality({}) = 0
      BY FS_EmptySet
    <3> QED BY <1>1, <3>1, WorkerAssumption DEF Room
  <2>2. PICK x \in conn : TRUE
    BY <2>1
  <2>3. CASE x \in Requests /\ at[x] = "ready" /\ ~(Cardinality(permits) < MaxConcurrency)
    <3>1. permits # {}
      <4>1. Cardinality({}) = 0
        BY FS_EmptySet
      <4> QED BY <2>3, <4>1, WorkerAssumption
    <3>2. PICK r \in Requests : at[r] = "calling"
      BY <1>1, <3>1 DEF IInv, HoldsInv
    <3>3. r \in conn
      BY <1>1, <3>2 DEF IInv, HoldsInv, Connected
    <3> QED BY <3>2, <3>3 DEF Unhindered
  <2>4. CASE x \in Requests /\ ~(at[x] = "ready" /\ ~(Cardinality(permits) < MaxConcurrency))
    BY <1>1, <2>2, <2>4 DEF IInv, HoldsInv, Connected, Unhindered
  <2>5. CASE x \in {"history", "statistics"}
    BY <1>1, <2>2, <2>5 DEF IInv, ReadersInv, Unhindered
  <2> QED BY <1>1, <2>2, <2>3, <2>4, <2>5 DEF IInv, HoldsInv
<1>2. IInv => FullPoolDrains
  BY <1>1 DEF FullPoolDrains
<1> QED BY <1>2, WorkerInvariant, PTL

(* The three shares of the statistics make up the whole at every moment,   *)
(* while any number of tasks is being generated.                           *)
THEOREM SharesAreWhole == Spec => []SharesSumToOne
<1>1. IInv => SharesSumToOne
  BY DEF IInv, ReadersInv
<1> QED BY <1>1, WorkerInvariant, PTL
=============================================================================
