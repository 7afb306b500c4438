-------------------------- MODULE TaskPublication --------------------------
(***************************************************************************)
(* What POST /tasks/generate promises to its clients and to everyone who   *)
(* reads the tasks table, without saying how a task is produced:           *)
(*   - a task is stored at once, with a final status;                      *)
(*   - an answer that names a status is given only for a stored task that  *)
(*     has it, and after the answer the task never changes;                *)
(*   - before the answer an accepted or rejected task can still be turned  *)
(*     into an error (the card could not be read back after the commit);   *)
(*   - "failed" promises nothing about what is stored.                     *)
(***************************************************************************)
CONSTANT Requests

VARIABLES
    stored,  \* status of the task in the database, "none" before there is one
    answer,  \* what the client was told
    open     \* requests still being served

vars == <<stored, answer, open>>

Init ==
    /\ stored = [r \in Requests |-> "none"]
    /\ answer = [r \in Requests |-> "none"]
    /\ open = Requests

(* The task of r appears, or an accepted or rejected one becomes an error. *)
Store(r, status) ==
    /\ r \in open
    /\ \/ stored[r] = "none" /\ status \in {"accepted", "rejected", "error"}
       \/ stored[r] \in {"accepted", "rejected"} /\ status = "error"
    /\ stored' = [stored EXCEPT ![r] = status]

Publish(r, status) == Store(r, status) /\ UNCHANGED <<answer, open>>

Answered(r, told) ==
    /\ answer' = [answer EXCEPT ![r] = told]
    /\ open' = open \ {r}

Answer(r, told) ==
    /\ r \in open
    /\ told \in {"accepted", "rejected", "error"} => stored[r] = told
    /\ told = "refused" => stored[r] = "none"
    /\ Answered(r, told)
    /\ UNCHANGED stored

(* The task is stored, but the server does not learn that it is.           *)
PublishUnnoticed(r, status) == Store(r, status) /\ Answered(r, "failed")

(* Requests are given up without an answer: cancelled, or lost in a crash. *)
Vanish(lost) ==
    /\ lost # {}
    /\ lost \subseteq open
    /\ open' = open \ lost
    /\ UNCHANGED <<stored, answer>>

Statuses == {"accepted", "rejected", "error"}
Answers == Statuses \cup {"refused", "failed"}

Next ==
    \/ \E r \in Requests, s \in Statuses : Publish(r, s) \/ PublishUnnoticed(r, s)
    \/ \E r \in Requests, a \in Answers : Answer(r, a)
    \/ \E lost \in SUBSET Requests : Vanish(lost)

Spec == Init /\ [][Next]_vars
=============================================================================
