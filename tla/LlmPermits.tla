----------------------------- MODULE LlmPermits -----------------------------
(***************************************************************************)
(* What "async with _llm_semaphore" promises to the LLM calls of a worker, *)
(* without saying how asyncio keeps it:                                    *)
(*   - at most MaxConcurrency calls are inside;                            *)
(*   - those outside are let in one by one, in order of arrival;           *)
(*   - a call that leaves lets the next one in with the same step;         *)
(*   - a call ends once, with a result only if it was inside.              *)
(* The line is known by who stands before whom.                            *)
(***************************************************************************)
EXTENDS Integers, FiniteSets

CONSTANTS Calls, MaxConcurrency

VARIABLES
    waiting,  \* calls in the line
    ahead,    \* for each of them, those who arrived before it
    inside,   \* calls that have a permit
    outcome   \* what each call returned or raised, "none" before it did

vars == <<waiting, ahead, inside, outcome>>

Results == {"success", "failure", "timeout"}

Init ==
    /\ waiting = {}
    /\ ahead = [c \in Calls |-> {}]
    /\ inside = {}
    /\ outcome = [c \in Calls |-> "none"]

Room == Cardinality(inside) < MaxConcurrency
Outside(c) == outcome[c] = "none" /\ c \notin waiting \cup inside
First(c) == c \in waiting /\ ahead[c] = {}

LeaveLine(c) ==
    /\ waiting' = waiting \ {c}
    /\ ahead' = [d \in Calls |-> IF d = c THEN {} ELSE ahead[d] \ {c}]

Ends(c, result) == outcome' = [outcome EXCEPT ![c] = result]

(* Nobody waits: the call goes in at once.                                 *)
Enter(c) ==
    /\ Outside(c)
    /\ waiting = {}
    /\ Room
    /\ inside' = inside \cup {c}
    /\ UNCHANGED <<waiting, ahead, outcome>>

Arrive(c) ==
    /\ Outside(c)
    /\ waiting' = waiting \cup {c}
    /\ ahead' = [ahead EXCEPT ![c] = waiting]
    /\ UNCHANGED <<inside, outcome>>

Admit(c) ==
    /\ First(c)
    /\ Room
    /\ inside' = inside \cup {c}
    /\ LeaveLine(c)
    /\ UNCHANGED outcome

(* The place of the call that leaves goes to the first in the line.        *)
Leave(c, result) ==
    /\ c \in inside
    /\ Ends(c, result)
    /\ \/ /\ waiting = {}
          /\ inside' = inside \ {c}
          /\ UNCHANGED <<waiting, ahead>>
       \/ \E next \in waiting :
             /\ First(next)
             /\ inside' = (inside \ {c}) \cup {next}
             /\ LeaveLine(next)

(* Cancelled in the line.                                                  *)
GiveUp(c) ==
    /\ c \in waiting
    /\ Ends(c, "cancelled")
    /\ LeaveLine(c)
    /\ UNCHANGED inside

Next ==
    \E c \in Calls :
        \/ Enter(c) \/ Arrive(c) \/ Admit(c) \/ GiveUp(c)
        \/ \E result \in Results \cup {"cancelled"} : Leave(c, result)

Spec == Init /\ [][Next]_vars
=============================================================================
