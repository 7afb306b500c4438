---------------------------- MODULE NumericCheck ---------------------------
(***************************************************************************)
(* wording_numeric_check: which numbers a wording contains, and which      *)
(* parameters of the task are missing from it.                             *)
(*                                                                         *)
(* A wording is the sequence of its maximal runs of digits.  A run has a   *)
(* value and a width (leading zeros count) and is "near" when exactly one  *)
(* white space character separates it from the run before.  Letters do not *)
(* touch digits.                                                           *)
(***************************************************************************)
EXTENDS Integers, Sequences

CONSTANTS
    Params,   \* integer parameters: a function from names to values
    Target,   \* target_param
    Derived   \* _derived_params

(* MIN_VALUE_TO_CHECK                                                      *)
MinValueToCheck == 10

(* str(value): the digits of a number without leading zeros.               *)
Width(value) == CHOOSE n \in 1..10 : value < 10 ^ n /\ (n = 1 \/ value >= 10 ^ (n - 1))

(* The run continues the digit group of the run before it: \s\d{3} after   *)
(* one to three digits.  A longer run neither starts nor continues one.    *)
Continues(wording, i) ==
    /\ i > 1
    /\ wording[i].near
    /\ wording[i].width = 3
    /\ wording[i - 1].width <= 3

(* The matches of _GROUPED_NUMBER_RE: maximal, not overlapping.            *)
Groups(wording) ==
    { g \in (1..Len(wording)) \X (1..Len(wording)) :
        /\ g[1] < g[2]
        /\ ~Continues(wording, g[1])
        /\ \A i \in (g[1] + 1)..g[2] : Continues(wording, i)
        /\ g[2] < Len(wording) => ~Continues(wording, g[2] + 1) }

(* The runs first..last read as one number.                                *)
Joined(wording, first, last) ==
    LET value[i \in first..last] ==
            IF i = first THEN wording[i].value ELSE value[i - 1] * 1000 + wording[i].value
    IN  [value |-> value[last], width |-> wording[first].width + 3 * (last - first)]

(* Mutant of NumberTokens: digit groups are the only numbers looked at     *)
(* when there are any.                                                     *)
NumberTokensOfGroups(wording) ==
    IF Groups(wording) # {}
    THEN { Joined(wording, g[1], g[2]) : g \in Groups(wording) }
    ELSE { Joined(wording, i, i) : i \in DOMAIN wording }

(* _extract_number_tokens: all runs, and the groups.                       *)
NumberTokens(wording) ==
    { Joined(wording, i, i) : i \in DOMAIN wording }
        \cup { Joined(wording, g[1], g[2]) : g \in Groups(wording) }

(* find_missing_params                                                     *)
FindMissingParams(wording) ==
    { k \in DOMAIN Params \ ({Target} \cup Derived) :
        /\ Params[k] >= MinValueToCheck
        /\ [value |-> Params[k], width |-> Width(Params[k])] \notin NumberTokens(wording) }

-----------------------------------------------------------------------------
(* How a reader finds numbers, stated without tokens *)

(* Some runs spell the value: one, or groups of three digits after one to  *)
(* three.                                                                  *)
Spelled(wording, value) ==
    \E i, j \in DOMAIN wording :
        /\ i <= j
        /\ i < j => wording[i].width <= 3
        /\ \A k \in (i + 1)..j : wording[k].near /\ wording[k].width = 3
        /\ Joined(wording, i, j) = [value |-> value, width |-> Width(value)]

(* ... and they are a number of their own, not a part of a longer one.     *)
SpelledWhole(wording, value) ==
    \E i, j \in DOMAIN wording :
        /\ i <= j
        /\ \A k \in (i + 1)..j : Continues(wording, k)
        /\ ~Continues(wording, i)
        /\ j < Len(wording) => ~Continues(wording, j + 1)
        /\ Joined(wording, i, j) = [value |-> value, width |-> Width(value)]

MustBeNamed == { k \in DOMAIN Params \ ({Target} \cup Derived) : Params[k] >= 10 }
=============================================================================
