--------------------------- MODULE WordingChecks ---------------------------
(***************************************************************************)
(* One iteration after its wording was generated: the validator model is   *)
(* asked (WordingValidator.validate over an adapter), its answer is parsed *)
(* criterion by criterion, the quality profile is saved, the numbers of an *)
(* accepted wording are checked, and the iteration ends accepted, rejected *)
(* with a feedback for the next one, or with an error.                     *)
(*                                                                         *)
(* The answer of the model is a text: JSON or something else, bare, in     *)
(* prose or in a markdown fence.  A message is known by its length and by  *)
(* whether it is one of the phrases that say nothing (_EMPTY_MSG_TOKENS).  *)
(***************************************************************************)
EXTENDS NumericCheck

CONSTANTS
    Criteria,  \* the quality criteria, each with a pass and a message field
    Adapters,  \* subset of {"yandexgpt", "gigachat", "mock"}
    Texts,     \* what a model may answer: [shape, body]
    Wordings   \* the wordings an iteration may have generated

VARIABLES
    step,     \* what the iteration does next, or how it ended
    adapter,  \* the adapter that was asked
    text,     \* the answer of the model
    call,     \* status of the llm_calls row
    code,     \* the exception validate raised
    result,   \* ValidationResult
    wording,  \* the wording, once its numbers are looked at
    reasons,  \* criteria of the rejection_reasons rows
    feedback  \* criteria named in failure_reason and in the next prompt

vars == <<step, adapter, text, call, code, result, wording, reasons, feedback>>

NoText == [shape |-> "none", body |-> [kind |-> "none"]]

-----------------------------------------------------------------------------
(* Extraction: generate_json of the adapters *)

(* json.loads succeeds.  YandexGPT's answer is taken as it is; from        *)
(* GigaChat's the first ```json block, closed or not, or the first closed  *)
(* ``` block is taken.  Mock builds its object from the schema.            *)
Readable(a, t) ==
    /\ t.body.kind # "broken"
    /\ \/ a = "mock"
       \/ t.shape = "bare"
       \/ a = "gigachat" /\ t.shape \in {"json_fence", "open_json_fence", "fence"}

-----------------------------------------------------------------------------
(* Parsing: _parse_result *)

IsObject(value) == value.kind = "object"

ASSUME ChecksAssumption ==
    /\ Criteria # {} /\ "numeric_match" \notin Criteria
    /\ NoText \notin Texts
    /\ \A t \in Texts : IsObject(t.body) => DOMAIN t.body.nested \subseteq Nat
    /\ Wordings \subseteq Seq([value : Nat, width : Nat \ {0}, near : BOOLEAN])

HasCriteria(value) ==
    IsObject(value) /\ \E c \in Criteria : value.fields[c].pass # "absent"

(* The object that holds the criteria: the answer itself or, when it has   *)
(* none of them, the first value in it that has.                           *)
Carrier(body) ==
    LET holders == { i \in DOMAIN body.nested : HasCriteria(body.nested[i]) }
    IN  IF HasCriteria(body) \/ holders = {}
        THEN body
        ELSE body.nested[CHOOSE i \in holders : \A j \in holders : i <= j]

(* The answer is not an object, or holds no criterion anywhere.            *)
Malformed(body) == ~(IsObject(body) /\ HasCriteria(Carrier(body)))

Meaningful(message) == ~message.filler /\ message.length >= 8

(* Mutant of Assess: a missing field counts as passed.                     *)
AssessFailOpen(field) ==
    LET passed == field.pass \in {"true", "absent"} IN
    IF passed /\ ~Meaningful(field.message) /\ field.pass = "true"
    THEN [pass |-> FALSE, message |-> "unjustified"]
    ELSE IF ~passed /\ field.message.length = 0
    THEN [pass |-> FALSE, message |-> "not assessed"]
    ELSE [pass |-> passed, message |-> "own"]

(* _pass_with_message: only the value true, with a message that says       *)
(* something, passes.                                                      *)
Assess(field) ==
    LET passed == field.pass = "true" IN
    IF passed /\ ~Meaningful(field.message)
    THEN [pass |-> FALSE, message |-> "unjustified"]
    ELSE IF ~passed /\ field.message.length = 0
    THEN [pass |-> FALSE, message |-> "not assessed"]
    ELSE [pass |-> passed, message |-> "own"]

ParseResult(body) == [c \in Criteria |-> Assess(Carrier(body).fields[c])]

(* _build_from_schema: every criterion true, with a mock sentence.         *)
MockText ==
    [ shape |-> "bare",
      body  |-> [ kind   |-> "object", nested |-> <<>>,
                  fields |-> [c \in Criteria |->
                     [pass |-> "true", message |-> [filler |-> FALSE, length |-> 47]]] ] ]

NoResult == [c \in Criteria |-> [pass |-> FALSE, message |-> "none"]]

FailedCriteria == { c \in Criteria : ~result[c].pass }
IsAccepted == FailedCriteria = {}

-----------------------------------------------------------------------------
Init ==
    /\ step = "validate"
    /\ adapter \in Adapters
    /\ text = NoText
    /\ call = "none"
    /\ code = "none"
    /\ result = NoResult
    /\ wording = <<>>
    /\ reasons = {}
    /\ feedback = {}

Raise(exception, status) ==
    /\ code' = exception
    /\ call' = status
    /\ step' = "error"
    /\ UNCHANGED <<adapter, result, wording, reasons, feedback>>

(* The call itself fails: its retries are used up or its time is.          *)
CallFails(exception) ==
    /\ step = "validate"
    /\ adapter # "mock"
    /\ Raise(exception, "error")
    /\ UNCHANGED text

(* The adapter cannot read the answer: logged as a failed call.            *)
AnswerUnreadable(t) ==
    /\ step = "validate"
    /\ ~Readable(adapter, t)
    /\ text' = t
    /\ Raise("LLM_VALIDATION_FAILED", "error")

(* Mutant of AnswerMalformed: the row is written after the parsing.        *)
AnswerMalformedLoggedLate(t) ==
    /\ step = "validate"
    /\ Readable(adapter, t)
    /\ Malformed(t.body)
    /\ text' = t
    /\ Raise("LLM_VALIDATION_FAILED", "error")

(* The answer is JSON without criteria: the call was logged a success.     *)
AnswerMalformed(t) ==
    /\ step = "validate"
    /\ Readable(adapter, t)
    /\ Malformed(t.body)
    /\ text' = t
    /\ Raise("LLM_VALIDATION_FAILED", "success")

AnswerParsed(t) ==
    /\ step = "validate"
    /\ Readable(adapter, t)
    /\ ~Malformed(t.body)
    /\ text' = t
    /\ result' = ParseResult(t.body)
    /\ call' = "success"
    /\ step' = "save"
    /\ UNCHANGED <<adapter, code, wording, reasons, feedback>>

(* _save_quality: the profile, and a reason for every failed criterion.    *)
SaveQuality ==
    /\ step = "save"
    /\ reasons' = FailedCriteria
    /\ step' = IF IsAccepted THEN "numeric" ELSE "record"
    /\ UNCHANGED <<adapter, text, call, code, result, wording, feedback>>

(* _check_numeric_match, of the wording w, and the decision after it.      *)
CheckNumericMatch(w) ==
    /\ step = "numeric"
    /\ wording' = w
    /\ IF FindMissingParams(w) = {}
       THEN step' = "accepted" /\ UNCHANGED reasons
       ELSE step' = "record" /\ reasons' = reasons \cup {"numeric_match"}
    /\ UNCHANGED <<adapter, text, call, code, result, feedback>>

(* Mutant of RecordRejectedIteration: only the criteria are fed back.      *)
RecordRejectedIterationCriteria ==
    /\ step = "record"
    /\ feedback' = FailedCriteria
    /\ step' = "rejected"
    /\ UNCHANGED <<adapter, text, call, code, result, wording, reasons>>

(* Mutant of RecordRejectedIteration: the missing parameters are named in  *)
(* place of the criterion.                                                 *)
RecordRejectedIterationParams ==
    /\ step = "record"
    /\ feedback' = FailedCriteria \cup FindMissingParams(wording)
    /\ step' = "rejected"
    /\ UNCHANGED <<adapter, text, call, code, result, wording, reasons>>

(* _record_rejected_iteration: the failed criteria, then the numbers.      *)
RecordRejectedIteration ==
    /\ step = "record"
    /\ feedback' = FailedCriteria \cup
           (IF IsAccepted /\ FindMissingParams(wording) # {} THEN {"numeric_match"} ELSE {})
    /\ step' = "rejected"
    /\ UNCHANGED <<adapter, text, call, code, result, wording, reasons>>

Finished == step \in {"accepted", "rejected", "error"} /\ UNCHANGED vars

(* The mock answers with the object it builds from the schema, a real      *)
(* model with any text.                                                    *)
Answers == IF adapter = "mock" THEN {MockText} ELSE Texts

Next ==
    \/ \E exception \in {"LLM_TIMEOUT", "LLM_VALIDATION_FAILED"} : CallFails(exception)
    \/ \E t \in Answers : AnswerUnreadable(t) \/ AnswerMalformed(t) \/ AnswerParsed(t)
    \/ SaveQuality
    \/ \E w \in Wordings : CheckNumericMatch(w)
    \/ RecordRejectedIteration
    \/ Finished

Spec == Init /\ [][Next]_vars

-----------------------------------------------------------------------------
(* Properties *)

TypeOK ==
    /\ step \in {"validate", "save", "numeric", "record", "accepted", "rejected", "error"}
    /\ adapter \in Adapters
    /\ text \in Texts \cup {NoText, MockText}
    /\ call \in {"none", "success", "error"}
    /\ code \in {"none", "LLM_TIMEOUT", "LLM_VALIDATION_FAILED"}
    /\ result \in [Criteria -> [pass : BOOLEAN,
                                message : {"none", "own", "unjustified", "not assessed"}]]
    /\ wording \in Wordings \cup {<<>>}
    /\ reasons \subseteq Criteria \cup {"numeric_match"}
    /\ feedback \subseteq Criteria \cup {"numeric_match"}

Approves(value) ==
    IsObject(value) /\ \A c \in Criteria :
        value.fields[c].pass = "true" /\ Meaningful(value.fields[c].message)

(* The values a JSON answer consists of.                                   *)
Values(body) ==
    {body} \cup IF IsObject(body) THEN { body.nested[i] : i \in DOMAIN body.nested } ELSE {}

(* Nothing is accepted by default: an accepted wording was approved in one *)
(* object, every criterion explicitly and with a reason, in an answer the  *)
(* adapter could read, and its text spells every parameter it must name.   *)
AcceptedIsJustified ==
    step = "accepted" =>
        /\ call = "success"
        /\ text.shape \in {"bare", "json_fence", "open_json_fence", "fence"}
        /\ \E value \in Values(text.body) : Approves(value)
        /\ \A k \in MustBeNamed : Spelled(wording, Params[k])

(* Nothing good is turned down: when the answer itself approves and every  *)
(* parameter stands in the wording as a number of its own, in one piece or *)
(* in groups of three digits, the iteration is accepted.                   *)
GoodWordingPasses ==
    Approves(text.body) /\ step \in {"record", "rejected", "error"} =>
        \/ ~Readable(adapter, text)
        \/ \E k \in MustBeNamed : ~SpelledWhole(wording, Params[k])

(* A rejection always says why: the rows and the feedback of the next      *)
(* prompt name the same criteria and at least one, and the numbers are     *)
(* only complained about when every criterion passed.                      *)
RejectedIsExplained ==
    step = "rejected" =>
        /\ feedback = reasons
        /\ feedback # {}
        /\ "numeric_match" \in feedback <=> (\A c \in Criteria : result[c].pass)
        /\ \A c \in Criteria \cap feedback : result[c].message # "none"

(* An error leaves the call log consistent: no answer that could be read   *)
(* is logged as a failed call, and no failed call as a success.            *)
FailureIsLogged ==
    step = "error" =>
        /\ call = "success" <=> (text # NoText /\ Readable(adapter, text))
        /\ code = "LLM_TIMEOUT" => call = "error"
        /\ reasons = {}

(* A parameter counts as present only where it stands in the text as a     *)
(* number of its own, not where it is the end of a longer number.          *)
WholeNumbersOnly ==
    step = "accepted" => \A k \in MustBeNamed : SpelledWhole(wording, Params[k])
=============================================================================
