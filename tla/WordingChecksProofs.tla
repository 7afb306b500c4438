------------------------ MODULE WordingChecksProofs -------------------------
(***************************************************************************)
(* Theorems about WordingChecks, for every answer a model can give, every  *)
(* wording and every set of criteria and parameters.                       *)
(*                                                                         *)
(* An iteration only moves forward, so the invariant says for each step    *)
(* what is known of the answer and of the wording when it is reached       *)
(* (StepInv); the properties follow from it and from two facts about the   *)
(* parsing (CarrierIsValue, ApprovedPasses) and two about the numbers      *)
(* (TokenIsSpelled, SpelledIsToken).                                       *)
(***************************************************************************)
EXTENDS WordingChecks, OrderLemmas

-----------------------------------------------------------------------------
(* The numbers of a wording *)

(* What is extracted stands in the text.                                   *)
LEMMA TokenIsSpelled ==
    ASSUME NEW w, NEW value, DOMAIN w = 1..Len(w), Len(w) \in Nat,
           [value |-> value, width |-> Width(value)] \in NumberTokens(w)
    PROVE  Spelled(w, value)
<1>. DEFINE token == [value |-> value, width |-> Width(value)]
<1>1. CASE token \in { Joined(w, i, i) : i \in DOMAIN w }
  <2>1. PICK i \in DOMAIN w : token = Joined(w, i, i)
    BY <1>1
  <2>2. i \in Nat
    BY <2>1
  <2>3. ~(i < i) /\ i <= i /\ \A k \in (i + 1)..i : FALSE
    BY <2>2
  <2> QED BY <2>1, <2>3 DEF Spelled
<1>2. CASE token \in { Joined(w, g[1], g[2]) : g \in Groups(w) }
  <2>1. PICK g \in Groups(w) : token = Joined(w, g[1], g[2])
    BY <1>2
  <2>2. /\ g[1] \in 1..Len(w) /\ g[2] \in 1..Len(w) /\ g[1] < g[2]
        /\ \A k \in (g[1] + 1)..g[2] : Continues(w, k)
    BY DEF Groups
  <2>3. \A k \in (g[1] + 1)..g[2] : w[k].near /\ w[k].width = 3
    BY <2>2 DEF Continues
  <2>4. w[g[1]].width <= 3
    <3>1. g[1] + 1 \in (g[1] + 1)..g[2] /\ (g[1] + 1) - 1 = g[1]
      BY <2>2
    <3>2. Continues(w, g[1] + 1)
      BY <2>2, <3>1
    <3> QED BY <3>1, <3>2 DEF Continues
  <2>5. g[1] <= g[2]
    BY <2>2
  <2> QED BY <2>1, <2>2, <2>3, <2>4, <2>5 DEF Spelled
<1> QED BY <1>1, <1>2 DEF NumberTokens

(* A number that stands in the text by itself is extracted.                *)
LEMMA SpelledIsToken ==
    ASSUME NEW w, NEW value, DOMAIN w = 1..Len(w), Len(w) \in Nat, SpelledWhole(w, value)
    PROVE  [value |-> value, width |-> Width(value)] \in NumberTokens(w)
<1>1. PICK i, j \in DOMAIN w :
         /\ i <= j
         /\ \A k \in (i + 1)..j : Continues(w, k)
         /\ ~Continues(w, i)
         /\ j < Len(w) => ~Continues(w, j + 1)
         /\ Joined(w, i, j) = [value |-> value, width |-> Width(value)]
  BY DEF SpelledWhole
<1>2. CASE i = j
  BY <1>1, <1>2 DEF NumberTokens
<1>3. CASE i # j
  <2>1. i < j
    BY <1>1, <1>3
  <2>2. <<i, j>> \in Groups(w)
    BY <1>1, <2>1 DEF Groups
  <2>3. Joined(w, <<i, j>>[1], <<i, j>>[2]) \in { Joined(w, g[1], g[2]) : g \in Groups(w) }
    BY <2>2
  <2> QED BY <1>1, <2>3 DEF NumberTokens
<1> QED BY <1>2, <1>3

-----------------------------------------------------------------------------
(* The parsing *)

(* The object that holds the criteria is one the answer consists of.       *)
LEMMA CarrierIsValue ==
    ASSUME NEW body, ~Malformed(body), DOMAIN body.nested \subseteq Nat
    PROVE  Carrier(body) \in Values(body) /\ HasCriteria(Carrier(body))
<1>. DEFINE holders == { i \in DOMAIN body.nested : HasCriteria(body.nested[i]) }
<1>1. IsObject(body) /\ HasCriteria(Carrier(body))
  BY DEF Malformed
<1>2. CASE HasCriteria(body) \/ holders = {}
  BY <1>1, <1>2 DEF Carrier, Values
<1>3. CASE ~HasCriteria(body) /\ holders # {}
  <2>1. holders \subseteq Nat
    OBVIOUS
  <2>2. \E i \in holders : \A j \in holders : i <= j
    BY <2>1, <1>3, LeastElement
  <2>. DEFINE first == CHOOSE i \in holders : \A j \in holders : i <= j
  <2>3. first \in holders
    BY <2>2
  <2>4. Carrier(body) = body.nested[first]
    BY <1>3 DEF Carrier
  <2>. HIDE DEF first
  <2> QED BY <1>1, <2>3, <2>4 DEF Values
<1> QED BY <1>2, <1>3

(* Every criterion passes only when its object approves.                   *)
LEMMA PassedIsApproved ==
    ASSUME NEW body, ~Malformed(body),
           \A c \in Criteria : ParseResult(body)[c].pass
    PROVE  Approves(Carrier(body))
<1>1. IsObject(Carrier(body))
  BY DEF Malformed, HasCriteria
<1>2. ASSUME NEW c \in Criteria
      PROVE  /\ Carrier(body).fields[c].pass = "true"
             /\ Meaningful(Carrier(body).fields[c].message)
  <2>1. Assess(Carrier(body).fields[c]).pass
    BY DEF ParseResult
  <2> QED BY <2>1 DEF Assess
<1> QED BY <1>1, <1>2 DEF Approves

(* An answer that approves is not malformed, and every criterion passes.   *)
LEMMA ApprovedPasses ==
    ASSUME NEW body, Approves(body)
    PROVE  ~Malformed(body) /\ \A c \in Criteria : ParseResult(body)[c].pass
<1>1. HasCriteria(body)
  BY ChecksAssumption DEF Approves, HasCriteria
<1>2. Carrier(body) = body
  BY <1>1 DEF Carrier
<1>3. ASSUME NEW c \in Criteria
      PROVE  ParseResult(body)[c].pass
  BY <1>2 DEF ParseResult, Assess, Approves
<1> QED BY <1>1, <1>2, <1>3 DEF Malformed, HasCriteria

(* A verdict is a flag and a message of a known kind, never none.          *)
LEMMA ResultType ==
    ASSUME NEW body
    PROVE  ParseResult(body) \in [Criteria -> [pass : BOOLEAN,
                                   message : {"own", "unjustified", "not assessed"}]]
<1>1. ASSUME NEW c \in Criteria
      PROVE  Assess(Carrier(body).fields[c]) \in
               [pass : BOOLEAN, message : {"own", "unjustified", "not assessed"}]
  BY DEF Assess
<1> QED BY <1>1 DEF ParseResult

-----------------------------------------------------------------------------
(* The invariant *)

Parsed == {"save", "numeric", "record", "accepted", "rejected"}

StepInv ==
    /\ step = "validate" =>
         /\ text = NoText /\ call = "none" /\ code = "none"
         /\ reasons = {} /\ feedback = {} /\ wording = <<>>
    /\ step \in Parsed =>
         /\ text \in Answers /\ Readable(adapter, text) /\ ~Malformed(text.body)
         /\ result = ParseResult(text.body)
         /\ call = "success"
    /\ step = "save" => reasons = {}
    /\ step = "numeric" => IsAccepted /\ reasons = {}
    /\ step \in {"record", "rejected"} =>
         \/ ~IsAccepted /\ reasons = FailedCriteria
         \/ IsAccepted /\ FindMissingParams(wording) # {} /\ reasons = {"numeric_match"}
    /\ step = "accepted" =>
         /\ IsAccepted
         /\ wording \in Wordings /\ FindMissingParams(wording) = {}
    /\ step = "rejected" => feedback = reasons
    /\ step = "error" =>
         /\ reasons = {}
         /\ code = "LLM_TIMEOUT" => call = "error"
         /\ \/ text = NoText /\ call = "error"
            \/ text # NoText /\ ~Readable(adapter, text) /\ call = "error"
            \/ text # NoText /\ Malformed(text.body) /\ Readable(adapter, text)
                 /\ call = "success"

IInv == TypeOK /\ StepInv

LEMMA InitInv == Init => IInv
<1>1. NoResult \in [Criteria -> [pass : BOOLEAN,
                                message : {"none", "own", "unjustified", "not assessed"}]]
  BY DEF NoResult
<1> QED BY <1>1 DEF Init, IInv, TypeOK, StepInv, Parsed

LEMMA NextInv == IInv /\ [Next]_vars => IInv'
<1> SUFFICES ASSUME IInv, [Next]_vars PROVE IInv'
  OBVIOUS
<1>. USE DEF IInv
<1>0. Answers \subseteq Texts \cup {MockText} /\ NoText \notin Answers
  BY ChecksAssumption DEF Answers, MockText, NoText
<1>1. ASSUME NEW exception \in {"LLM_TIMEOUT", "LLM_VALIDATION_FAILED"}, CallFails(exception)
      PROVE  IInv'
  BY <1>1 DEF CallFails, Raise, TypeOK, StepInv, Parsed
<1>2. ASSUME NEW t \in Answers, AnswerUnreadable(t)
      PROVE  IInv'
  BY <1>0, <1>2 DEF AnswerUnreadable, Raise, TypeOK, StepInv, Parsed
<1>3. ASSUME NEW t \in Answers, AnswerMalformed(t)
      PROVE  IInv'
  BY <1>0, <1>3 DEF AnswerMalformed, Raise, TypeOK, StepInv, Parsed
<1>4. ASSUME NEW t \in Answers, AnswerParsed(t)
      PROVE  IInv'
  <2>1. result' \in [Criteria -> [pass : BOOLEAN,
                                  message : {"none", "own", "unjustified", "not assessed"}]]
    <3>1. ParseResult(t.body) \in [Criteria -> [pass : BOOLEAN,
                                     message : {"own", "unjustified", "not assessed"}]]
      BY ResultType
    <3> QED BY <1>4, <3>1 DEF AnswerParsed
  <2>2. TypeOK'
    BY <1>0, <1>4, <2>1 DEF AnswerParsed, TypeOK
  <2>3. StepInv'
    BY <1>0, <1>4 DEF AnswerParsed, StepInv, Parsed, Answers
  <2> QED BY <2>2, <2>3
<1>5. CASE SaveQuality
  <2>1. FailedCriteria \subseteq Criteria /\ FailedCriteria' = FailedCriteria
    BY <1>5 DEF SaveQuality, FailedCriteria
  <2>2. TypeOK'
    BY <1>5, <2>1 DEF SaveQuality, TypeOK
  <2>3. StepInv'
    BY <1>5, <2>1 DEF SaveQuality, StepInv, Parsed, IsAccepted, Answers
  <2> QED BY <2>2, <2>3
<1>6. ASSUME NEW w \in Wordings, CheckNumericMatch(w)
      PROVE  IInv'
  <2>1. FailedCriteria' = FailedCriteria
    BY <1>6 DEF CheckNumericMatch, FailedCriteria
  <2>2. TypeOK'
    BY <1>6 DEF CheckNumericMatch, TypeOK
  <2>3. StepInv'
    BY <1>6, <2>1 DEF CheckNumericMatch, StepInv, Parsed, IsAccepted, Answers
  <2> QED BY <2>2, <2>3
<1>7. CASE RecordRejectedIteration
  <2>1. FailedCriteria \subseteq Criteria /\ FailedCriteria' = FailedCriteria
    BY <1>7 DEF RecordRejectedIteration, FailedCriteria
  <2>2. TypeOK'
    BY <1>7, <2>1 DEF RecordRejectedIteration, TypeOK
  <2>3. feedback' = reasons
    BY <1>7 DEF RecordRejectedIteration, StepInv, IsAccepted
  <2>4. StepInv'
    BY <1>7, <2>1, <2>3 DEF RecordRejectedIteration, StepInv, Parsed, IsAccepted, Answers
  <2> QED BY <2>2, <2>4
<1>8. CASE UNCHANGED vars
  BY <1>8 DEF vars, TypeOK, StepInv, Parsed, IsAccepted, FailedCriteria, Answers
<1>9. CASE Finished
  BY <1>8, <1>9 DEF Finished
<1> QED BY <1>1, <1>2, <1>3, <1>4, <1>5, <1>6, <1>7, <1>8, <1>9 DEF Next

-----------------------------------------------------------------------------
(* The theorems *)

(* Each step knows what the steps before it have established.              *)
THEOREM ChecksInvariant == Spec => []IInv
BY InitInv, NextInv, PTL DEF Spec

(* Nothing leaves its range, whatever the models answer: the criteria of   *)
(* the rows and of the feedback are those of the schema and numeric_match. *)
THEOREM ChecksTypeCorrect == Spec => []TypeOK
<1>1. IInv => TypeOK
  BY DEF IInv
<1> QED BY <1>1, ChecksInvariant, PTL

LEMMA AcceptedJustified == IInv => AcceptedIsJustified
<1> SUFFICES ASSUME IInv, step = "accepted" PROVE AcceptedIsJustified
  BY DEF AcceptedIsJustified
<1>1. /\ text \in Answers /\ Readable(adapter, text) /\ ~Malformed(text.body)
      /\ result = ParseResult(text.body) /\ call = "success"
      /\ IsAccepted /\ wording \in Wordings /\ FindMissingParams(wording) = {}
  BY DEF IInv, StepInv, Parsed
<1>2. text.shape \in {"bare", "json_fence", "open_json_fence", "fence"}
  BY <1>1 DEF Readable, Answers, MockText
<1>3. \E value \in Values(text.body) : Approves(value)
  <2>1. IsObject(text.body)
    BY <1>1 DEF Malformed
  <2>2. DOMAIN text.body.nested \subseteq Nat
    <3>1. CASE text \in Texts
      BY <2>1, <3>1, ChecksAssumption
    <3>2. CASE text = MockText
      BY <3>2 DEF MockText
    <3> QED BY <1>1, <3>1, <3>2 DEF Answers
  <2>3. Carrier(text.body) \in Values(text.body)
    BY <1>1, <2>2, CarrierIsValue
  <2>4. \A c \in Criteria : ParseResult(text.body)[c].pass
    BY <1>1 DEF IsAccepted, FailedCriteria
  <2> QED BY <1>1, <2>3, <2>4, PassedIsApproved
<1>4. ASSUME NEW k \in MustBeNamed
      PROVE  Spelled(wording, Params[k])
  <2>1. [value |-> Params[k], width |-> Width(Params[k])] \in NumberTokens(wording)
    BY <1>1 DEF FindMissingParams, MustBeNamed, MinValueToCheck
  <2>2. DOMAIN wording = 1..Len(wording) /\ Len(wording) \in Nat
    BY <1>1, ChecksAssumption
  <2> QED BY <2>1, <2>2, TokenIsSpelled
<1> QED BY <1>1, <1>2, <1>3, <1>4 DEF AcceptedIsJustified

(* Nothing is accepted by default: every accepted wording was approved in  *)
(* one object of a readable answer and spells every parameter.             *)
THEOREM AcceptedOnlyIfJustified == Spec => []AcceptedIsJustified
BY AcceptedJustified, ChecksInvariant, PTL

LEMMA GoodWording == IInv => GoodWordingPasses
<1> SUFFICES ASSUME IInv, Approves(text.body), step \in {"record", "rejected", "error"},
                    Readable(adapter, text)
             PROVE  \E k \in MustBeNamed : ~SpelledWhole(wording, Params[k])
  BY DEF GoodWordingPasses
<1>1. ~Malformed(text.body) /\ \A c \in Criteria : ParseResult(text.body)[c].pass
  BY ApprovedPasses
<1>2. text # NoText
  BY DEF Approves, NoText, IsObject
<1>3. step # "error"
  BY <1>1, <1>2 DEF IInv, StepInv
<1>4. IsAccepted
  BY <1>1, <1>3 DEF IInv, StepInv, Parsed, IsAccepted, FailedCriteria
<1>5. FindMissingParams(wording) # {}
  BY <1>3, <1>4 DEF IInv, StepInv
<1>6. PICK k \in FindMissingParams(wording) : TRUE
  BY <1>5
<1>7. /\ k \in MustBeNamed
      /\ [value |-> Params[k], width |-> Width(Params[k])] \notin NumberTokens(wording)
  BY <1>6 DEF FindMissingParams, MustBeNamed, MinValueToCheck
<1>8. DOMAIN wording = 1..Len(wording) /\ Len(wording) \in Nat
  <2>. DEFINE Run == [value : Nat, width : Nat \ {0}, near : BOOLEAN]
  <2>1. wording \in Wordings \/ wording = <<>>
    BY DEF IInv, TypeOK
  <2>2. Wordings \subseteq Seq(Run)
    BY ChecksAssumption
  <2>. HIDE DEF Run
  <2>3. <<>> \in Seq(Run)
    OBVIOUS
  <2>4. wording \in Seq(Run)
    BY <2>1, <2>2, <2>3
  <2> QED BY <2>4
<1>9. ~SpelledWhole(wording, Params[k])
  BY <1>7, <1>8, SpelledIsToken
<1> QED BY <1>7, <1>9

(* Nothing good is turned down: what an approving answer and a wording     *)
(* with all its numbers meet is acceptance.                                *)
THEOREM GoodWordingAccepted == Spec => []GoodWordingPasses
BY GoodWording, ChecksInvariant, PTL

LEMMA Explained == IInv => RejectedIsExplained
<1> SUFFICES ASSUME IInv, step = "rejected" PROVE RejectedIsExplained
  BY DEF RejectedIsExplained
<1>1. feedback = reasons
  BY DEF IInv, StepInv
<1>2. \A c \in Criteria : result[c].message # "none"
  <2>1. result = ParseResult(text.body)
    BY DEF IInv, StepInv, Parsed
  <2> QED BY <2>1, ResultType
<1>3. CASE ~IsAccepted /\ reasons = FailedCriteria
  <2>1. "numeric_match" \notin FailedCriteria
    BY ChecksAssumption DEF FailedCriteria
  <2> QED BY <1>1, <1>2, <1>3, <2>1 DEF RejectedIsExplained, IsAccepted, FailedCriteria
<1>4. CASE IsAccepted /\ reasons = {"numeric_match"}
  BY <1>1, <1>2, <1>4 DEF RejectedIsExplained, IsAccepted, FailedCriteria
<1> QED BY <1>3, <1>4 DEF IInv, StepInv

(* A rejection always says why, to the database and to the next prompt     *)
(* alike.                                                                  *)
THEOREM RejectionsExplained == Spec => []RejectedIsExplained
BY Explained, ChecksInvariant, PTL

LEMMA FailureLogged == IInv => FailureIsLogged
BY DEF IInv, StepInv, FailureIsLogged

(* An error never contradicts the call log.                                *)
THEOREM FailuresLogged == Spec => []FailureIsLogged
BY FailureLogged, ChecksInvariant, PTL
=============================================================================
