-------------------------- MODULE ParamGeneration --------------------------
(***************************************************************************)
(* The parameters of one task, from the request to the parameter set its   *)
(* wording will be about: _validate_input, then ParamGeneratorService with *)
(* the generators of TaskParams7 and TaskParams11 - draw, validate,        *)
(* recalculate, and draw again after a rejection.                          *)
(***************************************************************************)
EXTENDS TaskParams11

CONSTANTS
    RequestedTypes,     \* task_type of the requests
    RequestedSubtypes,  \* subtype of the requests
    NoSubtype,          \* subtype = None: the generator chooses
    MaxParamAttempts    \* ParamGeneratorService.MAX_PARAM_ATTEMPTS

ASSUME ParamsAssumption ==
    /\ NoSubtype \notin Subtypes7 \cup Subtypes11
    /\ MaxParamAttempts \in Nat \ {0}

VARIABLES
    request,   \* task_type and subtype of the request
    stage,     \* "received", "generating", "ready", "refused" or "exhausted"
    rejected,  \* draws rejected, each with an audit row
    result     \* the accepted set: subtype, params, target, answer

vars == <<request, stage, rejected, result>>

(* MAX_REFERENCE_ANSWER                                                    *)
MaxReferenceAnswer == 2147483647

SubtypesOf(type) ==
    CASE type = 7 -> Subtypes7 [] type = 11 -> Subtypes11 [] OTHER -> {}

Targets(subtype) ==
    IF subtype \in Subtypes7 THEN Targets7(subtype) ELSE {Target11(subtype)}

Draws(subtype, target) ==
    IF subtype \in Subtypes7 THEN Draws7(subtype, target) ELSE Draws11(subtype)

Answer(subtype, target, p) ==
    IF subtype \in Subtypes7 THEN Answer7(subtype, target, p) ELSE Answer11(subtype, p)

(* calculate_answer                                                        *)
CalculateAnswer(subtype, target, p) ==
    IF subtype \in Subtypes7 THEN Recompute7(subtype, target, p) ELSE Recompute11(subtype, p)

NumericKeys(subtype) ==
    IF subtype \in Subtypes7 THEN NumericKeys7(subtype) ELSE NumericKeys11(subtype)

(* is_valid_params_7 and is_valid_params_11; only the former looks at the  *)
(* sign of the parameters.                                                 *)
IsValid(subtype, target, p, answer) ==
    /\ target \in DOMAIN p
    /\ answer > 0 /\ answer <= MaxReferenceAnswer
    /\ NumericKeys(subtype) \subseteq DOMAIN p
    /\ subtype \in Subtypes7 =>
          \A k \in NumericKeys(subtype) \ {"compression_ratio"} : p[k] >= 0
    /\ CalculateAnswer(subtype, target, p) = answer

-----------------------------------------------------------------------------
NoResult == [subtype |-> NoSubtype]

Init ==
    /\ request \in [type : RequestedTypes, subtype : RequestedSubtypes]
    /\ stage = "received"
    /\ rejected = 0
    /\ result = NoResult

(* _validate_input: INVALID_TASK_TYPE or INVALID_SUBTYPE before any row.   *)
ValidateInput ==
    /\ stage = "received"
    /\ stage' = IF /\ SubtypesOf(request.type) # {}
                   /\ request.subtype \in SubtypesOf(request.type) \cup {NoSubtype}
                THEN "generating" ELSE "refused"
    /\ UNCHANGED <<request, rejected, result>>

(* Mutant of Attempt: the answer is not put among the parameters saved.    *)
AttemptDropsTarget(subtype, target, draw) ==
    LET answer == Answer(subtype, target, draw)
    IN  /\ stage = "generating"
        /\ stage' = "ready"
        /\ result' = [subtype |-> subtype, params |-> draw, target |-> target, answer |-> answer]
        /\ UNCHANGED <<request, rejected>>

(* One turn of the loop of ParamGeneratorService.generate.                 *)
Attempt(subtype, target, draw) ==
    LET answer == Answer(subtype, target, draw)
        params == With(draw, target, answer)
    IN  /\ stage = "generating"
        /\ IF /\ IsValid(subtype, target, params, answer)
              /\ CalculateAnswer(subtype, target, params) = answer
           THEN /\ stage' = "ready"
                /\ result' = [subtype |-> subtype, params |-> params,
                              target |-> target, answer |-> answer]
                /\ UNCHANGED rejected
           ELSE /\ rejected' = rejected + 1
                /\ stage' = IF rejected' = MaxParamAttempts THEN "exhausted" ELSE stage
                /\ UNCHANGED result
        /\ UNCHANGED request

Chosen ==
    IF request.subtype = NoSubtype THEN SubtypesOf(request.type) ELSE {request.subtype}

Finished == stage \in {"ready", "refused", "exhausted"} /\ UNCHANGED vars

Next ==
    \/ ValidateInput
    \/ /\ stage = "generating"
       /\ \E subtype \in Chosen :
             \E target \in Targets(subtype) :
                \E draw \in Draws(subtype, target) : Attempt(subtype, target, draw)
    \/ Finished

Spec == Init /\ [][Next]_vars

-----------------------------------------------------------------------------
(* What the tasks ask, stated without the formulas above: Fits(n) says     *)
(* that the given quantities allow the value n of the unknown one.         *)

LeastTargets ==
    {"packet_mb", "cards_needed", "transmit_time_sec", "min_alphabet_size", "min_serial_length"}

AsksForLeast(subtype, target) ==
    \/ target \in LeastTargets
    \/ subtype = "traffic_saving" /\ target = "images_count"

(* The serial numbers of one task with the given length and alphabet.      *)
MemoryTaken(p, length, symbols) == p.nums * SerialBytes(length, BitsPerSymbol(symbols))

(* For the two minimums of task 11 the quantity to reach is the one the    *)
(* code aims at: the share of one serial number, in whole bytes, is filled *)
(* by the bits its symbols carry, where n symbols carry the greatest b     *)
(* with 2^b <= n.  What the wording of such a task asks is another matter, *)
(* see MinimumsFit below.                                                  *)
Fits(subtype, target, p, n) ==
    CASE target = "image_size_kb"     -> n * 8192 <= ImageBits(p)
      [] target = "palette_colors"    ->
            \E b \in 0..24 : 2 ^ b >= n /\ p.width * p.height * b <= p.image_size_kb * 8192
      [] subtype = "sound_self_duration" -> n * SoundRate(p) <= p.file_size_kb * 8192
      [] target = "packet_mb"         -> FrameUnits(p) * p.images_per_packet <= n * 4096
      [] target = "images_per_packet" -> n * FrameUnits(p) <= p.packet_mb * 4096
      [] target = "cards_needed"      ->
            PhotoUnits(p) * (p.images_count \div 40) <= 4 * n * CardsKb(p)
      [] subtype = "cards_count" /\ target = "images_count" ->
            (n \div 160) * PhotoUnits(p) + CeilDiv((n % 160) * PhotoUnits(p), 160)
                <= p.cards_needed * CardsKb(p)
      [] target = "total_saved_kb"    ->
            4 * n <= (OrigUnits(p) - NewUnits(p)) * p.images_count
      [] subtype = "traffic_saving" /\ target = "images_count" ->
            n * (OrigUnits(p) - NewUnits(p)) >= 4 * p.total_saved_kb
      [] target = "bit_depth"         ->
            n * p.channels * p.sample_rate_hz * (100 - p.compression_ratio)
                <= p.bandwidth_kb_per_sec * 819200
      [] target = "transmit_time_sec" ->
            SoundRate(p) * p.duration_sec <= n * p.speed_bits_per_sec
      [] subtype = "sound_duration" /\ target = "duration_sec" ->
            n * SoundRate(p) <= p.transmit_time_sec * p.speed_bits_per_sec
      [] target = "max_serial_length" ->
            p.nums * SerialBytes(n, BitsPerSymbol(p.alphabet_size)) <= p.memory_kb * 1024
      [] target = "max_extra_bytes"   ->
            p.nums * (SerialBytes(p.serial_length, BitsPerSymbol(p.alphabet_size)) + n)
                <= p.memory_kb * 1024
      [] target = "min_alphabet_size" ->
            \E b \in 0..16 :
                2 ^ b <= n /\ b * p.serial_length >= 8 * ShareUp(p.memory_kb * 1024, p)
      [] target = "min_serial_length" ->
            n * BitsPerSymbol(p.alphabet_size) >= 8 * ShareUp(p.memory_mb * 1048576, p)

(* The next value that an extremal answer n rules out.                     *)
Beyond(subtype, target, n) == IF AsksForLeast(subtype, target) THEN n - 1 ELSE n + 1

(* The draws of sound_bit_depth, one for each number of channels, whose    *)
(* answer is one below the greatest bit depth, see BitDepthIsMaximal.      *)
InexactDraw(subtype, p) ==
    /\ subtype = "sound_bit_depth"
    /\ p.sample_rate_hz = 96000 /\ p.compression_ratio = 72 /\ p.bandwidth_kb_per_sec = 840

TypeOK ==
    /\ request \in [type : RequestedTypes, subtype : RequestedSubtypes]
    /\ stage \in {"received", "generating", "ready", "refused", "exhausted"}
    /\ rejected \in 0..MaxParamAttempts
    /\ stage = "ready" =>
          /\ result.target \in DOMAIN result.params
          /\ result.answer \in 1..MaxReferenceAnswer

(* Whatever the generators draw passes the validation and the              *)
(* recalculation at once: no image outgrows the one it replaces, no        *)
(* palette exceeds the answer column, no serial number exceeds its memory, *)
(* so no audit row and no PARAM_RETRY_EXHAUSTED ever come from a supported *)
(* request.                                                                *)
FirstAttemptSucceeds == rejected = 0 /\ stage # "exhausted"

(* The reference answer is feasible for the parameters of the task, and    *)
(* outside the three draws of InexactDraw it is extremal: the next integer *)
(* (the previous one where the least value is asked) is not feasible.  All *)
(* twelve subtypes are covered, each in the sense of Fits.                 *)
AnswerIsExtremal ==
    stage = "ready" =>
        LET Feasible(n) == Fits(result.subtype, result.target, result.params, n)
        IN  /\ Feasible(result.answer)
            /\ ~InexactDraw(result.subtype, result.params) =>
                  ~Feasible(Beyond(result.subtype, result.target, result.answer))

(* The answer to a task about the least alphabet, or the least length, is  *)
(* one with which all serial numbers fit the memory, as the examples of    *)
(* the prompts ask.                                                        *)
MinimumsFit ==
    LET p == result.params IN
    stage = "ready" =>
        /\ result.subtype = "min_alphabet_size" =>
              MemoryTaken(p, p.serial_length, result.answer) <= p.memory_kb * 1024
        /\ result.subtype = "min_serial_length" =>
              MemoryTaken(p, result.answer, p.alphabet_size) <= p.memory_mb * 1048576

(* The bit depth is the greatest the channel can carry, as the example the *)
(* prompt gives for this subtype asks.                                     *)
BitDepthIsMaximal ==
    stage = "ready" /\ result.subtype = "sound_bit_depth" =>
        ~Fits(result.subtype, result.target, result.params, result.answer + 1)
=============================================================================
