---------------------------- MODULE TaskParams11 ---------------------------
(***************************************************************************)
(* The parameter generators of task 11 (serial numbers, a fixed number of  *)
(* bits per symbol and of whole bytes per serial number) as arithmetic:    *)
(* draws, answers and _recompute_answer_11.  math.log2 is exact on the     *)
(* powers of two and away from the integers elsewhere, so its ceiling is   *)
(* the least number of bits that tells the symbols apart.                  *)
(***************************************************************************)
EXTENDS TaskParams7

Subtypes11 ==
    {"min_alphabet_size", "max_serial_length", "min_serial_length", "max_extra_bytes"}

Target11(subtype) == subtype

(* ceil(log2(symbols))                                                     *)
BitsPerSymbol(symbols) == CHOOSE b \in 1..16 : 2 ^ b >= symbols /\ 2 ^ (b - 1) < symbols

MinAlphabetDraws ==
    [serial_length : {105, 248, 2783}, nums : {100, 300, 800}, memory_kb : {7, 11, 15}]

MaxLengthDraws ==
    { [digits |-> 10, latin_letters |-> 52, special_chars |-> special,
       alphabet_size |-> 62 + special, nums |-> nums, memory_kb |-> kb] :
          special \in {1989, 963, 450, 70}, nums \in {836, 2000, 5000},
          kb \in {639, 100, 200} }

MinLengthDraws ==
    { [digits |-> 10, special_chars |-> special, alphabet_size |-> 10 + special,
       nums |-> nums, memory_mb |-> mb] :
          special \in {17, 70, 100}, nums \in {7564230, 10000000}, mb \in {31, 50} }

MaxExtraDraws ==
    { [serial_length |-> length, digits |-> 10, latin_upper |-> 26, latin_lower |-> 26,
       special_chars |-> 70, alphabet_size |-> 132, nums |-> nums, memory_kb |-> kb] :
          length \in {18, 25}, nums \in {2000, 3000}, kb \in {100, 150} }

Draws11(subtype) ==
    CASE subtype = "min_alphabet_size" -> MinAlphabetDraws
      [] subtype = "max_serial_length" -> MaxLengthDraws
      [] subtype = "min_serial_length" -> MinLengthDraws
      [] subtype = "max_extra_bytes"   -> MaxExtraDraws

(* Bytes of one serial number that fill, or fit, its share of the memory.  *)
ShareUp(memory, p) == CeilDiv(memory, p.nums)
ShareDown(memory, p) == memory \div p.nums

(* Bytes of a serial number of the given length.                           *)
SerialBytes(length, bits) == CeilDiv(length * bits, 8)

(* A symbol carries whole bits, and a serial number must fill its share.   *)
MinAlphabet(p) ==
    2 ^ CeilDiv(8 * ShareUp(p.memory_kb * 1024, p), p.serial_length)

(* The answer of the generator; _recompute_answer_11 repeats the formulas. *)
Answer11(subtype, p) ==
    CASE subtype = "min_alphabet_size" -> MinAlphabet(p)
      [] subtype = "max_serial_length" ->
            (8 * ShareDown(p.memory_kb * 1024, p)) \div BitsPerSymbol(p.alphabet_size)
      [] subtype = "min_serial_length" ->
            CeilDiv(8 * ShareUp(p.memory_mb * 1048576, p), BitsPerSymbol(p.alphabet_size))
      [] subtype = "max_extra_bytes" ->
            ( p.memory_kb * 1024
              - p.nums * SerialBytes(p.serial_length, BitsPerSymbol(p.alphabet_size)) )
            \div p.nums

Recompute11(subtype, p) == Answer11(subtype, p)

(* _get_numeric_keys_11                                                    *)
NumericKeys11(subtype) ==
    CASE subtype = "min_alphabet_size" -> {"serial_length", "nums", "memory_kb"}
      [] subtype = "max_serial_length" ->
            {"digits", "latin_letters", "special_chars", "alphabet_size", "nums", "memory_kb"}
      [] subtype = "min_serial_length" ->
            {"digits", "special_chars", "alphabet_size", "nums", "memory_mb"}
      [] subtype = "max_extra_bytes" ->
            {"serial_length", "digits", "latin_upper", "latin_lower", "special_chars",
             "alphabet_size", "nums", "memory_kb"}
=============================================================================
