---------------------------- MODULE TaskParams7 ----------------------------
(***************************************************************************)
(* The parameter generators of task 7 (images and sound) as arithmetic:    *)
(* what each subtype may draw, the answer it computes and the answer       *)
(* _recompute_answer_7 computes again.  A parameter set is a record with   *)
(* the names of the code; a compression ratio is a whole percentage.       *)
(*                                                                         *)
(* The code divides in binary floating point.  All its quotients but one   *)
(* are exact or far enough from the next integer to round like the         *)
(* rationals below; the exception is 1 - compression_ratio in the subtype  *)
(* sound_bit_depth, which is modelled as it rounds.  Quantities are scaled *)
(* by powers of two to stay below 2^31; every scaling is exact.            *)
(***************************************************************************)
EXTENDS Integers

CeilDiv(a, b) == (a + b - 1) \div b

(* Floor of a * b / c without forming a * b.                               *)
MulDiv(a, b, c) == (a \div c) * b + ((a % c) * b) \div c

(* A parameter set with one more parameter.                                *)
With(p, key, value) ==
    [k \in DOMAIN p \cup {key} |-> IF k = key THEN value ELSE p[k]]

Subtypes7 ==
    {"image_size", "colors_count", "sound_self_duration", "packet_size",
     "cards_count", "traffic_saving", "sound_bit_depth", "sound_duration"}

(* The unknown quantity: some generators toss a coin between two.          *)
Targets7(subtype) ==
    CASE subtype = "image_size"          -> {"image_size_kb"}
      [] subtype = "colors_count"        -> {"palette_colors"}
      [] subtype = "sound_self_duration" -> {"duration_sec"}
      [] subtype = "packet_size"         -> {"packet_mb", "images_per_packet"}
      [] subtype = "cards_count"         -> {"cards_needed", "images_count"}
      [] subtype = "traffic_saving"      -> {"total_saved_kb", "images_count"}
      [] subtype = "sound_bit_depth"     -> {"bit_depth"}
      [] subtype = "sound_duration"      -> {"duration_sec", "transmit_time_sec"}

-----------------------------------------------------------------------------
(* The draws: the values of random.choice for every parameter but the      *)
(* unknown one.                                                            *)

ImageSizeDraws ==
    [width : {512, 640, 800, 1024}, height : {384, 480, 600, 768},
     bits_per_pixel : {8, 16, 24, 32}]

ColorsCountDraws ==
    [width : {512, 768, 1024}, height : {384, 576, 768},
     image_size_kb : {100, 200, 500}]

SoundSelfDurationDraws ==
    [channels : {1, 2, 4}, bit_depth : {8, 16, 24},
     sample_rate_hz : {22050, 44100, 48000}, file_size_kb : {2048, 4096, 8192}]

Frames ==
    [width : {640, 800, 1024, 1280, 1920}, height : {480, 600, 720, 960, 1080},
     bits_per_pixel : {16, 24}]

PacketSizeDraws(target) ==
    IF target = "packet_mb"
    THEN { With(f, "images_per_packet", n) : f \in Frames, n \in {100, 200, 400, 500} }
    ELSE { With(f, "packet_mb", n) : f \in Frames, n \in {10, 20, 50, 100} }

Photos ==
    [width : {1920, 2560, 3840}, height : {1080, 1440, 2160}, bits_per_pixel : {16, 24, 30},
     compression_ratio : {30, 35, 40}, service_overhead_kb : {64, 80, 120, 256},
     card_capacity_gb : {8, 16, 20, 32}]

CardsCountDraws(target) ==
    IF target = "cards_needed"
    THEN { With(f, "images_count", n) : f \in Photos, n \in {1000, 2000, 4320, 5000} }
    ELSE { With(f, "cards_needed", n) : f \in Photos, n \in {2, 3, 4, 5} }

Replacements ==
    [orig_width : {1920, 2560}, orig_height : {1080, 1440}, orig_bits_per_pixel : {24, 30},
     new_width : {800, 1280, 1600}, new_height : {600, 720}, new_bits_per_pixel : {16, 24}]

TrafficSavingDraws(target) ==
    IF target = "total_saved_kb"
    THEN { With(f, "images_count", n) : f \in Replacements, n \in {50, 100, 200, 500} }
    ELSE { With(f, "total_saved_kb", n) : f \in Replacements, n \in {20000, 50000, 100000} }

SoundBitDepthDraws ==
    [channels : {1, 2, 4}, sample_rate_hz : {240000, 124000, 96000, 64000},
     bandwidth_kb_per_sec : {168, 256, 512, 840},
     compression_ratio : {60, 70, 72, 75}]

Sounds ==
    [channels : {1, 2, 4}, bit_depth : {8, 12, 16, 18, 24}, sample_rate_hz : {44100, 48000, 64000},
     speed_bits_per_sec : {128000, 192000, 204000, 256000}]

SoundDurationDraws(target) ==
    IF target = "transmit_time_sec"
    THEN { With(f, "duration_sec", n) : f \in Sounds, n \in {30, 60, 68, 90, 120} }
    ELSE { With(f, "transmit_time_sec", n) : f \in Sounds, n \in {60, 90, 120, 180} }

Draws7(subtype, target) ==
    CASE subtype = "image_size"          -> ImageSizeDraws
      [] subtype = "colors_count"        -> ColorsCountDraws
      [] subtype = "sound_self_duration" -> SoundSelfDurationDraws
      [] subtype = "packet_size"         -> PacketSizeDraws(target)
      [] subtype = "cards_count"         -> CardsCountDraws(target)
      [] subtype = "traffic_saving"      -> TrafficSavingDraws(target)
      [] subtype = "sound_bit_depth"     -> SoundBitDepthDraws
      [] subtype = "sound_duration"      -> SoundDurationDraws(target)

-----------------------------------------------------------------------------
(* The quantities the answers are made of *)

ImageBits(p) == p.width * p.height * p.bits_per_pixel
SoundRate(p) == p.channels * p.sample_rate_hz * p.bit_depth

(* Bytes of a frame, in units of 256 bytes: 4096 of them are a megabyte.   *)
FrameUnits(p) == ImageBits(p) \div 2048

(* Kilobytes a compressed photo takes with its overhead, times 160.        *)
PhotoUnits(p) ==
    ((p.width * p.height) \div 1024) * p.bits_per_pixel * (p.compression_ratio \div 5)
        + 160 * p.service_overhead_kb

CardsKb(p) == p.card_capacity_gb * 1048576

(* orig_kb and new_kb, times 4.                                            *)
OrigUnits(p) == (p.orig_width * p.orig_height * p.orig_bits_per_pixel) \div 2048
NewUnits(p) == (p.new_width * p.new_height * p.new_bits_per_pixel) \div 2048

(* Binary rounding: 1 - 0.72 lies above 0.28, and 96000 Hz times it still  *)
(* above 26880, while the product rounds back to 17920 at 64000 Hz.  No    *)
(* other draw has an integer for its quotient.                             *)
RoundedUp(p) == p.compression_ratio = 72 /\ p.sample_rate_hz = 96000

(* bandwidth / effective: a quotient that is an integer for the rationals  *)
(* is just below it when the divisor was rounded up.                       *)
BitDepth(p) ==
    LET bandwidth == p.bandwidth_kb_per_sec * 1024 * 8 * 100
        effective == p.channels * p.sample_rate_hz * (100 - p.compression_ratio)
        exact     == bandwidth \div effective
    IN  IF RoundedUp(p) /\ exact * effective = bandwidth
        THEN exact - 1 ELSE exact

(* Mutant of Saved: the savings of the whole series are rounded up.        *)
SavedRoundedUp(p, saved) == CeilDiv(saved * p.images_count, 4)

(* int(saved_kb_per_image * images_count)                                  *)
Saved(p, saved) == (saved * p.images_count) \div 4

(* The answer the generator of the subtype computes from what it drew.     *)
Answer7(subtype, target, p) ==
    CASE subtype = "image_size"          -> ImageBits(p) \div 8192
      [] subtype = "colors_count"        ->
            2 ^ ((p.image_size_kb * 8192) \div (p.width * p.height))
      [] subtype = "sound_self_duration" -> (p.file_size_kb * 8192) \div SoundRate(p)
      [] target = "packet_mb"            ->
            CeilDiv(FrameUnits(p) * p.images_per_packet, 4096)
      [] target = "images_per_packet"    -> (p.packet_mb * 4096) \div FrameUnits(p)
      [] target = "cards_needed"         ->
            CeilDiv(CeilDiv(PhotoUnits(p) * (p.images_count \div 40), 4), CardsKb(p))
      [] subtype = "cards_count" /\ target = "images_count" ->
            MulDiv(p.cards_needed * CardsKb(p), 160, PhotoUnits(p))
      [] target = "total_saved_kb"       -> Saved(p, OrigUnits(p) - NewUnits(p))
      [] subtype = "traffic_saving" /\ target = "images_count" ->
            CeilDiv(4 * p.total_saved_kb, OrigUnits(p) - NewUnits(p))
      [] subtype = "sound_bit_depth"     -> BitDepth(p)
      [] target = "transmit_time_sec"    ->
            CeilDiv(SoundRate(p) * p.duration_sec, p.speed_bits_per_sec)
      [] subtype = "sound_duration" /\ target = "duration_sec" ->
            (p.transmit_time_sec * p.speed_bits_per_sec) \div SoundRate(p)

(* Mutant of Recompute7: the recalculation rounds image counts down.       *)
Recompute7RoundsDown(subtype, target, p) ==
    IF subtype = "traffic_saving" /\ target = "images_count"
    THEN (4 * p.total_saved_kb) \div (OrigUnits(p) - NewUnits(p))
    ELSE Answer7(subtype, target, p)

(* _recompute_answer_7 repeats the formula of the generator branch by      *)
(* branch; only traffic_saving subtracts the bits before it divides.       *)
Recompute7(subtype, target, p) ==
    IF subtype # "traffic_saving"
    THEN Answer7(subtype, target, p)
    ELSE LET saved == ( p.orig_width * p.orig_height * p.orig_bits_per_pixel
                        - p.new_width * p.new_height * p.new_bits_per_pixel ) \div 2048
         IN  IF target = "total_saved_kb"
             THEN Saved(p, saved)
             ELSE CeilDiv(4 * p.total_saved_kb, saved)

(* _get_numeric_keys_7                                                     *)
NumericKeys7(subtype) ==
    CASE subtype \in {"image_size", "colors_count"} -> {"width", "height", "image_size_kb"}
      [] subtype = "sound_self_duration" ->
            {"channels", "bit_depth", "sample_rate_hz", "file_size_kb"}
      [] subtype = "packet_size" ->
            {"width", "height", "bits_per_pixel", "images_per_packet", "packet_mb"}
      [] subtype = "cards_count" ->
            {"width", "height", "bits_per_pixel", "compression_ratio",
             "service_overhead_kb", "images_count", "card_capacity_gb", "cards_needed"}
      [] subtype = "traffic_saving" ->
            {"orig_width", "orig_height", "orig_bits_per_pixel", "new_width",
             "new_height", "new_bits_per_pixel", "images_count", "total_saved_kb"}
      [] subtype = "sound_bit_depth" ->
            {"channels", "sample_rate_hz", "bandwidth_kb_per_sec",
             "compression_ratio", "bit_depth"}
      [] subtype = "sound_duration" ->
            {"channels", "bit_depth", "sample_rate_hz", "duration_sec",
             "speed_bits_per_sec", "transmit_time_sec"}
=============================================================================
