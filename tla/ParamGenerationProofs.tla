----------------------- MODULE ParamGenerationProofs -----------------------
(***************************************************************************)
(* Theorems about ParamGeneration: for any requests and any number of      *)
(* attempts, the first draw is accepted and its reference answer solves    *)
(* the task.                                                               *)
(*                                                                         *)
(* What an answer is good for does not depend on the lists the generators  *)
(* draw from: the lemmas named ...Fits show, for any positive parameters,  *)
(* that the values which fit the given quantities are those up to the      *)
(* answer, or from the answer on.  The lists are needed for what is left:  *)
(* that the answer is positive and below the limit of its column, and      *)
(* that the recalculation, which divides differently, agrees.              *)
(***************************************************************************)
EXTENDS ParamGeneration, OrderLemmas

-----------------------------------------------------------------------------
(* Division *)

(* Rounding down and rounding up as adjoints of the multiplication.        *)
LEMMA FloorFits ==
    ASSUME NEW a \in Int, NEW b \in Nat \ {0}, NEW n \in Int
    PROVE  /\ a \div b \in Int
           /\ n * b <= a <=> n <= a \div b
<1>1. a \div b \in Int /\ (a \div b) * b <= a /\ a < (a \div b + 1) * b
  OBVIOUS
<1>. DEFINE q == a \div b
<1>. HIDE DEF q
<1>2. n <= q => n * b <= q * b
  BY <1>1 DEF q
<1>3. n > q => n * b >= (q + 1) * b
  BY <1>1 DEF q
<1> QED BY <1>1, <1>2, <1>3 DEF q

LEMMA CeilFits ==
    ASSUME NEW a \in Int, NEW b \in Nat \ {0}, NEW n \in Int
    PROVE  /\ CeilDiv(a, b) \in Int
           /\ a <= n * b <=> CeilDiv(a, b) <= n
<1>1. /\ CeilDiv(a, b) \in Int /\ CeilDiv(a, b) * b <= a + b - 1
      /\ a + b - 1 < (CeilDiv(a, b) + 1) * b
  BY DEF CeilDiv
<1>. DEFINE q == CeilDiv(a, b)
<1>. HIDE DEF q
<1>2. n >= q => n * b >= q * b
  BY <1>1 DEF q
<1>3. n < q => n * b <= (q - 1) * b
  BY <1>1 DEF q
<1>4. (q - 1) * b = q * b - b /\ (q + 1) * b = q * b + b
  BY <1>1 DEF q
<1> QED BY <1>1, <1>2, <1>3, <1>4 DEF q

(* MulDiv is the floor of the whole quotient.                              *)
LEMMA MulDivFits ==
    ASSUME NEW a \in Nat, NEW b \in Nat, NEW c \in Nat \ {0}, NEW n \in Int
    PROVE  /\ MulDiv(a, b, c) \in Int
           /\ n * c <= a * b <=> n <= MulDiv(a, b, c)
<1>. DEFINE q == a \div c
            r == a % c
<1>1. q \in Int /\ r \in Int /\ a = q * c + r
  OBVIOUS
<1>2. MulDiv(a, b, c) = q * b + (r * b) \div c
  BY DEF MulDiv
<1>. HIDE DEF q, r
<1>3. /\ (r * b) \div c \in Int
      /\ (n - q * b) * c <= r * b <=> n - q * b <= (r * b) \div c
  BY <1>1, FloorFits
<1>4. (n - q * b) * c = n * c - (q * b) * c /\ a * b = (q * b) * c + r * b
  BY <1>1
<1>5. q * b \in Int /\ (q * b) * c \in Int /\ n * c \in Int /\ r * b \in Int
  BY <1>1
<1> QED BY <1>2, <1>3, <1>4, <1>5

-----------------------------------------------------------------------------
(* Powers of two *)

Pow(k) == 2 ^ k

LEMMA Powers ==
    /\ Pow(0) = 1 /\ Pow(1) = 2 /\ Pow(2) = 4 /\ Pow(3) = 8 /\ Pow(4) = 16 /\ Pow(5) = 32
    /\ Pow(6) = 64 /\ Pow(7) = 128 /\ Pow(8) = 256 /\ Pow(9) = 512 /\ Pow(10) = 1024
    /\ Pow(11) = 2048 /\ Pow(12) = 4096 /\ Pow(13) = 8192 /\ Pow(14) = 16384
    /\ Pow(15) = 32768 /\ Pow(16) = 65536 /\ Pow(17) = 131072 /\ Pow(18) = 262144
    /\ Pow(19) = 524288 /\ Pow(20) = 1048576 /\ Pow(21) = 2097152 /\ Pow(22) = 4194304
    /\ Pow(23) = 8388608 /\ Pow(24) = 16777216
BY DEF Pow

LEMMA PowersGrow ==
    ASSUME NEW a \in 0..24
    PROVE  /\ Pow(a) \in Nat \ {0}
           /\ \A b \in 0..24 : a < b => Pow(a) < Pow(b)
<1>1. \A k \in 0..24 :
         k \in { 0, 1, 2, 3, 4, 5, 6, 7, 8, 9, 10, 11, 12, 13, 14, 15, 16, 17, 18, 19, 20,
                21, 22, 23, 24 }
  OBVIOUS
<1>2. \A k \in 0..24 : Pow(k) \in Nat \ {0}
  BY <1>1, Powers
<1>3. ASSUME NEW b \in 0..24, a < b PROVE Pow(a) < Pow(b)
  BY <1>1, <1>3, Powers
<1> QED BY <1>2, <1>3

(* Every alphabet has a number of bits that tells its symbols apart.       *)
LEMMA BitsType ==
    ASSUME NEW symbols \in Nat, 2 <= symbols, symbols <= 65536
    PROVE  /\ BitsPerSymbol(symbols) \in 1..16
           /\ Pow(BitsPerSymbol(symbols)) >= symbols
           /\ Pow(BitsPerSymbol(symbols) - 1) < symbols
<1>. DEFINE Enough == { b \in 1..16 : Pow(b) >= symbols }
<1>1. Enough \subseteq Nat /\ 16 \in Enough
  <2>1. Pow(16) = 65536
    BY Powers
  <2>2. Pow(16) >= symbols
    BY <2>1
  <2> QED BY <2>2
<1>2. PICK b \in Enough : \A c \in Enough : b <= c
  <2>1. Enough # {}
    BY <1>1
  <2> QED BY <1>1, <2>1, LeastElement
<1>3. Pow(b - 1) < symbols
  <2>1. CASE b = 1
    <3>1. Pow(0) = 1 /\ b - 1 = 0
      BY <2>1, Powers
    <3> QED BY <3>1
  <2>2. CASE b # 1
    <3>1. b - 1 \in 1..16 /\ b - 1 \notin Enough
      <4>1. b \in 1..16 /\ b \in Nat
        OBVIOUS
      <4>. HIDE DEF Enough
      <4> QED BY <1>2, <2>2, <4>1
    <3>2. Pow(b - 1) \in Nat
      BY <3>1, PowersGrow
    <3> QED BY <3>1, <3>2
  <2> QED BY <2>1, <2>2
<1>4. BitsPerSymbol(symbols) = CHOOSE c \in 1..16 : Pow(c) >= symbols /\ Pow(c - 1) < symbols
  BY DEF BitsPerSymbol, Pow
<1> QED BY <1>2, <1>3, <1>4

-----------------------------------------------------------------------------
(* What fits, for any parameters *)

Positive(p, names) == \A k \in names : p[k] \in Nat \ {0}

LEMMA ImageSizeFits ==
    ASSUME NEW p, Positive(p, {"width", "height", "bits_per_pixel"}), NEW n \in Int
    PROVE  LET answer == Answer7("image_size", "image_size_kb", p) IN
           answer \in Int /\ (Fits("image_size", "image_size_kb", p, n) <=> n <= answer)
<1>1. ImageBits(p) \in Int
  BY DEF Positive, ImageBits
<1>2. /\ ImageBits(p) \div 8192 \in Int
      /\ n * 8192 <= ImageBits(p) <=> n <= ImageBits(p) \div 8192
  BY <1>1, FloorFits
<1> QED BY <1>2 DEF Fits, Answer7

LEMMA SoundRateType ==
    ASSUME NEW p, Positive(p, {"channels", "sample_rate_hz", "bit_depth"})
    PROVE  SoundRate(p) \in Nat \ {0}
BY DEF Positive, SoundRate

LEMMA SelfDurationFits ==
    ASSUME NEW p, Positive(p, {"channels", "sample_rate_hz", "bit_depth", "file_size_kb"}),
           NEW n \in Int
    PROVE  LET answer == Answer7("sound_self_duration", "duration_sec", p) IN
           answer \in Int /\ (Fits("sound_self_duration", "duration_sec", p, n) <=> n <= answer)
<1>1. SoundRate(p) \in Nat \ {0} /\ p.file_size_kb * 8192 \in Int
  BY SoundRateType DEF Positive
<1>2. /\ (p.file_size_kb * 8192) \div SoundRate(p) \in Int
      /\ n * SoundRate(p) <= p.file_size_kb * 8192
         <=> n <= (p.file_size_kb * 8192) \div SoundRate(p)
  BY <1>1, FloorFits
<1> QED BY <1>2 DEF Fits, Answer7

LEMMA PacketFits ==
    ASSUME NEW p, FrameUnits(p) \in Nat, p.images_per_packet \in Nat, NEW n \in Int
    PROVE  LET answer == Answer7("packet_size", "packet_mb", p) IN
           answer \in Int /\ (Fits("packet_size", "packet_mb", p, n) <=> answer <= n)
<1>1. FrameUnits(p) * p.images_per_packet \in Int
  OBVIOUS
<1>2. /\ CeilDiv(FrameUnits(p) * p.images_per_packet, 4096) \in Int
      /\ FrameUnits(p) * p.images_per_packet <= n * 4096
         <=> CeilDiv(FrameUnits(p) * p.images_per_packet, 4096) <= n
  BY <1>1, CeilFits
<1> QED BY <1>2 DEF Fits, Answer7

LEMMA ImagesPerPacketFits ==
    ASSUME NEW p, FrameUnits(p) \in Nat \ {0}, p.packet_mb \in Nat, NEW n \in Int
    PROVE  LET answer == Answer7("packet_size", "images_per_packet", p) IN
           answer \in Int /\ (Fits("packet_size", "images_per_packet", p, n) <=> n <= answer)
<1>1. p.packet_mb * 4096 \in Int
  OBVIOUS
<1>2. /\ (p.packet_mb * 4096) \div FrameUnits(p) \in Int
      /\ n * FrameUnits(p) <= p.packet_mb * 4096 <=> n <= (p.packet_mb * 4096) \div FrameUnits(p)
  BY <1>1, FloorFits
<1> QED BY <1>2 DEF Fits, Answer7

(* A palette of n colours fits when some number of bits per pixel is       *)
(* enough for n colours and small enough for the image.                    *)
LEMMA PaletteFits ==
    ASSUME NEW p, Positive(p, {"width", "height", "image_size_kb"}), NEW n \in Nat,
           (p.image_size_kb * 8192) \div (p.width * p.height) \in 0..24
    PROVE  LET answer == Answer7("colors_count", "palette_colors", p) IN
           answer \in Nat /\ (Fits("colors_count", "palette_colors", p, n) <=> n <= answer)
<1>. DEFINE bits == (p.image_size_kb * 8192) \div (p.width * p.height)
<1>1. \A b \in 0..24 :
         /\ Pow(b) \in Nat
         /\ p.width * p.height * b <= p.image_size_kb * 8192 <=> b <= bits
         /\ bits < b => Pow(bits) < Pow(b)
         /\ b < bits => Pow(b) < Pow(bits)
  <2>1. p.width * p.height \in Nat \ {0} /\ p.image_size_kb * 8192 \in Int
    BY DEF Positive
  <2>2. ASSUME NEW b \in 0..24
        PROVE  p.width * p.height * b <= p.image_size_kb * 8192 <=> b <= bits
    <3>1. b * (p.width * p.height) <= p.image_size_kb * 8192 <=> b <= bits
      BY <2>1, FloorFits
    <3>2. b * (p.width * p.height) = p.width * p.height * b
      BY <2>1
    <3> QED BY <3>1, <3>2
  <2>. HIDE DEF bits
  <2>3. bits \in 0..24
    BY DEF bits
  <2> QED BY <2>2, <2>3, PowersGrow
<1>2. Fits("colors_count", "palette_colors", p, n) <=>
      \E b \in 0..24 : Pow(b) >= n /\ p.width * p.height * b <= p.image_size_kb * 8192
  BY DEF Fits, Pow
<1>3. Answer7("colors_count", "palette_colors", p) = Pow(bits)
  BY DEF Answer7, Pow
<1>. HIDE DEF bits
<1>4. bits \in 0..24
  BY DEF bits
<1>5. (\E b \in 0..24 : Pow(b) >= n /\ b <= bits) <=> n <= Pow(bits)
  BY <1>1, <1>4
<1> QED BY <1>1, <1>2, <1>3, <1>4, <1>5

LEMMA CardsFit ==
    ASSUME NEW p, PhotoUnits(p) \in Nat, CardsKb(p) \in Nat \ {0}, p.images_count \in Nat,
           NEW n \in Int
    PROVE  LET answer == Answer7("cards_count", "cards_needed", p) IN
           answer \in Int /\ (Fits("cards_count", "cards_needed", p, n) <=> answer <= n)
<1>. DEFINE photos == PhotoUnits(p) * (p.images_count \div 40)
<1>1. photos \in Int
  OBVIOUS
<1>2. /\ Fits("cards_count", "cards_needed", p, n) <=> photos <= 4 * n * CardsKb(p)
      /\ Answer7("cards_count", "cards_needed", p) = CeilDiv(CeilDiv(photos, 4), CardsKb(p))
  BY DEF Fits, Answer7
<1>. HIDE DEF photos
<1>3. 4 * n * CardsKb(p) = (n * CardsKb(p)) * 4 /\ n * CardsKb(p) \in Int
  OBVIOUS
<1>4. /\ CeilDiv(photos, 4) \in Int
      /\ photos <= (n * CardsKb(p)) * 4 <=> CeilDiv(photos, 4) <= n * CardsKb(p)
  BY <1>1, <1>3, CeilFits
<1>5. /\ CeilDiv(CeilDiv(photos, 4), CardsKb(p)) \in Int
      /\ CeilDiv(photos, 4) <= n * CardsKb(p) <=> CeilDiv(CeilDiv(photos, 4), CardsKb(p)) <= n
  BY <1>4, CeilFits
<1> QED BY <1>2, <1>3, <1>4, <1>5

(* The photos are counted in lots of 160, which take a whole number of     *)
(* kilobytes, and a rest.                                                  *)
LEMMA ImagesOnCardsFit ==
    ASSUME NEW p, PhotoUnits(p) \in Nat \ {0}, CardsKb(p) \in Nat, p.cards_needed \in Nat,
           NEW n \in Int
    PROVE  LET answer == Answer7("cards_count", "images_count", p) IN
           answer \in Int /\ (Fits("cards_count", "images_count", p, n) <=> n <= answer)
<1>. DEFINE room == p.cards_needed * CardsKb(p)
            size == PhotoUnits(p)
            lots == n \div 160
            rest == n % 160
<1>1. /\ room \in Nat /\ size \in Nat \ {0} /\ lots \in Int /\ rest \in Int
      /\ n = lots * 160 + rest
  OBVIOUS
<1>2. /\ Fits("cards_count", "images_count", p, n)
         <=> lots * size + CeilDiv(rest * size, 160) <= room
      /\ Answer7("cards_count", "images_count", p) = MulDiv(room, 160, size)
  BY DEF Fits, Answer7
<1>. HIDE DEF room, size, lots, rest
<1>3. lots * size \in Int /\ rest * size \in Int /\ n * size = (lots * size) * 160 + rest * size
  BY <1>1
<1>4. /\ CeilDiv(rest * size, 160) \in Int
      /\ rest * size <= (room - lots * size) * 160
         <=> CeilDiv(rest * size, 160) <= room - lots * size
  BY <1>1, <1>3, CeilFits
<1>5. /\ MulDiv(room, 160, size) \in Int
      /\ n * size <= room * 160 <=> n <= MulDiv(room, 160, size)
  BY <1>1, MulDivFits
<1> QED BY <1>1, <1>2, <1>3, <1>4, <1>5

LEMMA SavedFits ==
    ASSUME NEW p, OrigUnits(p) - NewUnits(p) \in Nat, p.images_count \in Nat, NEW n \in Int
    PROVE  LET answer == Answer7("traffic_saving", "total_saved_kb", p) IN
           answer \in Int /\ (Fits("traffic_saving", "total_saved_kb", p, n) <=> n <= answer)
<1>. DEFINE saved == (OrigUnits(p) - NewUnits(p)) * p.images_count
<1>1. saved \in Int
  OBVIOUS
<1>2. /\ Fits("traffic_saving", "total_saved_kb", p, n) <=> 4 * n <= saved
      /\ Answer7("traffic_saving", "total_saved_kb", p) = saved \div 4
  BY DEF Fits, Answer7, Saved
<1>3. saved \div 4 \in Int /\ (n * 4 <= saved <=> n <= saved \div 4)
  BY <1>1, FloorFits
<1> QED BY <1>2, <1>3

LEMMA SavingImagesFit ==
    ASSUME NEW p, OrigUnits(p) - NewUnits(p) \in Nat \ {0}, p.total_saved_kb \in Nat,
           NEW n \in Int
    PROVE  LET answer == Answer7("traffic_saving", "images_count", p) IN
           answer \in Int /\ (Fits("traffic_saving", "images_count", p, n) <=> answer <= n)
<1>. DEFINE saved == OrigUnits(p) - NewUnits(p)
            total == 4 * p.total_saved_kb
<1>1. saved \in Nat \ {0} /\ total \in Int
  OBVIOUS
<1>2. /\ Fits("traffic_saving", "images_count", p, n) <=> n * saved >= total
      /\ Answer7("traffic_saving", "images_count", p) = CeilDiv(total, saved)
  BY DEF Fits, Answer7
<1>. HIDE DEF saved, total
<1>3. CeilDiv(total, saved) \in Int /\ (total <= n * saved <=> CeilDiv(total, saved) <= n)
  BY <1>1, CeilFits
<1> QED BY <1>1, <1>2, <1>3

(* bandwidth / effective, rounded down.                                    *)
ExactDepth(p) ==
    (p.bandwidth_kb_per_sec * 819200)
        \div (p.channels * p.sample_rate_hz * (100 - p.compression_ratio))

LEMMA BitDepthFits ==
    ASSUME NEW p, Positive(p, {"channels", "sample_rate_hz", "bandwidth_kb_per_sec"}),
           p.compression_ratio \in 0..99, NEW n \in Int
    PROVE  /\ ExactDepth(p) \in Int
           /\ Fits("sound_bit_depth", "bit_depth", p, n) <=> n <= ExactDepth(p)
<1>. DEFINE bandwidth == p.bandwidth_kb_per_sec * 819200
            effective == p.channels * p.sample_rate_hz * (100 - p.compression_ratio)
<1>1. /\ bandwidth \in Int /\ effective \in Nat \ {0}
      /\ n * p.channels * p.sample_rate_hz * (100 - p.compression_ratio) = n * effective
  <2>1. 100 - p.compression_ratio \in Nat \ {0} /\ p.channels * p.sample_rate_hz \in Nat \ {0}
    BY DEF Positive
  <2>2. effective \in Nat \ {0}
    BY <2>1
  <2>3. p.channels \in Int /\ p.sample_rate_hz \in Int /\ p.bandwidth_kb_per_sec \in Int
    BY DEF Positive
  <2> QED BY <2>1, <2>2, <2>3
<1>2. Fits("sound_bit_depth", "bit_depth", p, n) <=> n * effective <= bandwidth
  BY <1>1 DEF Fits
<1>3. ExactDepth(p) = bandwidth \div effective
  BY DEF ExactDepth
<1>. HIDE DEF bandwidth, effective
<1>4. /\ bandwidth \div effective \in Int
      /\ n * effective <= bandwidth <=> n <= bandwidth \div effective
  BY <1>1, FloorFits
<1> QED BY <1>2, <1>3, <1>4

LEMMA TransmitTimeFits ==
    ASSUME NEW p, Positive(p, {"channels", "sample_rate_hz", "bit_depth", "duration_sec",
                               "speed_bits_per_sec"}), NEW n \in Int
    PROVE  LET answer == Answer7("sound_duration", "transmit_time_sec", p) IN
           answer \in Int /\ (Fits("sound_duration", "transmit_time_sec", p, n) <=> answer <= n)
<1>1. SoundRate(p) * p.duration_sec \in Int /\ p.speed_bits_per_sec \in Nat \ {0}
  BY SoundRateType DEF Positive
<1>2. /\ CeilDiv(SoundRate(p) * p.duration_sec, p.speed_bits_per_sec) \in Int
      /\ SoundRate(p) * p.duration_sec <= n * p.speed_bits_per_sec
         <=> CeilDiv(SoundRate(p) * p.duration_sec, p.speed_bits_per_sec) <= n
  BY <1>1, CeilFits
<1> QED BY <1>2 DEF Fits, Answer7

LEMMA DurationFits ==
    ASSUME NEW p, Positive(p, {"channels", "sample_rate_hz", "bit_depth",
                               "transmit_time_sec", "speed_bits_per_sec"}), NEW n \in Int
    PROVE  LET answer == Answer7("sound_duration", "duration_sec", p) IN
           answer \in Int /\ (Fits("sound_duration", "duration_sec", p, n) <=> n <= answer)
<1>1. SoundRate(p) \in Nat \ {0} /\ p.transmit_time_sec * p.speed_bits_per_sec \in Int
  BY SoundRateType DEF Positive
<1>2. /\ (p.transmit_time_sec * p.speed_bits_per_sec) \div SoundRate(p) \in Int
      /\ n * SoundRate(p) <= p.transmit_time_sec * p.speed_bits_per_sec
         <=> n <= (p.transmit_time_sec * p.speed_bits_per_sec) \div SoundRate(p)
  BY <1>1, FloorFits
<1> QED BY <1>2 DEF Fits, Answer7

(* A serial number of n symbols fits its share of the memory when all its  *)
(* bits do.                                                                *)
LEMMA SerialFits ==
    ASSUME NEW length \in Nat, NEW bits \in Nat, NEW bytes \in Int
    PROVE  /\ SerialBytes(length, bits) \in Int
           /\ SerialBytes(length, bits) <= bytes <=> length * bits <= 8 * bytes
<1>1. length * bits \in Int /\ 8 * bytes = bytes * 8
  OBVIOUS
<1>2. /\ CeilDiv(length * bits, 8) \in Int
      /\ length * bits <= bytes * 8 <=> CeilDiv(length * bits, 8) <= bytes
  BY <1>1, CeilFits
<1> QED BY <1>1, <1>2 DEF SerialBytes

Alphabet(size) == size \in Nat /\ 2 <= size /\ size <= 65536

LEMMA MaxLengthFits ==
    ASSUME NEW p, Positive(p, {"nums"}), p.memory_kb \in Nat, Alphabet(p.alphabet_size),
           NEW n \in Nat
    PROVE  LET answer == Answer11("max_serial_length", p) IN
           /\ answer \in Int
           /\ Fits("max_serial_length", "max_serial_length", p, n) <=> n <= answer
<1>. DEFINE bits == BitsPerSymbol(p.alphabet_size)
            memory == p.memory_kb * 1024
            share == memory \div p.nums
<1>1. bits \in Nat \ {0} /\ memory \in Int /\ p.nums \in Nat \ {0}
  BY BitsType DEF Positive, Alphabet
<1>2. /\ Fits("max_serial_length", "max_serial_length", p, n)
         <=> p.nums * SerialBytes(n, bits) <= memory
      /\ Answer11("max_serial_length", p) = (8 * share) \div bits
  BY DEF Fits, Answer11, ShareDown
<1>. HIDE DEF bits, memory
<1>3. SerialBytes(n, bits) \in Int /\ (SerialBytes(n, bits) <= share <=> n * bits <= 8 * share)
  <2>1. share \in Int
    BY <1>1
  <2> QED BY <1>1, <2>1, SerialFits
<1>4. /\ share \in Int
      /\ SerialBytes(n, bits) * p.nums <= memory <=> SerialBytes(n, bits) <= share
  BY <1>1, <1>3, FloorFits
<1>. HIDE DEF share
<1>5. /\ (8 * share) \div bits \in Int
      /\ n * bits <= 8 * share <=> n <= (8 * share) \div bits
  <2>1. 8 * share \in Int
    BY <1>4
  <2> QED BY <1>1, <2>1, FloorFits
<1> QED BY <1>1, <1>2, <1>3, <1>4, <1>5

LEMMA ExtraBytesFit ==
    ASSUME NEW p, Positive(p, {"nums"}), p.memory_kb \in Nat, p.serial_length \in Nat,
           Alphabet(p.alphabet_size), NEW n \in Nat
    PROVE  LET answer == Answer11("max_extra_bytes", p) IN
           /\ answer \in Int
           /\ Fits("max_extra_bytes", "max_extra_bytes", p, n) <=> n <= answer
<1>. DEFINE bytes == SerialBytes(p.serial_length, BitsPerSymbol(p.alphabet_size))
            memory == p.memory_kb * 1024
<1>1. bytes \in Int /\ memory \in Int /\ p.nums \in Nat \ {0}
  <2>1. BitsPerSymbol(p.alphabet_size) \in Nat
    BY BitsType DEF Alphabet
  <2> QED BY <2>1, SerialFits DEF Positive
<1>2. /\ Fits("max_extra_bytes", "max_extra_bytes", p, n) <=> p.nums * (bytes + n) <= memory
      /\ Answer11("max_extra_bytes", p) = (memory - p.nums * bytes) \div p.nums
  BY DEF Fits, Answer11
<1>. HIDE DEF bytes, memory
<1>3. p.nums * bytes \in Int /\ p.nums * (bytes + n) = p.nums * bytes + n * p.nums
  BY <1>1
<1>4. /\ (memory - p.nums * bytes) \div p.nums \in Int
      /\ n * p.nums <= memory - p.nums * bytes <=> n <= (memory - p.nums * bytes) \div p.nums
  BY <1>1, <1>3, FloorFits
<1>5. n * p.nums \in Int
  BY <1>1
<1> QED BY <1>1, <1>2, <1>3, <1>4, <1>5

LEMMA ShareFits ==
    ASSUME NEW p, Positive(p, {"nums"}), NEW memory \in Int, NEW n \in Int
    PROVE  /\ p.nums \in Nat \ {0}
           /\ ShareUp(memory, p) \in Int /\ 8 * ShareUp(memory, p) \in Int
           /\ memory <= n * p.nums <=> ShareUp(memory, p) <= n
<1>1. p.nums \in Nat \ {0}
  BY DEF Positive
<1>2. /\ CeilDiv(memory, p.nums) \in Int
      /\ memory <= n * p.nums <=> CeilDiv(memory, p.nums) <= n
  BY <1>1, CeilFits
<1> QED BY <1>1, <1>2 DEF ShareUp

(* An alphabet fills the share when it has at least 2^bits symbols, where  *)
(* bits is the least number of bits per symbol that does.                  *)
LEMMA MinAlphabetFits ==
    ASSUME NEW p, Positive(p, {"nums", "serial_length"}), p.memory_kb \in Nat,
           CeilDiv(8 * ShareUp(p.memory_kb * 1024, p), p.serial_length) \in 1..16,
           NEW n \in Nat
    PROVE  LET answer == Answer11("min_alphabet_size", p) IN
           /\ answer \in Nat \ {0} /\ answer <= 65536
           /\ Fits("min_alphabet_size", "min_alphabet_size", p, n) <=> answer <= n
<1>. DEFINE need == 8 * ShareUp(p.memory_kb * 1024, p)
            bits == CeilDiv(need, p.serial_length)
<1>1. Answer11("min_alphabet_size", p) = Pow(bits)
  BY DEF Answer11, MinAlphabet, Pow
<1>2. Fits("min_alphabet_size", "min_alphabet_size", p, n) <=>
      \E b \in 0..16 : Pow(b) <= n /\ b * p.serial_length >= need
  BY DEF Fits, Pow
<1>3. bits \in 1..16
  OBVIOUS
<1>4. need \in Int /\ p.serial_length \in Nat \ {0}
  <2>1. p.memory_kb * 1024 \in Int /\ Positive(p, {"nums"})
    BY DEF Positive
  <2> QED BY <2>1, ShareFits DEF Positive
<1>. HIDE DEF need
<1>5. \A b \in 0..16 : b * p.serial_length >= need <=> bits <= b
  <2>1. ASSUME NEW b \in 0..16 PROVE b * p.serial_length >= need <=> bits <= b
    <3>1. \A k \in Int : need <= k * p.serial_length <=> CeilDiv(need, p.serial_length) <= k
      BY <1>4, CeilFits
    <3>2. b \in Int /\ b * p.serial_length \in Int
      BY <1>4
    <3>3. need <= b * p.serial_length <=> bits <= b
      BY <3>1, <3>2
    <3>. HIDE DEF bits
    <3> QED BY <1>3, <1>4, <3>2, <3>3
  <2> QED BY <2>1
<1>. HIDE DEF bits
<1>6. \A b \in 0..16 : Pow(b) \in Nat \ {0} /\ (bits < b => Pow(bits) < Pow(b))
  BY <1>3, PowersGrow
<1>7. Pow(bits) \in Nat \ {0} /\ Pow(bits) <= 65536
  BY <1>3, <1>6, Powers
<1>8. (\E b \in 0..16 : Pow(b) <= n /\ bits <= b) <=> Pow(bits) <= n
  BY <1>3, <1>6
<1> QED BY <1>1, <1>2, <1>5, <1>7, <1>8

LEMMA MinLengthFits ==
    ASSUME NEW p, Positive(p, {"nums"}), p.memory_mb \in Nat, Alphabet(p.alphabet_size),
           NEW n \in Nat
    PROVE  LET answer == Answer11("min_serial_length", p) IN
           /\ answer \in Int
           /\ Fits("min_serial_length", "min_serial_length", p, n) <=> answer <= n
<1>. DEFINE need == 8 * ShareUp(p.memory_mb * 1048576, p)
            bits == BitsPerSymbol(p.alphabet_size)
<1>1. /\ Answer11("min_serial_length", p) = CeilDiv(need, bits)
      /\ Fits("min_serial_length", "min_serial_length", p, n) <=> n * bits >= need
  BY DEF Answer11, Fits
<1>2. need \in Int /\ bits \in Nat \ {0}
  <2>1. p.memory_mb * 1048576 \in Int
    OBVIOUS
  <2> QED BY <2>1, ShareFits, BitsType DEF Alphabet
<1>. HIDE DEF need, bits
<1>3. CeilDiv(need, bits) \in Int /\ (need <= n * bits <=> CeilDiv(need, bits) <= n)
  BY <1>2, CeilFits
<1>4. n * bits \in Int
  BY <1>2
<1> QED BY <1>1, <1>2, <1>3, <1>4

-----------------------------------------------------------------------------
(* What is drawn *)

(* The task with parameters p, the reference answer among them, passes     *)
(* every check, and the answer solves it.                                  *)
Solved(subtype, target, p) ==
    /\ Fits(subtype, target, p, p[target])
    /\ ~InexactDraw(subtype, p) => ~Fits(subtype, target, p, Beyond(subtype, target, p[target]))

Right(subtype, target, p) ==
    /\ target \in DOMAIN p /\ NumericKeys(subtype) \subseteq DOMAIN p
    /\ \A k \in NumericKeys(subtype) \ {"compression_ratio"} : p[k] >= 0
    /\ p[target] \in Int /\ p[target] > 0 /\ p[target] <= MaxReferenceAnswer
    /\ CalculateAnswer(subtype, target, p) = p[target]
    /\ Solved(subtype, target, p)

(* Where what fits goes up to the answer, or from the answer on, the       *)
(* answer solves the task.                                                 *)
LEMMA GreatestSolves ==
    ASSUME NEW subtype, NEW target, NEW p,
           ~AsksForLeast(subtype, target), p[target] \in Int, p[target] > 0,
           \A n \in Nat : Fits(subtype, target, p, n) <=> n <= p[target]
    PROVE  Solved(subtype, target, p)
BY DEF Solved, Beyond

LEMMA LeastSolves ==
    ASSUME NEW subtype, NEW target, NEW p,
           AsksForLeast(subtype, target), p[target] \in Int, p[target] > 0,
           \A n \in Nat : Fits(subtype, target, p, n) <=> p[target] <= n
    PROVE  Solved(subtype, target, p)
<1>1. p[target] \in Nat /\ p[target] - 1 \in Nat
  OBVIOUS
<1>2. Fits(subtype, target, p, p[target]) /\ ~Fits(subtype, target, p, p[target] - 1)
  BY <1>1
<1> QED BY <1>2 DEF Solved, Beyond

LEMMA QuotientBounds ==
    ASSUME NEW a \in Nat, NEW b \in Nat \ {0}
    PROVE  /\ b <= a => a \div b > 0
           /\ a \div b \in Int /\ a \div b <= a
           /\ a > 0 => CeilDiv(a, b) > 0
           /\ CeilDiv(a, b) \in Int /\ CeilDiv(a, b) <= a
<1>1. /\ 1 * b <= a <=> 1 <= a \div b
      /\ (a + 1) * b <= a <=> a + 1 <= a \div b
      /\ a <= 0 * b <=> CeilDiv(a, b) <= 0
      /\ a <= a * b <=> CeilDiv(a, b) <= a
      /\ a \div b \in Int /\ CeilDiv(a, b) \in Int
  <2>1. /\ 1 * b <= a <=> 1 <= a \div b
        /\ (a + 1) * b <= a <=> a + 1 <= a \div b
        /\ a \div b \in Int
    BY FloorFits
  <2>2. /\ a <= 0 * b <=> CeilDiv(a, b) <= 0
        /\ a <= a * b <=> CeilDiv(a, b) <= a
        /\ CeilDiv(a, b) \in Int
    BY CeilFits
  <2> QED BY <2>1, <2>2
<1>2. a <= a * b /\ ~((a + 1) * b <= a)
  <2>1. b - 1 \in Nat /\ a * b = a + a * (b - 1) /\ (a + 1) * b = a * b + b
    OBVIOUS
  <2>2. a * (b - 1) \in Nat
    BY <2>1
  <2> QED BY <2>1, <2>2
<1> QED BY <1>1, <1>2

LEMMA ImageSizeRight ==
    ASSUME NEW d \in ImageSizeDraws, NEW p,
           p = With(d, "image_size_kb", Answer7("image_size", "image_size_kb", d))
    PROVE  Right("image_size", "image_size_kb", p)
<1>1. /\ DOMAIN p = {"width", "height", "bits_per_pixel", "image_size_kb"}
      /\ p.width = d.width /\ p.height = d.height /\ p.bits_per_pixel = d.bits_per_pixel
      /\ p.image_size_kb = Answer7("image_size", "image_size_kb", d)
      /\ p.width \in {512, 640, 800, 1024} /\ p.height \in {384, 480, 600, 768}
      /\ p.bits_per_pixel \in {8, 16, 24, 32}
  BY DEF ImageSizeDraws, With
<1>2. p.image_size_kb = Answer7("image_size", "image_size_kb", p)
  BY <1>1 DEF Answer7, ImageBits
<1>3. /\ p.image_size_kb \in Int /\ p.image_size_kb > 0
      /\ p.image_size_kb <= MaxReferenceAnswer
  BY <1>1, <1>2 DEF Answer7, ImageBits, MaxReferenceAnswer
<1>4. Solved("image_size", "image_size_kb", p)
  <2>1. \A n \in Nat : Fits("image_size", "image_size_kb", p, n) <=> n <= p.image_size_kb
    BY <1>1, <1>2, ImageSizeFits DEF Positive
  <2> QED BY <1>3, <2>1, GreatestSolves DEF AsksForLeast, LeastTargets
<1>5. CalculateAnswer("image_size", "image_size_kb", p) = p.image_size_kb
  BY <1>2 DEF CalculateAnswer, Recompute7, Subtypes7
<1> QED BY <1>1, <1>3, <1>4, <1>5 DEF Right, NumericKeys, NumericKeys7, Subtypes7

LEMMA PaletteRight ==
    ASSUME NEW d \in ColorsCountDraws, NEW p,
           p = With(d, "palette_colors", Answer7("colors_count", "palette_colors", d))
    PROVE  Right("colors_count", "palette_colors", p)
<1>1. /\ DOMAIN p = {"width", "height", "image_size_kb", "palette_colors"}
      /\ p.width = d.width /\ p.height = d.height /\ p.image_size_kb = d.image_size_kb
      /\ p.palette_colors = Answer7("colors_count", "palette_colors", d)
      /\ p.width \in {512, 768, 1024} /\ p.height \in {384, 576, 768}
      /\ p.image_size_kb \in {100, 200, 500}
  BY DEF ColorsCountDraws, With
<1>2. p.palette_colors = Answer7("colors_count", "palette_colors", p)
  BY <1>1 DEF Answer7
<1>3. (p.image_size_kb * 8192) \div (p.width * p.height) \in 0..24
  BY <1>1
<1>4. /\ p.palette_colors \in Int /\ p.palette_colors > 0
      /\ p.palette_colors <= MaxReferenceAnswer
  <2>1. p.palette_colors = Pow((p.image_size_kb * 8192) \div (p.width * p.height))
    BY <1>2 DEF Answer7, Pow
  <2>2. \A k \in 0..24 : Pow(k) \in Nat \ {0} /\ (k < 24 => Pow(k) < Pow(24))
    BY PowersGrow
  <2> QED BY <1>3, <2>1, <2>2, Powers DEF MaxReferenceAnswer
<1>5. Solved("colors_count", "palette_colors", p)
  <2>1. \A n \in Nat :
           Fits("colors_count", "palette_colors", p, n) <=> n <= p.palette_colors
    BY <1>1, <1>3, <1>2, PaletteFits DEF Positive
  <2> QED BY <1>4, <2>1, GreatestSolves DEF AsksForLeast, LeastTargets
<1>6. CalculateAnswer("colors_count", "palette_colors", p) = p.palette_colors
  BY <1>2 DEF CalculateAnswer, Recompute7, Subtypes7
<1> QED BY <1>1, <1>4, <1>5, <1>6 DEF Right, NumericKeys, NumericKeys7, Subtypes7

LEMMA SelfDurationRight ==
    ASSUME NEW d \in SoundSelfDurationDraws, NEW p,
           p = With(d, "duration_sec", Answer7("sound_self_duration", "duration_sec", d))
    PROVE  Right("sound_self_duration", "duration_sec", p)
<1>1. /\ DOMAIN p = {"channels", "bit_depth", "sample_rate_hz", "file_size_kb",
                      "duration_sec"}
      /\ p.channels = d.channels /\ p.bit_depth = d.bit_depth
      /\ p.sample_rate_hz = d.sample_rate_hz /\ p.file_size_kb = d.file_size_kb
      /\ p.duration_sec = Answer7("sound_self_duration", "duration_sec", d)
      /\ p.channels \in {1, 2, 4} /\ p.bit_depth \in {8, 16, 24}
      /\ p.sample_rate_hz \in {22050, 44100, 48000}
      /\ p.file_size_kb \in {2048, 4096, 8192}
  BY DEF SoundSelfDurationDraws, With
<1>2. p.duration_sec = Answer7("sound_self_duration", "duration_sec", p)
  BY <1>1 DEF Answer7, SoundRate
<1>3. SoundRate(p) \in Nat /\ 1 <= SoundRate(p) /\ SoundRate(p) <= 4608000
  BY <1>1 DEF SoundRate
<1>4. p.duration_sec \in Int /\ p.duration_sec > 0 /\ p.duration_sec <= MaxReferenceAnswer
  BY <1>1, <1>2, <1>3, QuotientBounds DEF Answer7, MaxReferenceAnswer
<1>5. Solved("sound_self_duration", "duration_sec", p)
  <2>1. \A n \in Nat :
           Fits("sound_self_duration", "duration_sec", p, n) <=> n <= p.duration_sec
    BY <1>1, <1>2, SelfDurationFits DEF Positive
  <2> QED BY <1>4, <2>1, GreatestSolves DEF AsksForLeast, LeastTargets
<1>6. CalculateAnswer("sound_self_duration", "duration_sec", p) = p.duration_sec
  BY <1>2 DEF CalculateAnswer, Recompute7, Subtypes7
<1> QED BY <1>1, <1>4, <1>5, <1>6 DEF Right, NumericKeys, NumericKeys7, Subtypes7

LEMMA PacketDrawn ==
    ASSUME NEW d \in PacketSizeDraws("packet_mb")
    PROVE  /\ DOMAIN d = {"width", "height", "bits_per_pixel", "images_per_packet"}
           /\ d.width \in {640, 800, 1024, 1280, 1920}
           /\ d.height \in {480, 600, 720, 960, 1080} /\ d.bits_per_pixel \in {16, 24}
           /\ d.images_per_packet \in {100, 200, 400, 500}
<1>1. PICK f \in Frames, n \in {100, 200, 400, 500} : d = With(f, "images_per_packet", n)
  BY DEF PacketSizeDraws
<1> QED BY <1>1 DEF With, Frames

LEMMA PacketRight ==
    ASSUME NEW d \in PacketSizeDraws("packet_mb"), NEW p,
           p = With(d, "packet_mb", Answer7("packet_size", "packet_mb", d))
    PROVE  Right("packet_size", "packet_mb", p)
<1>1. /\ DOMAIN p = {"width", "height", "bits_per_pixel", "images_per_packet",
                      "packet_mb"}
      /\ p.width = d.width /\ p.height = d.height /\ p.bits_per_pixel = d.bits_per_pixel
      /\ p.images_per_packet = d.images_per_packet
      /\ p.packet_mb = Answer7("packet_size", "packet_mb", d)
      /\ p.width \in {640, 800, 1024, 1280, 1920}
      /\ p.height \in {480, 600, 720, 960, 1080} /\ p.bits_per_pixel \in {16, 24}
      /\ p.images_per_packet \in {100, 200, 400, 500}
  BY PacketDrawn DEF With
<1>2. FrameUnits(p) = FrameUnits(d)
  BY <1>1 DEF FrameUnits, ImageBits
<1>3. FrameUnits(p) \in Nat /\ 2400 <= FrameUnits(p) /\ FrameUnits(p) <= 24300
  BY <1>1 DEF FrameUnits, ImageBits
<1>4. p.packet_mb = Answer7("packet_size", "packet_mb", p)
  BY <1>1, <1>2 DEF Answer7
<1>5. /\ FrameUnits(p) * p.images_per_packet \in Nat
      /\ 0 < FrameUnits(p) * p.images_per_packet
      /\ FrameUnits(p) * p.images_per_packet <= 12150000
  BY <1>1, <1>3
<1>6. p.packet_mb \in Int /\ p.packet_mb > 0 /\ p.packet_mb <= MaxReferenceAnswer
  BY <1>4, <1>5, QuotientBounds DEF Answer7, MaxReferenceAnswer
<1>7. Solved("packet_size", "packet_mb", p)
  <2>1. \A n \in Nat : Fits("packet_size", "packet_mb", p, n) <=> p.packet_mb <= n
    BY <1>1, <1>3, <1>4, PacketFits DEF Positive
  <2> QED BY <1>6, <2>1, LeastSolves DEF AsksForLeast, LeastTargets
<1>8. CalculateAnswer("packet_size", "packet_mb", p) = p.packet_mb
  BY <1>4 DEF CalculateAnswer, Recompute7, Subtypes7
<1> QED BY <1>1, <1>6, <1>7, <1>8 DEF Right, NumericKeys, NumericKeys7, Subtypes7

LEMMA ImagesPerPacketDrawn ==
    ASSUME NEW d \in PacketSizeDraws("images_per_packet")
    PROVE  /\ DOMAIN d = {"width", "height", "bits_per_pixel", "packet_mb"}
           /\ d.width \in {640, 800, 1024, 1280, 1920}
           /\ d.height \in {480, 600, 720, 960, 1080} /\ d.bits_per_pixel \in {16, 24}
           /\ d.packet_mb \in {10, 20, 50, 100}
<1>1. PICK f \in Frames, n \in {10, 20, 50, 100} : d = With(f, "packet_mb", n)
  BY DEF PacketSizeDraws
<1> QED BY <1>1 DEF With, Frames

LEMMA ImagesPerPacketRight ==
    ASSUME NEW d \in PacketSizeDraws("images_per_packet"), NEW p,
           p = With(d, "images_per_packet", Answer7("packet_size", "images_per_packet", d))
    PROVE  Right("packet_size", "images_per_packet", p)
<1>1. /\ DOMAIN p = {"width", "height", "bits_per_pixel", "packet_mb",
                      "images_per_packet"}
      /\ p.width = d.width /\ p.height = d.height /\ p.bits_per_pixel = d.bits_per_pixel
      /\ p.packet_mb = d.packet_mb
      /\ p.images_per_packet = Answer7("packet_size", "images_per_packet", d)
      /\ p.width \in {640, 800, 1024, 1280, 1920}
      /\ p.height \in {480, 600, 720, 960, 1080} /\ p.bits_per_pixel \in {16, 24}
      /\ p.packet_mb \in {10, 20, 50, 100}
  BY ImagesPerPacketDrawn DEF With
<1>2. FrameUnits(p) = FrameUnits(d)
  BY <1>1 DEF FrameUnits, ImageBits
<1>3. FrameUnits(p) \in Nat /\ 2400 <= FrameUnits(p) /\ FrameUnits(p) <= 24300
  BY <1>1 DEF FrameUnits, ImageBits
<1>4. p.images_per_packet = Answer7("packet_size", "images_per_packet", p)
  BY <1>1, <1>2 DEF Answer7
<1>5. /\ p.packet_mb * 4096 \in Nat /\ 40960 <= p.packet_mb * 4096
      /\ p.packet_mb * 4096 <= 409600
  BY <1>1
<1>6. /\ p.images_per_packet \in Int /\ p.images_per_packet > 0
      /\ p.images_per_packet <= MaxReferenceAnswer
  BY <1>4, <1>3, <1>5, QuotientBounds DEF Answer7, MaxReferenceAnswer
<1>7. Solved("packet_size", "images_per_packet", p)
  <2>1. \A n \in Nat :
           Fits("packet_size", "images_per_packet", p, n) <=> n <= p.images_per_packet
    BY <1>1, <1>3, <1>4, ImagesPerPacketFits DEF Positive
  <2> QED BY <1>6, <2>1, GreatestSolves DEF AsksForLeast, LeastTargets
<1>8. CalculateAnswer("packet_size", "images_per_packet", p) = p.images_per_packet
  BY <1>4 DEF CalculateAnswer, Recompute7, Subtypes7
<1> QED BY <1>1, <1>6, <1>7, <1>8 DEF Right, NumericKeys, NumericKeys7, Subtypes7

LEMMA TransmitTimeDrawn ==
    ASSUME NEW d \in SoundDurationDraws("transmit_time_sec")
    PROVE  /\ DOMAIN d = {"channels", "bit_depth", "sample_rate_hz",
                          "speed_bits_per_sec", "duration_sec"}
           /\ d.channels \in {1, 2, 4} /\ d.bit_depth \in {8, 12, 16, 18, 24}
           /\ d.sample_rate_hz \in {44100, 48000, 64000}
           /\ d.speed_bits_per_sec \in {128000, 192000, 204000, 256000}
           /\ d.duration_sec \in {30, 60, 68, 90, 120}
<1>1. PICK f \in Sounds, n \in {30, 60, 68, 90, 120} : d = With(f, "duration_sec", n)
  BY DEF SoundDurationDraws
<1> QED BY <1>1 DEF With, Sounds

LEMMA TransmitTimeRight ==
    ASSUME NEW d \in SoundDurationDraws("transmit_time_sec"), NEW p,
           p = With(d, "transmit_time_sec", Answer7("sound_duration", "transmit_time_sec", d))
    PROVE  Right("sound_duration", "transmit_time_sec", p)
<1>1. /\ DOMAIN p = {"channels", "bit_depth", "sample_rate_hz", "speed_bits_per_sec",
                      "duration_sec", "transmit_time_sec"}
      /\ p.channels = d.channels /\ p.bit_depth = d.bit_depth
      /\ p.sample_rate_hz = d.sample_rate_hz
      /\ p.speed_bits_per_sec = d.speed_bits_per_sec /\ p.duration_sec = d.duration_sec
      /\ p.transmit_time_sec = Answer7("sound_duration", "transmit_time_sec", d)
      /\ p.channels \in {1, 2, 4} /\ p.bit_depth \in {8, 12, 16, 18, 24}
      /\ p.sample_rate_hz \in {44100, 48000, 64000}
      /\ p.speed_bits_per_sec \in {128000, 192000, 204000, 256000}
      /\ p.duration_sec \in {30, 60, 68, 90, 120}
  BY TransmitTimeDrawn DEF With
<1>2. SoundRate(p) = SoundRate(d)
  BY <1>1 DEF SoundRate
<1>3. SoundRate(p) \in Nat /\ 1 <= SoundRate(p) /\ SoundRate(p) <= 6144000
  BY <1>1 DEF SoundRate
<1>4. p.transmit_time_sec = Answer7("sound_duration", "transmit_time_sec", p)
  BY <1>1, <1>2 DEF Answer7
<1>5. /\ SoundRate(p) * p.duration_sec \in Nat /\ 0 < SoundRate(p) * p.duration_sec
      /\ SoundRate(p) * p.duration_sec <= 737280000
  BY <1>1, <1>3
<1>6. /\ p.transmit_time_sec \in Int /\ p.transmit_time_sec > 0
      /\ p.transmit_time_sec <= MaxReferenceAnswer
  BY <1>1, <1>4, <1>5, QuotientBounds DEF Answer7, MaxReferenceAnswer
<1>7. Solved("sound_duration", "transmit_time_sec", p)
  <2>1. \A n \in Nat :
           Fits("sound_duration", "transmit_time_sec", p, n) <=> p.transmit_time_sec <= n
    BY <1>1, <1>4, TransmitTimeFits DEF Positive
  <2> QED BY <1>6, <2>1, LeastSolves DEF AsksForLeast, LeastTargets
<1>8. CalculateAnswer("sound_duration", "transmit_time_sec", p) = p.transmit_time_sec
  BY <1>4 DEF CalculateAnswer, Recompute7, Subtypes7
<1> QED BY <1>1, <1>6, <1>7, <1>8 DEF Right, NumericKeys, NumericKeys7, Subtypes7

LEMMA DurationDrawn ==
    ASSUME NEW d \in SoundDurationDraws("duration_sec")
    PROVE  /\ DOMAIN d = {"channels", "bit_depth", "sample_rate_hz",
                          "speed_bits_per_sec", "transmit_time_sec"}
           /\ d.channels \in {1, 2, 4} /\ d.bit_depth \in {8, 12, 16, 18, 24}
           /\ d.sample_rate_hz \in {44100, 48000, 64000}
           /\ d.speed_bits_per_sec \in {128000, 192000, 204000, 256000}
           /\ d.transmit_time_sec \in {60, 90, 120, 180}
<1>1. PICK f \in Sounds, n \in {60, 90, 120, 180} : d = With(f, "transmit_time_sec", n)
  BY DEF SoundDurationDraws
<1> QED BY <1>1 DEF With, Sounds

LEMMA DurationRight ==
    ASSUME NEW d \in SoundDurationDraws("duration_sec"), NEW p,
           p = With(d, "duration_sec", Answer7("sound_duration", "duration_sec", d))
    PROVE  Right("sound_duration", "duration_sec", p)
<1>1. /\ DOMAIN p = {"channels", "bit_depth", "sample_rate_hz", "speed_bits_per_sec",
                      "transmit_time_sec", "duration_sec"}
      /\ p.channels = d.channels /\ p.bit_depth = d.bit_depth
      /\ p.sample_rate_hz = d.sample_rate_hz
      /\ p.speed_bits_per_sec = d.speed_bits_per_sec
      /\ p.transmit_time_sec = d.transmit_time_sec
      /\ p.duration_sec = Answer7("sound_duration", "duration_sec", d)
      /\ p.channels \in {1, 2, 4} /\ p.bit_depth \in {8, 12, 16, 18, 24}
      /\ p.sample_rate_hz \in {44100, 48000, 64000}
      /\ p.speed_bits_per_sec \in {128000, 192000, 204000, 256000}
      /\ p.transmit_time_sec \in {60, 90, 120, 180}
  BY DurationDrawn DEF With
<1>2. SoundRate(p) = SoundRate(d)
  BY <1>1 DEF SoundRate
<1>3. SoundRate(p) \in Nat /\ 1 <= SoundRate(p) /\ SoundRate(p) <= 6144000
  BY <1>1 DEF SoundRate
<1>4. p.duration_sec = Answer7("sound_duration", "duration_sec", p)
  BY <1>1, <1>2 DEF Answer7
<1>5. /\ p.transmit_time_sec * p.speed_bits_per_sec \in Nat
      /\ 7680000 <= p.transmit_time_sec * p.speed_bits_per_sec
      /\ p.transmit_time_sec * p.speed_bits_per_sec <= 46080000
  BY <1>1
<1>6. p.duration_sec \in Int /\ p.duration_sec > 0 /\ p.duration_sec <= MaxReferenceAnswer
  BY <1>4, <1>3, <1>5, QuotientBounds DEF Answer7, MaxReferenceAnswer
<1>7. Solved("sound_duration", "duration_sec", p)
  <2>1. \A n \in Nat : Fits("sound_duration", "duration_sec", p, n) <=> n <= p.duration_sec
    BY <1>1, <1>4, DurationFits DEF Positive
  <2> QED BY <1>6, <2>1, GreatestSolves DEF AsksForLeast, LeastTargets
<1>8. CalculateAnswer("sound_duration", "duration_sec", p) = p.duration_sec
  BY <1>4 DEF CalculateAnswer, Recompute7, Subtypes7
<1> QED BY <1>1, <1>6, <1>7, <1>8 DEF Right, NumericKeys, NumericKeys7, Subtypes7

LEMMA PhotoUnitsBounds ==
    ASSUME NEW p, p.width \in {1920, 2560, 3840}, p.height \in {1080, 1440, 2160},
           p.bits_per_pixel \in {16, 24, 30}, p.compression_ratio \in {30, 35, 40},
           p.service_overhead_kb \in {64, 80, 120, 256}
    PROVE  PhotoUnits(p) \in Nat /\ 204640 <= PhotoUnits(p) /\ PhotoUnits(p) <= 1984960
<1>. DEFINE blocks == (p.width * p.height) \div 1024
<1>1. blocks \in Nat /\ 2025 <= blocks /\ blocks <= 8100
  OBVIOUS
<1>. HIDE DEF blocks
<1>2. /\ blocks * p.bits_per_pixel \in Nat
      /\ 32400 <= blocks * p.bits_per_pixel /\ blocks * p.bits_per_pixel <= 243000
  BY <1>1
<1>3. p.compression_ratio \div 5 \in {6, 7, 8}
  OBVIOUS
<1>4. PhotoUnits(p) =
        (blocks * p.bits_per_pixel) * (p.compression_ratio \div 5) + 160 * p.service_overhead_kb
  BY DEF PhotoUnits, blocks
<1> QED BY <1>2, <1>3, <1>4

LEMMA ImagesOnCardsBounds ==
    ASSUME NEW room \in Nat, 16777216 <= room, room <= 167772160,
           NEW size \in Nat, 204640 <= size, size <= 1984960
    PROVE  LET answer == MulDiv(room, 160, size) IN
           answer \in Int /\ answer > 0 /\ answer <= MaxReferenceAnswer
<1>1. size \in Nat \ {0} /\ 160 \in Nat
  OBVIOUS
<1>2. MulDiv(room, 160, size) \in Int /\ (1 * size <= room * 160 <=> 1 <= MulDiv(room, 160, size))
  BY <1>1, MulDivFits
<1>3. 131175 * size <= room * 160 <=> 131175 <= MulDiv(room, 160, size)
  BY <1>1, MulDivFits
<1>. DEFINE answer == MulDiv(room, 160, size)
<1>. HIDE DEF answer
<1>4. 1 <= answer /\ answer < 131175
  BY <1>2, <1>3 DEF answer
<1> QED BY <1>2, <1>4 DEF answer, MaxReferenceAnswer

LEMMA CardsDrawn ==
    ASSUME NEW d \in CardsCountDraws("cards_needed")
    PROVE  /\ DOMAIN d = {"width", "height", "bits_per_pixel", "compression_ratio",
                          "service_overhead_kb", "card_capacity_gb", "images_count"}
           /\ d.width \in {1920, 2560, 3840} /\ d.height \in {1080, 1440, 2160}
           /\ d.bits_per_pixel \in {16, 24, 30} /\ d.compression_ratio \in {30, 35, 40}
           /\ d.service_overhead_kb \in {64, 80, 120, 256}
           /\ d.card_capacity_gb \in {8, 16, 20, 32}
           /\ d.images_count \in {1000, 2000, 4320, 5000}
<1>1. PICK f \in Photos, n \in {1000, 2000, 4320, 5000} : d = With(f, "images_count", n)
  BY DEF CardsCountDraws
<1> QED BY <1>1 DEF With, Photos

LEMMA CardsRight ==
    ASSUME NEW d \in CardsCountDraws("cards_needed"), NEW p,
           p = With(d, "cards_needed", Answer7("cards_count", "cards_needed", d))
    PROVE  Right("cards_count", "cards_needed", p)
<1>1. /\ DOMAIN p = {"width", "height", "bits_per_pixel", "compression_ratio",
                      "service_overhead_kb", "card_capacity_gb", "images_count",
                      "cards_needed"}
      /\ p.width = d.width /\ p.height = d.height /\ p.bits_per_pixel = d.bits_per_pixel
      /\ p.compression_ratio = d.compression_ratio
      /\ p.service_overhead_kb = d.service_overhead_kb
      /\ p.card_capacity_gb = d.card_capacity_gb /\ p.images_count = d.images_count
      /\ p.cards_needed = Answer7("cards_count", "cards_needed", d)
      /\ p.width \in {1920, 2560, 3840} /\ p.height \in {1080, 1440, 2160}
      /\ p.bits_per_pixel \in {16, 24, 30} /\ p.compression_ratio \in {30, 35, 40}
      /\ p.service_overhead_kb \in {64, 80, 120, 256}
      /\ p.card_capacity_gb \in {8, 16, 20, 32}
      /\ p.images_count \in {1000, 2000, 4320, 5000}
  BY CardsDrawn DEF With
<1>2. PhotoUnits(p) = PhotoUnits(d) /\ CardsKb(p) = CardsKb(d)
  BY <1>1 DEF PhotoUnits, CardsKb
<1>3. /\ PhotoUnits(p) \in Nat /\ 204640 <= PhotoUnits(p) /\ PhotoUnits(p) <= 1984960
      /\ CardsKb(p) \in Nat /\ 8388608 <= CardsKb(p) /\ CardsKb(p) <= 33554432
  BY <1>1, PhotoUnitsBounds DEF CardsKb
<1>4. p.cards_needed = Answer7("cards_count", "cards_needed", p)
  BY <1>1, <1>2 DEF Answer7
<1>5. /\ PhotoUnits(p) * (p.images_count \div 40) \in Nat
      /\ 0 < PhotoUnits(p) * (p.images_count \div 40)
      /\ PhotoUnits(p) * (p.images_count \div 40) <= 248120000
  <2>1. p.images_count \div 40 \in {25, 50, 108, 125}
    BY <1>1
  <2> QED BY <1>3, <2>1
<1>6. LET kb == CeilDiv(PhotoUnits(p) * (p.images_count \div 40), 4) IN
      kb \in Nat \ {0} /\ kb <= 248120000
  BY <1>5, QuotientBounds
<1>7. p.cards_needed \in Int /\ p.cards_needed > 0 /\ p.cards_needed <= MaxReferenceAnswer
  BY <1>4, <1>3, <1>6, QuotientBounds DEF Answer7, MaxReferenceAnswer
<1>8. Solved("cards_count", "cards_needed", p)
  <2>1. \A n \in Nat : Fits("cards_count", "cards_needed", p, n) <=> p.cards_needed <= n
    BY <1>1, <1>3, <1>4, CardsFit DEF Positive
  <2> QED BY <1>7, <2>1, LeastSolves DEF AsksForLeast, LeastTargets
<1>9. CalculateAnswer("cards_count", "cards_needed", p) = p.cards_needed
  BY <1>4 DEF CalculateAnswer, Recompute7, Subtypes7
<1> QED BY <1>1, <1>7, <1>8, <1>9 DEF Right, NumericKeys, NumericKeys7, Subtypes7

LEMMA ImagesOnCardsDrawn ==
    ASSUME NEW d \in CardsCountDraws("images_count")
    PROVE  /\ DOMAIN d = {"width", "height", "bits_per_pixel", "compression_ratio",
                          "service_overhead_kb", "card_capacity_gb", "cards_needed"}
           /\ d.width \in {1920, 2560, 3840} /\ d.height \in {1080, 1440, 2160}
           /\ d.bits_per_pixel \in {16, 24, 30} /\ d.compression_ratio \in {30, 35, 40}
           /\ d.service_overhead_kb \in {64, 80, 120, 256}
           /\ d.card_capacity_gb \in {8, 16, 20, 32} /\ d.cards_needed \in {2, 3, 4, 5}
<1>1. PICK f \in Photos, n \in {2, 3, 4, 5} : d = With(f, "cards_needed", n)
  BY DEF CardsCountDraws
<1> QED BY <1>1 DEF With, Photos

LEMMA ImagesOnCardsRight ==
    ASSUME NEW d \in CardsCountDraws("images_count"), NEW p,
           p = With(d, "images_count", Answer7("cards_count", "images_count", d))
    PROVE  Right("cards_count", "images_count", p)
<1>1. /\ DOMAIN p = {"width", "height", "bits_per_pixel", "compression_ratio",
                      "service_overhead_kb", "card_capacity_gb", "cards_needed",
                      "images_count"}
      /\ p.width = d.width /\ p.height = d.height /\ p.bits_per_pixel = d.bits_per_pixel
      /\ p.compression_ratio = d.compression_ratio
      /\ p.service_overhead_kb = d.service_overhead_kb
      /\ p.card_capacity_gb = d.card_capacity_gb /\ p.cards_needed = d.cards_needed
      /\ p.images_count = Answer7("cards_count", "images_count", d)
      /\ p.width \in {1920, 2560, 3840} /\ p.height \in {1080, 1440, 2160}
      /\ p.bits_per_pixel \in {16, 24, 30} /\ p.compression_ratio \in {30, 35, 40}
      /\ p.service_overhead_kb \in {64, 80, 120, 256}
      /\ p.card_capacity_gb \in {8, 16, 20, 32} /\ p.cards_needed \in {2, 3, 4, 5}
  BY ImagesOnCardsDrawn DEF With
<1>2. PhotoUnits(p) = PhotoUnits(d) /\ CardsKb(p) = CardsKb(d)
  BY <1>1 DEF PhotoUnits, CardsKb
<1>3. /\ PhotoUnits(p) \in Nat /\ 204640 <= PhotoUnits(p) /\ PhotoUnits(p) <= 1984960
      /\ CardsKb(p) \in Nat /\ 8388608 <= CardsKb(p) /\ CardsKb(p) <= 33554432
  BY <1>1, PhotoUnitsBounds DEF CardsKb
<1>4. p.images_count = Answer7("cards_count", "images_count", p)
  BY <1>1, <1>2 DEF Answer7
<1>5. /\ p.cards_needed * CardsKb(p) \in Nat
      /\ 16777216 <= p.cards_needed * CardsKb(p)
      /\ p.cards_needed * CardsKb(p) <= 167772160
  BY <1>1, <1>3
<1>6. p.images_count \in Int /\ p.images_count > 0 /\ p.images_count <= MaxReferenceAnswer
  BY <1>4, <1>3, <1>5, ImagesOnCardsBounds DEF Answer7
<1>7. Solved("cards_count", "images_count", p)
  <2>1. \A n \in Nat : Fits("cards_count", "images_count", p, n) <=> n <= p.images_count
    BY <1>1, <1>3, <1>4, ImagesOnCardsFit DEF Positive
  <2> QED BY <1>6, <2>1, GreatestSolves DEF AsksForLeast, LeastTargets
<1>8. CalculateAnswer("cards_count", "images_count", p) = p.images_count
  BY <1>4 DEF CalculateAnswer, Recompute7, Subtypes7
<1> QED BY <1>1, <1>6, <1>7, <1>8 DEF Right, NumericKeys, NumericKeys7, Subtypes7

(* The images are multiples of a quarter of a kilobyte, so subtracting     *)
(* before or after the division makes no difference.                       *)
LEMMA SavedUnits ==
    ASSUME NEW p, p.orig_width \in {1920, 2560}, p.orig_height \in {1080, 1440},
           p.orig_bits_per_pixel \in {24, 30}, p.new_width \in {800, 1280, 1600},
           p.new_height \in {600, 720}, p.new_bits_per_pixel \in {16, 24}
    PROVE  /\ OrigUnits(p) - NewUnits(p) \in Nat
           /\ 10800 <= OrigUnits(p) - NewUnits(p) /\ OrigUnits(p) - NewUnits(p) <= 50250
           /\ ( p.orig_width * p.orig_height * p.orig_bits_per_pixel
                - p.new_width * p.new_height * p.new_bits_per_pixel ) \div 2048
              = OrigUnits(p) - NewUnits(p)
<1>. DEFINE orig == p.orig_width * p.orig_height * p.orig_bits_per_pixel
            new == p.new_width * p.new_height * p.new_bits_per_pixel
<1>1. /\ orig = 2048 * OrigUnits(p) /\ OrigUnits(p) \in Nat
      /\ 24300 <= OrigUnits(p) /\ OrigUnits(p) <= 54000
  <2>1. p.orig_width * p.orig_height \in {2073600, 2764800, 3686400}
    OBVIOUS
  <2>. DEFINE pixels == p.orig_width * p.orig_height
  <2>2. OrigUnits(p) = (pixels * p.orig_bits_per_pixel) \div 2048
    BY DEF OrigUnits
  <2>. HIDE DEF pixels
  <2> QED BY <2>1, <2>2 DEF pixels
<1>2. /\ new = 2048 * NewUnits(p) /\ NewUnits(p) \in Nat
      /\ 3750 <= NewUnits(p) /\ NewUnits(p) <= 13500
  <2>1. p.new_width * p.new_height \in {480000, 576000, 768000, 921600, 960000, 1152000}
    OBVIOUS
  <2>. DEFINE pixels == p.new_width * p.new_height
  <2>2. NewUnits(p) = (pixels * p.new_bits_per_pixel) \div 2048
    BY DEF NewUnits
  <2>. HIDE DEF pixels
  <2> QED BY <2>1, <2>2 DEF pixels
<1>. HIDE DEF orig, new
<1>3. (orig - new) \div 2048 = OrigUnits(p) - NewUnits(p)
  <2>1. \A k \in Int : (2048 * k) \div 2048 = k
    OBVIOUS
  <2>2. orig - new = 2048 * (OrigUnits(p) - NewUnits(p))
    BY <1>1, <1>2
  <2> QED BY <1>1, <1>2, <2>1, <2>2
<1> QED BY <1>1, <1>2, <1>3 DEF orig, new

LEMMA SavedDrawn ==
    ASSUME NEW d \in TrafficSavingDraws("total_saved_kb")
    PROVE  /\ DOMAIN d = {"orig_width", "orig_height", "orig_bits_per_pixel",
                          "new_width", "new_height", "new_bits_per_pixel",
                          "images_count"}
           /\ d.orig_width \in {1920, 2560} /\ d.orig_height \in {1080, 1440}
           /\ d.orig_bits_per_pixel \in {24, 30} /\ d.new_width \in {800, 1280, 1600}
           /\ d.new_height \in {600, 720} /\ d.new_bits_per_pixel \in {16, 24}
           /\ d.images_count \in {50, 100, 200, 500}
<1>1. PICK f \in Replacements, n \in {50, 100, 200, 500} : d = With(f, "images_count", n)
  BY DEF TrafficSavingDraws
<1> QED BY <1>1 DEF With, Replacements

LEMMA SavedRight ==
    ASSUME NEW d \in TrafficSavingDraws("total_saved_kb"), NEW p,
           p = With(d, "total_saved_kb", Answer7("traffic_saving", "total_saved_kb", d))
    PROVE  Right("traffic_saving", "total_saved_kb", p)
<1>1. /\ DOMAIN p = {"orig_width", "orig_height", "orig_bits_per_pixel", "new_width",
                      "new_height", "new_bits_per_pixel", "images_count",
                      "total_saved_kb"}
      /\ p.orig_width = d.orig_width /\ p.orig_height = d.orig_height
      /\ p.orig_bits_per_pixel = d.orig_bits_per_pixel /\ p.new_width = d.new_width
      /\ p.new_height = d.new_height /\ p.new_bits_per_pixel = d.new_bits_per_pixel
      /\ p.images_count = d.images_count
      /\ p.total_saved_kb = Answer7("traffic_saving", "total_saved_kb", d)
      /\ p.orig_width \in {1920, 2560} /\ p.orig_height \in {1080, 1440}
      /\ p.orig_bits_per_pixel \in {24, 30} /\ p.new_width \in {800, 1280, 1600}
      /\ p.new_height \in {600, 720} /\ p.new_bits_per_pixel \in {16, 24}
      /\ p.images_count \in {50, 100, 200, 500}
  BY SavedDrawn DEF With
<1>2. OrigUnits(p) = OrigUnits(d) /\ NewUnits(p) = NewUnits(d)
  BY <1>1 DEF OrigUnits, NewUnits
<1>3. /\ OrigUnits(p) - NewUnits(p) \in Nat
      /\ 10800 <= OrigUnits(p) - NewUnits(p) /\ OrigUnits(p) - NewUnits(p) <= 50250
      /\ ( p.orig_width * p.orig_height * p.orig_bits_per_pixel
           - p.new_width * p.new_height * p.new_bits_per_pixel ) \div 2048
         = OrigUnits(p) - NewUnits(p)
  BY <1>1, SavedUnits
<1>4. p.total_saved_kb = Answer7("traffic_saving", "total_saved_kb", p)
  BY <1>1, <1>2 DEF Answer7, Saved
<1>5. LET units == (OrigUnits(p) - NewUnits(p)) * p.images_count IN
      units \in Nat /\ 4 <= units /\ units <= 25125000
  BY <1>1, <1>3
<1>6. /\ p.total_saved_kb \in Int /\ p.total_saved_kb > 0
      /\ p.total_saved_kb <= MaxReferenceAnswer
  BY <1>4, <1>5, QuotientBounds DEF Answer7, Saved, MaxReferenceAnswer
<1>7. Solved("traffic_saving", "total_saved_kb", p)
  <2>1. \A n \in Nat :
           Fits("traffic_saving", "total_saved_kb", p, n) <=> n <= p.total_saved_kb
    BY <1>1, <1>3, <1>4, SavedFits DEF Positive
  <2> QED BY <1>6, <2>1, GreatestSolves DEF AsksForLeast, LeastTargets
<1>8. CalculateAnswer("traffic_saving", "total_saved_kb", p) = p.total_saved_kb
  BY <1>4, <1>3 DEF CalculateAnswer, Recompute7, Answer7, Subtypes7
<1> QED BY <1>1, <1>6, <1>7, <1>8 DEF Right, NumericKeys, NumericKeys7, Subtypes7

LEMMA SavingImagesDrawn ==
    ASSUME NEW d \in TrafficSavingDraws("images_count")
    PROVE  /\ DOMAIN d = {"orig_width", "orig_height", "orig_bits_per_pixel",
                          "new_width", "new_height", "new_bits_per_pixel",
                          "total_saved_kb"}
           /\ d.orig_width \in {1920, 2560} /\ d.orig_height \in {1080, 1440}
           /\ d.orig_bits_per_pixel \in {24, 30} /\ d.new_width \in {800, 1280, 1600}
           /\ d.new_height \in {600, 720} /\ d.new_bits_per_pixel \in {16, 24}
           /\ d.total_saved_kb \in {20000, 50000, 100000}
<1>1. PICK f \in Replacements, n \in {20000, 50000, 100000} : d = With(f, "total_saved_kb", n)
  BY DEF TrafficSavingDraws
<1> QED BY <1>1 DEF With, Replacements

LEMMA SavingImagesRight ==
    ASSUME NEW d \in TrafficSavingDraws("images_count"), NEW p,
           p = With(d, "images_count", Answer7("traffic_saving", "images_count", d))
    PROVE  Right("traffic_saving", "images_count", p)
<1>1. /\ DOMAIN p = {"orig_width", "orig_height", "orig_bits_per_pixel", "new_width",
                      "new_height", "new_bits_per_pixel", "total_saved_kb",
                      "images_count"}
      /\ p.orig_width = d.orig_width /\ p.orig_height = d.orig_height
      /\ p.orig_bits_per_pixel = d.orig_bits_per_pixel /\ p.new_width = d.new_width
      /\ p.new_height = d.new_height /\ p.new_bits_per_pixel = d.new_bits_per_pixel
      /\ p.total_saved_kb = d.total_saved_kb
      /\ p.images_count = Answer7("traffic_saving", "images_count", d)
      /\ p.orig_width \in {1920, 2560} /\ p.orig_height \in {1080, 1440}
      /\ p.orig_bits_per_pixel \in {24, 30} /\ p.new_width \in {800, 1280, 1600}
      /\ p.new_height \in {600, 720} /\ p.new_bits_per_pixel \in {16, 24}
      /\ p.total_saved_kb \in {20000, 50000, 100000}
  BY SavingImagesDrawn DEF With
<1>2. OrigUnits(p) = OrigUnits(d) /\ NewUnits(p) = NewUnits(d)
  BY <1>1 DEF OrigUnits, NewUnits
<1>3. /\ OrigUnits(p) - NewUnits(p) \in Nat
      /\ 10800 <= OrigUnits(p) - NewUnits(p) /\ OrigUnits(p) - NewUnits(p) <= 50250
      /\ ( p.orig_width * p.orig_height * p.orig_bits_per_pixel
           - p.new_width * p.new_height * p.new_bits_per_pixel ) \div 2048
         = OrigUnits(p) - NewUnits(p)
  BY <1>1, SavedUnits
<1>4. p.images_count = Answer7("traffic_saving", "images_count", p)
  BY <1>1, <1>2 DEF Answer7
<1>5. 4 * p.total_saved_kb \in {80000, 200000, 400000}
  BY <1>1
<1>6. p.images_count \in Int /\ p.images_count > 0 /\ p.images_count <= MaxReferenceAnswer
  <2>. DEFINE saved == OrigUnits(p) - NewUnits(p)
              total == 4 * p.total_saved_kb
  <2>1. p.images_count = CeilDiv(total, saved)
    BY <1>4 DEF Answer7
  <2>2. saved \in Nat \ {0} /\ total \in Nat /\ total > 0 /\ total <= 400000
    BY <1>3, <1>5
  <2>. HIDE DEF saved, total
  <2>3. CeilDiv(total, saved) \in Int /\ CeilDiv(total, saved) > 0 /\ CeilDiv(total, saved) <= total
    BY <2>2, QuotientBounds
  <2> QED BY <2>1, <2>2, <2>3 DEF MaxReferenceAnswer
<1>7. Solved("traffic_saving", "images_count", p)
  <2>1. \A n \in Nat : Fits("traffic_saving", "images_count", p, n) <=> p.images_count <= n
    BY <1>1, <1>3, <1>4, SavingImagesFit DEF Positive
  <2> QED BY <1>6, <2>1, LeastSolves DEF AsksForLeast, LeastTargets
<1>8. CalculateAnswer("traffic_saving", "images_count", p) = p.images_count
  BY <1>4, <1>3 DEF CalculateAnswer, Recompute7, Answer7, Subtypes7
<1> QED BY <1>1, <1>6, <1>7, <1>8 DEF Right, NumericKeys, NumericKeys7, Subtypes7

LEMMA BitDepthRight ==
    ASSUME NEW d \in SoundBitDepthDraws, NEW p,
           p = With(d, "bit_depth", Answer7("sound_bit_depth", "bit_depth", d))
    PROVE  Right("sound_bit_depth", "bit_depth", p)
<1>1. /\ DOMAIN p = {"channels", "sample_rate_hz", "bandwidth_kb_per_sec",
                      "compression_ratio", "bit_depth"}
      /\ p.channels = d.channels /\ p.sample_rate_hz = d.sample_rate_hz
      /\ p.bandwidth_kb_per_sec = d.bandwidth_kb_per_sec
      /\ p.compression_ratio = d.compression_ratio
      /\ p.bit_depth = Answer7("sound_bit_depth", "bit_depth", d)
      /\ p.channels \in {1, 2, 4} /\ p.sample_rate_hz \in {240000, 124000, 96000, 64000}
      /\ p.bandwidth_kb_per_sec \in {168, 256, 512, 840}
      /\ p.compression_ratio \in {60, 70, 72, 75}
  BY DEF SoundBitDepthDraws, With
<1>2. BitDepth(p) = BitDepth(d)
  BY <1>1 DEF BitDepth, RoundedUp
<1>3. p.bit_depth = Answer7("sound_bit_depth", "bit_depth", p)
  BY <1>1, <1>2 DEF Answer7
<1>4. p.bit_depth \in Int /\ p.bit_depth > 0 /\ p.bit_depth <= MaxReferenceAnswer
  <2>. DEFINE bandwidth == p.bandwidth_kb_per_sec * 1024 * 8 * 100
              effective == p.channels * p.sample_rate_hz * (100 - p.compression_ratio)
  <2>1. p.bit_depth \in {bandwidth \div effective, bandwidth \div effective - 1}
    <3>1. BitDepth(p) \in {bandwidth \div effective, bandwidth \div effective - 1}
      BY DEF BitDepth
    <3>2. p.bit_depth = BitDepth(p)
      BY <1>3 DEF Answer7
    <3> QED BY <3>1, <3>2
  <2>2. bandwidth \in Nat /\ 137625600 <= bandwidth /\ bandwidth <= 688128000
    BY <1>1
  <2>3. effective \in Nat \ {0} /\ effective <= 38400000
    <3>1. p.channels * p.sample_rate_hz \in Nat \ {0} /\ p.channels * p.sample_rate_hz <= 960000
      BY <1>1
    <3>2. 100 - p.compression_ratio \in {40, 30, 28, 25}
      BY <1>1
    <3> QED BY <3>1, <3>2
  <2>. HIDE DEF bandwidth, effective
  <2>4. /\ bandwidth \div effective \in Int /\ bandwidth \div effective <= bandwidth
        /\ 2 * effective <= bandwidth <=> 2 <= bandwidth \div effective
    BY <2>2, <2>3, QuotientBounds, FloorFits
  <2> QED BY <2>1, <2>2, <2>3, <2>4 DEF MaxReferenceAnswer
<1>5. /\ ExactDepth(p) \in Int /\ p.bit_depth \in {ExactDepth(p), ExactDepth(p) - 1}
      /\ ~InexactDraw("sound_bit_depth", p) => p.bit_depth = ExactDepth(p)
  <2>. DEFINE bandwidth == p.bandwidth_kb_per_sec * 1024 * 8 * 100
              effective == p.channels * p.sample_rate_hz * (100 - p.compression_ratio)
              exact == bandwidth \div effective
  <2>1. ExactDepth(p) = exact
    <3>1. bandwidth = p.bandwidth_kb_per_sec * 819200
      BY <1>1
    <3> QED BY <3>1 DEF ExactDepth
  <2>2. exact \in Int
    <3>1. ExactDepth(p) \in Int
      BY <1>1, BitDepthFits DEF Positive
    <3> QED BY <2>1, <3>1
  <2>3. p.bit_depth = IF RoundedUp(p) /\ exact * effective = bandwidth
                      THEN exact - 1 ELSE exact
    <3>1. p.bit_depth = BitDepth(p)
      BY <1>3 DEF Answer7
    <3>2. BitDepth(p) = IF RoundedUp(p) /\ exact * effective = bandwidth
                        THEN exact - 1 ELSE exact
      BY DEF BitDepth
    <3> QED BY <3>1, <3>2
  <2>4. RoundedUp(p) /\ exact * effective = bandwidth => InexactDraw("sound_bit_depth", p)
    <3>. SUFFICES ASSUME RoundedUp(p), exact * effective = bandwidth
                  PROVE  p.bandwidth_kb_per_sec = 840
      BY DEF RoundedUp, InexactDraw
    <3>1. effective = p.channels * 2688000 /\ effective \in {2688000, 5376000, 10752000}
      BY <1>1 DEF RoundedUp
    <3>2. bandwidth \in {137625600, 209715200, 419430400, 688128000}
      BY <1>1
    <3>3. bandwidth = 688128000 => p.bandwidth_kb_per_sec = 840
      BY <1>1
    <3>. HIDE DEF effective, exact, bandwidth
    <3> QED BY <2>2, <3>1, <3>2, <3>3
  <2>. HIDE DEF exact, bandwidth, effective
  <2> QED BY <2>1, <2>2, <2>3, <2>4
<1>6. Solved("sound_bit_depth", "bit_depth", p)
  <2>1. \A n \in Int : Fits("sound_bit_depth", "bit_depth", p, n) <=> n <= ExactDepth(p)
    BY <1>1, BitDepthFits DEF Positive
  <2>2. /\ Fits("sound_bit_depth", "bit_depth", p, p.bit_depth)
        /\ ~InexactDraw("sound_bit_depth", p) =>
              ~Fits("sound_bit_depth", "bit_depth", p, p.bit_depth + 1)
    BY <1>4, <1>5, <2>1
  <2> QED BY <2>2 DEF Solved, Beyond, AsksForLeast, LeastTargets
<1>7. CalculateAnswer("sound_bit_depth", "bit_depth", p) = p.bit_depth
  BY <1>3 DEF CalculateAnswer, Recompute7, Subtypes7
<1> QED BY <1>1, <1>4, <1>6, <1>7 DEF Right, NumericKeys, NumericKeys7, Subtypes7

LEMMA MinAlphabetRight ==
    ASSUME NEW d \in MinAlphabetDraws, NEW p,
           p = With(d, "min_alphabet_size", Answer11("min_alphabet_size", d))
    PROVE  Right("min_alphabet_size", "min_alphabet_size", p)
<1>1. /\ DOMAIN p = {"serial_length", "nums", "memory_kb", "min_alphabet_size"}
      /\ p.serial_length = d.serial_length /\ p.nums = d.nums
      /\ p.memory_kb = d.memory_kb
      /\ p.min_alphabet_size = Answer11("min_alphabet_size", d)
      /\ p.serial_length \in {105, 248, 2783} /\ p.nums \in {100, 300, 800}
      /\ p.memory_kb \in {7, 11, 15}
  BY DEF MinAlphabetDraws, With
<1>2. p.min_alphabet_size = Answer11("min_alphabet_size", p)
  BY <1>1 DEF Answer11, MinAlphabet, ShareUp
<1>3. CeilDiv(8 * ShareUp(p.memory_kb * 1024, p), p.serial_length) \in 1..16
  <2>. DEFINE share == ShareUp(p.memory_kb * 1024, p)
  <2>1. share \in Nat /\ 1 <= share /\ share <= 154
    BY <1>1 DEF ShareUp, CeilDiv
  <2>. HIDE DEF share
  <2>2. /\ CeilDiv(8 * share, p.serial_length) \in Nat
        /\ 1 <= CeilDiv(8 * share, p.serial_length)
        /\ CeilDiv(8 * share, p.serial_length) <= 12
    BY <1>1, <2>1 DEF CeilDiv
  <2> QED BY <2>2 DEF share
<1>4. \A n \in Nat :
         LET answer == Answer11("min_alphabet_size", p) IN
         /\ answer \in Nat \ {0} /\ answer <= 65536
         /\ Fits("min_alphabet_size", "min_alphabet_size", p, n) <=> answer <= n
  BY <1>1, <1>3, MinAlphabetFits DEF Positive
<1>5. /\ p.min_alphabet_size \in Int /\ p.min_alphabet_size > 0
      /\ p.min_alphabet_size <= MaxReferenceAnswer
  BY <1>2, <1>4 DEF MaxReferenceAnswer
<1>6. Solved("min_alphabet_size", "min_alphabet_size", p)
  <2>1. \A n \in Nat :
           Fits("min_alphabet_size", "min_alphabet_size", p, n) <=> p.min_alphabet_size <= n
    BY <1>2, <1>4
  <2> QED BY <1>5, <2>1, LeastSolves DEF AsksForLeast, LeastTargets
<1>7. CalculateAnswer("min_alphabet_size", "min_alphabet_size", p) = p.min_alphabet_size
  BY <1>2 DEF CalculateAnswer, Recompute11, Subtypes7
<1> QED BY <1>1, <1>5, <1>6, <1>7 DEF Right, NumericKeys, NumericKeys11, Subtypes7

LEMMA MaxLengthDrawn ==
    ASSUME NEW d \in MaxLengthDraws
    PROVE  /\ DOMAIN d = {"digits", "latin_letters", "special_chars", "alphabet_size",
                          "nums", "memory_kb"}
           /\ d.digits \in {10} /\ d.latin_letters \in {52}
           /\ d.special_chars \in {1989, 963, 450, 70}
           /\ d.alphabet_size \in {2051, 1025, 512, 132} /\ d.nums \in {836, 2000, 5000}
           /\ d.memory_kb \in {639, 100, 200}
<1>1. PICK special \in {1989, 963, 450, 70}, nums \in {836, 2000, 5000}, kb \in {639, 100, 200} :
         d = [digits |-> 10, latin_letters |-> 52, special_chars |-> special,
              alphabet_size |-> 62 + special, nums |-> nums, memory_kb |-> kb]
  BY DEF MaxLengthDraws
<1> QED BY <1>1

LEMMA MaxLengthRight ==
    ASSUME NEW d \in MaxLengthDraws, NEW p,
           p = With(d, "max_serial_length", Answer11("max_serial_length", d))
    PROVE  Right("max_serial_length", "max_serial_length", p)
<1>1. /\ DOMAIN p = {"digits", "latin_letters", "special_chars", "alphabet_size",
                      "nums", "memory_kb", "max_serial_length"}
      /\ p.digits = d.digits /\ p.latin_letters = d.latin_letters
      /\ p.special_chars = d.special_chars /\ p.alphabet_size = d.alphabet_size
      /\ p.nums = d.nums /\ p.memory_kb = d.memory_kb
      /\ p.max_serial_length = Answer11("max_serial_length", d)
      /\ p.digits \in {10} /\ p.latin_letters \in {52}
      /\ p.special_chars \in {1989, 963, 450, 70}
      /\ p.alphabet_size \in {2051, 1025, 512, 132} /\ p.nums \in {836, 2000, 5000}
      /\ p.memory_kb \in {639, 100, 200}
  BY MaxLengthDrawn DEF With
<1>2. ShareDown(p.memory_kb * 1024, p) = ShareDown(d.memory_kb * 1024, d)
  BY <1>1 DEF ShareDown
<1>3. LET symbols == BitsPerSymbol(p.alphabet_size)
          bits == 8 * ShareDown(p.memory_kb * 1024, p)
      IN  /\ symbols \in Nat \ {0} /\ symbols <= 16
          /\ bits \in Nat /\ 160 <= bits /\ bits <= 6400
  <2>1. Alphabet(p.alphabet_size)
    BY <1>1 DEF Alphabet
  <2>2. BitsPerSymbol(p.alphabet_size) \in 1..16
    BY <2>1, BitsType DEF Alphabet
  <2>3. LET share == ShareDown(p.memory_kb * 1024, p) IN
        share \in Nat /\ 20 <= share /\ share <= 800
    BY <1>1 DEF ShareDown
  <2> QED BY <2>2, <2>3
<1>4. p.max_serial_length = Answer11("max_serial_length", p)
  BY <1>1, <1>2 DEF Answer11
<1>5. /\ p.max_serial_length \in Int /\ p.max_serial_length > 0
      /\ p.max_serial_length <= MaxReferenceAnswer
  BY <1>4, <1>2, <1>3, QuotientBounds DEF Answer11, MaxReferenceAnswer
<1>6. Solved("max_serial_length", "max_serial_length", p)
  <2>1. \A n \in Nat :
           Fits("max_serial_length", "max_serial_length", p, n) <=> n <= p.max_serial_length
    BY <1>1, <1>4, MaxLengthFits DEF Positive, Alphabet
  <2> QED BY <1>5, <2>1, GreatestSolves DEF AsksForLeast, LeastTargets
<1>7. CalculateAnswer("max_serial_length", "max_serial_length", p) = p.max_serial_length
  BY <1>4 DEF CalculateAnswer, Recompute11, Subtypes7
<1> QED BY <1>1, <1>5, <1>6, <1>7 DEF Right, NumericKeys, NumericKeys11, Subtypes7

LEMMA MinLengthDrawn ==
    ASSUME NEW d \in MinLengthDraws
    PROVE  /\ DOMAIN d = {"digits", "special_chars", "alphabet_size", "nums",
                          "memory_mb"}
           /\ d.digits \in {10} /\ d.special_chars \in {17, 70, 100}
           /\ d.alphabet_size \in {27, 80, 110} /\ d.nums \in {7564230, 10000000}
           /\ d.memory_mb \in {31, 50}
<1>1. PICK special \in {17, 70, 100}, nums \in {7564230, 10000000}, mb \in {31, 50} :
         d = [digits |-> 10, special_chars |-> special, alphabet_size |-> 10 + special,
              nums |-> nums, memory_mb |-> mb]
  BY DEF MinLengthDraws
<1> QED BY <1>1

LEMMA MinLengthRight ==
    ASSUME NEW d \in MinLengthDraws, NEW p,
           p = With(d, "min_serial_length", Answer11("min_serial_length", d))
    PROVE  Right("min_serial_length", "min_serial_length", p)
<1>1. /\ DOMAIN p = {"digits", "special_chars", "alphabet_size", "nums", "memory_mb",
                      "min_serial_length"}
      /\ p.digits = d.digits /\ p.special_chars = d.special_chars
      /\ p.alphabet_size = d.alphabet_size /\ p.nums = d.nums
      /\ p.memory_mb = d.memory_mb
      /\ p.min_serial_length = Answer11("min_serial_length", d)
      /\ p.digits \in {10} /\ p.special_chars \in {17, 70, 100}
      /\ p.alphabet_size \in {27, 80, 110} /\ p.nums \in {7564230, 10000000}
      /\ p.memory_mb \in {31, 50}
  BY MinLengthDrawn DEF With
<1>2. ShareUp(p.memory_mb * 1048576, p) = ShareUp(d.memory_mb * 1048576, d)
  BY <1>1 DEF ShareUp
<1>3. LET symbols == BitsPerSymbol(p.alphabet_size)
          bits == 8 * ShareUp(p.memory_mb * 1048576, p)
      IN  /\ symbols \in Nat \ {0} /\ bits \in Nat /\ 0 < bits /\ bits <= 64
  <2>1. Alphabet(p.alphabet_size)
    BY <1>1 DEF Alphabet
  <2>2. BitsPerSymbol(p.alphabet_size) \in 1..16
    BY <2>1, BitsType DEF Alphabet
  <2>3. LET share == ShareUp(p.memory_mb * 1048576, p) IN
        share \in Nat /\ 1 <= share /\ share <= 8
    BY <1>1 DEF ShareUp, CeilDiv
  <2> QED BY <2>2, <2>3
<1>4. p.min_serial_length = Answer11("min_serial_length", p)
  BY <1>1, <1>2 DEF Answer11
<1>5. /\ p.min_serial_length \in Int /\ p.min_serial_length > 0
      /\ p.min_serial_length <= MaxReferenceAnswer
  BY <1>4, <1>3, QuotientBounds DEF Answer11, MaxReferenceAnswer
<1>6. Solved("min_serial_length", "min_serial_length", p)
  <2>1. \A n \in Nat :
           Fits("min_serial_length", "min_serial_length", p, n) <=> p.min_serial_length <= n
    BY <1>1, <1>4, MinLengthFits DEF Positive, Alphabet
  <2> QED BY <1>5, <2>1, LeastSolves DEF AsksForLeast, LeastTargets
<1>7. CalculateAnswer("min_serial_length", "min_serial_length", p) = p.min_serial_length
  BY <1>4 DEF CalculateAnswer, Recompute11, Subtypes7
<1> QED BY <1>1, <1>5, <1>6, <1>7 DEF Right, NumericKeys, NumericKeys11, Subtypes7

LEMMA EightBits == BitsPerSymbol(132) = 8
<1>. DEFINE b == BitsPerSymbol(132)
<1>1. b \in 1..16 /\ Pow(b) >= 132 /\ Pow(b - 1) < 132
  BY BitsType
<1>. HIDE DEF b
<1>2. Pow(b) \in Nat /\ Pow(b - 1) \in Nat /\ Pow(7) = 128 /\ Pow(8) = 256
  BY <1>1, PowersGrow, Powers
<1>3. ~(b < 7) /\ b # 7 /\ ~(8 < b - 1) /\ b - 1 # 8
  BY <1>1, <1>2, PowersGrow
<1> QED BY <1>1, <1>3 DEF b

LEMMA ExtraBytesDrawn ==
    ASSUME NEW d \in MaxExtraDraws
    PROVE  /\ DOMAIN d = {"serial_length", "digits", "latin_upper", "latin_lower",
                          "special_chars", "alphabet_size", "nums", "memory_kb"}
           /\ d.serial_length \in {18, 25} /\ d.digits \in {10}
           /\ d.latin_upper \in {26} /\ d.latin_lower \in {26}
           /\ d.special_chars \in {70} /\ d.alphabet_size \in {132}
           /\ d.nums \in {2000, 3000} /\ d.memory_kb \in {100, 150}
<1>1. PICK length \in {18, 25}, nums \in {2000, 3000}, kb \in {100, 150} :
         d = [serial_length |-> length, digits |-> 10, latin_upper |-> 26, latin_lower |-> 26,
              special_chars |-> 70, alphabet_size |-> 132, nums |-> nums, memory_kb |-> kb]
  BY DEF MaxExtraDraws
<1> QED BY <1>1

LEMMA ExtraBytesRight ==
    ASSUME NEW d \in MaxExtraDraws, NEW p,
           p = With(d, "max_extra_bytes", Answer11("max_extra_bytes", d))
    PROVE  Right("max_extra_bytes", "max_extra_bytes", p)
<1>1. /\ DOMAIN p = {"serial_length", "digits", "latin_upper", "latin_lower",
                      "special_chars", "alphabet_size", "nums", "memory_kb",
                      "max_extra_bytes"}
      /\ p.serial_length = d.serial_length /\ p.digits = d.digits
      /\ p.latin_upper = d.latin_upper /\ p.latin_lower = d.latin_lower
      /\ p.special_chars = d.special_chars /\ p.alphabet_size = d.alphabet_size
      /\ p.nums = d.nums /\ p.memory_kb = d.memory_kb
      /\ p.max_extra_bytes = Answer11("max_extra_bytes", d)
      /\ p.serial_length \in {18, 25} /\ p.digits \in {10} /\ p.latin_upper \in {26}
      /\ p.latin_lower \in {26} /\ p.special_chars \in {70} /\ p.alphabet_size \in {132}
      /\ p.nums \in {2000, 3000} /\ p.memory_kb \in {100, 150}
  BY ExtraBytesDrawn DEF With
<1>2. SerialBytes(p.serial_length, BitsPerSymbol(p.alphabet_size)) = p.serial_length
  <2>1. BitsPerSymbol(p.alphabet_size) = 8
    BY <1>1, EightBits
  <2> QED BY <1>1, <2>1 DEF SerialBytes, CeilDiv
<1>3. p.max_extra_bytes = Answer11("max_extra_bytes", p)
  BY <1>1 DEF Answer11
<1>4. /\ p.max_extra_bytes \in Int /\ p.max_extra_bytes > 0
      /\ p.max_extra_bytes <= MaxReferenceAnswer
  BY <1>1, <1>3, <1>2 DEF Answer11, MaxReferenceAnswer
<1>5. Solved("max_extra_bytes", "max_extra_bytes", p)
  <2>1. \A n \in Nat :
           Fits("max_extra_bytes", "max_extra_bytes", p, n) <=> n <= p.max_extra_bytes
    BY <1>1, <1>3, ExtraBytesFit DEF Positive, Alphabet
  <2> QED BY <1>4, <2>1, GreatestSolves DEF AsksForLeast, LeastTargets
<1>6. CalculateAnswer("max_extra_bytes", "max_extra_bytes", p) = p.max_extra_bytes
  BY <1>3 DEF CalculateAnswer, Recompute11, Subtypes7
<1> QED BY <1>1, <1>4, <1>5, <1>6 DEF Right, NumericKeys, NumericKeys11, Subtypes7

-----------------------------------------------------------------------------
(* Every draw of every subtype *)

LEMMA DrawsRight7 ==
    ASSUME NEW subtype \in Subtypes7, NEW target \in Targets7(subtype),
           NEW d \in Draws7(subtype, target), NEW p,
           p = With(d, target, Answer7(subtype, target, d))
    PROVE  Right(subtype, target, p)
<1>1. CASE subtype = "image_size"
  <2>1. target = "image_size_kb" /\ d \in ImageSizeDraws
    BY <1>1 DEF Targets7, Draws7
  <2> QED BY <1>1, <2>1, ImageSizeRight
<1>2. CASE subtype = "colors_count"
  <2>1. target = "palette_colors" /\ d \in ColorsCountDraws
    BY <1>2 DEF Targets7, Draws7
  <2> QED BY <1>2, <2>1, PaletteRight
<1>3. CASE subtype = "sound_self_duration"
  <2>1. target = "duration_sec" /\ d \in SoundSelfDurationDraws
    BY <1>3 DEF Targets7, Draws7
  <2> QED BY <1>3, <2>1, SelfDurationRight
<1>4. CASE subtype = "packet_size"
  <2>1. target \in {"packet_mb", "images_per_packet"} /\ d \in PacketSizeDraws(target)
    BY <1>4 DEF Targets7, Draws7
  <2> QED BY <1>4, <2>1, PacketRight, ImagesPerPacketRight
<1>5. CASE subtype = "cards_count"
  <2>1. target \in {"cards_needed", "images_count"} /\ d \in CardsCountDraws(target)
    BY <1>5 DEF Targets7, Draws7
  <2> QED BY <1>5, <2>1, CardsRight, ImagesOnCardsRight
<1>6. CASE subtype = "traffic_saving"
  <2>1. target \in {"total_saved_kb", "images_count"} /\ d \in TrafficSavingDraws(target)
    BY <1>6 DEF Targets7, Draws7
  <2> QED BY <1>6, <2>1, SavedRight, SavingImagesRight
<1>7. CASE subtype = "sound_bit_depth"
  <2>1. target = "bit_depth" /\ d \in SoundBitDepthDraws
    BY <1>7 DEF Targets7, Draws7
  <2> QED BY <1>7, <2>1, BitDepthRight
<1>8. CASE subtype = "sound_duration"
  <2>1. target \in {"duration_sec", "transmit_time_sec"} /\ d \in SoundDurationDraws(target)
    BY <1>8 DEF Targets7, Draws7
  <2> QED BY <1>8, <2>1, DurationRight, TransmitTimeRight
<1> QED BY <1>1, <1>2, <1>3, <1>4, <1>5, <1>6, <1>7, <1>8 DEF Subtypes7

LEMMA DrawsRight11 ==
    ASSUME NEW subtype \in Subtypes11, NEW d \in Draws11(subtype), NEW p,
           p = With(d, subtype, Answer11(subtype, d))
    PROVE  Right(subtype, subtype, p)
<1>1. CASE subtype = "min_alphabet_size"
  <2>1. d \in MinAlphabetDraws
    BY <1>1 DEF Draws11
  <2> QED BY <1>1, <2>1, MinAlphabetRight
<1>2. CASE subtype = "max_serial_length"
  <2>1. d \in MaxLengthDraws
    BY <1>2 DEF Draws11
  <2> QED BY <1>2, <2>1, MaxLengthRight
<1>3. CASE subtype = "min_serial_length"
  <2>1. d \in MinLengthDraws
    BY <1>3 DEF Draws11
  <2> QED BY <1>3, <2>1, MinLengthRight
<1>4. CASE subtype = "max_extra_bytes"
  <2>1. d \in MaxExtraDraws
    BY <1>4 DEF Draws11
  <2> QED BY <1>4, <2>1, ExtraBytesRight
<1> QED BY <1>1, <1>2, <1>3, <1>4 DEF Subtypes11

Supported == Subtypes7 \cup Subtypes11

(* No draw is rejected.                                                    *)
LEMMA DrawsAreValid ==
    ASSUME NEW subtype \in Supported, NEW target \in Targets(subtype),
           NEW d \in Draws(subtype, target)
    PROVE  LET answer == Answer(subtype, target, d)
               params == With(d, target, answer)
           IN  /\ params[target] = answer
               /\ Right(subtype, target, params)
               /\ IsValid(subtype, target, params, answer)
               /\ CalculateAnswer(subtype, target, params) = answer
<1>. DEFINE answer == Answer(subtype, target, d)
            params == With(d, target, answer)
<1>1. params[target] = answer
  BY DEF With
<1>2. Right(subtype, target, params)
  <2>1. CASE subtype \in Subtypes7
    <3>1. /\ target \in Targets7(subtype) /\ d \in Draws7(subtype, target)
          /\ answer = Answer7(subtype, target, d)
      BY <2>1 DEF Targets, Draws, Answer
    <3>. HIDE DEF answer
    <3> QED BY <2>1, <3>1, DrawsRight7
  <2>2. CASE subtype \notin Subtypes7
    <3>1. /\ subtype \in Subtypes11 /\ target = subtype /\ d \in Draws11(subtype)
          /\ answer = Answer11(subtype, d)
      BY <2>2 DEF Supported, Targets, Target11, Draws, Answer
    <3>. HIDE DEF answer
    <3> QED BY <3>1, DrawsRight11
  <2> QED BY <2>1, <2>2
<1>. HIDE DEF params, answer
<1>3. /\ CalculateAnswer(subtype, target, params) = answer
      /\ IsValid(subtype, target, params, answer)
  BY <1>1, <1>2 DEF Right, IsValid
<1> QED BY <1>1, <1>2, <1>3 DEF params, answer

-----------------------------------------------------------------------------
(* The inductive invariant: generation starts only for subtypes that have  *)
(* generators, and ends with a set that is right.                          *)

IInv ==
    /\ request \in [type : RequestedTypes, subtype : RequestedSubtypes]
    /\ stage \in {"received", "generating", "ready", "refused"}
    /\ rejected = 0
    /\ stage = "generating" => request.subtype \in Supported \cup {NoSubtype}
    /\ stage = "ready" =>
          /\ result.answer = result.params[result.target]
          /\ Right(result.subtype, result.target, result.params)

LEMMA SubtypesSupported ==
    ASSUME NEW type
    PROVE  SubtypesOf(type) \subseteq Supported
<1>1. CASE type = 7
  BY <1>1 DEF SubtypesOf, Supported
<1>2. CASE type # 7 /\ type = 11
  BY <1>2 DEF SubtypesOf, Supported
<1>3. CASE type # 7 /\ type # 11
  BY <1>3 DEF SubtypesOf, Supported
<1> QED BY <1>1, <1>2, <1>3

LEMMA InitIInv == Init => IInv
BY DEF Init, IInv

LEMMA ValidateKeepsIInv ==
    ASSUME IInv, ValidateInput
    PROVE  IInv'
<1>1. stage' = "generating" => request.subtype \in Supported \cup {NoSubtype}
  BY SubtypesSupported DEF ValidateInput
<1> QED BY <1>1 DEF IInv, ValidateInput

LEMMA AttemptKeepsIInv ==
    ASSUME IInv, stage = "generating", NEW subtype \in Chosen,
           NEW target \in Targets(subtype), NEW draw \in Draws(subtype, target),
           Attempt(subtype, target, draw)
    PROVE  IInv'
<1>. DEFINE answer == Answer(subtype, target, draw)
            params == With(draw, target, answer)
<1>1. subtype \in Supported
  BY SubtypesSupported DEF IInv, Chosen
<1>2. /\ params[target] = answer
      /\ Right(subtype, target, params)
      /\ IsValid(subtype, target, params, answer)
      /\ CalculateAnswer(subtype, target, params) = answer
  BY <1>1, DrawsAreValid
<1>3. /\ stage' = "ready" /\ UNCHANGED <<request, rejected>>
      /\ result' = [subtype |-> subtype, params |-> params,
                    target |-> target, answer |-> answer]
  BY <1>2 DEF Attempt
<1>. HIDE DEF params, answer
<1>4. /\ result'.subtype = subtype /\ result'.params = params
      /\ result'.target = target /\ result'.answer = answer
  BY <1>3
<1>5. /\ result'.answer = result'.params[result'.target]
      /\ Right(result'.subtype, result'.target, result'.params)
  BY <1>2, <1>4
<1>6. /\ (result.answer = result.params[result.target])'
      /\ Right(result.subtype, result.target, result.params)'
  BY <1>5
<1> QED BY <1>3, <1>6 DEF IInv

LEMMA StepKeepsIInv == IInv /\ [Next]_vars => IInv'
<1>. SUFFICES ASSUME IInv, [Next]_vars PROVE IInv'
  OBVIOUS
<1>1. CASE ValidateInput
  BY <1>1, ValidateKeepsIInv
<1>2. CASE /\ stage = "generating"
           /\ \E subtype \in Chosen :
                 \E target \in Targets(subtype) :
                    \E draw \in Draws(subtype, target) : Attempt(subtype, target, draw)
  BY <1>2, AttemptKeepsIInv
<1>3. CASE UNCHANGED vars
  BY <1>3 DEF IInv, Right, Solved, vars
<1> QED BY <1>1, <1>2, <1>3 DEF Next, Finished

(* Generation starts only for a subtype that has a generator and ends,     *)
(* after no rejected draw, with a set whose answer is its target           *)
(* parameter, passes the validation and solves the task                    *)
(* (ParamGeneratorService.generate).                                       *)
THEOREM GenerationInvariant == Spec => []IInv
<1>1. IInv /\ [Next]_vars => IInv'
  BY StepKeepsIInv
<1> QED BY InitIInv, <1>1, PTL DEF Spec

(* An accepted set has its unknown quantity among the parameters, and the  *)
(* reference answer is a positive integer that its database column holds.  *)
THEOREM ParamsTypeCorrect == Spec => []TypeOK
<1>1. IInv => TypeOK
  <2>. SUFFICES ASSUME IInv PROVE TypeOK
    OBVIOUS
  <2>1. rejected \in 0..MaxParamAttempts
    BY ParamsAssumption DEF IInv
  <2>2. ASSUME stage = "ready"
        PROVE  result.target \in DOMAIN result.params /\ result.answer \in 1..MaxReferenceAnswer
    <3>1. /\ result.target \in DOMAIN result.params /\ result.answer \in Int
          /\ result.answer > 0 /\ result.answer <= MaxReferenceAnswer
      BY <2>2 DEF IInv, Right
    <3>2. MaxReferenceAnswer \in Int
      BY DEF MaxReferenceAnswer
    <3> QED BY <3>1, <3>2
  <2> QED BY <2>1, <2>2 DEF IInv, TypeOK
<1> QED BY <1>1, GenerationInvariant, PTL

(* Whatever is drawn for a supported request passes is_valid_params and    *)
(* the recalculation at once, for any limit on the attempts: the retry     *)
(* loop never rejects, so no audit row and no PARAM_RETRY_EXHAUSTED.       *)
THEOREM NoDrawRejected == Spec => []FirstAttemptSucceeds
<1>1. IInv => FirstAttemptSucceeds
  BY DEF IInv, FirstAttemptSucceeds
<1> QED BY <1>1, GenerationInvariant, PTL

(* The reference answer is feasible for the parameters of the task and,    *)
(* outside the three draws of InexactDraw, the next value is not: what the *)
(* generator of each subtype computes is an extremum of what Fits says.    *)
THEOREM AnswersAreExtremal == Spec => []AnswerIsExtremal
<1>1. IInv => AnswerIsExtremal
  BY DEF IInv, AnswerIsExtremal, Right, Solved
<1> QED BY <1>1, GenerationInvariant, PTL
=============================================================================
