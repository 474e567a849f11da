------------------------------- MODULE PolarCode -------------------------------
(***************************************************************************)
(* The kernels for polar codes: the encoder                                *)
(* (volk_8u_x2_encodeframepolar_8u, volk_8u_x3_encodepolar_8u_x2) and the  *)
(* butterfly of the decoder (volk_32f_8u_polarbutterfly_32f), in the loop  *)
(* of its documentation, which decides bit after bit.                      *)
(*                                                                         *)
(* A byte is the set of the bits that are set in it, so that exclusive or  *)
(* is the symmetric difference.  The encoder is given bytes that all have  *)
(* a bit of their own; the decoder knows the bytes {} and {0}.  Log        *)
(* likelihood ratios (llrs) are whole numbers: the decoder adds, negates   *)
(* and compares them, and a zero's sign decides nothing.                   *)
(***************************************************************************)
EXTENDS SymbolicLanes, TLC

CONSTANTS
  Encoders, Decoders,  (* the implementations, see below                    *)
  PuppetElements,      (* the lengths the encoder's puppet is called with   *)
  FrozenBits,          (* sets of positions of frozen bits                  *)
  FrameExps,           (* frame_exp of the frames that are decoded          *)
  Words, Noise,        (* sets of positions: of ones, and of wrong signs    *)
  Unset                (* bits: what the memory holds before it is written  *)

ASSUME PolarAssumption ==
  /\ PuppetElements \subseteq Nat \ {0, 1} /\ FrameExps \subseteq Nat \ {0}
  /\ \A s \in FrozenBits \cup Words \cup Noise : s \subseteq Nat

VARIABLES
  polarPc,     (* "idle", "encode" or "decode"                             *)
  polar,       (* the implementation that runs                              *)
  frame_size,
  frozen,      (* the positions frozen_bit_mask marks                       *)
  coding,      (* the encoder's buffers, [frame, temp]                      *)
  coding_stage,
  sent, noisy, (* the word that was encoded, and the wrong signs            *)
  u_num,       (* the bit to be decided                                     *)
  decoding,    (* the decoder's buffers, [llrs, u], by stages               *)
  by_generic   (* those of the generic implementation, on the same input    *)

polarVars == <<polarPc, polar, frame_size, frozen, coding, coding_stage, sent, noisy,
               u_num, decoding, by_generic>>

-----------------------------------------------------------------------------
(* The implementations of the encoder: how many bytes of a half of a       *)
(* branch are made at once.                                                *)
Encoder(kind, width) == [kind |-> kind, width |-> width]
volk_8u_x2_encodeframepolar_8u_generic == Encoder("scalar", 1)
volk_8u_x2_encodeframepolar_8u_u_ssse3 == Encoder("x86", 16)
volk_8u_x2_encodeframepolar_8u_a_ssse3 == Encoder("x86", 16)
volk_8u_x2_encodeframepolar_8u_u_avx2 == Encoder("x86", 32)
volk_8u_x2_encodeframepolar_8u_a_avx2 == Encoder("x86", 32)
volk_8u_x2_encodeframepolar_8u_rvv == Encoder("rvv", 8)
volk_8u_x2_encodeframepolar_8u_rvvseg == Encoder("rvv", 8)

(* Interleaving the bits, and the puppets around that, are the same for    *)
(* all of them.                                                            *)
volk_8u_x3_encodepolar_8u_x2_generic == volk_8u_x2_encodeframepolar_8u_generic
volk_8u_x3_encodepolar_8u_x2_u_ssse3 == volk_8u_x2_encodeframepolar_8u_u_ssse3
volk_8u_x3_encodepolar_8u_x2_a_ssse3 == volk_8u_x2_encodeframepolar_8u_a_ssse3
volk_8u_x3_encodepolar_8u_x2_u_avx2 == volk_8u_x2_encodeframepolar_8u_u_avx2
volk_8u_x3_encodepolar_8u_x2_a_avx2 == volk_8u_x2_encodeframepolar_8u_a_avx2
volk_8u_x3_encodepolar_8u_x2_rvv == volk_8u_x2_encodeframepolar_8u_rvv
volk_8u_x3_encodepolar_8u_x2_rvvseg == volk_8u_x2_encodeframepolar_8u_rvvseg

volk_8u_x3_encodepolarpuppet_8u_generic == volk_8u_x3_encodepolar_8u_x2_generic
volk_8u_x3_encodepolarpuppet_8u_u_ssse3 == volk_8u_x3_encodepolar_8u_x2_u_ssse3
volk_8u_x3_encodepolarpuppet_8u_a_ssse3 == volk_8u_x3_encodepolar_8u_x2_a_ssse3
volk_8u_x3_encodepolarpuppet_8u_u_avx2 == volk_8u_x3_encodepolar_8u_x2_u_avx2
volk_8u_x3_encodepolarpuppet_8u_a_avx2 == volk_8u_x3_encodepolar_8u_x2_a_avx2
volk_8u_x3_encodepolarpuppet_8u_rvv == volk_8u_x3_encodepolar_8u_x2_rvv
volk_8u_x3_encodepolarpuppet_8u_rvvseg == volk_8u_x3_encodepolar_8u_x2_rvvseg

(* And of the butterfly: the encoder it calls.                             *)
Decoder(kind, encoder) == [kind |-> kind, encoder |-> encoder]
volk_32f_8u_polarbutterfly_32f_generic ==
  Decoder("scalar", volk_8u_x2_encodeframepolar_8u_generic)
volk_32f_8u_polarbutterfly_32f_u_avx ==
  Decoder("x86", volk_8u_x2_encodeframepolar_8u_u_ssse3)
volk_32f_8u_polarbutterfly_32f_u_avx2 ==
  Decoder("x86", volk_8u_x2_encodeframepolar_8u_u_avx2)
volk_32f_8u_polarbutterfly_32f_rvv ==
  Decoder("rvv", volk_8u_x2_encodeframepolar_8u_rvv)
volk_32f_8u_polarbutterfly_32f_rvvseg ==
  Decoder("rvv", volk_8u_x2_encodeframepolar_8u_rvv)

volk_32f_8u_polarbutterflypuppet_32f_generic == volk_32f_8u_polarbutterfly_32f_generic
volk_32f_8u_polarbutterflypuppet_32f_u_avx == volk_32f_8u_polarbutterfly_32f_u_avx
volk_32f_8u_polarbutterflypuppet_32f_u_avx2 == volk_32f_8u_polarbutterfly_32f_u_avx2
volk_32f_8u_polarbutterflypuppet_32f_rvv == volk_32f_8u_polarbutterfly_32f_rvv
volk_32f_8u_polarbutterflypuppet_32f_rvvseg == volk_32f_8u_polarbutterfly_32f_rvvseg

log2_of_power_of_2(val) == CHOOSE k \in 0 .. 31 : 2^k = val
next_lower_power_of_two(val) == 2^(CHOOSE k \in 0 .. 31 : 2^k <= val /\ val < 2^(k + 1))

PolarInit ==
  /\ polarPc = "idle" /\ polar = volk_8u_x2_encodeframepolar_8u_generic
  /\ frame_size = 1 /\ frozen = {} /\ coding = [frame |-> <<>>, temp |-> <<>>]
  /\ coding_stage = 0 /\ sent = {} /\ noisy = {} /\ u_num = 0
  /\ decoding = [llrs |-> <<>>, u |-> <<>>] /\ by_generic = decoding
(* Behind a call nothing is left that a later one reads.                   *)
Returned ==
  /\ polarPc' = "idle" /\ polar' = volk_8u_x2_encodeframepolar_8u_generic
  /\ frame_size' = 1 /\ frozen' = {} /\ coding' = [frame |-> <<>>, temp |-> <<>>]
  /\ coding_stage' = 0 /\ sent' = {} /\ noisy' = {} /\ u_num' = 0
  /\ decoding' = [llrs |-> <<>>, u |-> <<>>] /\ by_generic' = decoding'

Xor(a, b) == (a \ b) \cup (b \ a)
(* The w elements of a buffer from k on.                                   *)
Part(a, k, w) == [l \in 1 .. w |-> a[k + l - 1]]

-----------------------------------------------------------------------------
(* The encoder.                                                            *)

(* x, with the byte d lanes above added to every other group of d lanes.   *)
AddedAbove(x, d) ==
  Lanewise(Xor, x,
           Shuffle(x, [l \in 1 .. 16 |-> IF ((l - 1) \div d) % 2 = 0 THEN l - 1 + d ELSE -1]))

shuffle_separate == <<0, 2, 4, 6, 8, 10, 12, 14, 1, 3, 5, 7, 9, 11, 13, 15>>
shuffle_stage4 == <<0, 8, 4, 12, 2, 10, 6, 14, 1, 9, 5, 13, 3, 11, 7, 15>>

(* Of registers x and y with pairs of bytes: the sums of the pairs, and    *)
(* their second bytes.                                                     *)
Separated(z) == Shuffle(AddedAbove(z, 1), shuffle_separate)
Separated128(x, y) ==
  <<Low(Separated(x)) \o Low(Separated(y)), High(Separated(x)) \o High(Separated(y))>>
Separated256(x, y) ==
  LET Unpacked(index) == Gather(Separated(x) \o Separated(y), Wide(index, 8))
  IN  <<Quarters(Unpacked(<<0, 4, 2, 6>>), <<0, 2, 1, 3>>),
        Quarters(Unpacked(<<1, 5, 3, 7>>), <<0, 2, 1, 3>>)>>
SeparatedRvv(x) == <<Lanewise(Xor, Every(x, 2, 0), Every(x, 2, 1)), Every(x, 2, 1)>>

PairsOf(r, x) ==
  IF r.kind = "rvv" THEN SeparatedRvv(x)
  ELSE IF Len(x) = 64 THEN Separated256(Low(x), High(x)) ELSE Separated128(Low(x), High(x))

(* One stage: each branch becomes two halves.  Point p of the frame is the *)
(* o-th of the upper or of the lower half of its branch.                   *)
encodepolar_single_stage(temp, half) ==
  [p \in DOMAIN temp |->
     LET i == 2 * (half * (p \div (2 * half)) + (p % half))
     IN  IF p % (2 * half) < half THEN Xor(temp[i], temp[i + 1]) ELSE temp[i + 1]]

VectorStage(r, temp, half) ==
  LET w == IF half < r.width THEN half ELSE r.width
  IN  [p \in DOMAIN temp |->
         LET i == half * (p \div (2 * half)) + (p % half)
             x == Part(temp, 2 * (i - (i % w)), 2 * w)
         IN  PairsOf(r, x)[IF p % (2 * half) < half THEN 1 ELSE 2][(i % w) + 1]]

(* The last four stages of x86, on a register or half of one.              *)
LastStages(x) ==
  AddedAbove(AddedAbove(AddedAbove(AddedAbove(Shuffle(x, shuffle_stage4), 8), 4), 2), 1)
LastStagesOf(temp) ==
  [p \in DOMAIN temp |-> LastStages(Part(temp, p - (p % 16), 16))[(p % 16) + 1]]

(* The functions for vectors leave small frames, or small halves, to the   *)
(* scalar code.                                                            *)
EncoderFor(r, size) ==
  IF r.kind = "x86" /\ size < r.width THEN volk_8u_x2_encodeframepolar_8u_generic ELSE r
IsLast(r, s) == r.kind = "x86" /\ s = 4

StageOf(r, temp, half) ==
  IF r.kind = "scalar" \/ (r.kind = "rvv" /\ half < 8)
    THEN encodepolar_single_stage(temp, half)
    ELSE VectorStage(r, temp, half)

(* What stage s makes of the buffers; temp is not written by the last.     *)
Staged(r, b, s) ==
  IF IsLast(r, s) THEN [b EXCEPT !.frame = LastStagesOf(b.temp) @@ @]
  ELSE LET f == StageOf(r, b.temp, 2^(s - 1)) @@ b.frame IN [frame |-> f, temp |-> f]
NextStage(r, s) == IF IsLast(r, s) THEN 0 ELSE s - 1

RECURSIVE Encode(_, _, _)
Encode(r, b, s) == IF s = 0 THEN b ELSE Encode(r, Staged(r, b, s), NextStage(r, s))

(* The function as others call it.                                         *)
EncodeFrame(r, b, size) == Encode(EncoderFor(r, size), b, log2_of_power_of_2(size))

(* The word: the next of the frozen bits, or of those to be sent.          *)
interleave_frozen_and_info_bits(mask, size) ==
  [p \in 0 .. size - 1 |->
     IF p \in mask THEN {<<"frozen", Cardinality({q \in mask : q < p})>>}
     ELSE {<<"info", Cardinality((0 .. p - 1) \ mask)>>}]

EncodeCall(r, length, mask) ==
  /\ polarPc = "idle"
  /\ polarPc' = "encode"
  /\ frame_size' = next_lower_power_of_two(length)
  /\ polar' = EncoderFor(r, frame_size')
  /\ frozen' = mask \cap 0 .. frame_size' - 1
  /\ coding' = [temp |-> interleave_frozen_and_info_bits(frozen', frame_size'),
                frame |-> [p \in 0 .. frame_size' - 1 |-> {<<"unset", 0>>}]]
  /\ coding_stage' = log2_of_power_of_2(frame_size')
  /\ UNCHANGED <<sent, noisy, u_num, decoding, by_generic>>

EncodeStage ==
  /\ polarPc = "encode" /\ coding_stage > 0
  /\ coding' = Staged(polar, coding, coding_stage)
  /\ coding_stage' = NextStage(polar, coding_stage)
  /\ UNCHANGED <<polarPc, polar, frame_size, frozen, sent, noisy, u_num, decoding, by_generic>>

EncodeReturn == polarPc = "encode" /\ coding_stage = 0 /\ Returned

-----------------------------------------------------------------------------
(* The butterfly.  Row k of stage s is llrs[s * frame_size + k], and the   *)
(* same of u; the pointers that the recursion passes on are those of the   *)
(* stage.                                                                  *)
Abs(x) == IF x < 0 THEN -x ELSE x
llr_odd(a, b) ==
  (IF (a < 0) = (b < 0) THEN 1 ELSE -1) * (IF Abs(a) > Abs(b) THEN Abs(b) ELSE Abs(a))
llr_even(a, b, f) == IF f = {} THEN b + a ELSE b - a

(* The buffers, with the vector x written to stage s from row k on.        *)
Written(a, s, k, x) == [a EXCEPT ![s] = [p \in k .. k + Len(x) - 1 |-> x[p - k + 1]] @@ @]

even_u_values(a, s, num) ==
  Written(a, s + 1, 0, [l \in 1 .. num \div 2 |-> a[s][2 * l - 1]])
odd_xor_even_values(a, s, num) ==
  Written(a, s + 1, 0, [l \in 1 .. num \div 2 |-> Xor(a[s][2 * l - 2], a[s][2 * l - 1])])

RECURSIVE GenericButterfly(_, _, _, _)
GenericButterfly(m, s, num, row) ==
  LET exp == Cardinality(DOMAIN m.llrs) - 1
      half == 2^s
      right == m.llrs[s + 1]
      upper_row == row - (row % (2 * half)) + ((2 * (row % half)) % (2 * half))
      Right(k) == [k EXCEPT !.llrs =
        Written(@, s, row, <<llr_odd(k.llrs[s + 1][upper_row], k.llrs[s + 1][upper_row + 1])>>)]
      Upper(k) == GenericButterfly([k EXCEPT !.u = odd_xor_even_values(@, s, num)],
                                   s + 1, num, upper_row)
      Lower(k) == GenericButterfly([k EXCEPT !.u = even_u_values(@, s, num)],
                                   s + 1, num, upper_row + 1)
  IN  IF row % (2 * half) >= half
        THEN [m EXCEPT !.llrs =
                Written(@, s, row, <<llr_even(right[upper_row], right[upper_row + 1],
                                              m.u[s][num \div 2^s - 1])>>)]
      ELSE IF exp > s + 1 THEN Right(Lower(Upper(m))) ELSE Right(m)

calculate_max_stage_depth_for_row(exp, row) ==
  Min({exp - 1} \cup {d \in 0 .. exp - 1 : row % 2^(d + 1) >= 2^d})

(* The llrs of a register, or two, by turns.                               *)
Deinterleaved(r, x) ==
  IF r.kind = "rvv" THEN <<Every(x, 2, 0), Every(x, 2, 1)>>
  ELSE LET part0 == Halves(Low(x), High(x), <<0, 2>>)
           part1 == Halves(Low(x), High(x), <<1, 3>>)
       IN  <<ShufflePair(part0, part1, <<0, 2, 0, 2>>),
             ShufflePair(part0, part1, <<1, 3, 1, 3>>)>>

(* The bytes that turn a sign, as signed bytes: x86 asks for those above   *)
(* zero, RVV for those below.                                              *)
Turns(r, f) == IF r.kind = "rvv" THEN 7 \in f ELSE f # {} /\ 7 \notin f
fsign_add_llrs(r, x, f) ==
  LET llr == Deinterleaved(r, x)
  IN  [l \in DOMAIN f |-> (IF Turns(r, f[l]) THEN -llr[1][l] ELSE llr[1][l]) + llr[2][l]]
minsum_llrs(r, x) == LET llr == Deinterleaved(r, x) IN Lanewise(llr_odd, llr[1], llr[2])

(* The first num elements of blocks of eight, numbered from 0.             *)
Blocks(num, blocks) == [l \in 1 .. num |-> blocks[(l - 1) \div 8][((l - 1) % 8) + 1]]

(* Mutant of LastBits: the bits are taken from the beginning of the word.  *)
FirstBits(m, num, size) == [p \in 0 .. size - 1 |-> m.u[0][p]]
(* The last bits that have been decided are encoded again, ...             *)
LastBits(m, num, size) == [p \in 0 .. size - 1 |-> m.u[0][num - size + p]]
EncodedAgain(r, m, num, size) ==
  LET b == EncodeFrame(r.encoder, [temp |-> LastBits(m, num, size),
                                   frame |-> [p \in 0 .. size - 1 |-> m.u[1][p]]], size)
  IN  [m EXCEPT !.u = Written(Written(@, 1, 0, Part(b.frame, 0, size)),
                              2, 0, Part(b.temp, 0, size))]

(* ... and are taken out of the llrs of stage d + 1 and of the rows above. *)
EvenStage(r, m, num, row, d) ==
  LET k == EncodedAgain(r, m, num, 2^d)
      added == [b \in 0 .. (2^d - 1) \div 8 |->
                  fsign_add_llrs(r, Part(k.llrs[d + 1], row - 2^d + 16 * b, 16), Part(k.u[1], 8 * b, 8))]
  IN  [k EXCEPT !.llrs = Written(@, d, row, Blocks(2^d, added))]

(* Stages s, s - 1, ... of the row's odd llrs, by vectors and then without.*)
OddStage(r, m, s, row) ==
  LET from == m.llrs[s + 1]
      least == [b \in 0 .. (2^s - 1) \div 8 |-> minsum_llrs(r, Part(from, row + 16 * b, 16))]
      One(l) == llr_odd(from[row + 2 * l - 2], from[row + 2 * l - 1])
      llrs == IF s > 2 THEN Blocks(2^s, least) ELSE [l \in 1 .. 2^s |-> One(l)]
  IN  [m EXCEPT !.llrs = Written(@, s, row, llrs)]
RECURSIVE OddStages(_, _, _, _)
OddStages(r, m, s, row) == IF s < 0 THEN m ELSE OddStages(r, OddStage(r, m, s, row), s - 1, row)

OddRow(m, num, row) ==
  [m EXCEPT !.llrs =
     Written(@, 0, row, <<llr_even(m.llrs[1][row - 1], m.llrs[1][row], m.u[0][num - 1])>>)]

Butterfly(r, m, num, row) ==
  LET d == calculate_max_stage_depth_for_row(Cardinality(DOMAIN m.llrs) - 1, row)
  IN  IF r.kind = "scalar" THEN GenericButterfly(m, 0, num, row)
      ELSE IF row % 2 = 1 THEN OddRow(m, num, row)
      ELSE IF d < 3 THEN GenericButterfly(m, 0, num, row)
      ELSE IF row = 0 THEN OddStages(r, m, d, row)
      ELSE OddStages(r, EvenStage(r, m, num, row, d), d - 1, row)

-----------------------------------------------------------------------------
(* The loop that decodes, of the documentation and of the puppets.         *)
ByteOf(b) == IF b THEN {0} ELSE {}
Codeword(word, size) ==
  EncodeFrame(volk_8u_x2_encodeframepolar_8u_generic,
              [temp |-> [p \in 0 .. size - 1 |-> ByteOf(p \in word)],
               frame |-> [p \in 0 .. size - 1 |-> {}]], size).frame

(* What is received: the signs of the bits, some of them, not so loud,     *)
(* wrong.                                                                  *)
Received(word, wrong, size) ==
  LET code == Codeword(word, size)
  IN  [p \in 0 .. size - 1 |->
         (IF code[p] = {} THEN 1 ELSE -1) * (IF p \in wrong THEN -2 ELSE 3)]

DecodeCall(r, exp, word, wrong, junk) ==
  /\ polarPc = "idle"
  /\ polarPc' = "decode" /\ polar' = r /\ frame_size' = 2^exp
  /\ sent' = word \cap 0 .. 2^exp - 1 /\ noisy' = wrong \cap 0 .. 2^exp - 1
  /\ u_num' = 0
  /\ decoding' = [llrs |-> [s \in 0 .. exp |->
                              IF s = exp THEN Received(sent', noisy', 2^exp)
                              ELSE [p \in 0 .. 2^exp - 1 |-> junk]],
                  u |-> [s \in 0 .. exp |-> [p \in 0 .. 2^exp - 1 |-> ByteOf(junk = 1)]]]
  /\ by_generic' = decoding'
  /\ UNCHANGED <<frozen, coding, coding_stage>>

Decided(m, bit) == [m EXCEPT !.u[0][bit] = ByteOf(m.llrs[0][bit] <= 0)]

DecodeBit ==
  /\ polarPc = "decode" /\ u_num < frame_size
  /\ decoding' = Decided(Butterfly(polar, decoding, u_num, u_num), u_num)
  /\ by_generic' =
       Decided(Butterfly(volk_32f_8u_polarbutterfly_32f_generic, by_generic, u_num, u_num), u_num)
  /\ u_num' = u_num + 1
  /\ UNCHANGED <<polarPc, polar, frame_size, frozen, coding, coding_stage, sent, noisy>>

DecodeReturn == polarPc = "decode" /\ u_num = frame_size /\ Returned

PolarNext ==
  \/ \E r \in Encoders, length \in PuppetElements, mask \in FrozenBits : EncodeCall(r, length, mask)
  \/ EncodeStage
  \/ EncodeReturn
  \/ \E r \in Decoders, exp \in FrameExps, word \in Words, wrong \in Noise, junk \in Unset :
       DecodeCall(r, exp, word, wrong, junk)
  \/ DecodeBit
  \/ DecodeReturn

PolarSpec == PolarInit /\ [][PolarNext]_polarVars

-----------------------------------------------------------------------------
(* The reference: byte p of the frame is the sum of the bytes q of the     *)
(* word in which every bit is set that is set in p, read backwards.        *)
BitOf(p, i) == (p \div 2^i) % 2
HasBits(q, p, exp) == \A i \in 0 .. exp - 1 : BitOf(p, exp - 1 - i) <= BitOf(q, i)

(* Whatever the implementation and the size, and wherever the frozen bits  *)
(* lie, what volk_8u_x3_encodepolar_8u_x2 leaves in frame is the word      *)
(* times the matrix of the polar code, and the word holds frozen and info  *)
(* bits in their order.                                                    *)
PolarEncoded ==
  polarPc = "encode" /\ coding_stage = 0 =>
    LET exp == log2_of_power_of_2(frame_size)
        Bits(p) == UNION {interleave_frozen_and_info_bits(frozen, frame_size)[q] :
                            q \in {q \in DOMAIN coding.frame : HasBits(q, p, exp)}}
    IN  \A p \in DOMAIN coding.frame : coding.frame[p] = Bits(p)

Decisions(m) == [k \in 0 .. u_num - 1 |-> <<m.llrs[0][k], m.u[0][k]>>]
Finds(m) == \A k \in 0 .. u_num - 1 : m.u[0][k] = ByteOf(k \in sent)

(* What the doc promises of any implementation: the llr of every bit is    *)
(* what generic finds, so that the same bits are decided, and a word that  *)
(* comes without a wrong sign is decoded as it was sent.                   *)
DecodedAsSent ==
  polarPc = "decode" =>
    /\ Decisions(decoding) = Decisions(by_generic)
    /\ noisy = {} => Finds(decoding)

(* It holds on x86.  The RVV functions do not take the bits that have been *)
(* decided out of the llrs: they agree as long as all of these are 0, and  *)
(* the puppets send nothing else.                                          *)
OnlyZeros == \A k \in 0 .. u_num - 1 : by_generic.u[0][k] = {}
PolarDecoded == polar.kind # "rvv" \/ OnlyZeros => DecodedAsSent

(* Frames are coded alike and decoded alike by every implementation, the   *)
(* RVV decoder excepted as above (volk_8u_x3_encodepolar_8u_x2,            *)
(* volk_32f_8u_polarbutterfly_32f).                                        *)
PolarRight == PolarEncoded /\ PolarDecoded
=============================================================================
