-------------------------------- MODULE Viterbi --------------------------------
(***************************************************************************)
(* The decoder for the convolutional code of constraint length 7 and rate  *)
(* 1/2: volk_8u_x4_conv_k7_r2_8u, one step per pair of symbols, as its     *)
(* puppet calls it (volk_8u_conv_k7_r2puppet_8u), and the puppet's walk    *)
(* back through the decisions.                                             *)
(*                                                                         *)
(* Metrics and symbols are bytes, and vectors are sequences of them, the   *)
(* lowest lane first.  A row of decisions is the set of the states whose   *)
(* bit is set.  Next to the call runs the algorithm it stands for, on      *)
(* whole numbers: costs are never reduced and never too large.             *)
(***************************************************************************)
EXTENDS SymbolicLanes, FiniteSets, SequencesExt, TLC

CONSTANTS
  Viterbis,     (* the implementations                                      *)
  FrameBits,    (* framebits the puppet is called with                      *)
  SentWords,    (* sets of positions: of ones in the word that is sent      *)
  Disturbances  (* what becomes of symbols: functions from some to bytes    *)

States == 0 .. 63

(* Below 12 the puppets return at once.                                    *)
ASSUME ViterbiAssumption ==
  /\ \A b \in FrameBits : b \in Nat /\ b >= 12
  /\ \A w \in SentWords : w \subseteq Nat
  /\ \A d \in Disturbances : DOMAIN d \subseteq Nat /\ \A k \in DOMAIN d : d[k] \in 0 .. 255

VARIABLES
  vitPc,     (* "idle", "butterflies" or "decoded"                          *)
  vit,       (* the implementation                                          *)
  word,      (* the bits sent                                               *)
  syms,      (* the symbols received                                        *)
  pairs,     (* framebits / 2, the number of pairs of symbols               *)
  pair,      (* i or s, the pair under way                                  *)
  metrics,   (* old and new metrics, by the pointers X and Y                *)
  decisions, (* dec                                                         *)
  data,      (* the decoded bits                                            *)
  costs, survivors, (* of the algorithm, not in the code                    *)
  large      (* a sum of two bytes has been larger than a byte              *)

vitVars == <<vitPc, vit, word, syms, pairs, pair, metrics, decisions, data,
             costs, survivors, large>>

(* An implementation, and whether its vectors are of 16 or of 32 bytes.    *)
volk_8u_x4_conv_k7_r2_8u_generic == [kind |-> "generic", width |-> 1]
volk_8u_x4_conv_k7_r2_8u_spiral == [kind |-> "x86", width |-> 16]
volk_8u_x4_conv_k7_r2_8u_avx2 == [kind |-> "x86", width |-> 32]
volk_8u_x4_conv_k7_r2_8u_neonspiral == [kind |-> "neon", width |-> 16]
(* Its three branches do the same on groups of two, one and half a         *)
(* register.                                                               *)
volk_8u_x4_conv_k7_r2_8u_rvv == [kind |-> "rvv", width |-> 32]

volk_8u_conv_k7_r2puppet_8u_generic == volk_8u_x4_conv_k7_r2_8u_generic
volk_8u_conv_k7_r2puppet_8u_spiral == volk_8u_x4_conv_k7_r2_8u_spiral
volk_8u_conv_k7_r2puppet_8u_avx2 == volk_8u_x4_conv_k7_r2_8u_avx2
volk_8u_conv_k7_r2puppet_8u_neonspiral == volk_8u_x4_conv_k7_r2_8u_neonspiral
volk_8u_conv_k7_r2puppet_8u_rvv == volk_8u_x4_conv_k7_r2_8u_rvv

-----------------------------------------------------------------------------
(* Bit k of a number, and parity(x & mask).                                *)
SetBit(x, k) == (x \div 2^k) % 2 = 1
Odd(x, mask) == Cardinality({k \in 0 .. 6 : SetBit(x, k) /\ SetBit(mask, k)}) % 2 = 1

d_polys == <<79, 109>>
BranchtabOf(polys, by) ==
  [j \in 1 .. 2 |-> [state \in 0 .. 31 |-> IF Odd(by * state, polys[j]) THEN 255 ELSE 0]]
Branchtab == BranchtabOf(d_polys, 2)
BranchtabRvv == BranchtabOf(<<39, 54>>, 1)

(* Exclusive or with a byte of the table.                                  *)
Flipped(b, sym) == IF b = 0 THEN sym ELSE 255 - sym
Lower(a, b) == IF a < b THEN a ELSE b
Average(a, b) == (a + b + 1) \div 2
AddSat(a, b) == Lower(a + b, 255)
SubSat(a, b) == IF a < b THEN 0 ELSE a - b

-----------------------------------------------------------------------------
(* generic, on all pairs of states.                                        *)
MetricOf(s0, s1, i) ==
  (1 + Flipped(Branchtab[1][i], s0) + Flipped(Branchtab[2][i], s1)) \div 8

(* What leads to state t, by the way from the lower and from the upper     *)
(* half of the states.                                                     *)
Ways(x, s0, s1, t) ==
  LET i == t \div 2
      m == MetricOf(s0, s1, i)
  IN  IF t % 2 = 0 THEN <<x[i + 1] + m, x[i + 33] + (63 - m)>>
      ELSE <<x[i + 1] + (63 - m), x[i + 33] + m>>

BFLY(x, s0, s1) ==
  LET m == [t \in States |-> [k \in 1 .. 2 |-> Ways(x, s0, s1, t)[k] % 256]]
      d == {t \in States : m[t][1] >= m[t][2]}
  IN  [y |-> [l \in 1 .. 64 |-> IF l - 1 \in d THEN m[l - 1][2] ELSE m[l - 1][1]], d |-> d]

Smallest(x) == Min({x[l] : l \in DOMAIN x})
renormalize(x) == LET min == Smallest(x) IN [l \in DOMAIN x |-> x[l] - min]

-----------------------------------------------------------------------------
(* The vectors.                                                            *)
(* Two bytes are shifted together, so that bits of the upper one come to   *)
(* the lower and are cleared.                                              *)
ShiftedPairs(x) ==
  [l \in DOMAIN x |->
     IF l % 2 = 1 THEN ((x[l] + 256 * x[l + 1]) \div 4) % 64 ELSE (x[l] \div 4) % 64]

Quartered(r, a) ==
  IF r.kind = "neon" THEN [l \in DOMAIN a |-> a[l] \div 4] ELSE ShiftedPairs(a)
BranchMetrics(r, s0, s1, k) ==
  LET table == IF r.kind = "rvv" THEN BranchtabRvv ELSE Branchtab
      state(l) == k * r.width + l - 1
  IN  Quartered(r, [l \in 1 .. r.width |->
        Average(Flipped(table[1][state(l)], s0), Flipped(table[2][state(l)], s1))])

(* A lane of each half of the states: what follows by a zero and by a one, *)
(* and whether that came from the upper half.                              *)
Kept(lower, upper) == [m |-> Lower(upper, lower), d |-> Lower(upper, lower) = upper]
LaneOfBoth(s18, s19, t) ==
  [even |-> Kept(AddSat(s18, t), AddSat(s19, SubSat(63, t))),
   odd |-> Kept(AddSat(s18, SubSat(63, t)), AddSat(s19, t))]

(* The k-th vector of each half of the states: for the even states that    *)
(* follow and for the odd ones, the metrics, and which came from above.    *)
ByParity(b) ==
  [even |-> [l \in DOMAIN b |-> b[l].even.m], odd |-> [l \in DOMAIN b |-> b[l].odd.m],
   dEven |-> [l \in DOMAIN b |-> b[l].even.d], dOdd |-> [l \in DOMAIN b |-> b[l].odd.d]]
HalfButterfly(w, x, t14, k) ==
  ByParity([l \in 1 .. w |-> LaneOfBoth(x[k * w + l], x[32 + k * w + l], t14[l])])

(* Mutant of Interleaved: AVX2 without the exchange of 128-bit lanes.      *)
InterleavedInLanes(r, a, b) == UnpackLow(a, b, 16) \o UnpackHigh(a, b, 16)
(* Two registers of even and odd states in turn.                           *)
Interleaved(r, a, b) ==
  LET low == UnpackLow(a, b, 16)
      high == UnpackHigh(a, b, 16)
  IN  IF r.kind = "rvv" THEN Weave(<<a, b>>)
      ELSE IF r.kind = "neon" THEN Weave(<<Low(a), Low(b)>>) \o Weave(<<High(a), High(b)>>)
      ELSE IF r.width = 16 THEN low \o high
      ELSE Halves(low, high, <<0, 2>>) \o Halves(low, high, <<1, 3>>)

(* movemask, vsm: the lanes that are set.                                  *)
SetLanes(d) == {l - 1 : l \in {l \in DOMAIN d : d[l]}}

(* NEON has no such instruction: shifted sums bring four bits to the even  *)
(* bits of a byte.                                                         *)
Gathered(d) ==
  LET High16(l) == IF d[l] THEN 1 ELSE 0
      Paired16(l) == LET v == High16(l) + 256 * High16(l + 1) IN v + v \div 64
      Paired32(l) == LET v == Paired16(l) + 65536 * Paired16(l + 2) IN v + v \div 4096
  IN  {8 * j + b : <<j, b>> \in {p \in (0 .. 3) \X (0 .. 6) : SetBit(Paired32(4 * p[1] + 1) % 256, p[2])}}

DecisionBits(r, b) ==
  IF r.kind = "neon" THEN Gathered(b.dEven) \cup {1 + l : l \in Gathered(b.dOdd)}
  ELSE SetLanes(Interleaved(r, b.dEven, b.dOdd))

(* Lanes by k down, within groups of g, zeros behind them.                 *)
LanesDown(x, g, k) ==
  [l \in DOMAIN x |-> IF ((l - 1) % g) + k < g THEN x[l + k] ELSE 0]
PairMinima(x, y) ==
  LET z == x \o y IN [l \in DOMAIN x |-> Lower(z[2 * l - 1], z[2 * l])]

(* The smallest metric, as it comes to all lanes.                          *)
SmallestOf(r, y) ==
  LET m5 == [l \in 1 .. r.width |-> Smallest([k \in 0 .. 64 \div r.width - 1 |-> y[k * r.width + l]])]
      halves == IF r.width = 32 THEN Lanewise(Lower, Halves(m5, m5, <<1, 2>>), m5) ELSE m5
      Down(x, g) == Lanewise(Lower, LanesDown(x, g[1], g[2]), x)
      Paired(x, k) == PairMinima(x, x)
  IN  IF r.kind = "rvv" THEN Smallest(m5)
      ELSE IF r.kind = "x86" THEN FoldLeft(Down, halves, <<<<16, 8>>, <<8, 4>>, <<8, 2>>, <<8, 1>>>>)[1]
      ELSE FoldLeft(Paired, PairMinima(Low(m5), High(m5)), <<1, 2, 3>>)[1]

Renormalized(y, low) == [l \in DOMAIN y |-> SubSat(y[l], low)]

(* What follows the k-th vector of a half begins at state 2wk.             *)
Followers(r, ks) ==
  LET y == FlattenSeq([j \in DOMAIN ks |-> Interleaved(r, ks[j].even, ks[j].odd)])
  IN  [y |-> Renormalized(y, SmallestOf(r, y)),
       d |-> UNION {{2 * r.width * (j - 1) + l : l \in DecisionBits(r, ks[j])} : j \in DOMAIN ks}]
VectorStep64(r, x, s0, s1) ==
  Followers(r, [j \in 1 .. 32 \div r.width |->
                  HalfButterfly(r.width, x, BranchMetrics(r, s0, s1, j - 1), j - 1)])

Stepped(r, x, s0, s1) ==
  IF r.kind = "generic"
    THEN LET b == BFLY(x, s0, s1) IN [b EXCEPT !.y = renormalize(@)]
    ELSE VectorStep64(r, x, s0, s1)

-----------------------------------------------------------------------------
(* What is sent: two symbols for each bit, of the last seven bits; before  *)
(* the word there were zeros.                                              *)
Sent(w, s) ==
  LET register == MapThenSumSet(LAMBDA q : 2^q, {q \in 0 .. 6 : s \div 2 - q \in w})
  IN  IF Odd(register, d_polys[(s % 2) + 1]) THEN 255 ELSE 0

VitInit ==
  /\ vitPc = "idle" /\ vit = volk_8u_x4_conv_k7_r2_8u_generic
  /\ word = {} /\ syms = <<>> /\ pairs = 0 /\ pair = 0
  /\ metrics = [X |-> <<>>, Y |-> <<>>] /\ decisions = <<>> /\ data = <<>>
  /\ costs = <<>> /\ survivors = <<>> /\ large = FALSE

(* The puppet: metrics without a bias, no decisions, and whatever the last *)
(* call left in Y.                                                         *)
VitCall(r, framebits, w, d) ==
  /\ vitPc = "idle"
  /\ vitPc' = "butterflies" /\ vit' = r
  /\ pairs' = framebits \div 2 /\ pair' = 0
  /\ word' = w \cap 0 .. pairs' - 1
  /\ syms' = [s \in 0 .. 2 * pairs' - 1 |-> IF s \in DOMAIN d THEN d[s] ELSE Sent(w, s)]
  /\ metrics' = [X |-> Splat(31, 64), Y |-> Splat(0, 64)]
  /\ decisions' = [i \in 0 .. pairs' - 1 |-> {}]
  /\ costs' = Splat(0, 64) /\ survivors' = decisions' /\ large' = FALSE
  /\ UNCHANGED data

(* A pair of symbols; X and Y change places.                               *)
VitStep ==
  LET s0 == syms[2 * pair]
      s1 == syms[2 * pair + 1]
      step == Stepped(vit, metrics.X, s0, s1)
      exact == [t \in States |-> Ways(costs, s0, s1, t)]
      above == {t \in States : exact[t][1] >= exact[t][2]}
      base == Smallest(costs)
      best == [l \in 1 .. 64 |-> Lower(exact[l - 1][1], exact[l - 1][2])]
  IN  /\ vitPc = "butterflies" /\ pair < pairs
      /\ metrics' = [X |-> step.y, Y |-> metrics.X]
      /\ decisions' =
           [decisions EXCEPT ![pair] = IF vit.kind = "generic" THEN @ \cup step.d ELSE step.d]
      /\ pair' = pair + 1
      /\ costs' = best /\ survivors' = [survivors EXCEPT ![pair] = above]
      /\ large' = (large \/ \E t \in States : Max({exact[t][1], exact[t][2]}) - base > 255)
      /\ UNCHANGED <<vitPc, vit, word, syms, pairs, data>>

(* The first of the best states, in the memory that X pointed to at first: *)
(* after an odd number of pairs it holds the metrics of one pair before.   *)
EndState ==
  LET x == IF pairs % 2 = 0 THEN metrics.X ELSE metrics.Y
  IN  Min({t \in States : x[t + 1] = Smallest(x)})

(* From the last row back, the states passed: bit 5 of the one before is   *)
(* the decision.                                                           *)
chainback_viterbi(dec, endstate) ==
  LET k(row, state) == IF state \in dec[row] THEN 1 ELSE 0
      at[row \in 6 .. pairs] ==
        IF row = pairs THEN endstate ELSE at[row + 1] \div 2 + 32 * k(row, at[row + 1])
  IN  [j \in 0 .. pairs - 7 |-> k(j + 6, at[j + 7])]

VitChainback ==
  /\ vitPc = "butterflies" /\ pair = pairs
  /\ vitPc' = "decoded"
  /\ data' = chainback_viterbi(decisions, EndState)
  /\ UNCHANGED <<vit, word, syms, pairs, pair, metrics, decisions, costs, survivors, large>>

VitReturn ==
  /\ vitPc = "decoded"
  /\ vitPc' = "idle" /\ vit' = volk_8u_x4_conv_k7_r2_8u_generic
  /\ word' = {} /\ syms' = <<>> /\ pairs' = 0 /\ pair' = 0
  /\ metrics' = [X |-> <<>>, Y |-> <<>>] /\ decisions' = <<>> /\ data' = <<>>
  /\ costs' = <<>> /\ survivors' = <<>> /\ large' = FALSE

VitNext ==
  \/ \E r \in Viterbis, b \in FrameBits, w \in SentWords, d \in Disturbances : VitCall(r, b, w, d)
  \/ VitStep
  \/ VitChainback
  \/ VitReturn

VitSpec == VitInit /\ [][VitNext]_vitVars

-----------------------------------------------------------------------------
(* Whatever the symbols, the metrics are the costs of the best ways to     *)
(* each state, above that of the best of all, and the decisions are those  *)
(* of these ways, although metrics are reduced after each pair and kept in *)
(* bytes, in another order in each implementation.  The vectors saturate,  *)
(* which never meets a sum that is kept; generic adds modulo 256 and is    *)
(* right as long as no sum is larger.  From undisturbed symbols the puppet *)
(* decodes what was sent, if their pairs are even in number.               *)
ViterbiRight ==
  /\ vitPc # "idle" /\ pair > 0 /\ ~(vit.kind = "generic" /\ large) =>
       metrics.X = renormalize(costs) /\ decisions = survivors
  /\ vitPc = "decoded" /\ (\A s \in DOMAIN syms : syms[s] = Sent(word, s)) /\ pairs % 2 = 0 =>
       \A j \in 0 .. pairs - 7 : data[j] = 1 <=> j \in word
=============================================================================
