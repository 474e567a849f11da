# VOLK in TLA+

VOLK is a C library of vector kernels.  A *kernel* (`volk_32f_x2_add_32f`, ...) has several
*implementations* (proto-kernels: `generic`, `a_sse2`, `u_avx`, `neonv8`, ...); the build compiles
them for several *machines* (sets of architectures), and at run time the library picks a machine
and, per kernel, one implementation for aligned and one for unaligned buffers.  `volk_profile`
measures the implementations and leaves a config file that overrides the pick.

This directory holds the specifications of what is hard in that: the lazy initialisation without
locks, the agreement between the several places that choose an implementation, the life of the
config file and the command line behind it, the test loop, and the kernels, whose result depends on
how lanes, vectors and tail are put together, on case distinctions repeated in every implementation,
and, for the decoders, on what earlier calls have left in memory.

## The system

| component | state | operations | talks to | hard |
|---|---|---|---|---|
| dispatcher, `tmpl/volk_dynamic_dispatch.tmpl.c` | `machine`, `__alignment`, `__alignment_mask`, a second `machine` in `volk_get_machine`; per kernel the pointers `kern`, `kern_a`, `kern_u` | calls through the three pointers (stub, `__init_kern`, `__kern_d`), `volk_get_machine`, `volk_get_alignment`, `volk_is_aligned`, `_manual`, `_get_func_desc` | ranking, processor detection | every thread initialises on first use, without locks or atomics |
| ranking, `lib/volk_rank_archs.c` | three statics: preference list, its length, "loaded" | `volk_get_index`, `volk_rank_archs` | environment, preferences | the statics race; ties, missing names, names of other machines |
| static dispatch, `tmpl/volk_static_dispatch.tmpl.h` | none | `pick_best` at generation time | generator | has to agree with the ranking, written in another language |
| preferences, `lib/volk_prefs.c` | the config file | `volk_get_config_path`, `volk_load_preferences` | file system, environment | the file may be half written or from another machine |
| profiler, `apps/volk_profile.cc` | results, options | `read_results`, tests, `write_results`, JSON | test runner, config file | killed while it writes; reads back what it wrote |
| test runner, `lib/qa_utils.cc` | one result per kernel | run, compare, select | kernels | several outputs per kernel, two orders of the implementations |
| test program, `lib/testqa.cc` | verdicts | loop over the tests, or one test, XML | test runner | an exception ends one way of running and is a pass for the other |
| option parser, `apps/volk_option_helpers.cc` | list of options | `parse`, `present` | profiler, config-info | an option's value is looked at as an option |
| aligned memory, `lib/volk_malloc.c`, `volk_alloc.hh` | none | allocate, free | C library | sizes near the end of `size_t`, three libraries with different demands |
| kernels, `kernels/volk/*.h` | none between calls, but for the rotator's `*phase`, the `*saveValue` of fm_detect and the buffers of the polar and Viterbi decoders | 1378 functions in about 140 kernels | intrinsics helpers | lanes, partial vectors, tails, in-place buffers, NaN, limits of the integer types |
| generator, `gen/` | none | headers and XML to tables | templates | an implementation whose `#ifdef` names no architecture is in no table |
| build, `lib/CMakeLists.txt` | lists of archs and machines | checks, overrules, removes | generator | - |
| processor detection, `tmpl/volk_cpu.tmpl.c` | none | `volk_get_lvarch` | dispatcher | - |
| `volk_modtool`, `volk-config-info`, plots, unit tests, CI, packaging | - | - | - | - |

What makes each one correct:

- dispatcher: no call runs code the processor lacks; no call runs an aligned implementation on an
  unaligned buffer; a call initialises its kernel once and returns; all threads end with the same
  choice; the queries agree with what is dispatched.
- ranking: it always finds an entry of the table; a name leads to its implementation; static and
  dynamic choice are the same; a better processor is never served worse.
- preferences and profiler: what a finished run found is what the next program uses; an update
  loses nothing and completes the file, whatever was killed before; the file is never dangerous.
- test runner: an implementation that differs from `generic` is not named the best; the fastest
  admissible one is; alignment is not mixed up by the reordering.
- index kernels: the first of the best values, for every length.
- all other kernels: every implementation stores, or adds up, what `generic` does, for every
  length, and touches nothing behind the buffers.
- rotator: every point is turned by its own phase, and a call leaves the phase the next one needs,
  whichever implementations take turns.
- kernels with running values: a detected signal does not depend on how it is cut into calls, and
  partial deviations are joined to that of all points.
- trigonometric kernels and tanh: every implementation reduces an argument to the same value, in every
  quadrant, and the arc functions know infinities and NaN.
- polar codes: every implementation encodes alike, and decodes bit after bit what was sent, from
  whatever the memory held before.
- Viterbi decoder: metrics in bytes, reduced again and again, decide like costs that never overflow.
- around the test loop: every function is called as it is declared; a comparison fails exactly if
  values are apart, NaN and infinities included; the test program tells what the tests found.
- aligned memory: a block is aligned and as large as was asked for.
- option parser: the options that are given are set, with the values that are given.

## Modules

| module | models |
|---|---|
| `RankArchs` | `volk_get_index`, `volk_rank_archs`, `pick_best`, `get_impls`: operators over tables of implementations |
| `Dispatch` | the dispatcher with the racy part of `volk_rank_archs` and `volk_load_preferences`; composes `RankArchs` |
| `OneShotCalls` | the abstract specification of the dispatcher: a call has one outcome, settled beforehand |
| `RankTables` | a saved choice over time: implementations come and go, machines change; composes `RankArchs` |
| `Profile` | `volk_profile`, the config file and the programs that read it; composes `RankArchs` |
| `OptionList` | `option_list::parse` with the options and callbacks of `volk_profile` |
| `ProfileCommand` | `volk_profile` from its command line on; composes `Profile` and `OptionList` |
| `QaTests` | `run_volk_tests` for one kernel: the loops that run, compare and select |
| `Signatures` | how `run_volk_tests` takes a kernel's name apart and calls its function |
| `TestList` | the 128 tests of `init_test_list`, with what each function is declared to take |
| `Comparisons` | `fcompare`, `ccompare`, `icompare` |
| `TestProgram` | `volk_test_all`, with and without the name of a kernel |
| `AlignedMemory` | `volk_malloc`, `volk_free`, `volk::alloc` |
| `IndexKernels` | one state machine for all 92 index proto-kernels, driven by a record of how each one works |
| `IndexProtos` | the 92 records, one line per C function |
| `StreamKernels` | one state machine for the kernels that go over their points once: loops over blocks and a tail |
| `SymbolicLanes` | vectors of terms and the intrinsics on them; how a proto-kernel's record is made |
| `LaneProtos` | 149 proto-kernels that work lane by lane on one width |
| `ComplexProtos`, `DistanceProtos` | 108 and 58 proto-kernels on complex numbers: sums, products, conjugates, floats and doubles; magnitudes, distances, quotients |
| `MoveProtos` | 121 proto-kernels that take complex numbers apart or put them together |
| `ConvertProtos` | 136 proto-kernels between floats and integers of all widths |
| `ByteProtos` | 134 proto-kernels on bytes and 16-bit integers: swaps, saturated sums, complex products, clamps |
| `MathProtos` | 120 proto-kernels: powers, logarithms, exponentials, inverse roots, tanh, conversion to 32 bits, spectra, noise floor, mod_range, reversed bits, the 16-bit kernels of turbo decoders |
| `TrigProtos` | the loops of 95 trigonometric proto-kernels |
| `SumKernels` | `StreamKernels` with accumulators: the kernels whose result is a sum over all points |
| `SumProtos` | 137 proto-kernels that add up: dot products, accumulators, standard deviation, polynomials |
| `Rotator` | the rotator, called again and again: by points, by vectors and an angle, by vectors of RVV |
| `RunningKernels` | `fm_detect`, called again and again, and `stddev_and_mean` by partitions |
| `Angles` | reduction, choice of polynomial, signs and special values of `sin`, `cos`, `tan`, `sincos`, `asin`, `acos`, `atan`, `atan2`, and the ranges of `tanh` |
| `PolarCode` | the polar encoder, the decoder's butterfly and the loop of its documentation |
| `Viterbi` | the butterflies for the code of constraint length 7 and rate 1/2, and the puppet's walk back |
| `MC*` | the instances for TLC |
| `*_proofs` | the theorems |

### Dispatch

An implementation is its position in the kernel's table, 0 is a null pointer or a stub.  A step of
a thread is one access to a shared C variable with the thread-local code around it.  `mem` is what
all threads see and `buf[t]` holds the stores of `t` nobody else sees yet: with `Delayed = 0` the
memory is sequentially consistent, otherwise up to `Delayed` stores of a thread are pending and
become visible in any order, which is all C promises of plain variables (and more than x86 does).
`InitFirst` restricts the program to one that returns from a call of the API before it starts
threads; `ConfigStable` says nobody rewrites the config file meanwhile.  `pc[t]` is the place in
`get_machine` (`machine` .. `store_mask`), `volk_rank_archs` (`prefs` .. `rank_u`), `__init_kern`
(`store_a` .. `store_kern`) or a query.  A scan of the preference list beyond its end is undefined
and modelled as `crashed`; the place has no outgoing step.  `volk_rank_archs` is called twice by
`__init_kern`; the preferences are loaded in the first call only, and the second goes straight to
the scan because the thread sees its own `prefs_loaded`.  Left out: the floating-point mode
`volk_get_lvarch` restores, the `n_archs == 0` case (a build always has `generic`).

### RankArchs and RankTables

Machines and dependencies are sets of architecture numbers and a mask is the integer the C code
compares; it fits an `int` (`MaxInt`), which the generator keeps by having fewer than 31
architectures.  Names are compared by their first 20 characters (`First20`), as `strncmp` does, also
where the dispatcher and the profiler look names up.  No two names of one kernel at this commit agree
that far, which is what `Profile` assumes (`ImplsAssumption`); `RankTables` does not: it starts from a
kernel with `generic`, adds implementations before or after the others (`AddImpl`) and takes them out
again (`RemoveImpl`), saves a choice on one machine (`SaveChoice`) and has it looked up on any other
(`OtherMachine`).  That a name finds itself is no matter of course there: it may be gone, it may
never have been in this machine's table, and an implementation before it may have a name that is the
same as far as it is compared.  It has its instance in `MCProfile`.

### Profile

The config file is a sequence of lines and a line a sequence of tokens, so that the two ways to
read it (three tokens or more, exactly three) differ as they do in the code.  A run with any of the
options is a loop over the test list, in which a kernel with one implementation is measured only by
a benchmark (`-b`, `Measured`); `Crash` kills it anywhere, also between the flushes of
`std::endl`.  The first run has the options its command line gives (below), those that follow have
any of a set of options.  `old`, `ended` and `updated` are not in the code; properties need them.  Left out:
`-p` names a directory under which the loader looks for `volk/volk_config` but the profiler writes
`volk_config` (the model names places); JSON; the limit of 255 characters per line.

### OptionList and ProfileCommand

`parse` walks over `argv` and, for each argument, over the list of options; an option that has a
value moves on to it, and the *rest of the list* is then compared with the value.  One action is one
argument with its walk over the list (`FoldLeft` over `Matching`); arguments are tokens, of which
some start with `-`, some are numbers, and all others are 0 for `atoi`.  A missing value passes a
null pointer to `atoi` or `std::string` and ends the program.  `OptionsAsSaid` reads the same line
from left to right without the list: which arguments are values follows from the arguments before
them alone.  It speaks of lines in which no value is missing, none is one that the messages of
`parse` rule out (`WrongValue`), and none is the name of a later option (`Proper`).  On the other lines
the code does not do what its messages say, or no message says what should be done; what happens is
listed below.  Left out: options that change nothing
the model has (`-t`, `-v`, `-i`, `-j`, `-w` are parsed, their callbacks do nothing), `true` and
`false` compared as prefixes.

### QaTests

The verdict of every comparison and every run time is arbitrary.  `differed` records the verdicts.

### Signatures and TestList

The tokens of a name are types, multipliers and words; consecutive words are one token.  One action
is one token of `get_signatures_from_name`, then the scalars are pulled out and the function is
called: `Handler` is the choice among the ten casts, and what the call passes is compared with what
the function declares, which `TestList` takes from the kernels' headers.  `CompareAs` is the choice
among the comparisons of an output.  Left out: names that are no kernel's; the sizes of the buffers
(points times the bytes of `Buffers`).

### Comparisons

One action is one point, of any two values.  Floats are whole numbers up to `Largest`, infinities
and NaN; sums and squares overflow.  Errors and norms are compared by their squares.  Relative
tolerances are at most 1 and all have a square that is a float, as those of `kernel_tests.h` (of
which one, 1000, is absolute); `volk_profile -t` could give others, with which an overflowing
difference may fail although it is within a tolerance that the floats cannot express.  Left out:
`max_err` and the indices that are printed; rounding; 64-bit integers, whose difference may overflow,
but whose tests have tolerance 0.

### TestProgram

How a test ends (which implementations differed, or that it threw) is arbitrary.  Left out: the
layout of the XML, whose counts and suites are kept.

### AlignedMemory

Addresses and sizes are small numbers; the three libraries `volk_malloc` can be built with may put a
block anywhere it fits and is aligned, or fail.  A block remembers what it was asked for.  Left out:
memory that is freed twice or was never allocated.

`MCProfile` composes these four, `QaTests` and `RankTables` with the runs of `volk_profile`, which see no more of
them than the outcome of a test: in one initial state of the profiler (`Aside`), one of them goes on
step by step while the others rest; in all others a test's result is arbitrary among those the loop
can have.

### IndexKernels

A value is its rank (larger is better), which covers `max`, `min` and the squared magnitudes; NaN
is a value of its own.  A proto-kernel is a record: lanes, the permutation by which points come to
lanes, the comparison, how lanes are reduced, whether equal values are told apart, where indices
are floats, whether the 16-bit cap applies, whether the last vector may be partial (RVV), and the
pair-and-single tail of sse3.  One action is one vector, one lane of the reduction, or one point of
the tail.  Left out: calls with `num_points == 0` (x86 and 16u kernels read `src0[0]` first);
values at or below the starting value of the lanes where that is not the first point
(`-FLT_MAX`, infinities): rank 0 is that value; the differences a fused multiply-add makes between
the magnitude in a vector and in the tail; the 32-bit product `num_points * 8` in sse3.

### StreamKernels and SymbolicLanes

What a block of a kernel does with lanes is data, not control, and is evaluated once: `Load(1, 0, 8)`
is the vector of eight *terms* "element 0 of input 1" ..., the intrinsics are operators on such
vectors, and the lanes that are stored end up as terms over the inputs.  A term is a polynomial in
atoms, kept as a set of pairs, so that two terms are equal if the formulas are, up to the order of
sums and products.  That is exactly the freedom vector code takes; the rounding of floats is thereby
left out, as are the last bits of estimates that Newton's steps refine (`Quotient`, `Root`).  A
proto-kernel is a record: what `generic` makes of the first points (`result`), and its loops, each
with the points per round, the values stored and the points loaded.  The row modules have one
definition per C function, named like it, made of the same few lane operators as the code; where a
kernel's functions agree in what a block does, they share it (`CSumV`), and rows differ in the sizes
of their blocks.

`StreamKernels` runs a record on `n` points.  `Round` is one iteration with all its loads and stores;
`NextLoop` and `Finish` are the ends of the loops.  Elements are numbered from the block's first
point, so that `mem` keeps for each point where its block began.  RVV's loop may take fewer points
than a register group, as many as `vsetvl` is allowed to give.  An operand that is also the result is
not modelled apart: a round loads what it stores to before it stores, and nothing of later rounds.

A function that vectors approximate (a logarithm, an exponential, a sine) is an atom over its argument
(`Apply`); the approximation is the same code for every lane, and where it decides by cases `Angles`
has it.

Left out: functions generated by Orc and hand-written assembly, `neon_fancy_sweet` of the magnitude;
how good approximations are; kernels that carry a value from round to round, which are in `Rotator` and
`RunningKernels`; which of two integers is nearest to the middle between them, and what becomes of
results that do not fit (some vectors saturate where `generic` wraps).  Rows that would not agree
with `generic` for values in range are left out as well, and listed under "What the runs found".

### SumKernels

A kernel that adds up keeps partial sums in the lanes of several registers, reduces them between its
loops and behind the last one, and adds a tail.  An accumulator is kept in `acc` as its summands, one
entry for each round: what this round added to which lane, as terms.  A reduction (`carry` of the
next loop, `sums` at the end) says of each new lane how often it takes each of the old ones; the rows
obtain it by running the same operators (`Plus`, `HAdd`, `Shuffle`, ...) on lanes that stand for
themselves.  `SumAsGeneric` asks that every point is counted by exactly one round and that what is
left of the round at the end is what `generic` adds for its points.  Left out: the order of float
additions, saturation of 16-bit sums, what is done with the finished sum (the square root of a
standard deviation), which is the same in all implementations.

### Rotator

A phase is the number of increments it stands for: products of phases are sums, and normalizing
changes nothing.  `turned` keeps by how much each point was rotated.  The vectors of phases, the
accumulated angle and `*phase` are separate variables, as they are in the code; one action is one
round of a loop, the re-synchronization behind a block, or one of the steps between the loops.  The
lanes behind `vl` are undefined after a shorter round of RVV and simply missing from `phases`, so that
using one is an error of the run.  `*phase` is either what the last call left or 0, and the next call
may be of another implementation.  Left out: rounding and the compensated sums against it, and phases
and increments of an absolute value other than 1, which only the functions without an angle honour.

### RunningKernels

A phase of the signal is a whole number in (-`Bound`, `Bound`]; `Signal` is one such signal, the first
of it what `*saveValue` holds before the first call.  `Detect` is a call, of any function, on the next
`m` phases: the first vector, or point, by hand, the loop over vectors, which corrects a difference by
masks, and the tail; `heard` is all that has come out.  A call of `stddev_and_mean` goes from `Deviate`
(which hands few points on to `generic`) through the rounds of its loop (`LaneRound`: the partition of
each lane, a sum and a sum of squared distances from the mean, takes in one value), the stages in which
partitions are joined (`Accrue`: neighbours in an array, at twice the distance each time, or the halves
of registers) and the points that are left (`TailValue`) to `DeviationReturn`; the variables are named
as in the code.  Quotients are exact, in lowest terms.
Left out: what all functions do alike at the end, the division by `num_points` and the root; rounding.

### Angles

An argument is a whole number of pi/48, and so is the name of what is computed: `v` stands for
sin(v pi/48) as a sine, and for tan(v pi/48) as a tangent.  In these names sine and cosine are
triangles, a polynomial is the function it approximates on the interval it is made for and `Off`
elsewhere, and everything the kernels decide is exact: the octant or quadrant, which polynomial, the
sign, the reduction of `atan` by 1/x, the square-root branch of `asin`, infinities and NaN.
Arguments are odd, so that none lies on an edge, where the two sides agree in value and implementations
may differ in which they take.  One step (`Sin`, `Cos`, ..., `ArcTan2`) evaluates one function at one
argument, and `answers` holds what each family of code makes of it.  `AngleRight` compares all
answers with the function (for `tanh`, a size stands for its tanh as well, and two points follow each
other in one call); `Misses` says exactly at which arguments code is known to be wrong, and
`AngleRight` asks that it is wrong there and nowhere else.  Left out: coefficients and rounding.

### PolarCode

A byte is the set of its bits.  The encoder is given bytes that each have a bit of their own, so that
a sum shows exactly which inputs it is made of; its two buffers, with the pointer swaps between
stages, are `coding`.  The decoder decides bit `u_num` from llrs that are whole numbers, re-encodes
what is decided, and keeps rows of llrs and of bits by stages (`decoding`); all that has not been
written is `Unset`, which may be 0 or 1.  `by_generic` is the same for the generic implementation.
`PolarDecoded` asks that each implementation has the llrs of `generic` and, of a word without wrong
signs, decides what was sent; the functions of RVV are held to that where all bits are zero
(`OnlyZeros`), and `polar_rvv` shows why.  Left out: puppets called with fewer than 6 elements; the
sign of a zero llr; a frame of one byte, for which the encoder writes nothing.

### Viterbi

Symbols, metrics and the threshold are bytes, with the operations of C: `generic` adds modulo 256, the
vectors saturate.  A step is one pair of symbols, for all 64 states, with the renormalisation behind
it and the exchange of the pointers; then the puppet walks back through `decisions`.  Next to it,
`costs` and `survivors` are the algorithm in whole numbers.  `ViterbiRight` asks that metrics differ
from costs by the same amount for all states, and that decisions and decoded bits are the survivors'.
It excuses `generic` from the moment a sum of two bytes was larger than a byte (`large`), which its
additions lose and those of the vectors do not.  After an odd number of pairs the best state is taken
from the metrics of one pair before, as in the code.

## Runs

| run | shows | bounds |
|---|---|---|
| `dispatch_weak` | two threads that both come first, with two pending stores each, reordered, and a file that changes: what is run is supported, the kernel is initialised once per call, and the dispatcher is seen only when both implementations have been chosen | 1 kernel with 6 implementations, 4 machines of which 3 are runnable; calls through `kern` only, 1 unaligned buffer, 2 config files |
| `dispatch_started` | with one call first: refinement of `OneShotCalls`, liveness, alignment, agreement of the queries | all 5 kinds of calls, 3 config files |
| `dispatch_first_use` | **violated**: two first calls together can run an aligned implementation on unaligned buffers | all kinds of calls, stores in order, no file |
| `qa_failed_chosen` | **violated**: a wrong first output does not disqualify | two outputs, 4 implementations, 3 times, any verdict |
| `profile_runs` | the choice among the implementations of a kernel (as `qa_failed_chosen`); a command line is parsed as it reads; full, selective, dry, benchmark and update runs in any order, killed anywhere | all lines of up to 4 of 9 arguments (options of each kind, help, a number, `false`, a word), of up to 3 where there is a file first (where it is looked for); 3 test cases: by its own name, through a puppet, with one implementation |
| `profile_runs`, aside | the loops of a test; every test is called as declared; comparisons, memory and the test program's verdict are right; static choice and run-time scan agree, and a saved choice stays good on other machines and with other tables | all 128 tests; 2 points of any 2 of 12 floats up to 10, 4 tolerances; a `size_t` of 4 bits, 9 addresses, 5 sizes, 4 alignments; 3 tests with 4 ends each; every table of up to 3 implementations over 2 architectures, with names that agree in 20 characters, and every choice saved before |
| `profile_update_swaps` | **violated**: `-u` exchanges the columns it read | update runs |
| `index_kernels` | every distinct record of `IndexProtos` | inputs flat but for up to two values of rank 1, 2 or NaN; lengths 3, w + 3, 2w + 1 and, with a cap, Cap + 2 |
| `stream_kernels` | every loop of every one of the 1056 records stores or adds up what `generic` does, inside the buffers; calls of the rotator and of fm_detect go on where the last one stopped | 3 points (a tail, or more than one round of `generic`), and two and a half of the first block; RVV groups of 4; rotator: blocks of 16 instead of 512 points, 7 lengths from 0 to 43, calls that begin at phase 8 or less; angles: odd numbers from -143 to 143, three turns; polar: frames of 2 to 128 bytes, decoded frames of 2 to 64, 4 words with and without 5 wrong signs; Viterbi: 12, 27 and 49 bits, 2 words, no, soft and stormy disturbances; a signal of 40 phases in calls of 0, 1, 3, 4, 5, 8, 9, 17 and 19; deviations of 0 to 2w + 3 points for w lanes, and of 2w + 3 points of which one or two are not 0 |
| `index_float` | **violated**: indices in floats beyond 2^24 | 8 stands for 2^24; sse and avx |
| `tangents` | **violated**: the tangents of x86 below -pi, and of RVV, have wrong signs | three arguments around -1.4 pi |
| `tanh_series` | **violated**: the series for tanh stops moving on behind an argument out of its range | two points |
| `polar_rvv` | **violated**: RVV's butterfly decodes a word with ones in it wrongly | frames of 16 |

Why the bounds are enough.  Two threads: every race of the dispatcher is between a thread inside
`get_machine`/`__init_kern` and one that reads what it has stored; the theorem about
`RunsSupported` has no bound.  One kernel: kernels share only the machine and the preferences, and
the second kernel's entry is in the config file.  Two peaks: a wrong tie or a lost value needs two
points, and they are put at any two places of two full vectors and a tail, so that each pair of
lanes, of vectors, and of lane and tail occurs.  The caps `USHRT_MAX` and 2^24 are scaled to 19 and
20: larger than two vectors of 8 lanes (and one of 16) and the tail, so that no kernel of the
passing run is past them unless the input is meant to be.  RVV registers have 4 lanes in the
instance; the proof has any number.  For the stream kernels two rounds and a rest run each loop of
each record at least once, which shows of every block that it is right; from there on the theorem
about `StreamKernels` goes to every `num_points`.  The conditions of these theorems on the records
are evaluated by the same run, for all of them (`RowsAssumption` of `MCStreamKernels`).  For the
rotator a block has to hold more than one vector, and a call none, one and two blocks, with and
without vectors and single points behind them; the lengths are chosen for that.  Angles: the theorem
has no bound.  Polar: frames of 16, 32 and 64 are the smallest in which a row is decoded by vectors and
in which decided bits are encoded again by SSSE3 and by AVX2; for the encoder 128 is two rounds of the
widest block, and 37 a length that is no power of two.  Comparisons: 4 and 10 are values whose
squares, and differences whose sums of squares, overflow, 3 one whose own square does not.  Memory: 13
and 3 elements of 3 bytes, at alignment 4, are sizes behind the last one that can be rounded; the
theorem has no bound.  Viterbi: 27 is odd, 49 leaves 43 bits behind
the shift register's 6, so that paths merge; the storm drives metrics to 252 and sums beyond 255,
which is where bytes could go wrong.  Running values: calls of `fm_detect` are shorter than a vector,
one vector, or longer with and without a rest (17 and 19 are the ones with a round of vectors for 8
lanes), in any order; deviations are of fewer points than lanes, and of up to two rounds and a tail;
where one or two points are 1 and all others 0, each coefficient of the sum and of the sum of squares is
seen by itself.  The theorem has no bound.

Fairness (`FairSpec` of `Dispatch`): every thread inside a call goes on (the OS runs it), and a
store is published some day (caches are coherent).  Nobody has to begin a call, start threads or
rewrite the file.  The other specifications have none: their properties are safety.

`CHECK_DEADLOCK FALSE` only in `polar_rvv` (a frame that is decoded is the end).

## What the runs found

- `get_machine` publishes `machine` before `__alignment` and its mask.  A second thread that comes
  in between takes mask 0, calls every buffer aligned and may run an `a_` implementation on an
  unaligned buffer (`dispatch_first_use`).  In the same window `volk_get_alignment` returns 0.  One
  call before threads are started is enough to avoid both (`dispatch_started`).
- `read_results` and `write_results` disagree on the columns; `volk_profile -u` exchanges the
  choices it keeps (`profile_update_swaps`).
- With several outputs only the last comparison disqualifies an implementation
  (`qa_failed_chosen`).
- The 32u index kernels of x86 and one of NEON round indices above 2^24 (`index_float`).
- `volk_32f_tan_32f` of x86 compares masks as if they were floats where it decides the sign of the
  sine, and of RVV rounds the octant to nearest instead of down: both have wrong signs (`tangents`),
  RVV also in `volk_32f_sin_32f` and `volk_32f_cos_32f`.
- `volk_32f_tanh_32f_series`, which is also the tail of all vector functions but RVV's, does not move
  on behind an argument beyond 4.97: all further outputs are 1 or -1 (`tanh_series`).
- `volk_32f_8u_polarbutterfly_32f` of RVV asks whether a bit is below 0 and so never negates
  (`polar_rvv`).

Seen while modelling, no run of their own: `volk_get_machine` fills only its own static, so that
`volk_is_aligned`, which `volk_dynamic_dispatch.tmpl.h:22` calls unusable before another call of the
API, still says yes to everything after it; `volk_32fc_x2_square_dist_32f_a_avx2` and `u_avx2` load
two points of `src0`, whose documentation says that only the first is used (`once |-> 2`; the run
leaves these two rows out, `InBounds` fails for them); the same kernels multiply `num_points` by 8
in 32 bits; with delayed stores and a file that is rewritten,
pointer and length of the preference list may come from two files, and the scan can leave the
array (`PrefsInBounds` is therefore not among the properties of `dispatch_weak`); `-R` without `-u`
drops the entries of all other kernels; avx2 and sse3 of the complex index kernels return a later
one of equal values (`FirstBest` excludes them by `TieSafe`, `BestFound` holds of them); NaN in a
register makes neonv8 return `UINT32_MAX` (`InRange` excludes it); 23 implementations ask for
`avx512bw`, `rva23` or `rva22v`, which are no architectures of `archs.xml`, and are in no table; an
aligned choice may have fewer dependencies than the unaligned one (the comment in
`volk_rank_archs` says so).

Of the tests: a kernel that works in place (`volk_32f_s32f_normalize`) has no output by its name, so
that nothing of it is compared and it always passes; a complex output is never found wrong in
relative mode where the square of the expected norm overflows (`Blind`); a test that throws is a pass
of `volk_test_all` without arguments and the end of the program with the kernel's name; an unknown
name is a pass; four buffers with a scalar would be called without it.  `volk_malloc` rounds sizes of
the last `alignment - 1` bytes of `size_t` to 0 (`RoundsOver`).

Of the option parser: wrong values are not reported.  The comment at `volk_option_helpers.cc:164-166`
and the messages at lines 133, 143 and 176 say that a boolean option takes `0`, `1`, `true` or `false`, an
int or float option a number, and that anything else is an error; but `atoi` and `atof`, on whose
exception this depends, throw none.  So `-u word` drops the word and does not update, `-v word` sets 0,
and `-v -u` sets 0 and updates as well: an option whose value is the name of a later option is followed
by that option too (also `-R -u`, with `-u` as pattern); `-u 0` behind `-u` does not turn the update off; an option
without its value ends the program.

Of the kernels, where they have no row, or a row only for part of what they do:
`volk_32f_s32f_convert_32i` of x86 clips at `(float)INT_MAX + 1` and so turns values from 2^31 on
into `INT_MIN`, where `generic`, NEON and RVV saturate (its rows speak of values in range); the vectors
of `volk_32f_tanh_32f` use their quotient of polynomials for all arguments, where it leaves -1 .. 1
(and is NaN at infinity); `volk_16i_max_star_16i_a_ssse3` starts from zeros instead of `src0[0]`, so
that the maximum of negative values is 0; `volk_16i_x4_quad_max_star_16i_a_sse2` decides a difference of
2^15 otherwise than `generic`; `volk_16i_max_star_horizontal_16i` of SSSE3 and NEON reads one point more
if `num_points` is odd; the tests of the 16-bit kernels of turbo decoders are commented out
(`lib/kernel_tests.h:295`); `volk_32f_s32f_x2_convert_8u_neon` truncates
instead of rounding; `volk_32f_binary_slicer_32i_rvv` gives 0 for -0.0;
`volk_8ic_x2_multiply_conjugate_16ic` of RVV wraps a real part of 32768, which `generic` clips; the
vectors of `volk_32f_s32f_x2_clamp_32f` differ from `generic`
if min > max.

Of `volk_32fc_s32f_atan2_32f` (`Misses` lists the arguments): the vectors turn NaN next to an
infinity into an angle, which `generic` does not; NEON takes a negative zero as real part for a
positive one, and `generic` does so if both parts are zero; a quotient that overflows or vanishes
in the tail costs `generic` the right sign.

Of the Viterbi decoder: `generic` adds metrics modulo 256, where the vectors saturate, and decides
differently once a sum is too large; the puppets allocate `D`, and the decisions with it, for the
`framebits` of their first call only; with an odd number of pairs they choose the last state by the
metrics of one pair before.

Of the rotator: the functions of RVV, called with no points, move `*phase` back by a vector
(`PhaseGoesOn`, a part of `RotatorRight`, says so); the functions with an angle ignore the absolute values of phase and
increment; `volk_32fc_s32fc_rotator2puppet_32fc_rvvseg` calls the function of `rvv`, so that the one
of `rvvseg` is never tested or measured.

## Proofs

- `Dispatch_proofs`: no call runs an implementation the processor lacks (`DispatchRunsSupported`),
  for any threads, kernels, machines, config files, delays and reorderings.  The invariant `IInv`
  is needed because `RunsSupported` says nothing about pointers: a location holds 0 or what every
  thread computes for it (`Stored`), in memory and in every buffer, and a thread past `get_machine`
  sees the machine, which is its own store or memory's.  Since all threads store the same machine,
  the races do no harm to this property, nor to `InitOncePerCall`, for which the invariant counts
  the initialisations of a call along its program counter, nor to `PublishedMeansReady`
  (`DispatchPublishedMeansReady`): the stores of the three pointers may become visible in any order,
  but a thread issues that of the dispatcher last, so that whoever sees it knows that the other two
  have been made, in memory or still pending.  The other properties are false without
  more, which is said in the theorems as hypotheses on the constants, those of the run
  `dispatch_started`: with `InitFirst` every thread that starts sees machine, alignment and mask
  (`ReadyInv`), from which `DispatchQueriesAgree` and, unless the user names an aligned
  implementation, `DispatchNoMisalignedRun` follow (without it the run `dispatch_first_use`
  violates it); with `Delayed = 0` and a config file that does not change, the length and the list belong together (`DispatchPrefsInBounds`), every thread
  ranks alike (`DispatchChoiceIsFinal`) and every step is one of `OneShotCalls` or leaves it alone
  (`DispatchImplementsOneShot`).
- `RankArchs_proofs`: the ranking always yields an entry of the table (`RankInTable`), and an unaligned rank is an unaligned
  implementation unless the user says otherwise (`RankUnalignedIsUnaligned`); and the elements
  picked from a list keep their order (`PickedInOrder`), which the tests and the profiler rest on.
- `Profile_proofs`, the test of one kernel: `ChoicesAreAdmissible`, `NothingIsFaster` and
  `VerdictIsComplete`, for any implementations, outputs and times.  `TestsInv` says of each loop what
  it has recorded so far: as many times as implementations run, a verdict that is that of the
  comparisons made (`differed`), `fail` being that of the last one, and one record of `fail` per
  implementation.  Since names are unique and the reordering is a permutation
  (`ArchListHoldsAll`), what is looked up by name belongs to the position it was recorded at.
- `ProfileCommand_proofs`: `OptionsAreAsSaid`, for any list of options with names that are all
  different, and any lines.  `Told` says that up to `arg` the callbacks have been called for the
  options that were said, and that `arg` is never an argument that is the value of another
  (`Said` is shown to obey its own rule: `SaidByRule`).  What one round over the options does is
  their fold unrolled (`FoldedOptions`): in a proper line at most one option consumes the argument,
  and none of those behind it has the name of what was consumed (`RoundCallsOne`).  The fold over the
  list goes by the least number at which something would cease to hold (`CountedUp`).
  `CommandsAreProfiles`: whatever the line, `volk_profile` is a `Profile`, so that the theorems about
  that hold of the whole program.
- `Profile_proofs`, the test program: `VerdictIsTold`, for any list of tests and any ends of them, from
  the invariant that the tests before `ii`, and no others, are recorded, and that there are as many
  `qa_failures` as tests that failed.
- `Profile_proofs`, the profiler: `ConfigIsSafe`, `ResultsReachTheLibrary`, `UpdatesAreComplete` and
  `EntriesAreUnique`, for any tests, tables, options, places and any number of runs, each killed
  anywhere.  `ProfileInv` says that every file is one a run may have left (`IsResultFile`), also
  half written; that a result is of a test before `next` or was read from the file, so that no
  config name comes twice; that every kernel of the old file, and every one tested so far, has a
  result; and that a file being written holds the comments and the results up to what `out`
  still has (`Progress`).  `ConfigIsSafe` needs `SafeInv` on top: a file no `-u` run has written
  prefers no aligned implementation for unaligned buffers, if those before did not.
- `Profile_proofs`, the values: `ProfileTypes` and `TestsTypes`, the type invariants of the profiler and of
  the test of one kernel, for any tables, files and runs.
- `Profile_proofs`, the comparisons: `ComparisonsAreRight`, for any finite values, any largest one,
  tolerances and numbers of points.  The invariant is the property and that the call is one of the
  three functions with such a tolerance; the work is in one point (`PointRight`): magnitudes are
  ordered as their squares (`SquaresOrdered`), rounding a tolerance down does not matter to whole
  numbers, and a difference or square that overflows would have exceeded what is allowed of a norm
  that has a place (`OverflowExceeds`), which is where the bounds of tolerances are needed.
- `RankTables_proofs`: the three properties of tables in `profile_runs`, for any tables
  (`StaticChoiceAgrees`, `SavedChoicesHold`, `MoreArchsAreNeverWorse`), from the invariant that a
  kernel has `generic` and no name twice, and that what was saved was the name of an implementation
  whose alignment its first 20 characters tell (`KernelInvHolds`).
- `IndexKernels_proofs`, `FirstBestHolds`: the first best point for any number of lanes, any
  permutation, any length.  The invariant says that for every point consumed some lane *answers* (a
  better value, or the same at no larger index) and that every entry stands for a consumed point
  or is the initial one; the reduction replaces lanes by the pair `best`, `index` one at a time.
  `IndexTypes` has the ranges of positions and lanes; `BestFoundHolds` and `NaNsAreHarmless`
  are about all kernels, also those that do not mind equal values or meet NaNs: there an entry
  has only to be as good as some point consumed.
- `SumKernels_proofs`, the stream kernels: if every block of a record makes of its points what `generic` makes of
  the first ones (`RightBlocks`), the output is `generic`'s for every `num_points`
  (`AsGenericHolds`); if blocks load and store no more than they consume (`SmallBlocks`), nothing
  behind the buffers is touched (`InBoundsHolds`).  The invariant adds that what is behind `pos` is
  right and that a function that is done has consumed everything, which rests on the last loop
  taking single points.  Both conditions are about single blocks, and the run shows them of every
  record.
- `SumKernels_proofs`, the sums: the kernels that add up implement `StreamKernels` (`SumsAreStreams`); every
  point is counted by exactly one round (`CountedOnceHolds`); and if what is left of each single
  round behind all reductions is what `generic` adds for its points (`RightSums`), the results are
  `generic`'s, for every `num_points` (`SumAsGenericHolds`).  The invariant numbers the lanes a round
  has left in each loop (`left`), so that a reduction takes one number to the next.  `RightSums`
  speaks of single rounds and is evaluated for every record by the run.
- `SumKernels_proofs`, the rotator: `RotatorIsRight`, for all widths of vectors that divide
  `ROTATOR_RELOAD`, any numbers of points and any implementations in turn.  `RotInv` says, kind by kind
  and loop by loop, how `at` follows from the counters and that the scalar phase, the lanes
  (`LanesSet`) and the angle all stand at the point `at`; for RVV that a vector is shorter only at the
  end of the call, since blocks are whole numbers of vectors (`WholeVectors`).  That blocks, vectors
  and tail are all the points is the division of a remainder (`TailIsRemainder`).
- `SumKernels_proofs`, the detector: `DetectionIsRight`, for any signal, calls and widths.  The first
  points, the rounds of vectors and the rest are all the points once (`RoundsTakeAll`), both ways
  to correct a difference yield one that fits (`WrappedFits`), and between calls `*saveValue` is
  the last phase taken (`DetectInv`).
- `SumKernels_proofs`, the deviation: `DeviationIsRight`, for any whole numbers, as many as there may be,
  and any number of lanes that is a power of two.  `DevInv` says that there are places for each of the
  partitions left, of no two the same and together all that are done (`OwnedBy`), for which its sum and
  sum of squares are exact (`Exact`), and how many they are: that many rounds times the lanes, which
  the stages keep (`DevAccrue`).  Youngs and Cramer's two formulas are identities of integers
  (`UpdateIdentity`, `UniteIdentity`); that every partition has its neighbour, and that in the end there
  is one, is arithmetic of remainders (`Neighbours`, `EvenlyDivided`, `WholeDivided`).  Quotients in lowest
  terms are what they were by Euclid's algorithm (`GcdDivides`).
- `Profile_proofs`, the memory: `BlocksAlwaysHold`: blocks are aligned and as large as was asked for, but
  for sizes whose rounding goes over the end, for any width of `size_t`, heap, sizes, alignments and
  libraries.  The invariant adds that a block's bytes are the rounding of a size that a `size_t`
  holds, which for `allocate` is what its check of `n` is for (`Product`).
- `Angles_proofs`, `AnglesRight`: every family of code reduces every odd number of pi/48 to the right
  value, knows where `tanh` is 1, and is wrong at the arguments of `Misses` and no others.  The property speaks of the last
  answer only, so that no strengthening is needed: a lemma for each way of computing a function,
  by divisions for the reductions, by cases of size and sign for the arc functions.

Assumptions are the named `ASSUME`s of the modules: what the generator guarantees of tables and
masks, that arguments are odd, what a record of a proto-kernel is (`ProtoKernel`), that no two tests
of `lib/kernel_tests.h` have a name in common (`CasesAssumption`), and that the config files there are
before the first run are some that a run may have left (`BeforeAssumption`: files edited by hand,
with other names or a kernel twice, are left out); TLC evaluates them in the runs.

Folds and recursive functions of the models are unrolled for the one operator at hand: a set of numbers
that has 0, and with each number the next, has them all (`CountedUp`, from the least number that is not
in it), so that no induction theorem with an operator as parameter is needed.

Only model-checked: liveness of `Dispatch`, which the provers here have no rules for; `TestedAsDeclared`
of `Signatures`, which is about the one table of tests; `PolarRight` and `ViterbiRight`, whose
reference definitions are about whole frames, of sizes the run chooses.

## Not modelled, and the plan

Floating-point arithmetic, I/O and formatting are not modelled; neither are modtool, the build and the
scripts.  Of the kernels there remain

- the puppets of `clamp`, `byteswap`, `convert`, `mod_range`, `pow`, `popcnt` and the spectra, which
  call a kernel, most of them a modelled one, on other data;
- `volk_32f_s32f_power_32f`, `volk_32fc_s32f_power_32fc` and
  `volk_32fc_s32f_x2_power_spectral_density_32f`, which have no implementation but `generic`;
- `volk_32u_popcnt` and `volk_64u_popcnt`, which count the bits of one word;
- `volk_16i_max_star_16i`, which folds points by a comparison that is no order, since differences wrap,
  and `volk_16i_branch_4_state_8`, which has one length;
- `volk_32fc_s32fc_x2_rotator_32fc`, which hands its arguments on to `rotator2`;
- what Orc generates and what is written in assembly.

Next: the puppets, and the counts of bits.
