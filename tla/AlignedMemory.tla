----------------------------- MODULE AlignedMemory -----------------------------
(***************************************************************************)
(* volk_malloc and volk_free (lib/volk_malloc.c), the allocator of         *)
(* volk::vector (volk_alloc.hh), and the part of the C library they call.  *)
(*                                                                         *)
(* A size_t has SizeWords values.  Memory is a range of addresses, and     *)
(* blocks is what has been allocated and not freed.  A block remembers     *)
(* what it was asked for, which the code does not: its properties need it. *)
(***************************************************************************)
EXTENDS Integers, FiniteSets

CONSTANTS
  SizeWords,   (* the number of values of size_t                            *)
  HeapEnd,     (* the first address behind the memory; address 0 is NULL    *)
  PointerSize, (* sizeof(void* )                                            *)
  Libraries,   (* what there is for aligned memory: "posix_memalign",       *)
               (* "_aligned_malloc", "aligned_alloc"                        *)
  Machines,    (* the alignments volk_get_alignment() may return            *)
  Elements,    (* sizeof(T)                                                 *)
  Counts       (* n, how many elements are asked for                        *)

Powers == {1, 2, 4, 8, 16, 32, 64, 128}

(* Every architecture's alignment is a power of two; before get_machine is *)
(* done the answer is 0.  There are as many sizes as bits of a size_t      *)
(* make, much more than alignments.                                        *)
ASSUME MemoryAssumption ==
  /\ SizeWords \in Nat \ {0} /\ HeapEnd \in 1 .. SizeWords /\ PointerSize \in Powers
  /\ Libraries \subseteq {"posix_memalign", "_aligned_malloc", "aligned_alloc"}
  /\ Machines \subseteq Powers \cup {0}
  /\ \A m \in Machines \ {0} : SizeWords % m = 0
  /\ Elements \subseteq Nat \ {0} /\ Counts \subseteq 0 .. SizeWords - 1

VARIABLES
  library,  (* the one of this build                                        *)
  blocks    (* [at, bytes, asked, alignment]                                *)

memoryVars == <<library, blocks>>

-----------------------------------------------------------------------------
(* Where the library can put bytes, and that it may always say no.         *)
Free(at, bytes) ==
  \A b \in blocks : at # b.at /\ (at + bytes <= b.at \/ b.at + b.bytes <= at)
Fits(bytes, alignment) ==
  {at \in 1 .. HeapEnd - bytes : at % alignment = 0 /\ Free(at, bytes)}

(* malloc aligns for every type, posix_memalign only to powers of two that *)
(* are multiples of a pointer's size.                                      *)
Aligned(bytes, alignment) ==
  {0} \cup (IF library = "posix_memalign" /\ alignment % PointerSize # 0
            THEN {} ELSE Fits(bytes, alignment))
Malloc(bytes) == {0} \cup Fits(bytes, PointerSize)

-----------------------------------------------------------------------------
(* "Tweak size to satisfy ASAN": the next multiple, in a size_t.           *)
Rounded(size, alignment) ==
  IF size % alignment = 0 THEN size ELSE (size + alignment - (size % alignment)) % SizeWords

(* What volk_malloc may return, 0 being NULL.                              *)
Pointers(size, alignment) ==
  IF size = 0 \/ alignment = 0 THEN {0}
  ELSE IF library = "posix_memalign" /\ alignment = 1 THEN Malloc(Rounded(size, alignment))
  ELSE Aligned(Rounded(size, alignment), alignment)

Block(at, asked, alignment) ==
  [at |-> at, bytes |-> Rounded(asked, alignment), asked |-> asked, alignment |-> alignment]

(* Returns the address to the caller, or NULL.                             *)
Receive(at, asked, alignment) ==
  blocks' = IF at = 0 THEN blocks ELSE blocks \cup {Block(at, asked, alignment)}

(* volk_malloc, called by a program.                                       *)
VolkMalloc(size, alignment) ==
  /\ \E at \in Pointers(size, alignment) : Receive(at, size, alignment)
  /\ UNCHANGED library

(* Mutant of Allocate: no check that n elements have a size.               *)
AllocateUnchecked(n, element, alignment) ==
  /\ \E at \in Pointers((n * element) % SizeWords, alignment) :
       Receive(at, n * element, alignment)
  /\ UNCHANGED library

(* allocate(n) of volk::alloc<T>, sizeof(T) being element.  Otherwise it   *)
(* throws, as it does for NULL, and nothing has changed.                   *)
Allocate(n, element, alignment) ==
  /\ n <= (SizeWords - 1) \div element
  /\ \E at \in Pointers((n * element) % SizeWords, alignment) :
       Receive(at, n * element, alignment)
  /\ UNCHANGED library

(* volk_free of a block, also by deallocate.                               *)
VolkFree(b) == blocks' = blocks \ {b} /\ UNCHANGED library

MemoryInit == library \in Libraries /\ blocks = {}

MemoryNext ==
  \/ \E size \in Counts, alignment \in Machines : VolkMalloc(size, alignment)
  \/ \E n \in Counts, element \in Elements, alignment \in Machines : Allocate(n, element, alignment)
  \/ \E b \in blocks : VolkFree(b)

MemorySpec == MemoryInit /\ [][MemoryNext]_memoryVars

-----------------------------------------------------------------------------
(* Rounding a size up to the alignment goes over the end of size_t.        *)
RoundsOver(b) == b.asked > SizeWords - b.alignment

(* Whoever is given memory, a test, a decoder or a vector, is given as     *)
(* many bytes as it asked for, in whole units of the alignment, as         *)
(* aligned_alloc demands, and at an address that the kernels' aligned      *)
(* implementations can take, whatever the library and the machine.  Sizes  *)
(* whose rounding has no place in a size_t are the exception: they are     *)
(* rounded to 0, and the block holds nothing (volk_malloc,                 *)
(* alloc::allocate).                                                       *)
BlocksHold ==
  \A b \in blocks :
    /\ b.at % b.alignment = 0 /\ b.bytes % b.alignment = 0
    /\ b.bytes >= b.asked <=> ~RoundsOver(b)
=============================================================================
