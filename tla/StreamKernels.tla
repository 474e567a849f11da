----------------------------- MODULE StreamKernels -----------------------------
(***************************************************************************)
(* The kernels that go over their points once: a loop over blocks of       *)
(* points, which loads vectors, combines and shuffles their lanes and      *)
(* stores vectors, perhaps more loops over smaller blocks, and a loop over *)
(* the points that are left.  What a block makes of the elements it loads  *)
(* is in the records of the proto-kernels; here is how blocks and tail are *)
(* put together.                                                           *)
(*                                                                         *)
(* The value of a point is what all outputs hold for it: terms over the    *)
(* inputs, in which elements are numbered from the first element of the    *)
(* block, so that the values of every block are the same.                  *)
(***************************************************************************)
EXTENDS Integers, Sequences

CONSTANT
  Calls     (* the calls: a proto-kernel and num_points                     *)

(* A loop: how many points a round consumes; the values it stores, from    *)
(* the first of these points on; how many points it loads; and whether it  *)
(* can also take fewer points (RVV).                                       *)
Loop(s) ==
  /\ s.block \in Nat \ {0} /\ s.reads \in Nat /\ s.partial \in BOOLEAN
  /\ s.values \in Seq({s.values[k] : k \in DOMAIN s.values})
  /\ Len(s.values) >= s.block

(* A proto-kernel: the values `generic` gives the first points, the loops, *)
(* the last of which can take any number of points, and how many points it *)
(* loads of an operand of which only the first is used.                    *)
ProtoKernel(p) ==
  /\ p.once \in Nat
  /\ p.loops \in Seq({p.loops[i] : i \in DOMAIN p.loops}) /\ p.loops # <<>>
  /\ \A i \in DOMAIN p.loops : Loop(p.loops[i])
  /\ p.loops[Len(p.loops)].block = 1 \/ p.loops[Len(p.loops)].partial

ASSUME CallsAssumption ==
  \A c \in Calls : c = <<c[1], c[2]>> /\ ProtoKernel(c[1]) /\ c[2] \in Nat

VARIABLES
  pc,      (* "idle", "loop" or "done"                                      *)
  proto,   (* the proto-kernel that runs                                    *)
  n,       (* num_points                                                    *)
  loop,    (* the loop that runs                                            *)
  pos,     (* how many points have been consumed                            *)
  mem,     (* for each point the block that stored it last, by its first    *)
           (* point, and what it stored                                     *)
  past     (* something behind the buffers was loaded or stored             *)

vars == <<pc, proto, n, loop, pos, mem, past>>

NoProto == [result |-> <<>>, loops |-> <<>>, once |-> 0]
None == [from |-> -1, value |-> <<>>]   (* not yet stored                   *)

Loops == proto.loops
Result(k) == proto.result[k + 1]

Init ==
  /\ pc = "idle" /\ proto = NoProto /\ n = 0
  /\ loop = 1 /\ pos = 0 /\ mem = <<>> /\ past = FALSE

Begin ==
  /\ pc = "idle"
  /\ pc' = "loop"
  /\ \E c \in Calls : proto' = c[1] /\ n' = c[2]
  /\ mem' = [q \in 0 .. n' - 1 |-> None]
  /\ past' = (proto'.once > 1)
  /\ UNCHANGED <<loop, pos>>

(* Mutant of Rounds: the number of blocks is rounded up.                   *)
RoundsRoundedUp(s) == {k \in {s.block} : pos < n}

(* How many points a round may consume: vsetvl gives all that are left or  *)
(* a full register group, or with less than two groups something between.  *)
Rounds(s) ==
  LET left == n - pos
  IN  IF ~s.partial THEN {k \in {s.block} : k <= left}
      ELSE {k \in 1 .. s.block :
                  /\ k <= left
                  /\ \/ k = left \/ k = s.block
                     \/ s.block < left /\ left < 2 * s.block /\ 2 * k >= left}

(* Mutant of Stored: the pointer to the output is advanced before the store. *)
StoredAfterAdvance(s, k) ==
  [q \in pos + k .. pos + k + Len(s.values) - 1 |-> s.values[q - pos - k + 1]]

(* What a round stores: the value of every point it reaches.               *)
Stored(s, k) ==
  [q \in pos .. pos + (IF s.partial THEN k ELSE Len(s.values)) - 1 |-> s.values[q - pos + 1]]

(* One round of a loop: load, compute, store, advance the pointers.        *)
Round ==
  /\ pc = "loop"
  /\ \E k \in Rounds(Loops[loop]) :
       LET s == Loops[loop]
           new == Stored(s, k)
       IN  /\ mem' = [q \in DOMAIN mem |->
                        IF q \in DOMAIN new THEN [from |-> pos, value |-> new[q]] ELSE mem[q]]
           /\ past' = (past \/ (~s.partial /\ pos + s.reads > n) \/ \E q \in DOMAIN new : q >= n)
           /\ pos' = pos + k
  /\ UNCHANGED <<pc, proto, n, loop>>

(* No full block is left: the next loop, or the end of the function.       *)
NextLoop ==
  /\ pc = "loop" /\ Rounds(Loops[loop]) = {} /\ loop < Len(Loops)
  /\ loop' = loop + 1
  /\ UNCHANGED <<pc, proto, n, pos, mem, past>>

Finish ==
  /\ pc = "loop" /\ Rounds(Loops[loop]) = {} /\ loop = Len(Loops)
  /\ pc' = "done"
  /\ UNCHANGED <<proto, n, loop, pos, mem, past>>

Return ==
  /\ pc = "done"
  /\ pc' = "idle" /\ proto' = NoProto /\ n' = 0
  /\ loop' = 1 /\ pos' = 0 /\ mem' = <<>> /\ past' = FALSE

Next == Begin \/ Round \/ NextLoop \/ Finish \/ Return

Spec == Init /\ [][Next]_vars

-----------------------------------------------------------------------------
(* The variables have their types.                                         *)
TypeOK ==
  /\ pc \in {"idle", "loop", "done"}
  /\ n \in Nat /\ pos \in 0 .. n /\ past \in BOOLEAN
  /\ pc # "idle" => <<proto, n>> \in Calls /\ loop \in DOMAIN Loops
  /\ DOMAIN mem = 0 .. n - 1
  /\ \A q \in DOMAIN mem : mem[q].from \in -1 .. pos - 1

(* However vectors, smaller vectors and tail are put together, whatever    *)
(* the lanes go through: every output element is stored, and holds what    *)
(* `generic` computes from the inputs of the same point.                   *)
AsGeneric ==
  pc = "done" =>
    \A q \in 0 .. n - 1 :
      mem[q] # None /\ mem[q].value = Result(q - mem[q].from)

(* No vector is loaded from or stored behind the end of the buffers, which *)
(* the tests cannot notice: theirs are longer than num_points.             *)
InBounds == ~past
=============================================================================
