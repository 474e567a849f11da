------------------------------- MODULE Dispatch -------------------------------
(***************************************************************************)
(* The run-time dispatcher of VOLK, as the template                        *)
(* tmpl/volk_dynamic_dispatch.tmpl.c generates it, together with the parts *)
(* of lib/volk_rank_archs.c and lib/volk_prefs.c it calls.                 *)
(*                                                                         *)
(* Everything is initialised lazily, on the first call of any thread, and  *)
(* nothing is locked: the selected machine, its alignment, the preference  *)
(* list and the three function pointers of every kernel are plain static   *)
(* or global C variables.  A step of a thread is one access to one of      *)
(* them, with the thread-local code around it.                             *)
(***************************************************************************)
EXTENDS RankArchs

CONSTANTS
  Threads,       (* the threads of the program                              *)
  Main,          (* the thread that starts the others (see InitFirst)       *)
  Kernels,       (* the kernels in use                                      *)
  Impls,         (* [Kernels -> sequence of implementation records]         *)
  Caps,          (* volk_machines[i]->caps: sequence of sets of archs       *)
  Alignment,     (* volk_machines[i]->alignment: sequence of byte counts    *)
  Cpu,           (* the archs volk_get_lvarch reports for this processor    *)
  Env,           (* what getenv answers: [generic, override]                *)
  Configs,       (* the preference lists the config file may hold           *)
  Buffers,       (* the sets of pointers a kernel may be called with        *)
  Names,         (* the names a caller of ..._manual may pass               *)
  Kinds,         (* the calls of the API the program makes                  *)
  InitFirst,     (* TRUE: one API call returns before threads are started   *)
  Delayed,       (* how many stores of a thread may be not yet visible      *)
  ConfigStable   (* TRUE: nobody rewrites the config file meanwhile         *)

Machines == DOMAIN Caps
Runnable == {m \in Machines : Caps[m] \subseteq Cpu}
Table(k, m) == GetImpls(Impls[k], Caps[m])

ASSUME ThreadsAssumption == Main \in Threads /\ Threads # {}
ASSUME MachinesAssumption ==
  /\ Caps \in Seq(SUBSET Nat)
  /\ Alignment \in [Machines -> Nat \ {0}]
  /\ \A m \in Machines : Mask(Caps[m]) \in 0 .. MaxInt
  /\ \E m \in Runnable : Mask(Caps[m]) > 0
(* The generator refuses a kernel without "generic"; only implementations  *)
(* whose name starts with a_ are aligned.                                  *)
ASSUME ImplsAssumption ==
  \A k \in Kernels :
    /\ Impls[k] \in Seq([name : STRING, deps : SUBSET Nat, aligned : BOOLEAN])
    /\ \A i \in DOMAIN Impls[k] :
         /\ Mask(Impls[k][i].deps) \in 0 .. MaxInt
         /\ First20[Impls[k][i].name] = First20["generic"] => ~Impls[k][i].aligned
    /\ \A m \in Machines : Named(Impls[k], Table(k, m), "generic") # {}
ASSUME BuffersAssumption == Buffers \subseteq SUBSET Nat
ASSUME FlagsAssumption ==
  /\ {InitFirst, ConfigStable} \subseteq BOOLEAN /\ Delayed \in Nat
  /\ Len(Configs) > 0 /\ Configs \in Seq(Seq([name : STRING, impl_a : STRING, impl_u : STRING]))

(***************************************************************************)
(* The shared variables.  lib: get_machine's machine (0 is NULL, otherwise *)
(* a position of volk_machines), __alignment, __alignment_mask,            *)
(* volk_get_machine's own machine, and the three statics of                *)
(* volk_rank_archs.  For every kernel: the pointers kern, kern_a, kern_u.  *)
(* A preference array is named by the version of the file it was read      *)
(* from; 0 is the NULL pointer.  In kern, Stub is &__kern and Dispatcher   *)
(* is &__kern_d; in kern_a and kern_u, Stub is &__kern_a and &__kern_u and *)
(* any other number is an implementation.                                  *)
(***************************************************************************)
Lib(v) == <<"lib", v>>
LibVars == {"machine", "alignment", "mask", "named_machine",
            "prefs", "n_prefs", "prefs_loaded"}
Ptr(k, v) == <<k, v>>
PtrVars == {"kern", "kern_a", "kern_u"}
Loc == ({"lib"} \X LibVars) \cup (Kernels \X PtrVars)

Stub == 0
Dispatcher == 1

VARIABLES
  mem,      (* what every thread can see of the shared variables            *)
  buf,      (* stores of a thread not yet visible to the others             *)
  file,     (* the version of the config file on disk                       *)
  started,  (* the other threads are running                                *)
  pc,       (* where a thread is                                            *)
  op,       (* the API call a thread is in                                  *)
  resume,   (* the pointer its stub re-reads after initialising             *)
  got,      (* the version of the config file it is loading                 *)
  rank,     (* index_a and index_u of its __init_kern                       *)
  inits,    (* how often this call went through __init_kern                 *)
  ran,      (* the implementation the last kernel call executed, or 0       *)
  answer    (* what the last query returned (-1: the call was no query)     *)

vars == <<mem, buf, file, started, pc, op, resume, got, rank, inits, ran, answer>>
local == <<op, resume, got, rank, inits, ran, answer>>

Versions == DOMAIN Configs
PrefsAt(v) == IF v = 0 THEN <<>> ELSE Configs[v]

(***************************************************************************)
(* Memory.  A thread sees its own stores at once.  With Delayed = 0        *)
(* everybody else does too; otherwise a store stays in the thread's buffer *)
(* until Publish, in whatever order: nothing in the code orders these      *)
(* plain variables, neither for the compiler nor for the processor.  The   *)
(* bound Delayed on a thread's pending stores keeps the instances small.   *)
(***************************************************************************)
Load(t, l) == IF l \in DOMAIN buf[t] THEN buf[t][l] ELSE mem[l]

Store(t, l, v) ==
  IF Delayed > 0
  THEN /\ Cardinality(DOMAIN buf[t] \cup {l}) <= Delayed
       /\ buf' = [buf EXCEPT ![t] =
                    [x \in DOMAIN buf[t] \cup {l} |-> IF x = l THEN v ELSE buf[t][x]]]
       /\ UNCHANGED mem
  ELSE /\ mem' = [mem EXCEPT ![l] = v]
       /\ UNCHANGED buf

Publish(t) ==
  /\ \E l \in DOMAIN buf[t] :
       /\ mem' = [mem EXCEPT ![l] = buf[t][l]]
       /\ buf' = [buf EXCEPT ![t] = [x \in DOMAIN buf[t] \ {l} |-> buf[t][x]]]
  /\ UNCHANGED <<file, started, pc, local>>

Goto(t, from, to) == pc[t] = from /\ pc' = [pc EXCEPT ![t] = to]

(***************************************************************************)
(* The calls of the public API.                                            *)
(***************************************************************************)
NoKernel == "none"
Calls(kinds, kerns, bufs, names) ==
  [kind : kinds, kern : kerns, bufs : bufs, name : names]

(* Mutant of BestMachine: the test against volk_get_lvarch is forgotten.   *)
BestMachineAnyCpu ==
  First({m \in Machines : \A n \in Machines : Mask(Caps[n]) <= Mask(Caps[m])})

(* The loop of get_machine and of volk_get_machine: the first machine with *)
(* the largest caps among those the processor can run.                     *)
BestMachine ==
  LET able == {m \in Runnable : Mask(Caps[m]) > 0}
  IN  First({m \in able : \A n \in able : Mask(Caps[n]) <= Mask(Caps[m])})

OnBoundary(b, align) == \A p \in b : p % align = 0

(* A caller may use kern_a only with buffers on the machine's boundary.    *)
KernelCalls ==
  Calls({"kern", "kern_u"}, Kernels, Buffers, {""})
  \cup Calls({"kern_a"}, Kernels,
             {b \in Buffers : OnBoundary(b, Alignment[BestMachine])}, {""})
ManualCalls == Calls({"manual"}, Kernels, {{}}, Names)
Queries ==
  Calls({"func_desc"}, Kernels, {{}}, {""})
  \cup Calls({"get_alignment", "get_machine"}, {NoKernel}, {{}}, {""})
  \cup Calls({"is_aligned"}, {NoKernel}, Buffers, {""})
Requests == {o \in KernelCalls \cup ManualCalls \cup Queries : o.kind \in Kinds}

Entry(o) ==
  CASE o.kind \in PtrVars     -> "call"
    [] o.kind = "is_aligned"  -> "is_aligned"
    [] o.kind = "get_machine" -> "named_machine"
    [] OTHER                  -> "machine"

Begin(t, o) ==
  /\ started \/ t = Main
  /\ Goto(t, "idle", Entry(o))
  /\ op' = [op EXCEPT ![t] = o]
  /\ resume' = [resume EXCEPT ![t] =
                  IF o.kind \in PtrVars THEN Ptr(o.kern, o.kind) ELSE <<>>]
  /\ inits' = [inits EXCEPT ![t] = 0]
  /\ ran' = [ran EXCEPT ![t] = 0]
  /\ answer' = [answer EXCEPT ![t] = -1]
  /\ UNCHANGED <<mem, buf, file, started, got, rank>>

(* Thread creation, after a call that went through get_machine; creating a *)
(* thread makes the creator's stores visible to it.                        *)
StartThreads ==
  /\ ~started
  /\ pc[Main] = "idle"
  /\ op[Main] \in Requests
  /\ op[Main].kind \notin {"is_aligned", "get_machine"}
  /\ DOMAIN buf[Main] = {}
  /\ started' = TRUE
  /\ UNCHANGED <<mem, buf, file, pc, local>>

Return(t, from, value) ==
  /\ Goto(t, from, "idle")
  /\ answer' = [answer EXCEPT ![t] = value]
  /\ UNCHANGED <<mem, buf, file, started, op, resume, got, rank, inits, ran>>

Execute(t, from, i) ==
  /\ Goto(t, from, "idle")
  /\ ran' = [ran EXCEPT ![t] = i]
  /\ UNCHANGED <<mem, buf, file, started, op, resume, got, rank, inits, answer>>

(***************************************************************************)
(* Calling through kern, kern_a or kern_u.  A stub runs __init_kern and    *)
(* calls through the same pointer again.                                   *)
(***************************************************************************)
(* The count of initialisations saturates here, past the 1 it may reach.   *)
MaxInits == 2

CallStub(t) ==
  /\ Goto(t, "call", "machine")
  /\ Load(t, resume[t]) = Stub
  /\ inits' = [inits EXCEPT ![t] = IF @ < MaxInits THEN @ + 1 ELSE @]
  /\ UNCHANGED <<mem, buf, file, started, op, resume, got, rank, ran, answer>>

CallDispatcher(t) ==
  /\ Goto(t, "call", "dispatch")
  /\ resume[t][2] = "kern"
  /\ Load(t, resume[t]) # Stub
  /\ UNCHANGED <<mem, buf, file, started, local>>

CallImpl(t) ==
  /\ pc[t] = "call"
  /\ resume[t][2] # "kern"
  /\ Load(t, resume[t]) # Stub
  /\ Execute(t, "call", Load(t, resume[t]))

(* Mutant of IsAligned: only one of the pointers has to be aligned.        *)
IsAlignedAny(t, b) == \E p \in b : p % (Load(t, Lib("mask")) + 1) = 0

(* __kern_d: the OR of all pointer arguments is tested against the mask.   *)
IsAligned(t, b) == OnBoundary(b, Load(t, Lib("mask")) + 1)

Dispatch(t) ==
  /\ Goto(t, "dispatch", "call")
  /\ resume' = [resume EXCEPT ![t] =
                  Ptr(op[t].kern, IF IsAligned(t, op[t].bufs) THEN "kern_a" ELSE "kern_u")]
  /\ UNCHANGED <<mem, buf, file, started, op, got, rank, inits, ran, answer>>

(***************************************************************************)
(* get_machine, entered by __init_kern and by the queries.                 *)
(***************************************************************************)
AfterMachine(t) ==
  CASE op[t].kind \in PtrVars       -> "prefs"
    [] op[t].kind = "get_alignment" -> "alignment"
    [] op[t].kind = "manual"        -> "manual"
    [] op[t].kind = "func_desc"     -> "func_desc"

GetMachine(t) ==
  /\ Goto(t, "machine",
          IF Load(t, Lib("machine")) # 0 THEN AfterMachine(t) ELSE "select")
  /\ UNCHANGED <<mem, buf, file, started, local>>

(* Mutant of SelectMachine: __alignment is not set.                        *)
SelectMachineOnly(t) ==
  /\ Goto(t, "select", "store_mask")
  /\ Store(t, Lib("machine"), BestMachine)
  /\ UNCHANGED <<file, started, local>>

SelectMachine(t) ==
  /\ Goto(t, "select", "store_alignment")
  /\ Store(t, Lib("machine"), BestMachine)
  /\ UNCHANGED <<file, started, local>>

StoreAlignment(t) ==
  /\ Goto(t, "store_alignment", "store_mask")
  /\ Store(t, Lib("alignment"), Alignment[Load(t, Lib("machine"))])
  /\ UNCHANGED <<file, started, local>>

StoreMask(t) ==
  /\ Goto(t, "store_mask", AfterMachine(t))
  /\ Store(t, Lib("mask"), Load(t, Lib("alignment")) - 1)
  /\ UNCHANGED <<file, started, local>>

(***************************************************************************)
(* The locals of a function (got, rank) are reset when it is left.         *)
(*                                                                         *)
(* volk_rank_archs, first part: the preference list is loaded once per     *)
(* process.  A missing config file (an empty list here) leaves the pointer *)
(* alone; n_arch_prefs and prefs_loaded are stored after it.               *)
(***************************************************************************)
(* Mutant of CheckPrefs: prefs_loaded is set before the list is loaded.    *)
CheckPrefsEarly(t) ==
  /\ Goto(t, "prefs", IF Load(t, Lib("prefs_loaded")) = 1 THEN "rank_a" ELSE "load")
  /\ Store(t, Lib("prefs_loaded"), 1)
  /\ UNCHANGED <<file, started, local>>

CheckPrefs(t) ==
  /\ Goto(t, "prefs", IF Load(t, Lib("prefs_loaded")) = 1 THEN "rank_a" ELSE "load")
  /\ UNCHANGED <<mem, buf, file, started, local>>

LoadPreferences(t) ==
  /\ Goto(t, "load", "store_prefs")
  /\ got' = [got EXCEPT ![t] = file]
  /\ UNCHANGED <<mem, buf, file, started, op, resume, rank, inits, ran, answer>>

(* Mutant of StorePrefs: *prefs_res = prefs is forgotten.                  *)
StorePrefsNot(t) ==
  /\ Goto(t, "store_prefs", "store_n")
  /\ UNCHANGED <<mem, buf, file, started, local>>

StorePrefs(t) ==
  /\ Goto(t, "store_prefs", "store_n")
  /\ IF Configs[got[t]] = <<>>
     THEN UNCHANGED <<mem, buf>>
     ELSE Store(t, Lib("prefs"), got[t])
  /\ UNCHANGED <<file, started, local>>

StoreNPrefs(t) ==
  /\ Goto(t, "store_n", "store_loaded")
  /\ Store(t, Lib("n_prefs"), Len(Configs[got[t]]))
  /\ UNCHANGED <<file, started, local>>

StoreLoaded(t) ==
  /\ Goto(t, "store_loaded", "rank_a")
  /\ Store(t, Lib("prefs_loaded"), 1)
  /\ got' = [got EXCEPT ![t] = 0]
  /\ UNCHANGED <<file, started, op, resume, rank, inits, ran, answer>>

(***************************************************************************)
(* volk_rank_archs, second part.  The scan looks at prefs[0 .. n_prefs-1]  *)
(* until it finds the kernel; looking past the end of the array the        *)
(* pointer really points to is undefined, modelled as a crash.             *)
(***************************************************************************)
Visible(list, n) == SubSeq(list, 1, IF n < Len(list) THEN n ELSE Len(list))

InBounds(list, n, k) == n <= Len(list) \/ PrefsOf(list, k) # {}

(* Mutant of RankFor: the ranks for aligned and unaligned are swapped.     *)
RankForSwapped(t, align) ==
  LET k == op[t].kern
  IN  RankArchs(Env, Visible(PrefsAt(Load(t, Lib("prefs"))), Load(t, Lib("n_prefs"))), k,
                Impls[k], Table(k, Load(t, Lib("machine"))), ~align)

RankFor(t, align) ==
  LET k == op[t].kern
  IN  RankArchs(Env, Visible(PrefsAt(Load(t, Lib("prefs"))), Load(t, Lib("n_prefs"))), k,
                Impls[k], Table(k, Load(t, Lib("machine"))), align)

ScanInBounds(t) ==
  \/ Env.generic
  \/ Env.override[op[t].kern] # Unset
  \/ InBounds(PrefsAt(Load(t, Lib("prefs"))), Load(t, Lib("n_prefs")), op[t].kern)

Rank(t, from, which, to) ==
  /\ Goto(t, from, IF ScanInBounds(t) THEN to ELSE "crashed")
  /\ IF ScanInBounds(t)
     THEN rank' = [rank EXCEPT ![t][which] = RankFor(t, which = "a")]
     ELSE UNCHANGED rank
  /\ UNCHANGED <<mem, buf, file, started, op, resume, got, inits, ran, answer>>

RankAligned(t) == Rank(t, "rank_a", "a", "rank_u")
RankUnaligned(t) == Rank(t, "rank_u", "u", "store_a")

(* The end of __init_kern; its caller then calls through resume again.     *)
StorePtr(t, v, value) ==
  /\ Store(t, Ptr(op[t].kern, v), value)
  /\ UNCHANGED <<file, started, op, resume, got, inits, ran, answer>>

(* Mutant of StoreKernA: the dispatcher is published first.                *)
StoreKernFirst(t) ==
  /\ Goto(t, "store_a", "store_u")
  /\ StorePtr(t, "kern", Dispatcher)
  /\ UNCHANGED rank

StoreKernA(t) ==
  /\ Goto(t, "store_a", "store_u")
  /\ StorePtr(t, "kern_a", rank[t].a)
  /\ UNCHANGED rank

(* Mutant of StoreKernU: the unaligned pointer keeps its stub.             *)
StoreKernUNot(t) ==
  /\ Goto(t, "store_u", "store_kern")
  /\ UNCHANGED <<mem, buf, file, started, local>>

StoreKernU(t) ==
  /\ Goto(t, "store_u", "store_kern")
  /\ StorePtr(t, "kern_u", rank[t].u)
  /\ UNCHANGED rank

StoreKern(t) ==
  /\ Goto(t, "store_kern", "call")
  /\ StorePtr(t, "kern", Dispatcher)
  /\ rank' = [rank EXCEPT ![t] = [a |-> 0, u |-> 0]]

(***************************************************************************)
(* The remaining calls of the API.                                         *)
(***************************************************************************)
Manual(t) ==
  /\ pc[t] = "manual"
  /\ LET k == op[t].kern
     IN  Execute(t, "manual",
                 GetIndex(Impls[k], Table(k, Load(t, Lib("machine"))), op[t].name))

GetFuncDesc(t) == pc[t] = "func_desc" /\ Return(t, "func_desc", Load(t, Lib("machine")))

GetAlignment(t) == pc[t] = "alignment" /\ Return(t, "alignment", Load(t, Lib("alignment")))

IsAlignedQuery(t) ==
  /\ pc[t] = "is_aligned"
  /\ Return(t, "is_aligned", IF IsAligned(t, op[t].bufs) THEN 1 ELSE 0)

(* Mutant of NameMachine: the copy of the loop forgets the processor.      *)
NameMachineAnyCpu(t) ==
  /\ pc[t] = "named_machine"
  /\ Load(t, Lib("named_machine")) = 0
  /\ Store(t, Lib("named_machine"), BestMachineAnyCpu)
  /\ UNCHANGED <<file, started, pc, local>>

NameMachine(t) ==
  /\ pc[t] = "named_machine"
  /\ Load(t, Lib("named_machine")) = 0
  /\ Store(t, Lib("named_machine"), BestMachine)
  /\ UNCHANGED <<file, started, pc, local>>

GetMachineName(t) ==
  /\ pc[t] = "named_machine"
  /\ Load(t, Lib("named_machine")) # 0
  /\ Return(t, "named_machine", Load(t, Lib("named_machine")))

(* Another process (volk_profile, an editor) replaces the config file.     *)
RewriteConfig ==
  /\ ~ConfigStable
  /\ file' \in Versions \ {file}
  /\ UNCHANGED <<mem, buf, started, pc, local>>

-----------------------------------------------------------------------------
Init ==
  /\ mem = [l \in Loc |-> 0]
  /\ buf = [t \in Threads |-> [l \in {} |-> 0]]
  /\ file \in Versions
  /\ started = ~InitFirst
  /\ pc = [t \in Threads |-> "idle"]
  /\ op = [t \in Threads |-> [kind |-> "none", kern |-> NoKernel, bufs |-> {}, name |-> ""]]
  /\ resume = [t \in Threads |-> <<>>]
  /\ got = [t \in Threads |-> 0]
  /\ rank = [t \in Threads |-> [a |-> 0, u |-> 0]]
  /\ inits = [t \in Threads |-> 0]
  /\ ran = [t \in Threads |-> 0]
  /\ answer = [t \in Threads |-> -1]

Continue(t) ==
  \/ CallStub(t) \/ CallDispatcher(t) \/ CallImpl(t) \/ Dispatch(t)
  \/ GetMachine(t) \/ SelectMachine(t) \/ StoreAlignment(t) \/ StoreMask(t)
  \/ CheckPrefs(t) \/ LoadPreferences(t) \/ StorePrefs(t) \/ StoreNPrefs(t) \/ StoreLoaded(t)
  \/ RankAligned(t) \/ RankUnaligned(t) \/ StoreKernA(t) \/ StoreKernU(t) \/ StoreKern(t)
  \/ Manual(t) \/ GetFuncDesc(t) \/ GetAlignment(t) \/ IsAlignedQuery(t)
  \/ NameMachine(t) \/ GetMachineName(t)

Next ==
  \/ \E t \in Threads, o \in Requests : Begin(t, o)
  \/ \E t \in Threads : Continue(t) \/ Publish(t)
  \/ StartThreads
  \/ RewriteConfig

Spec == Init /\ [][Next]_vars

(* The scheduler runs every thread, and a store reaches memory eventually; *)
(* nobody has to make a call, start threads or rewrite the file.           *)
Fairness == \A t \in Threads : WF_vars(Continue(t)) /\ WF_vars(Publish(t))
FairSpec == Spec /\ Fairness

-----------------------------------------------------------------------------
PC == {"idle", "call", "dispatch", "machine", "select", "store_alignment", "store_mask",
       "prefs", "load", "store_prefs", "store_n", "store_loaded", "rank_a", "rank_u",
       "store_a", "store_u", "store_kern", "manual", "func_desc", "alignment",
       "is_aligned", "named_machine", "crashed"}

(* The variables have their types, and a thread is at a place its call can *)
(* reach.                                                                  *)
TypeOK ==
  /\ mem \in [Loc -> Nat]
  /\ \A t \in Threads : /\ DOMAIN buf[t] \subseteq Loc
                        /\ \A l \in DOMAIN buf[t] : buf[t][l] \in Nat
  /\ file \in Versions
  /\ started \in BOOLEAN
  /\ pc \in [Threads -> PC]
  /\ \A t \in Threads : pc[t] # "idle" => op[t] \in Requests
  /\ \A t \in Threads : op[t].kind \in PtrVars => resume[t] \in Kernels \X PtrVars
  /\ rank \in [Threads -> [a : Nat, u : Nat]]
  /\ ran \in [Threads -> Nat]
  /\ answer \in [Threads -> Int]

Executed(t) == Impls[op[t].kern][ran[t]]

(* No call ever executes code this processor cannot execute, whichever     *)
(* thread initialised what, and whatever the config file, the environment  *)
(* or the caller of ..._manual names (get_machine, volk_get_index).        *)
RunsSupported ==
  \A t \in Threads : ran[t] # 0 =>
    /\ ran[t] \in DOMAIN Impls[op[t].kern]
    /\ Executed(t).deps \subseteq Cpu

(* A call through the kernel pointers never executes an implementation     *)
(* that requires alignment on buffers off the machine's boundary           *)
(* (__kern_d and __init_kern; ..._manual is the caller's responsibility).  *)
NoMisalignedRun ==
  \A t \in Threads :
    /\ op[t].kind \in PtrVars /\ ran[t] # 0
    /\ Executed(t).aligned
    => OnBoundary(op[t].bufs, Alignment[BestMachine])

(* volk_get_alignment never returns anything but the alignment of the      *)
(* machine, although it reads a variable another thread may be setting;    *)
(* and once the threads run, volk_is_aligned answers for the machine's     *)
(* boundary and volk_get_machine names the machine the dispatcher uses,    *)
(* although the two keep separate copies of it.                            *)
QueriesAgree ==
  \A t \in Threads : answer[t] # -1 =>
    /\ op[t].kind = "get_alignment" => answer[t] = Alignment[BestMachine]
    /\ started /\ op[t].kind = "is_aligned"
       => (answer[t] = 1 <=> OnBoundary(op[t].bufs, Alignment[BestMachine]))
    /\ started /\ op[t].kind = "get_machine"
       => answer[t] = Load(t, Lib("machine"))

(* However the threads race through the stubs, one call initialises its    *)
(* kernel at most once: after __init_kern the pointer it re-reads, and the *)
(* one behind the dispatcher, are not stubs any more.                      *)
InitOncePerCall == \A t \in Threads : inits[t] <= 1

(* The preference scan never leaves the array, although pointer, length    *)
(* and flag are three unsynchronised variables.                            *)
PrefsInBounds == \A t \in Threads : pc[t] # "crashed"

(* However stores are delayed and reordered, a thread that sees the        *)
(* dispatcher in kern calls through no pointer that nobody has set: what   *)
(* it finds behind the dispatcher is an implementation, or a stub whose    *)
(* replacement another thread has stored and not yet made visible.         *)
PublishedMeansReady ==
  \A k \in Kernels, t \in Threads : Load(t, Ptr(k, "kern")) = Dispatcher =>
    \A v \in {"kern_a", "kern_u"} : \E u \in Threads : Load(u, Ptr(k, v)) # Stub

(* Once kern_a or kern_u is an implementation it stays that one, however   *)
(* many threads still initialise: all of them choose alike.                *)
ChoiceIsFinal ==
  [][\A k \in Kernels, v \in {"kern_a", "kern_u"} :
       mem[Ptr(k, v)] # Stub => mem'[Ptr(k, v)] = mem[Ptr(k, v)]]_vars

(* Every call of the API returns.                                          *)
EveryCallReturns == \A t \in Threads : pc[t] # "idle" ~> pc[t] = "idle"

(* The promise of the abstract specification: the implementation the       *)
(* preferences, the environment and the masks settle for buffers on or off *)
(* the boundary, and the true answer to a query (volk_is_aligned is left   *)
(* to QueriesAgree: it may be called too early).                           *)
Promised(o, version, align) ==
  RankArchs(Env, Configs[version], o.kern, Impls[o.kern], Table(o.kern, BestMachine), align)

OutcomesOf(o, version) ==
  CASE o.kind = "kern" ->
         {[ran |-> Promised(o, version, OnBoundary(o.bufs, Alignment[BestMachine])),
           answer |-> -1]}
    [] o.kind = "kern_a" -> {[ran |-> Promised(o, version, TRUE), answer |-> -1]}
    [] o.kind = "kern_u" -> {[ran |-> Promised(o, version, FALSE), answer |-> -1]}
    [] o.kind = "manual" ->
         {[ran |-> GetIndex(Impls[o.kern], Table(o.kern, BestMachine), o.name),
           answer |-> -1]}
    [] o.kind = "get_alignment" -> {[ran |-> 0, answer |-> Alignment[BestMachine]]}
    [] o.kind = "is_aligned" -> {[ran |-> 0, answer |-> a] : a \in {0, 1}}
    [] OTHER -> {[ran |-> 0, answer |-> BestMachine]}

OutcomeTable == [o \in Requests |-> [version \in Versions |-> OutcomesOf(o, version)]]
PromisedOutcomes(o, version) == OutcomeTable[o][version]

Abstract == INSTANCE OneShotCalls
              WITH busy <- [t \in Threads |-> pc[t] # "idle"],
                   Outcomes <- PromisedOutcomes

(* The dispatcher implements OneShotCalls.                                 *)
ImplementsOneShot == Abstract!Spec
=============================================================================
