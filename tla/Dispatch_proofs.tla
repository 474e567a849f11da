--------------------------- MODULE Dispatch_proofs ---------------------------
(***************************************************************************)
(* Proofs about the dispatcher, for any number of threads, kernels,        *)
(* implementations and machines, any processor, environment and config     *)
(* files.                                                                  *)
(*                                                                         *)
(*   InvariantHolds              the invariant everything rests on         *)
(*   DispatchRunsSupported       nothing the processor cannot execute      *)
(*   DispatchTypes               the variables have their types            *)
(*   DispatchInitOncePerCall     a call initialises its kernel once        *)
(*   DispatchPublishedMeansReady behind the dispatcher, all is stored      *)
(*   DispatchQueriesAgree        the queries answer for the machine        *)
(*   DispatchNoMisalignedRun     nothing aligned on unaligned buffers      *)
(*                                                                         *)
(* hold for any delay and reordering of stores;                            *)
(*                                                                         *)
(*   DispatchPrefsInBounds       the preference scan stays in the array    *)
(*   DispatchChoiceIsFinal       a pointer that is set stays as it is      *)
(*   DispatchImplementsOneShot   the dispatcher implements OneShotCalls    *)
(*                                                                         *)
(* for every interleaving of the threads.  Each theorem has the conditions *)
(* on InitFirst, ConfigStable and the preferences it needs as hypotheses.  *)
(***************************************************************************)
EXTENDS Dispatch, RankArchs_proofs, SequenceTheorems

(***************************************************************************)
(* What any thread ever stores to a location.  Every thread computes the   *)
(* same machine, so that the stores of the racing initialisations of the   *)
(* library agree; this is why they need no lock.                           *)
(***************************************************************************)
Stored(l) ==
  CASE l[2] \in {"machine", "named_machine"} -> {BestMachine}
    [] l[2] = "alignment"                    -> {Alignment[BestMachine]}
    [] l[2] = "mask"                         -> {Alignment[BestMachine] - 1}
    [] l[2] = "prefs"                        -> Versions
    [] l[2] = "n_prefs"                      -> Nat
    [] l[2] = "prefs_loaded"                 -> {1}
    [] l[2] = "kern"                         -> {Dispatcher}
    [] l[2] \in {"kern_a", "kern_u"}         -> Table(l[1], BestMachine)

MemoryInv ==
  /\ DOMAIN mem = Loc
  /\ \A l \in Loc : mem[l] \in {0} \cup Stored(l)
  /\ DOMAIN buf = Threads
  /\ \A t \in Threads : /\ DOMAIN buf[t] \subseteq Loc
                        /\ \A l \in DOMAIN buf[t] : buf[t][l] \in Stored(l)
                        /\ Delayed = 0 => DOMAIN buf[t] = {}

(* The places of a thread that has been through get_machine.               *)
HasMachine == {"store_alignment", "store_mask", "prefs", "load", "store_prefs", "store_n",
               "store_loaded", "rank_a", "rank_u", "store_a", "store_u", "store_kern",
               "manual", "func_desc", "alignment"}

(* The places inside __init_kern, and those of a call through a pointer.   *)
InInit == {"prefs", "load", "store_prefs", "store_n", "store_loaded", "rank_a", "rank_u",
           "store_a", "store_u", "store_kern"}
InCall == InInit \cup {"call", "dispatch"}

InGetMachine == {"machine", "select", "store_alignment", "store_mask"}

ThreadInv(t) ==
  /\ pc[t] \in PC
  /\ pc[t] # "idle" => op[t] \in Requests
  /\ pc[t] \in InCall => op[t].kind \in PtrVars
  /\ pc[t] \in {"manual", "func_desc", "is_aligned"} => op[t].kind = pc[t]
  /\ pc[t] = "alignment" => op[t].kind = "get_alignment"
  /\ pc[t] = "named_machine" => op[t].kind = "get_machine"
  /\ pc[t] \in InGetMachine => op[t].kind \notin {"is_aligned", "get_machine"}
  /\ pc[t] # "idle" /\ op[t].kind \in PtrVars =>
       resume[t] \in {op[t].kern} \X PtrVars
  /\ pc[t] \in HasMachine => Load(t, Lib("machine")) = BestMachine
  /\ pc[t] = "store_mask" => Load(t, Lib("alignment")) = Alignment[BestMachine]
  /\ pc[t] \in {"store_prefs", "store_n", "store_loaded"} => got[t] \in Versions
  /\ pc[t] \in {"rank_u", "store_a"} => rank[t].a \in Table(op[t].kern, BestMachine)
  /\ pc[t] \in {"store_a", "store_u"} => rank[t].u \in Table(op[t].kern, BestMachine)
  /\ ran[t] # 0 => op[t].kern \in Kernels /\ ran[t] \in Table(op[t].kern, BestMachine)

Domains ==
  /\ file \in Versions
  /\ DOMAIN pc = Threads /\ DOMAIN op = Threads /\ DOMAIN resume = Threads
  /\ DOMAIN got = Threads /\ DOMAIN rank = Threads /\ DOMAIN ran = Threads
  /\ DOMAIN inits = Threads /\ DOMAIN answer = Threads
  /\ \A t \in Threads : DOMAIN rank[t] = {"a", "u"}

ControlInv == Domains /\ \A t \in Threads : ThreadInv(t)

IInv == MemoryInv /\ ControlInv

(* get_machine finds a machine this processor runs: the position is never  *)
(* the NULL the code leaves open if no machine fits.                       *)
LEMMA BestMachineRunnable ==
  /\ BestMachine \in Runnable
  /\ BestMachine \in Nat \ {0}
  /\ Alignment[BestMachine] \in Nat \ {0}
<1> DEFINE able == {m \in Runnable : Mask(Caps[m]) > 0}
           f == [m \in able |-> Mask(Caps[m])]
           largest == {m \in able : \A n \in able : Mask(Caps[n]) <= Mask(Caps[m])}
<1>1. able # {} /\ able \subseteq Machines
  BY MachinesAssumption DEF Runnable
<1>2. Machines \subseteq Nat \ {0}
  BY MachinesAssumption DEF Machines
<1>3. f \in [able -> 0 .. MaxInt]
  BY <1>1, MachinesAssumption
<1>4. \E m \in able : \A n \in able : f[n] <= f[m]
  <2> HIDE DEF f, able
  <2> QED BY <1>1, <1>3, LargestExists
<1>5. largest \subseteq Nat /\ largest # {}
  BY <1>1, <1>2, <1>4
<1>6. First(largest) \in largest
  <2> HIDE DEF largest
  <2> QED BY <1>5, FirstIsFirst
<1>7. BestMachine = First(largest)
  BY DEF BestMachine
<1>8. BestMachine \in able
  BY <1>6, <1>7
<1>9. BestMachine \in Runnable /\ BestMachine \in Machines
  BY <1>8 DEF Runnable
<1> QED BY <1>2, <1>9, MachinesAssumption

(* The table of the machine is never empty and holds only implementations  *)
(* the machine's caps cover.                                               *)
LEMMA TableRunnable ==
  ASSUME NEW k \in Kernels
  PROVE  /\ Table(k, BestMachine) \subseteq Nat \ {0}
         /\ Table(k, BestMachine) # {}
         /\ \A i \in Table(k, BestMachine) :
              /\ i \in DOMAIN Impls[k]
              /\ Impls[k][i].deps \subseteq Cpu
              /\ Mask(Impls[k][i].deps) \in 0 .. MaxInt
<1>1. BestMachine \in Machines /\ Caps[BestMachine] \subseteq Cpu
  BY BestMachineRunnable DEF Runnable
<1>2. Table(k, BestMachine) # {}
  BY <1>1, ImplsAssumption DEF Named
<1>3. Table(k, BestMachine) \subseteq DOMAIN Impls[k]
  BY DEF Table, GetImpls
<1>4. DOMAIN Impls[k] \subseteq Nat \ {0}
  BY ImplsAssumption
<1>5. \A i \in Table(k, BestMachine) : Impls[k][i].deps \subseteq Cpu
  BY <1>1 DEF Table, GetImpls
<1> QED BY <1>2, <1>3, <1>4, <1>5, ImplsAssumption

(* What a step does to the memory as the other threads see it: a location  *)
(* a thread sees set stays set, to a value some thread stores there.       *)
Kept ==
  \A u \in Threads, x \in Loc : Load(u, x) \in Stored(x) => Load(u, x)' \in Stored(x)

(* What a thread sees at a location is 0, the initial value, or stored.    *)
LEMMA LoadStored ==
  ASSUME MemoryInv, NEW u \in Threads, NEW x \in Loc
  PROVE  Load(u, x) \in {0} \cup Stored(x)
BY DEF MemoryInv, Load

LEMMA StoreKeeps ==
  ASSUME MemoryInv, NEW t \in Threads, NEW l \in Loc, NEW v \in Stored(l), Store(t, l, v)
  PROVE  MemoryInv' /\ Load(t, l)' = v /\ Kept
<1>1. CASE Delayed > 0
  <2>1. UNCHANGED mem
    BY <1>1 DEF Store
  <2>2. buf' = [buf EXCEPT ![t] =
                  [x \in DOMAIN buf[t] \cup {l} |-> IF x = l THEN v ELSE buf[t][x]]]
    BY <1>1 DEF Store
  <2>3. DOMAIN buf'[t] = DOMAIN buf[t] \cup {l} /\ buf'[t][l] = v
    BY <2>2 DEF MemoryInv
  <2>4. \A x \in DOMAIN buf[t] : x # l => buf'[t][x] = buf[t][x]
    BY <2>2 DEF MemoryInv
  <2>5. \A u \in Threads : u # t => buf'[u] = buf[u]
    BY <2>2 DEF MemoryInv
  <2>6. MemoryInv'
    BY <1>1, <2>1, <2>2, <2>3, <2>4, <2>5 DEF MemoryInv
  <2>7. Load(t, l)' = v
    BY <2>3 DEF Load
  <2>8. Kept
    BY <2>1, <2>3, <2>4, <2>5 DEF Load, Kept, MemoryInv
  <2> QED BY <2>6, <2>7, <2>8
<1>2. CASE ~(Delayed > 0)
  <2>1. UNCHANGED buf /\ mem' = [mem EXCEPT ![l] = v]
    BY <1>2 DEF Store
  <2>2. \A u \in Threads : DOMAIN buf[u] = {}
    BY <1>2, FlagsAssumption DEF MemoryInv
  <2>3. MemoryInv'
    BY <2>1, <2>2 DEF MemoryInv
  <2>4. Load(t, l)' = v /\ Kept
    BY <2>1, <2>2 DEF MemoryInv, Load, Kept
  <2> QED BY <2>3, <2>4
<1> QED BY <1>1, <1>2

LEMMA PublishKeeps ==
  ASSUME MemoryInv, NEW t \in Threads, Publish(t)
  PROVE  MemoryInv' /\ Kept
<1>1. PICK l \in DOMAIN buf[t] :
        /\ mem' = [mem EXCEPT ![l] = buf[t][l]]
        /\ buf' = [buf EXCEPT ![t] = [x \in DOMAIN buf[t] \ {l} |-> buf[t][x]]]
  BY DEF Publish
<1>2. l \in Loc /\ buf[t][l] \in Stored(l)
  BY DEF MemoryInv
<1>3. DOMAIN buf'[t] = DOMAIN buf[t] \ {l}
  BY <1>1 DEF MemoryInv
<1>4. \A x \in DOMAIN buf[t] : x # l => buf'[t][x] = buf[t][x]
  BY <1>1 DEF MemoryInv
<1>5. \A u \in Threads : u # t => buf'[u] = buf[u]
  BY <1>1 DEF MemoryInv
<1>6. MemoryInv'
  <2>1. DOMAIN mem' = Loc /\ DOMAIN buf' = Threads
    BY <1>1 DEF MemoryInv
  <2>2. \A x \in Loc : mem'[x] \in {0} \cup Stored(x)
    BY <1>1, <1>2 DEF MemoryInv
  <2>3. \A u \in Threads : /\ DOMAIN buf'[u] \subseteq Loc
                           /\ \A x \in DOMAIN buf'[u] : buf'[u][x] \in Stored(x)
                           /\ Delayed = 0 => DOMAIN buf'[u] = {}
    BY <1>3, <1>4, <1>5 DEF MemoryInv
  <2> QED BY <2>1, <2>2, <2>3 DEF MemoryInv
<1>7. Kept
  BY <1>1, <1>2, <1>3, <1>4, <1>5 DEF Load, Kept, MemoryInv
<1> QED BY <1>6, <1>7

LEMMA UntouchedKeeps ==
  ASSUME MemoryInv, UNCHANGED <<mem, buf>>
  PROVE  MemoryInv' /\ Kept
BY DEF MemoryInv, Kept, Load

(* A step of thread t leaves the locals of the others alone.               *)
Frame(t) ==
  /\ Domains'
  /\ \A u \in Threads \ {t} :
       /\ pc'[u] = pc[u] /\ op'[u] = op[u] /\ resume'[u] = resume[u]
       /\ got'[u] = got[u] /\ rank'[u] = rank[u] /\ ran'[u] = ran[u]
       /\ inits'[u] = inits[u] /\ answer'[u] = answer[u]

LEMMA LibInLoc == \A v \in LibVars : Lib(v) \in Loc
BY DEF Lib, Loc

LEMMA PtrInLoc == \A k \in Kernels, v \in PtrVars : Ptr(k, v) \in Loc
BY DEF Ptr, Loc

LEMMA StoredLib ==
  /\ Stored(Lib("machine")) = {BestMachine}
  /\ Stored(Lib("named_machine")) = {BestMachine}
  /\ Stored(Lib("alignment")) = {Alignment[BestMachine]}
  /\ Stored(Lib("mask")) = {Alignment[BestMachine] - 1}
  /\ Stored(Lib("prefs")) = Versions
  /\ Stored(Lib("n_prefs")) = Nat
  /\ Stored(Lib("prefs_loaded")) = {1}
BY DEF Stored, Lib

LEMMA StoredPtr ==
  ASSUME NEW k
  PROVE  /\ Stored(Ptr(k, "kern")) = {Dispatcher}
         /\ Stored(Ptr(k, "kern_a")) = Table(k, BestMachine)
         /\ Stored(Ptr(k, "kern_u")) = Table(k, BestMachine)
BY DEF Stored, Ptr

(* A thread that changes only its own locals, and the memory only as Kept  *)
(* allows, has to re-establish no more than its own part of the invariant. *)
LEMMA OwnPartSuffices ==
  ASSUME IInv, NEW t \in Threads, MemoryInv', Kept, Frame(t), ThreadInv(t)'
  PROVE  IInv'
<1> SUFFICES ASSUME NEW u \in Threads, u # t
             PROVE  ThreadInv(u)'
  BY DEF IInv, ControlInv, Frame
<1>1. ThreadInv(u)
  BY DEF IInv, ControlInv
<1>2. UNCHANGED <<pc[u], op[u], resume[u], got[u], rank[u], ran[u]>>
  BY DEF Frame
<1>3. Lib("machine") \in Loc /\ Lib("alignment") \in Loc
  BY LibInLoc DEF LibVars
<1>4. Load(u, Lib("machine")) = BestMachine => Load(u, Lib("machine"))' = BestMachine
  BY <1>3, StoredLib DEF Kept
<1>5. Load(u, Lib("alignment")) = Alignment[BestMachine]
        => Load(u, Lib("alignment"))' = Alignment[BestMachine]
  BY <1>3, StoredLib DEF Kept
<1> QED BY <1>1, <1>2, <1>4, <1>5 DEF ThreadInv

(* What the requests look like.                                            *)
LEMMA RequestShape ==
  ASSUME NEW o \in Requests
  PROVE  /\ o.kind \in PtrVars \cup {"manual", "func_desc", "get_alignment",
                                     "get_machine", "is_aligned"}
         /\ o.kind \in PtrVars \cup {"manual"} => o.kern \in Kernels
<1>1. CASE o \in KernelCalls
  BY <1>1 DEF KernelCalls, Calls, PtrVars
<1>2. CASE o \in ManualCalls
  BY <1>2 DEF ManualCalls, Calls, PtrVars
<1>3. CASE o \in Queries
  BY <1>3 DEF Queries, Calls, PtrVars
<1> QED BY <1>1, <1>2, <1>3 DEF Requests

LEMMA InitIInv == Init => IInv
<1> SUFFICES ASSUME Init PROVE IInv
  OBVIOUS
<1>1. MemoryInv
  BY DEF Init, MemoryInv
<1>2. Domains
  BY DEF Init, Domains
<1>3. \A t \in Threads : ThreadInv(t)
  BY DEF Init, ThreadInv, PC, HasMachine, InCall, InInit, InGetMachine, PtrVars
<1> QED BY <1>1, <1>2, <1>3 DEF IInv, ControlInv

LEMMA BeginKeeps ==
  ASSUME IInv, NEW t \in Threads, NEW o \in Requests, Begin(t, o)
  PROVE  IInv' /\ Kept /\ Frame(t)
<1>1. MemoryInv' /\ Kept
  BY UntouchedKeeps DEF IInv, Begin
<1>2. Frame(t)
  BY DEF IInv, ControlInv, Domains, Frame, Begin, Goto
<1>3. pc'[t] = Entry(o) /\ op'[t] = o /\ ran'[t] = 0
      /\ resume'[t] = (IF o.kind \in PtrVars THEN Ptr(o.kern, o.kind) ELSE <<>>)
  BY DEF IInv, ControlInv, Domains, Begin, Goto
<1>4. ThreadInv(t)'
  BY <1>3, RequestShape DEF Entry, ThreadInv, PC, HasMachine, InCall, InInit,
     InGetMachine, PtrVars, Ptr
<1> QED BY <1>1, <1>2, <1>4, OwnPartSuffices

LEMMA SeenKept ==
  ASSUME Kept, NEW t \in Threads
  PROVE  /\ Load(t, Lib("machine")) = BestMachine => Load(t, Lib("machine"))' = BestMachine
         /\ Load(t, Lib("alignment")) = Alignment[BestMachine]
              => Load(t, Lib("alignment"))' = Alignment[BestMachine]
<1>1. Lib("machine") \in Loc /\ Lib("alignment") \in Loc
  BY LibInLoc DEF LibVars
<1> QED BY <1>1, StoredLib DEF Kept

LEMMA CallStubKeeps ==
  ASSUME IInv, NEW t \in Threads, CallStub(t)
  PROVE  IInv' /\ Kept /\ Frame(t)
<1>1. MemoryInv' /\ Kept
  BY UntouchedKeeps DEF IInv, CallStub, local
<1>2. Frame(t)
  BY DEF IInv, ControlInv, Domains, Frame, CallStub, Goto, local
<1>3. ThreadInv(t)'
  BY <1>1, SeenKept, RequestShape
  DEF IInv, ControlInv, Domains, ThreadInv, CallStub, Goto, local, Ptr,
      PC, HasMachine, InCall, InInit, InGetMachine, PtrVars
<1> QED BY <1>1, <1>2, <1>3, OwnPartSuffices

LEMMA CallDispatcherKeeps ==
  ASSUME IInv, NEW t \in Threads, CallDispatcher(t)
  PROVE  IInv' /\ Kept /\ Frame(t)
<1>1. MemoryInv' /\ Kept
  BY UntouchedKeeps DEF IInv, CallDispatcher, local
<1>2. Frame(t)
  BY DEF IInv, ControlInv, Domains, Frame, CallDispatcher, Goto, local
<1>3. ThreadInv(t)'
  BY <1>1, SeenKept, RequestShape
  DEF IInv, ControlInv, Domains, ThreadInv, CallDispatcher, Goto, local, Ptr,
      PC, HasMachine, InCall, InInit, InGetMachine, PtrVars
<1> QED BY <1>1, <1>2, <1>3, OwnPartSuffices

LEMMA DispatchKeeps ==
  ASSUME IInv, NEW t \in Threads, Dispatch(t)
  PROVE  IInv' /\ Kept /\ Frame(t)
<1>1. MemoryInv' /\ Kept
  BY UntouchedKeeps DEF IInv, Dispatch, local
<1>2. Frame(t)
  BY DEF IInv, ControlInv, Domains, Frame, Dispatch, Goto, local
<1>3. ThreadInv(t)'
  BY <1>1, SeenKept, RequestShape
  DEF IInv, ControlInv, Domains, ThreadInv, Dispatch, Goto, local, Ptr,
      PC, HasMachine, InCall, InInit, InGetMachine, PtrVars
<1> QED BY <1>1, <1>2, <1>3, OwnPartSuffices

LEMMA GetMachineKeeps ==
  ASSUME IInv, NEW t \in Threads, GetMachine(t)
  PROVE  IInv' /\ Kept /\ Frame(t)
<1>1. MemoryInv' /\ Kept
  BY UntouchedKeeps DEF IInv, GetMachine, local
<1>2. Frame(t)
  BY DEF IInv, ControlInv, Domains, Frame, GetMachine, Goto, local
<1>3. Load(t, Lib("machine")) # 0 => Load(t, Lib("machine"))' = BestMachine
  BY <1>1, SeenKept, LoadStored, StoredLib, LibInLoc DEF IInv, LibVars
<1>4. ThreadInv(t)'
  BY <1>3, RequestShape
  DEF IInv, ControlInv, Domains, ThreadInv, GetMachine, AfterMachine, Goto, local,
      PC, HasMachine, InCall, InInit, InGetMachine, PtrVars
<1> QED BY <1>1, <1>2, <1>4, OwnPartSuffices

LEMMA CheckPrefsKeeps ==
  ASSUME IInv, NEW t \in Threads, CheckPrefs(t)
  PROVE  IInv' /\ Kept /\ Frame(t)
<1>1. MemoryInv' /\ Kept
  BY UntouchedKeeps DEF IInv, CheckPrefs, local
<1>2. Frame(t)
  BY DEF IInv, ControlInv, Domains, Frame, CheckPrefs, Goto, local
<1>3. ThreadInv(t)'
  BY <1>1, SeenKept, RequestShape
  DEF IInv, ControlInv, Domains, ThreadInv, CheckPrefs, Goto, local, Ptr,
      PC, HasMachine, InCall, InInit, InGetMachine, PtrVars
<1> QED BY <1>1, <1>2, <1>3, OwnPartSuffices

LEMMA LoadPreferencesKeeps ==
  ASSUME IInv, NEW t \in Threads, LoadPreferences(t)
  PROVE  IInv' /\ Kept /\ Frame(t)
<1>1. MemoryInv' /\ Kept
  BY UntouchedKeeps DEF IInv, LoadPreferences, local
<1>2. Frame(t)
  BY DEF IInv, ControlInv, Domains, Frame, LoadPreferences, Goto, local
<1>3. ThreadInv(t)'
  BY <1>1, SeenKept, RequestShape
  DEF IInv, ControlInv, Domains, ThreadInv, LoadPreferences, Goto, local, Ptr,
      PC, HasMachine, InCall, InInit, InGetMachine, PtrVars
<1> QED BY <1>1, <1>2, <1>3, OwnPartSuffices

LEMMA GetFuncDescKeeps ==
  ASSUME IInv, NEW t \in Threads, GetFuncDesc(t)
  PROVE  IInv' /\ Kept /\ Frame(t)
<1>1. MemoryInv' /\ Kept
  BY UntouchedKeeps DEF IInv, GetFuncDesc, Return, local
<1>2. Frame(t)
  BY DEF IInv, ControlInv, Domains, Frame, GetFuncDesc, Return, Goto, local
<1>3. ThreadInv(t)'
  BY <1>1, SeenKept, RequestShape
  DEF IInv, ControlInv, Domains, ThreadInv, GetFuncDesc, Return, Goto, local, Ptr,
      PC, HasMachine, InCall, InInit, InGetMachine, PtrVars
<1> QED BY <1>1, <1>2, <1>3, OwnPartSuffices

LEMMA GetAlignmentKeeps ==
  ASSUME IInv, NEW t \in Threads, GetAlignment(t)
  PROVE  IInv' /\ Kept /\ Frame(t)
<1>1. MemoryInv' /\ Kept
  BY UntouchedKeeps DEF IInv, GetAlignment, Return, local
<1>2. Frame(t)
  BY DEF IInv, ControlInv, Domains, Frame, GetAlignment, Return, Goto, local
<1>3. ThreadInv(t)'
  BY <1>1, SeenKept, RequestShape
  DEF IInv, ControlInv, Domains, ThreadInv, GetAlignment, Return, Goto, local, Ptr,
      PC, HasMachine, InCall, InInit, InGetMachine, PtrVars
<1> QED BY <1>1, <1>2, <1>3, OwnPartSuffices

LEMMA IsAlignedQueryKeeps ==
  ASSUME IInv, NEW t \in Threads, IsAlignedQuery(t)
  PROVE  IInv' /\ Kept /\ Frame(t)
<1>1. MemoryInv' /\ Kept
  BY UntouchedKeeps DEF IInv, IsAlignedQuery, Return, local
<1>2. Frame(t)
  BY DEF IInv, ControlInv, Domains, Frame, IsAlignedQuery, Return, Goto, local
<1>3. ThreadInv(t)'
  BY <1>1, SeenKept, RequestShape
  DEF IInv, ControlInv, Domains, ThreadInv, IsAlignedQuery, Return, Goto, local, Ptr,
      PC, HasMachine, InCall, InInit, InGetMachine, PtrVars
<1> QED BY <1>1, <1>2, <1>3, OwnPartSuffices

LEMMA GetMachineNameKeeps ==
  ASSUME IInv, NEW t \in Threads, GetMachineName(t)
  PROVE  IInv' /\ Kept /\ Frame(t)
<1>1. MemoryInv' /\ Kept
  BY UntouchedKeeps DEF IInv, GetMachineName, Return, local
<1>2. Frame(t)
  BY DEF IInv, ControlInv, Domains, Frame, GetMachineName, Return, Goto, local
<1>3. ThreadInv(t)'
  BY <1>1, SeenKept, RequestShape
  DEF IInv, ControlInv, Domains, ThreadInv, GetMachineName, Return, Goto, local, Ptr,
      PC, HasMachine, InCall, InInit, InGetMachine, PtrVars
<1> QED BY <1>1, <1>2, <1>3, OwnPartSuffices

LEMMA SelectMachineKeeps ==
  ASSUME IInv, NEW t \in Threads, SelectMachine(t)
  PROVE  IInv' /\ Kept /\ Frame(t)
<1>1. Lib("machine") \in Loc /\ BestMachine \in Stored(Lib("machine"))
  BY LibInLoc, StoredLib
  DEF IInv, ControlInv, ThreadInv, SelectMachine, Goto, LibVars
<1>2. MemoryInv' /\ Load(t, Lib("machine"))' = BestMachine /\ Kept
  BY <1>1, StoreKeeps DEF IInv, SelectMachine
<1>3. Frame(t)
  BY DEF IInv, ControlInv, Domains, Frame, SelectMachine, Goto, local
<1>4. ThreadInv(t)'
  BY <1>2, SeenKept, RequestShape
  DEF IInv, ControlInv, Domains, ThreadInv, SelectMachine, Goto, local,
      PC, HasMachine, InCall, InInit, InGetMachine, PtrVars
<1> QED BY <1>2, <1>3, <1>4, OwnPartSuffices

LEMMA StoreAlignmentKeeps ==
  ASSUME IInv, NEW t \in Threads, StoreAlignment(t)
  PROVE  IInv' /\ Kept /\ Frame(t)
<1>1. Lib("alignment") \in Loc /\ Alignment[Load(t, Lib("machine"))] \in Stored(Lib("alignment"))
  BY LibInLoc, StoredLib
  DEF IInv, ControlInv, ThreadInv, StoreAlignment, Goto, LibVars, HasMachine
<1>2. MemoryInv' /\ Load(t, Lib("alignment"))' = Alignment[Load(t, Lib("machine"))] /\ Kept
  BY <1>1, StoreKeeps DEF IInv, StoreAlignment
<1>3. Frame(t)
  BY DEF IInv, ControlInv, Domains, Frame, StoreAlignment, Goto, local
<1>4. ThreadInv(t)'
  BY <1>2, SeenKept, RequestShape
  DEF IInv, ControlInv, Domains, ThreadInv, StoreAlignment, Goto, local,
      PC, HasMachine, InCall, InInit, InGetMachine, PtrVars
<1> QED BY <1>2, <1>3, <1>4, OwnPartSuffices

LEMMA StoreMaskKeeps ==
  ASSUME IInv, NEW t \in Threads, StoreMask(t)
  PROVE  IInv' /\ Kept /\ Frame(t)
<1>1. Lib("mask") \in Loc /\ Load(t, Lib("alignment")) - 1 \in Stored(Lib("mask"))
  BY LibInLoc, StoredLib
  DEF IInv, ControlInv, ThreadInv, StoreMask, Goto, LibVars
<1>2. MemoryInv' /\ Load(t, Lib("mask"))' = Load(t, Lib("alignment")) - 1 /\ Kept
  BY <1>1, StoreKeeps DEF IInv, StoreMask
<1>3. Frame(t)
  BY DEF IInv, ControlInv, Domains, Frame, StoreMask, Goto, local
<1>4. ThreadInv(t)'
  BY <1>2, SeenKept, RequestShape
  DEF IInv, ControlInv, Domains, ThreadInv, StoreMask, AfterMachine, Goto, local,
      PC, HasMachine, InCall, InInit, InGetMachine, PtrVars
<1> QED BY <1>2, <1>3, <1>4, OwnPartSuffices

LEMMA StoreNPrefsKeeps ==
  ASSUME IInv, NEW t \in Threads, StoreNPrefs(t)
  PROVE  IInv' /\ Kept /\ Frame(t)
<1>0. got[t] \in Versions
  BY DEF IInv, ControlInv, ThreadInv, StoreNPrefs, Goto
<1>1. Lib("n_prefs") \in Loc /\ Len(Configs[got[t]]) \in Stored(Lib("n_prefs"))
  <2>1. Len(Configs[got[t]]) \in Nat
    BY <1>0, FlagsAssumption DEF Versions
  <2> QED BY <2>1, LibInLoc, StoredLib DEF LibVars
<1>2. MemoryInv' /\ Load(t, Lib("n_prefs"))' = Len(Configs[got[t]]) /\ Kept
  BY <1>1, StoreKeeps DEF IInv, StoreNPrefs
<1>3. Frame(t)
  BY DEF IInv, ControlInv, Domains, Frame, StoreNPrefs, Goto, local
<1>4. ThreadInv(t)'
  BY <1>2, SeenKept, RequestShape
  DEF IInv, ControlInv, Domains, ThreadInv, StoreNPrefs, Goto, local,
      PC, HasMachine, InCall, InInit, InGetMachine, PtrVars
<1> QED BY <1>2, <1>3, <1>4, OwnPartSuffices

LEMMA StoreLoadedKeeps ==
  ASSUME IInv, NEW t \in Threads, StoreLoaded(t)
  PROVE  IInv' /\ Kept /\ Frame(t)
<1>1. Lib("prefs_loaded") \in Loc /\ 1 \in Stored(Lib("prefs_loaded"))
  BY LibInLoc, StoredLib
  DEF IInv, ControlInv, ThreadInv, StoreLoaded, Goto, LibVars
<1>2. MemoryInv' /\ Load(t, Lib("prefs_loaded"))' = 1 /\ Kept
  BY <1>1, StoreKeeps DEF IInv, StoreLoaded
<1>3. Frame(t)
  BY DEF IInv, ControlInv, Domains, Frame, StoreLoaded, Goto, local
<1>4. ThreadInv(t)'
  BY <1>2, SeenKept, RequestShape
  DEF IInv, ControlInv, Domains, ThreadInv, StoreLoaded, Goto, local,
      PC, HasMachine, InCall, InInit, InGetMachine, PtrVars
<1> QED BY <1>2, <1>3, <1>4, OwnPartSuffices

LEMMA StoreKernAKeeps ==
  ASSUME IInv, NEW t \in Threads, StoreKernA(t)
  PROVE  IInv' /\ Kept /\ Frame(t)
<1>1. Ptr(op[t].kern, "kern_a") \in Loc /\ rank[t].a \in Stored(Ptr(op[t].kern, "kern_a"))
  BY PtrInLoc, StoredPtr, RequestShape
  DEF IInv, ControlInv, ThreadInv, StoreKernA, Goto, PtrVars, InCall, InInit
<1>2. MemoryInv' /\ Load(t, Ptr(op[t].kern, "kern_a"))' = rank[t].a /\ Kept
  BY <1>1, StoreKeeps DEF IInv, StoreKernA, StorePtr
<1>3. Frame(t)
  BY DEF IInv, ControlInv, Domains, Frame, StoreKernA, StorePtr, Goto, local
<1>4. ThreadInv(t)'
  BY <1>2, SeenKept, RequestShape
  DEF IInv, ControlInv, Domains, ThreadInv, StoreKernA, StorePtr, Goto, local,
      PC, HasMachine, InCall, InInit, InGetMachine, PtrVars
<1> QED BY <1>2, <1>3, <1>4, OwnPartSuffices

LEMMA StoreKernUKeeps ==
  ASSUME IInv, NEW t \in Threads, StoreKernU(t)
  PROVE  IInv' /\ Kept /\ Frame(t)
<1>1. Ptr(op[t].kern, "kern_u") \in Loc /\ rank[t].u \in Stored(Ptr(op[t].kern, "kern_u"))
  BY PtrInLoc, StoredPtr, RequestShape
  DEF IInv, ControlInv, ThreadInv, StoreKernU, Goto, PtrVars, InCall, InInit
<1>2. MemoryInv' /\ Load(t, Ptr(op[t].kern, "kern_u"))' = rank[t].u /\ Kept
  BY <1>1, StoreKeeps DEF IInv, StoreKernU, StorePtr
<1>3. Frame(t)
  BY DEF IInv, ControlInv, Domains, Frame, StoreKernU, StorePtr, Goto, local
<1>4. ThreadInv(t)'
  BY <1>2, SeenKept, RequestShape
  DEF IInv, ControlInv, Domains, ThreadInv, StoreKernU, StorePtr, Goto, local,
      PC, HasMachine, InCall, InInit, InGetMachine, PtrVars
<1> QED BY <1>2, <1>3, <1>4, OwnPartSuffices

LEMMA StoreKernKeeps ==
  ASSUME IInv, NEW t \in Threads, StoreKern(t)
  PROVE  IInv' /\ Kept /\ Frame(t)
<1>1. Ptr(op[t].kern, "kern") \in Loc /\ Dispatcher \in Stored(Ptr(op[t].kern, "kern"))
  BY PtrInLoc, StoredPtr, RequestShape
  DEF IInv, ControlInv, ThreadInv, StoreKern, Goto, PtrVars, InCall, InInit
<1>2. MemoryInv' /\ Load(t, Ptr(op[t].kern, "kern"))' = Dispatcher /\ Kept
  BY <1>1, StoreKeeps DEF IInv, StoreKern, StorePtr
<1>3. Frame(t)
  BY DEF IInv, ControlInv, Domains, Frame, StoreKern, StorePtr, Goto, local
<1>4. ThreadInv(t)'
  BY <1>2, SeenKept, RequestShape
  DEF IInv, ControlInv, Domains, ThreadInv, StoreKern, StorePtr, Goto, local,
      PC, HasMachine, InCall, InInit, InGetMachine, PtrVars
<1> QED BY <1>2, <1>3, <1>4, OwnPartSuffices

LEMMA NameMachineKeeps ==
  ASSUME IInv, NEW t \in Threads, NameMachine(t)
  PROVE  IInv' /\ Kept /\ Frame(t)
<1>1. Lib("named_machine") \in Loc /\ BestMachine \in Stored(Lib("named_machine"))
  BY LibInLoc, StoredLib
  DEF IInv, ControlInv, ThreadInv, NameMachine, Goto, LibVars
<1>2. MemoryInv' /\ Load(t, Lib("named_machine"))' = BestMachine /\ Kept
  BY <1>1, StoreKeeps DEF IInv, NameMachine
<1>3. Frame(t)
  BY DEF IInv, ControlInv, Domains, Frame, NameMachine, Goto, local
<1>4. ThreadInv(t)'
  BY <1>2, SeenKept, RequestShape
  DEF IInv, ControlInv, Domains, ThreadInv, NameMachine, Goto, local,
      PC, HasMachine, InCall, InInit, InGetMachine, PtrVars
<1> QED BY <1>2, <1>3, <1>4, OwnPartSuffices

LEMMA StorePrefsKeeps ==
  ASSUME IInv, NEW t \in Threads, StorePrefs(t)
  PROVE  IInv' /\ Kept /\ Frame(t)
<1>1. Lib("prefs") \in Loc /\ got[t] \in Stored(Lib("prefs"))
  BY LibInLoc, StoredLib DEF IInv, ControlInv, ThreadInv, StorePrefs, Goto, LibVars
<1>2. MemoryInv' /\ Kept
  <2>1. CASE Configs[got[t]] = <<>>
    BY <2>1, UntouchedKeeps DEF IInv, StorePrefs
  <2>2. CASE Configs[got[t]] # <<>>
    BY <1>1, <2>2, StoreKeeps DEF IInv, StorePrefs
  <2> QED BY <2>1, <2>2
<1>3. Frame(t)
  BY DEF IInv, ControlInv, Domains, Frame, StorePrefs, Goto, local
<1>4. ThreadInv(t)'
  BY <1>2, SeenKept, RequestShape
  DEF IInv, ControlInv, Domains, ThreadInv, StorePrefs, Goto, local,
      PC, HasMachine, InCall, InInit, InGetMachine, PtrVars
<1> QED BY <1>2, <1>3, <1>4, OwnPartSuffices

(* What volk_rank_archs returns to __init_kern is an entry of the table of *)
(* the selected machine, whatever mixture of pointer and length of the     *)
(* preference list the thread sees.                                        *)
LEMMA RankForInTable ==
  ASSUME IInv, NEW t \in Threads, pc[t] \in {"rank_a", "rank_u"}, NEW align \in BOOLEAN
  PROVE  RankFor(t, align) \in Table(op[t].kern, BestMachine)
<1>1. op[t].kern \in Kernels /\ Load(t, Lib("machine")) = BestMachine
  BY RequestShape DEF IInv, ControlInv, ThreadInv, HasMachine, InCall, InInit
<1>2. /\ Table(op[t].kern, BestMachine) \subseteq Nat
      /\ Table(op[t].kern, BestMachine) # {}
      /\ \A i \in Table(op[t].kern, BestMachine) :
           Mask(Impls[op[t].kern][i].deps) \in 0 .. MaxInt
  BY <1>1, TableRunnable
<1> QED BY <1>1, <1>2, RankInTable DEF RankFor

LEMMA RankAlignedKeeps ==
  ASSUME IInv, NEW t \in Threads, RankAligned(t)
  PROVE  IInv' /\ Kept /\ Frame(t)
<1>1. MemoryInv' /\ Kept
  BY UntouchedKeeps DEF IInv, RankAligned, Rank
<1>2. Frame(t)
  <2>1. UNCHANGED <<file, op, resume, got, inits, ran, answer>>
    BY DEF RankAligned, Rank
  <2>2. DOMAIN pc' = Threads /\ \A u \in Threads \ {t} : pc'[u] = pc[u]
    BY DEF IInv, ControlInv, Domains, RankAligned, Rank, Goto
  <2>3. /\ DOMAIN rank' = Threads /\ \A u \in Threads : DOMAIN rank'[u] = {"a", "u"}
        /\ \A u \in Threads \ {t} : rank'[u] = rank[u]
    BY DEF IInv, ControlInv, Domains, RankAligned, Rank
  <2> QED BY <2>1, <2>2, <2>3 DEF IInv, ControlInv, Domains, Frame
<1>3. ScanInBounds(t) => rank'[t].a \in Table(op[t].kern, BestMachine)
  <2>1. DOMAIN rank = Threads /\ DOMAIN rank[t] = {"a", "u"}
    BY DEF IInv, ControlInv, Domains
  <2>2. RankFor(t, TRUE) \in Table(op[t].kern, BestMachine)
    BY RankForInTable DEF RankAligned, Rank, Goto
  <2> QED BY <2>1, <2>2 DEF RankAligned, Rank
<1>4. ThreadInv(t)'
  BY <1>1, <1>3, SeenKept, RequestShape
  DEF IInv, ControlInv, Domains, ThreadInv, RankAligned, Rank, Goto,
      PC, HasMachine, InCall, InInit, InGetMachine, PtrVars
<1> QED BY <1>1, <1>2, <1>4, OwnPartSuffices

LEMMA RankUnalignedKeeps ==
  ASSUME IInv, NEW t \in Threads, RankUnaligned(t)
  PROVE  IInv' /\ Kept /\ Frame(t)
<1>1. MemoryInv' /\ Kept
  BY UntouchedKeeps DEF IInv, RankUnaligned, Rank
<1>2. Frame(t)
  <2>1. UNCHANGED <<file, op, resume, got, inits, ran, answer>>
    BY DEF RankUnaligned, Rank
  <2>2. DOMAIN pc' = Threads /\ \A u \in Threads \ {t} : pc'[u] = pc[u]
    BY DEF IInv, ControlInv, Domains, RankUnaligned, Rank, Goto
  <2>3. /\ DOMAIN rank' = Threads /\ \A u \in Threads : DOMAIN rank'[u] = {"a", "u"}
        /\ \A u \in Threads \ {t} : rank'[u] = rank[u]
    BY DEF IInv, ControlInv, Domains, RankUnaligned, Rank
  <2> QED BY <2>1, <2>2, <2>3 DEF IInv, ControlInv, Domains, Frame
<1>3. ScanInBounds(t) => /\ rank'[t].u \in Table(op[t].kern, BestMachine)
                         /\ rank'[t].a = rank[t].a
  <2>1. DOMAIN rank = Threads /\ DOMAIN rank[t] = {"a", "u"}
    BY DEF IInv, ControlInv, Domains
  <2>2. RankFor(t, FALSE) \in Table(op[t].kern, BestMachine)
    BY RankForInTable DEF RankUnaligned, Rank, Goto
  <2> QED BY <2>1, <2>2 DEF RankUnaligned, Rank
<1>4. ThreadInv(t)'
  BY <1>1, <1>3, SeenKept, RequestShape
  DEF IInv, ControlInv, Domains, ThreadInv, RankUnaligned, Rank, Goto,
      PC, HasMachine, InCall, InInit, InGetMachine, PtrVars
<1> QED BY <1>1, <1>2, <1>4, OwnPartSuffices

LEMMA CallImplKeeps ==
  ASSUME IInv, NEW t \in Threads, CallImpl(t)
  PROVE  IInv' /\ Kept /\ Frame(t)
<1>1. MemoryInv' /\ Kept
  BY UntouchedKeeps DEF IInv, CallImpl, Execute
<1>2. Frame(t)
  BY DEF IInv, ControlInv, Domains, Frame, CallImpl, Execute, Goto
<1>3. op[t].kern \in Kernels /\ op[t] \in Requests /\ op[t].kind \in PtrVars
  BY RequestShape DEF IInv, ControlInv, ThreadInv, CallImpl, InCall
<1>4. PICK v \in {"kern_a", "kern_u"} : resume[t] = Ptr(op[t].kern, v)
  <2>1. resume[t] \in {op[t].kern} \X PtrVars /\ resume[t][2] # "kern"
    BY <1>3 DEF IInv, ControlInv, ThreadInv, CallImpl
  <2> QED BY <2>1 DEF PtrVars, Ptr
<1>5. Load(t, resume[t]) \in Table(op[t].kern, BestMachine)
  <2>1. resume[t] \in Loc
    BY <1>3, <1>4, PtrInLoc DEF PtrVars
  <2>2. Load(t, resume[t]) \in {0} \cup Stored(resume[t])
    BY <2>1, LoadStored DEF IInv
  <2>3. Load(t, resume[t]) # 0
    BY DEF CallImpl, Stub
  <2> QED BY <1>4, <2>2, <2>3, StoredPtr
<1>6. ran'[t] \in Table(op[t].kern, BestMachine)
  BY <1>5 DEF IInv, ControlInv, Domains, CallImpl, Execute
<1>7. ThreadInv(t)'
  BY <1>3, <1>6
  DEF IInv, ControlInv, Domains, ThreadInv, CallImpl, Execute, Goto,
      PC, HasMachine, InCall, InInit, InGetMachine, PtrVars
<1> QED BY <1>1, <1>2, <1>7, OwnPartSuffices

LEMMA ManualKeeps ==
  ASSUME IInv, NEW t \in Threads, Manual(t)
  PROVE  IInv' /\ Kept /\ Frame(t)
<1>1. MemoryInv' /\ Kept
  BY UntouchedKeeps DEF IInv, Manual, Execute
<1>2. Frame(t)
  BY DEF IInv, ControlInv, Domains, Frame, Manual, Execute, Goto
<1>3. op[t].kern \in Kernels /\ Load(t, Lib("machine")) = BestMachine
  BY RequestShape DEF IInv, ControlInv, ThreadInv, Manual, HasMachine
<1>4. ran'[t] \in Table(op[t].kern, BestMachine)
  <2>1. Table(op[t].kern, BestMachine) \subseteq Nat /\ Table(op[t].kern, BestMachine) # {}
    BY <1>3, TableRunnable
  <2>2. GetIndex(Impls[op[t].kern], Table(op[t].kern, BestMachine), op[t].name)
          \in Table(op[t].kern, BestMachine)
    BY <2>1, GetIndexInTable
  <2> QED BY <1>3, <2>2 DEF IInv, ControlInv, Domains, Manual, Execute
<1>5. ThreadInv(t)'
  BY <1>3, <1>4
  DEF IInv, ControlInv, Domains, ThreadInv, Manual, Execute, Goto,
      PC, HasMachine, InCall, InInit, InGetMachine, PtrVars
<1> QED BY <1>1, <1>2, <1>5, OwnPartSuffices

LEMMA PublishPreserves ==
  ASSUME IInv, NEW t \in Threads, Publish(t)
  PROVE  IInv' /\ Kept /\ Frame(t)
<1>1. MemoryInv' /\ Kept
  BY PublishKeeps DEF IInv
<1>2. Frame(t)
  BY DEF IInv, ControlInv, Domains, Frame, Publish, local
<1>3. ThreadInv(t)'
  BY <1>1, SeenKept DEF IInv, ControlInv, ThreadInv, Publish, local
<1> QED BY <1>1, <1>2, <1>3, OwnPartSuffices

(* The steps that no thread takes touch nothing of the invariant but file. *)
LEMMA OutsideKeeps ==
  ASSUME IInv, StartThreads \/ RewriteConfig \/ UNCHANGED vars
  PROVE  IInv' /\ Kept
<1>1. UNCHANGED <<mem, buf, pc, local>> /\ file' \in Versions
  BY DEF StartThreads, RewriteConfig, vars, local, IInv, ControlInv, Domains
<1>2. MemoryInv' /\ Kept
  BY <1>1, UntouchedKeeps DEF IInv
<1>3. Main \in Threads /\ Frame(Main)
  BY <1>1, ThreadsAssumption DEF IInv, ControlInv, Domains, Frame, local
<1>4. ThreadInv(Main)'
  BY <1>1, <1>2, <1>3, SeenKept DEF IInv, ControlInv, ThreadInv, local
<1> QED BY <1>2, <1>3, <1>4, OwnPartSuffices

LEMMA ContinueKeeps ==
  ASSUME IInv, NEW t \in Threads, Continue(t)
  PROVE  IInv' /\ Kept /\ Frame(t)
BY CallStubKeeps, CallDispatcherKeeps, CallImplKeeps, DispatchKeeps,
     GetMachineKeeps, SelectMachineKeeps, StoreAlignmentKeeps, StoreMaskKeeps,
     CheckPrefsKeeps, LoadPreferencesKeeps, StorePrefsKeeps, StoreNPrefsKeeps,
     StoreLoadedKeeps, RankAlignedKeeps, RankUnalignedKeeps, StoreKernAKeeps,
     StoreKernUKeeps, StoreKernKeeps, ManualKeeps, GetFuncDescKeeps,
     GetAlignmentKeeps, IsAlignedQueryKeeps, NameMachineKeeps,
     GetMachineNameKeeps
   DEF Continue

LEMMA NextKeepsIInv == IInv /\ [Next]_vars => IInv'
<1> SUFFICES ASSUME IInv, [Next]_vars PROVE IInv'
  OBVIOUS
<1>1. ASSUME NEW t \in Threads, NEW o \in Requests, Begin(t, o) PROVE IInv'
  BY <1>1, BeginKeeps
<1>2. ASSUME NEW t \in Threads, Continue(t) \/ Publish(t) PROVE IInv'
  BY <1>2, ContinueKeeps, PublishPreserves
<1>3. CASE StartThreads \/ RewriteConfig \/ UNCHANGED vars
  BY <1>3, OutsideKeeps
<1> QED BY <1>1, <1>2, <1>3 DEF Next

THEOREM InvariantHolds == Spec => []IInv
BY InitIInv, NextKeepsIInv, PTL DEF Spec

-----------------------------------------------------------------------------
LEMMA IInvRunsSupported == IInv => RunsSupported
<1> SUFFICES ASSUME IInv, NEW t \in Threads, ran[t] # 0
             PROVE  /\ ran[t] \in DOMAIN Impls[op[t].kern]
                    /\ Executed(t).deps \subseteq Cpu
  BY DEF RunsSupported
<1>1. op[t].kern \in Kernels /\ ran[t] \in Table(op[t].kern, BestMachine)
  BY DEF IInv, ControlInv, ThreadInv
<1> QED BY <1>1, TableRunnable DEF Executed

(***************************************************************************)
(* No call of the API executes an implementation this processor cannot     *)
(* execute: for any number of threads, however they race through the       *)
(* stubs and however their stores are delayed and reordered, and whatever  *)
(* the environment, the config files and the names given to ..._manual.    *)
(***************************************************************************)
THEOREM DispatchRunsSupported == Spec => []RunsSupported
BY InvariantHolds, IInvRunsSupported, PTL

-----------------------------------------------------------------------------
(***************************************************************************)
(* What the steps of a call have in common, for the invariants below.      *)
(***************************************************************************)

(* A call goes on as the request it began as; the config file and the      *)
(* start of the threads are no business of it.                             *)
LEMMA ContinueLeaves ==
  ASSUME NEW t \in Threads, Continue(t)
  PROVE  op' = op /\ file' = file /\ started' = started
BY DEF Continue, local, Execute, Return, Rank, StorePtr,
   CallStub, CallDispatcher, CallImpl, Dispatch, GetMachine, SelectMachine, StoreAlignment,
   StoreMask, CheckPrefs, LoadPreferences, StorePrefs, StoreNPrefs, StoreLoaded, RankAligned,
   RankUnaligned, StoreKernA, StoreKernU, StoreKern, Manual, GetFuncDesc, GetAlignment,
   IsAlignedQuery, NameMachine, GetMachineName

(* A step of a call is one of a thread that is in a call.                  *)
LEMMA ContinueBusy ==
  ASSUME NEW t \in Threads, Continue(t)
  PROVE  pc[t] # "idle"
BY DEF Continue, Goto, Execute, Return, Rank,
   CallStub, CallDispatcher, CallImpl, Dispatch, GetMachine, SelectMachine, StoreAlignment,
   StoreMask, CheckPrefs, LoadPreferences, StorePrefs, StoreNPrefs, StoreLoaded, RankAligned,
   RankUnaligned, StoreKernA, StoreKernU, StoreKern, Manual, GetFuncDesc, GetAlignment,
   IsAlignedQuery, NameMachine, GetMachineName

(* Where get_machine returns to: into __init_kern for a call through a     *)
(* stub, into the query otherwise.                                         *)
LEMMA AfterMachinePlace ==
  ASSUME IInv, NEW t \in Threads, pc[t] \in InGetMachine
  PROVE  /\ op[t].kind \in PtrVars => AfterMachine(t) = "prefs"
         /\ op[t].kind \notin PtrVars => AfterMachine(t) \in {"alignment", "manual", "func_desc"}
<1>1. op[t].kind \in PtrVars \cup {"get_alignment", "manual", "func_desc"}
  BY RequestShape DEF IInv, ControlInv, ThreadInv, InGetMachine
<1> QED BY <1>1 DEF AfterMachine, PtrVars

(* Whoever takes a step, a location a thread sees set stays set.           *)
LEMMA NextKept ==
  ASSUME IInv, [Next]_vars
  PROVE  Kept
<1>1. ASSUME NEW t \in Threads, NEW o \in Requests, Begin(t, o) PROVE Kept
  BY <1>1, BeginKeeps
<1>2. ASSUME NEW t \in Threads, Continue(t) \/ Publish(t) PROVE Kept
  BY <1>2, ContinueKeeps, PublishPreserves
<1>3. CASE StartThreads \/ RewriteConfig \/ UNCHANGED vars
  BY <1>3, OutsideKeeps
<1> QED BY <1>1, <1>2, <1>3 DEF Next

(* In particular a function pointer that is no stub any more, as a thread  *)
(* sees it, never is one again.                                            *)
LEMMA SeenStays ==
  ASSUME Kept, NEW u \in Threads, NEW k \in Kernels, NEW v \in PtrVars, MemoryInv,
         Load(u, Ptr(k, v)) # Stub
  PROVE  Load(u, Ptr(k, v))' # Stub
<1>1. Ptr(k, v) \in Loc
  BY PtrInLoc
<1>2. Load(u, Ptr(k, v)) \in Stored(Ptr(k, v))
  BY <1>1, LoadStored DEF Stub
<1>3. Load(u, Ptr(k, v))' \in Stored(Ptr(k, v))
  BY <1>1, <1>2 DEF Kept
<1>4. 0 \notin Stored(Ptr(k, v))
  BY StoredPtr, TableRunnable DEF PtrVars, Dispatcher
<1> QED BY <1>3, <1>4 DEF Stub

(* A store leaves the other locations alone.                               *)
LEMMA StoreElsewhere ==
  ASSUME MemoryInv, NEW t \in Threads, NEW l, NEW v, Store(t, l, v)
  PROVE  /\ \A x \in Loc \ {l} : Load(t, x)' = Load(t, x)
         /\ \A u \in Threads \ {t} : buf'[u] = buf[u]
<1>1. CASE Delayed > 0
  <2>1. UNCHANGED mem /\ buf' = [buf EXCEPT ![t] =
                  [x \in DOMAIN buf[t] \cup {l} |-> IF x = l THEN v ELSE buf[t][x]]]
    BY <1>1 DEF Store
  <2> QED BY <2>1 DEF MemoryInv, Load
<1>2. CASE ~(Delayed > 0)
  BY <1>2 DEF Store, MemoryInv, Load
<1> QED BY <1>1, <1>2

(* At its own location, a store leaves nothing but its value or what was   *)
(* there.                                                                  *)
LEMMA StoreThere ==
  ASSUME MemoryInv, NEW t \in Threads, NEW l \in Loc, NEW v, Store(t, l, v)
  PROVE  /\ mem'[l] \in {mem[l], v}
         /\ \A u \in Threads : l \in DOMAIN buf'[u] =>
              buf'[u][l] = v \/ (l \in DOMAIN buf[u] /\ buf'[u][l] = buf[u][l])
<1>1. CASE Delayed > 0
  <2>1. UNCHANGED mem /\ buf' = [buf EXCEPT ![t] =
                  [y \in DOMAIN buf[t] \cup {l} |-> IF y = l THEN v ELSE buf[t][y]]]
    BY <1>1 DEF Store
  <2>2. buf'[t][l] = v
    BY <2>1 DEF MemoryInv
  <2>3. \A u \in Threads : u # t => buf'[u] = buf[u]
    BY <2>1 DEF MemoryInv
  <2> QED BY <2>1, <2>2, <2>3
<1>2. CASE ~(Delayed > 0)
  BY <1>2 DEF Store, MemoryInv
<1> QED BY <1>1, <1>2

(* A step of a call stores at most once.                                   *)
LEMMA ContinueStores ==
  ASSUME NEW t \in Threads, Continue(t)
  PROVE  UNCHANGED <<mem, buf>> \/ \E l, v : Store(t, l, v)
<1>1. CASE CallStub(t) \/ CallDispatcher(t) \/ CallImpl(t) \/ Dispatch(t) \/ GetMachine(t)
           \/ CheckPrefs(t) \/ LoadPreferences(t) \/ RankAligned(t) \/ RankUnaligned(t)
           \/ Manual(t) \/ GetFuncDesc(t) \/ GetAlignment(t) \/ IsAlignedQuery(t)
           \/ GetMachineName(t)
  BY <1>1
  DEF CallStub, CallDispatcher, CallImpl, Dispatch, GetMachine, CheckPrefs, LoadPreferences,
      RankAligned, RankUnaligned, Rank, Manual, GetFuncDesc, GetAlignment, IsAlignedQuery,
      GetMachineName, Execute, Return, local
<1>2. CASE SelectMachine(t) \/ StoreAlignment(t) \/ StoreMask(t) \/ StorePrefs(t)
           \/ StoreNPrefs(t) \/ StoreLoaded(t) \/ StoreKernA(t) \/ StoreKernU(t)
           \/ StoreKern(t) \/ NameMachine(t)
  BY <1>2 DEF SelectMachine, StoreAlignment, StoreMask, StorePrefs, StoreNPrefs,
     StoreLoaded, StoreKernA, StoreKernU, StoreKern, NameMachine, StorePtr
<1> QED BY <1>1, <1>2 DEF Continue

(* Nothing happens at a location.                                          *)
Untouched(x) ==
  /\ mem'[x] = mem[x]
  /\ \A u \in Threads : /\ x \in DOMAIN buf'[u] <=> x \in DOMAIN buf[u]
                        /\ x \in DOMAIN buf[u] => buf'[u][x] = buf[u][x]

LEMMA StoreNotHere ==
  ASSUME MemoryInv, NEW t \in Threads, NEW l, NEW v, Store(t, l, v), NEW x \in Loc, x # l
  PROVE  Untouched(x)
<1>1. CASE Delayed > 0
  <2>1. UNCHANGED mem /\ buf' = [buf EXCEPT ![t] =
                  [y \in DOMAIN buf[t] \cup {l} |-> IF y = l THEN v ELSE buf[t][y]]]
    BY <1>1 DEF Store
  <2>2. DOMAIN buf'[t] = DOMAIN buf[t] \cup {l}
    BY <2>1 DEF MemoryInv
  <2>3. \A y \in DOMAIN buf[t] : y # l => buf'[t][y] = buf[t][y]
    BY <2>1 DEF MemoryInv
  <2>4. \A u \in Threads : u # t => buf'[u] = buf[u]
    BY <2>1 DEF MemoryInv
  <2> QED BY <2>1, <2>2, <2>3, <2>4 DEF Untouched
<1>2. CASE ~(Delayed > 0)
  BY <1>2 DEF Store, MemoryInv, Untouched
<1> QED BY <1>1, <1>2

(* Only the end of __init_kern stores a function pointer.                  *)
LEMMA PtrStores ==
  ASSUME IInv, NEW t \in Threads, Continue(t), NEW k \in Kernels, NEW v \in PtrVars
  PROVE  \/ Untouched(Ptr(k, v))
         \/ k = op[t].kern /\ \/ v = "kern_a" /\ StoreKernA(t)
                              \/ v = "kern_u" /\ StoreKernU(t)
                              \/ v = "kern" /\ StoreKern(t)
<1>1. MemoryInv
  BY DEF IInv
<1>2. Ptr(k, v) \in Loc /\ \A w \in LibVars : Ptr(k, v) # Lib(w)
  BY PtrInLoc DEF Ptr, Lib, PtrVars, LibVars
<1>3. CASE UNCHANGED <<mem, buf>>
  BY <1>3 DEF Untouched
<1>4. CASE \E w \in LibVars : \E n : Store(t, Lib(w), n)
  BY <1>1, <1>2, <1>4, StoreNotHere
<1>5. CASE \/ StoreKernA(t) /\ (v # "kern_a" \/ k # op[t].kern)
           \/ StoreKernU(t) /\ (v # "kern_u" \/ k # op[t].kern)
           \/ StoreKern(t) /\ (v # "kern" \/ k # op[t].kern)
  <2>1. PICK w \in {"kern_a", "kern_u", "kern"} :
          /\ v # w \/ k # op[t].kern
          /\ \E n : Store(t, Ptr(op[t].kern, w), n)
    BY <1>5 DEF StoreKernA, StoreKernU, StoreKern, StorePtr
  <2>2. Ptr(k, v) # Ptr(op[t].kern, w)
    BY <2>1 DEF Ptr
  <2> QED BY <1>1, <1>2, <2>1, <2>2, StoreNotHere
<1>6. \/ UNCHANGED <<mem, buf>>
      \/ \E w \in LibVars : \E n : Store(t, Lib(w), n)
      \/ StoreKernA(t) \/ StoreKernU(t) \/ StoreKern(t)
  <2>1. CASE CallStub(t) \/ CallDispatcher(t) \/ CallImpl(t) \/ Dispatch(t) \/ GetMachine(t)
             \/ CheckPrefs(t) \/ LoadPreferences(t) \/ RankAligned(t) \/ RankUnaligned(t)
             \/ Manual(t) \/ GetFuncDesc(t) \/ GetAlignment(t) \/ IsAlignedQuery(t)
             \/ GetMachineName(t)
    BY <2>1 DEF CallStub, CallDispatcher, CallImpl, Dispatch, GetMachine, CheckPrefs,
       LoadPreferences, RankAligned, RankUnaligned, Rank, Manual, GetFuncDesc, GetAlignment,
       IsAlignedQuery, GetMachineName, Execute, Return, local
  <2>2. CASE SelectMachine(t) \/ StoreAlignment(t) \/ StoreMask(t) \/ StorePrefs(t)
             \/ StoreNPrefs(t) \/ StoreLoaded(t) \/ NameMachine(t)
    BY <2>2 DEF SelectMachine, StoreAlignment, StoreMask, StorePrefs, StoreNPrefs,
       StoreLoaded, NameMachine, LibVars
  <2> QED BY <2>1, <2>2 DEF Continue
<1> QED BY <1>3, <1>4, <1>5, <1>6

-----------------------------------------------------------------------------
(***************************************************************************)
(* The types.  Most of TypeOK is in IInv; what is left is that every       *)
(* variable remains a function, because a step changes at most one value   *)
(* of it.                                                                  *)
(***************************************************************************)

LEMMA StoredIsNat ==
  ASSUME NEW l \in Loc
  PROVE  Stored(l) \subseteq Nat
<1>1. CASE l \in {"lib"} \X LibVars
  <2>1. {BestMachine, Alignment[BestMachine], Alignment[BestMachine] - 1} \subseteq Nat
    BY BestMachineRunnable
  <2>2. Versions \subseteq Nat
    BY FlagsAssumption DEF Versions
  <2> QED BY <1>1, <2>1, <2>2 DEF Stored, LibVars
<1>2. CASE l \in Kernels \X PtrVars
  <2>1. l[1] \in Kernels /\ l[2] \in PtrVars
    BY <1>2
  <2>2. Table(l[1], BestMachine) \subseteq Nat
    BY <2>1, TableRunnable
  <2> QED BY <2>1, <2>2 DEF Stored, PtrVars, Dispatcher
<1> QED BY <1>1, <1>2 DEF Loc

LEMMA StoreOne ==
  ASSUME NEW t, NEW l, NEW v, Store(t, l, v)
  PROVE  \E x, y : mem' = mem \/ mem' = [mem EXCEPT ![x] = y]
BY DEF Store

LEMMA GotoOne ==
  ASSUME NEW t, NEW from, NEW to, Goto(t, from, to)
  PROVE  \E x, y : pc' = pc \/ pc' = [pc EXCEPT ![x] = y]
BY DEF Goto

(* A step changes the memory, the places and the results at one argument   *)
(* at most.                                                                *)
LEMMA StepShape ==
  ASSUME [Next]_vars
  PROVE  /\ \E x, y : mem' = mem \/ mem' = [mem EXCEPT ![x] = y]
         /\ \E x, y : pc' = pc \/ pc' = [pc EXCEPT ![x] = y]
         /\ \E x, y : ran' = ran \/ ran' = [ran EXCEPT ![x] = y]
         /\ started' \in {started, TRUE}
<1>1. ASSUME NEW t \in Threads, NEW o \in Requests, Begin(t, o)
      PROVE  /\ mem' = mem
             /\ \E x, y : pc' = pc \/ pc' = [pc EXCEPT ![x] = y]
             /\ \E x, y : ran' = ran \/ ran' = [ran EXCEPT ![x] = y]
             /\ started' = started
  BY <1>1, GotoOne DEF Begin
<1>2. ASSUME NEW t \in Threads, Continue(t)
      PROVE  /\ \E x, y : mem' = mem \/ mem' = [mem EXCEPT ![x] = y]
             /\ \E x, y : pc' = pc \/ pc' = [pc EXCEPT ![x] = y]
             /\ \E x, y : ran' = ran \/ ran' = [ran EXCEPT ![x] = y]
             /\ started' = started
  <2>1. CASE CallStub(t) \/ CallDispatcher(t) \/ Dispatch(t) \/ GetMachine(t) \/ CheckPrefs(t)
             \/ LoadPreferences(t) \/ RankAligned(t) \/ RankUnaligned(t) \/ GetFuncDesc(t)
             \/ GetAlignment(t) \/ IsAlignedQuery(t) \/ GetMachineName(t)
    BY <2>1, GotoOne
    DEF CallStub, CallDispatcher, Dispatch, GetMachine, CheckPrefs, LoadPreferences,
        RankAligned, RankUnaligned, Rank, GetFuncDesc, GetAlignment, IsAlignedQuery,
        GetMachineName, Return, local
  <2>2. CASE CallImpl(t) \/ Manual(t)
    BY <2>2, GotoOne DEF CallImpl, Manual, Execute
  <2>3. CASE SelectMachine(t) \/ StoreAlignment(t) \/ StoreMask(t) \/ StoreNPrefs(t)
             \/ StoreLoaded(t) \/ StoreKernA(t) \/ StoreKernU(t) \/ StoreKern(t)
    BY <2>3, GotoOne, StoreOne DEF SelectMachine, StoreAlignment, StoreMask, StoreNPrefs,
       StoreLoaded, StoreKernA, StoreKernU, StoreKern, StorePtr, local
  <2>4. CASE StorePrefs(t)
    BY <2>4, GotoOne, StoreOne DEF StorePrefs, local
  <2>5. CASE NameMachine(t)
    BY <2>5, StoreOne DEF NameMachine, local
  <2> QED BY <1>2, <2>1, <2>2, <2>3, <2>4, <2>5 DEF Continue
<1>3. CASE \E t \in Threads : Publish(t)
  BY <1>3 DEF Publish, local
<1>4. CASE StartThreads \/ RewriteConfig \/ UNCHANGED vars
  BY <1>4 DEF StartThreads, RewriteConfig, vars, local
<1> QED BY <1>1, <1>2, <1>3, <1>4 DEF Next

LEMMA InitTypeOK == Init => TypeOK
<1> SUFFICES ASSUME Init PROVE TypeOK
  OBVIOUS
<1>1. mem \in [Loc -> Nat]
  BY DEF Init
<1>2. started \in BOOLEAN
  BY FlagsAssumption DEF Init
<1>3. \A t \in Threads : pc[t] = "idle" /\ op[t].kind \notin PtrVars
  BY DEF Init, PtrVars
<1>4. pc \in [Threads -> PC]
  BY DEF Init, PC
<1>6. rank \in [Threads -> [a : Nat, u : Nat]]
  <2>1. [a |-> 0, u |-> 0] \in [a : Nat, u : Nat]
    OBVIOUS
  <2>2. rank = [t \in Threads |-> [a |-> 0, u |-> 0]]
    BY DEF Init
  <2> QED BY <2>1, <2>2, Zenon
<1>7. ran \in [Threads -> Nat] /\ answer \in [Threads -> Int]
  <2>1. ran = [t \in Threads |-> 0] /\ answer = [t \in Threads |-> -1]
    BY DEF Init
  <2> QED BY <2>1
<1>5. \A t \in Threads : DOMAIN buf[t] = {}
  BY DEF Init
<1> QED BY <1>1, <1>2, <1>3, <1>4, <1>5, <1>6, <1>7 DEF Init, TypeOK

LEMMA NextKeepsTypeOK ==
  ASSUME IInv, IInv', TypeOK, [Next]_vars
  PROVE  TypeOK'
<1>1. mem' \in [Loc -> Nat]
  <2>1. mem \in [Loc -> Nat] /\ \A l \in Loc : mem'[l] \in Nat
    BY StoredIsNat DEF IInv, MemoryInv, TypeOK
  <2> QED BY <2>1, StepShape
<1>2. \A t \in Threads : /\ DOMAIN buf'[t] \subseteq Loc
                         /\ \A l \in DOMAIN buf'[t] : buf'[t][l] \in Nat
  BY StoredIsNat DEF IInv, MemoryInv
<1>3. file' \in Versions /\ started' \in BOOLEAN
  BY StepShape DEF IInv, ControlInv, Domains, TypeOK
<1>4. pc' \in [Threads -> PC]
  <2>1. pc \in [Threads -> PC] /\ \A t \in Threads : pc'[t] \in PC
    BY DEF IInv, ControlInv, ThreadInv, TypeOK
  <2> QED BY <2>1, StepShape
<1>5. \A t \in Threads : pc'[t] # "idle" => op'[t] \in Requests
  BY DEF IInv, ControlInv, ThreadInv
<1>6. ran' \in [Threads -> Nat]
  <2>1. ran \in [Threads -> Nat]
    BY DEF TypeOK
  <2>2. ASSUME NEW t \in Threads PROVE ran'[t] \in Nat
    <3>1. CASE ran'[t] # 0
      <4>1. op'[t].kern \in Kernels /\ ran'[t] \in Table(op'[t].kern, BestMachine)
        BY <3>1 DEF IInv, ControlInv, ThreadInv
      <4> QED BY <4>1, TableRunnable
    <3> QED BY <3>1
  <2> QED BY <2>1, <2>2, StepShape
<1>7. \A t \in Threads : op'[t].kind \in PtrVars => resume'[t] \in Kernels \X PtrVars
  <2>1. ASSUME NEW t \in Threads, NEW o \in Requests, Begin(t, o)
        PROVE  o.kind \in PtrVars => resume'[t] \in Kernels \X PtrVars
    BY <2>1, RequestShape DEF Begin, Ptr, IInv, ControlInv, Domains
  <2>2. ASSUME NEW t \in Threads, Dispatch(t)
        PROVE  op[t].kern \in Kernels /\ resume'[t] \in Kernels \X PtrVars
    <3>1. op[t].kern \in Kernels
      BY <2>2, RequestShape DEF Dispatch, Goto, IInv, ControlInv, ThreadInv, InCall
    <3> QED BY <2>2, <3>1 DEF Dispatch, Ptr, PtrVars, IInv, ControlInv, Domains
  <2> QED
    <3>1. ASSUME NEW t \in Threads, NEW o \in Requests, Begin(t, o)
          PROVE  \A u \in Threads : op'[u].kind \in PtrVars => resume'[u] \in Kernels \X PtrVars
      <4>1. op'[t] = o /\ \A u \in Threads \ {t} : op'[u] = op[u] /\ resume'[u] = resume[u]
        BY <3>1, BeginKeeps DEF Begin, IInv, ControlInv, Domains, Frame
      <4> QED BY <4>1, <2>1, <3>1 DEF TypeOK
    <3>2. ASSUME NEW t \in Threads, Continue(t)
          PROVE  \A u \in Threads : op'[u].kind \in PtrVars => resume'[u] \in Kernels \X PtrVars
      <4>1. op' = op
        BY <3>2, ContinueLeaves
      <4>2. Dispatch(t) \/ resume' = resume
        BY <3>2
        DEF Continue, local, Execute, Return, Rank, StorePtr, CallStub, CallDispatcher,
            CallImpl, GetMachine, SelectMachine, StoreAlignment, StoreMask, CheckPrefs,
            LoadPreferences, StorePrefs, StoreNPrefs, StoreLoaded, RankAligned, RankUnaligned,
            StoreKernA, StoreKernU, StoreKern, Manual, GetFuncDesc, GetAlignment,
            IsAlignedQuery, NameMachine, GetMachineName
      <4>3. \A u \in Threads \ {t} : resume'[u] = resume[u]
        BY <3>2, ContinueKeeps DEF Frame
      <4> QED BY <4>1, <4>2, <4>3, <2>2 DEF TypeOK
    <3>3. CASE (\E t \in Threads : Publish(t)) \/ StartThreads \/ RewriteConfig
               \/ UNCHANGED vars
      BY <3>3 DEF Publish, StartThreads, RewriteConfig, vars, local, TypeOK
    <3> QED BY <3>1, <3>2, <3>3 DEF Next
<1>8. rank' \in [Threads -> [a : Nat, u : Nat]]
  <2>0. rank \in [Threads -> [a : Nat, u : Nat]]
    BY DEF TypeOK
  <2>1. ASSUME NEW t \in Threads, RankAligned(t) \/ RankUnaligned(t)
        PROVE  rank' \in [Threads -> [a : Nat, u : Nat]]
    <3>1. RankFor(t, TRUE) \in Nat /\ RankFor(t, FALSE) \in Nat
      <4>1. pc[t] \in {"rank_a", "rank_u"} /\ op[t].kern \in Kernels
        BY <2>1, RequestShape
        DEF RankAligned, RankUnaligned, Rank, Goto, IInv, ControlInv, ThreadInv, InCall,
            InInit
      <4> QED BY <4>1, RankForInTable, TableRunnable
    <3> QED BY <2>0, <2>1, <3>1 DEF RankAligned, RankUnaligned, Rank
  <2>2. ASSUME NEW t \in Threads, StoreKern(t)
        PROVE  rank' \in [Threads -> [a : Nat, u : Nat]]
    BY <2>0, <2>2 DEF StoreKern
  <2>3. ASSUME NEW t \in Threads, Continue(t)
        PROVE  RankAligned(t) \/ RankUnaligned(t) \/ StoreKern(t) \/ rank' = rank
    BY <2>3
    DEF Continue, local, Execute, Return, StorePtr, CallStub, CallDispatcher, CallImpl,
        Dispatch, GetMachine, SelectMachine, StoreAlignment, StoreMask, CheckPrefs,
        LoadPreferences, StorePrefs, StoreNPrefs, StoreLoaded, StoreKernA, StoreKernU, Manual,
        GetFuncDesc, GetAlignment, IsAlignedQuery, NameMachine, GetMachineName
  <2>4. ASSUME NEW t \in Threads, NEW o \in Requests, Begin(t, o)
        PROVE  rank' = rank
    BY <2>4 DEF Begin
  <2>5. CASE (\E t \in Threads : Publish(t)) \/ StartThreads \/ RewriteConfig
             \/ UNCHANGED vars
    BY <2>0, <2>5 DEF Publish, StartThreads, RewriteConfig, vars, local
  <2> QED BY <2>0, <2>1, <2>2, <2>3, <2>4, <2>5 DEF Next
<1>9. answer' \in [Threads -> Int]
  <2>0. answer \in [Threads -> Int]
    BY DEF TypeOK
  <2>1. \A t \in Threads, v \in LibVars : Load(t, Lib(v)) \in Nat
    BY LoadStored, LibInLoc, StoredIsNat DEF IInv
  <2>2. ASSUME NEW t \in Threads, Continue(t)
        PROVE  \/ GetFuncDesc(t) \/ GetAlignment(t) \/ IsAlignedQuery(t) \/ GetMachineName(t)
               \/ answer' = answer
    BY <2>2
    DEF Continue, local, Execute, StorePtr, Rank, CallStub, CallDispatcher, CallImpl,
        Dispatch, GetMachine, SelectMachine, StoreAlignment, StoreMask, CheckPrefs,
        LoadPreferences, StorePrefs, StoreNPrefs, StoreLoaded, RankAligned, RankUnaligned,
        StoreKernA, StoreKernU, StoreKern, Manual, NameMachine
  <2>3. ASSUME NEW t \in Threads,
               GetFuncDesc(t) \/ GetAlignment(t) \/ IsAlignedQuery(t) \/ GetMachineName(t)
        PROVE  answer' \in [Threads -> Int]
    BY <2>0, <2>1, <2>3
    DEF GetFuncDesc, GetAlignment, IsAlignedQuery, GetMachineName, Return, LibVars
  <2>4. ASSUME NEW t \in Threads, NEW o \in Requests, Begin(t, o)
        PROVE  answer' \in [Threads -> Int]
    BY <2>0, <2>4 DEF Begin
  <2>5. CASE (\E t \in Threads : Publish(t)) \/ StartThreads \/ RewriteConfig
             \/ UNCHANGED vars
    BY <2>0, <2>5 DEF Publish, StartThreads, RewriteConfig, vars, local
  <2> QED BY <2>0, <2>2, <2>3, <2>4, <2>5 DEF Next
<1> QED BY <1>1, <1>2, <1>3, <1>4, <1>5, <1>6, <1>7, <1>8, <1>9 DEF TypeOK

(* Every variable of the dispatcher keeps its type, and a thread is at a   *)
(* place its call can reach (TypeOK), however the stores are delayed.      *)
THEOREM DispatchTypes == Spec => []TypeOK
BY InvariantHolds, InitTypeOK, NextKeepsTypeOK, PTL DEF Spec

-----------------------------------------------------------------------------
(***************************************************************************)
(* One initialisation per call.  A call goes through __init_kern only if   *)
(* the pointer it calls through is a stub as its thread sees it;           *)
(* __init_kern replaces kern_a, kern_u and kern in this order, so that its *)
(* caller finds none of them a stub, and no later step of any thread puts  *)
(* one back.                                                               *)
(***************************************************************************)

Seen(t, v) == Load(t, Ptr(op[t].kern, v)) # Stub

OnceInv(t) ==
  /\ inits[t] \in {0, 1}
  /\ op[t].kind \in PtrVars /\ pc[t] \in InGetMachine \cup InInit => inits[t] = 1
  /\ pc[t] \in {"store_u", "store_kern"} => Seen(t, "kern_a")
  /\ pc[t] = "store_kern" => Seen(t, "kern_u")
  /\ pc[t] \in {"call", "dispatch"} /\ inits[t] = 1 => \A v \in PtrVars : Seen(t, v)

Once == \A t \in Threads : OnceInv(t)

LEMMA InitOnce == Init => Once
BY DEF Init, Once, OnceInv, InGetMachine, InInit

LEMMA OwnOnceSuffices ==
  ASSUME IInv, Once, NEW t \in Threads, Kept, Frame(t), OnceInv(t)'
  PROVE  Once'
<1> SUFFICES ASSUME NEW u \in Threads, u # t
             PROVE  OnceInv(u)'
  BY DEF Once
<1>1. OnceInv(u) /\ ThreadInv(u) /\ MemoryInv
  BY DEF IInv, ControlInv, Once
<1>2. UNCHANGED <<pc[u], op[u], inits[u]>>
  BY DEF Frame
<1>3. pc[u] \in InInit \cup {"call", "dispatch"} =>
        op[u].kern \in Kernels /\ \A v \in PtrVars : Seen(u, v) => Seen(u, v)'
  BY <1>1, <1>2, SeenStays, RequestShape DEF ThreadInv, Seen, InCall, InInit
<1> QED BY <1>1, <1>2, <1>3 DEF OnceInv, InGetMachine, InInit, PtrVars

LEMMA ContinueKeepsOnce ==
  ASSUME IInv, Once, NEW t \in Threads, Continue(t)
  PROVE  Once'
<1>1. IInv' /\ Kept /\ Frame(t)
  BY ContinueKeeps
<1>2. OnceInv(t) /\ ThreadInv(t) /\ MemoryInv
  BY DEF IInv, ControlInv, Once
<1>3. op' = op /\ DOMAIN pc = Threads /\ DOMAIN inits = Threads
  BY ContinueLeaves DEF IInv, ControlInv, Domains
<1>4. pc[t] \in InInit \cup {"call", "dispatch"} =>
        /\ op[t].kind \in PtrVars /\ op[t].kern \in Kernels
        /\ \A v \in PtrVars : Seen(t, v) => Seen(t, v)'
  BY <1>1, <1>2, <1>3, SeenStays, RequestShape DEF ThreadInv, Seen, InCall, InInit
<1>5. ASSUME CallStub(t) PROVE OnceInv(t)'
  <2>1. pc[t] = "call" /\ pc'[t] = "machine" /\ Load(t, resume[t]) = Stub
    BY <1>3, <1>5 DEF CallStub, Goto
  <2>2. resume[t] \in {op[t].kern} \X PtrVars
    BY <1>2, <2>1, <1>4 DEF ThreadInv
  <2>3. \E v \in PtrVars : ~Seen(t, v)
    BY <2>1, <2>2 DEF Seen, Ptr
  <2>4. inits[t] = 0
    BY <1>2, <2>1, <2>3 DEF OnceInv
  <2>5. inits'[t] = 1
    BY <1>3, <1>5, <2>4 DEF CallStub, MaxInits
  <2> QED BY <2>1, <2>5, <1>3 DEF OnceInv, InGetMachine, InInit
<1>6. ASSUME StoreKernA(t) \/ StoreKernU(t) \/ StoreKern(t) PROVE OnceInv(t)'
  <2>1. inits' = inits
    BY <1>6 DEF StoreKernA, StoreKernU, StoreKern, StorePtr
  <2>2. ASSUME NEW v \in PtrVars, NEW n \in Stored(Ptr(op[t].kern, v)), StorePtr(t, v, n),
               pc[t] \in InInit
        PROVE  Seen(t, v)'
    <3>1. Ptr(op[t].kern, v) \in Loc /\ op[t].kern \in Kernels
      BY <2>2, <1>4, PtrInLoc
    <3>2. Load(t, Ptr(op[t].kern, v))' = n
      BY <3>1, <2>2, <1>2, StoreKeeps DEF StorePtr
    <3>3. n # 0
      BY <3>1, StoredPtr, TableRunnable, <2>2 DEF PtrVars, Dispatcher
    <3> QED BY <3>2, <3>3, <1>3 DEF Seen, Stub
  <2>3. CASE StoreKernA(t)
    <3>1. pc[t] = "store_a" /\ pc'[t] = "store_u"
      BY <2>3, <1>3 DEF StoreKernA, Goto
    <3>2. rank[t].a \in Stored(Ptr(op[t].kern, "kern_a"))
      BY <3>1, <1>2, StoredPtr DEF ThreadInv
    <3>3. Seen(t, "kern_a")'
      BY <2>2, <2>3, <3>1, <3>2 DEF StoreKernA, PtrVars, InInit
    <3> QED BY <3>1, <3>3, <2>1, <1>2, <1>3 DEF OnceInv, InGetMachine, InInit
  <2>4. CASE StoreKernU(t)
    <3>1. pc[t] = "store_u" /\ pc'[t] = "store_kern"
      BY <2>4, <1>3 DEF StoreKernU, Goto
    <3>2. rank[t].u \in Stored(Ptr(op[t].kern, "kern_u"))
      BY <3>1, <1>2, StoredPtr DEF ThreadInv
    <3>3. Seen(t, "kern_u")'
      BY <2>2, <2>4, <3>1, <3>2 DEF StoreKernU, PtrVars, InInit
    <3>4. Seen(t, "kern_a")'
      BY <3>1, <1>2, <1>4 DEF OnceInv, InInit, PtrVars
    <3> QED BY <3>1, <3>3, <3>4, <2>1, <1>2, <1>3 DEF OnceInv, InGetMachine, InInit
  <2>5. CASE StoreKern(t)
    <3>1. pc[t] = "store_kern" /\ pc'[t] = "call"
      BY <2>5, <1>3 DEF StoreKern, Goto
    <3>3. Seen(t, "kern")'
      BY <2>2, <2>5, <3>1, StoredPtr DEF StoreKern, PtrVars, InInit
    <3>4. Seen(t, "kern_a")' /\ Seen(t, "kern_u")'
      BY <3>1, <1>2, <1>4 DEF OnceInv, InInit, PtrVars
    <3> QED BY <3>1, <3>3, <3>4, <2>1, <1>2, <1>3 DEF OnceInv, InGetMachine, InInit, PtrVars
  <2> QED BY <1>6, <2>3, <2>4, <2>5
<1>7. ASSUME GetMachine(t) \/ SelectMachine(t) \/ StoreAlignment(t) \/ StoreMask(t)
      PROVE  OnceInv(t)'
  <2>1. pc[t] \in InGetMachine /\ pc'[t] \in {AfterMachine(t)} \cup InGetMachine
    BY <1>3, <1>7 DEF GetMachine, SelectMachine, StoreAlignment, StoreMask, Goto, InGetMachine
  <2>2. /\ op[t].kind \in PtrVars => AfterMachine(t) = "prefs"
        /\ op[t].kind \notin PtrVars => AfterMachine(t) \in {"alignment", "manual", "func_desc"}
    BY <2>1, AfterMachinePlace
  <2>3. inits' = inits
    BY <1>7 DEF GetMachine, SelectMachine, StoreAlignment, StoreMask, local
  <2> QED BY <1>2, <1>3, <2>1, <2>2, <2>3 DEF OnceInv, InGetMachine, InInit
<1>8. ASSUME CallDispatcher(t) \/ Dispatch(t) PROVE OnceInv(t)'
  BY <1>2, <1>3, <1>4, <1>8
  DEF OnceInv, CallDispatcher, Dispatch, Goto, local, InGetMachine, InInit
<1>9. ASSUME \/ CheckPrefs(t) \/ LoadPreferences(t) \/ StorePrefs(t) \/ StoreNPrefs(t)
             \/ StoreLoaded(t)
      PROVE OnceInv(t)'
  BY <1>2, <1>3, <1>4, <1>9
  DEF OnceInv, CheckPrefs, LoadPreferences, StorePrefs, StoreNPrefs, StoreLoaded, Goto, local,
      InGetMachine, InInit
<1>10. ASSUME RankAligned(t) \/ RankUnaligned(t) PROVE OnceInv(t)'
  BY <1>2, <1>3, <1>4, <1>10
  DEF OnceInv, RankAligned, RankUnaligned, Rank, Goto, InGetMachine, InInit
<1>11. ASSUME \/ CallImpl(t) \/ Manual(t) \/ GetFuncDesc(t) \/ GetAlignment(t)
              \/ IsAlignedQuery(t) \/ GetMachineName(t)
       PROVE OnceInv(t)'
  BY <1>2, <1>3, <1>11
  DEF OnceInv, CallImpl, Manual, GetFuncDesc, GetAlignment, IsAlignedQuery, GetMachineName,
      Execute, Return, Goto, InGetMachine, InInit
<1>12. ASSUME NameMachine(t) PROVE OnceInv(t)'
  BY <1>2, <1>3, <1>12 DEF OnceInv, NameMachine, local, InGetMachine, InInit
<1>13. OnceInv(t)'
  BY <1>5, <1>6, <1>7, <1>8, <1>9, <1>10, <1>11, <1>12 DEF Continue
<1> QED BY <1>1, <1>13, OwnOnceSuffices

LEMMA NextKeepsOnce ==
  ASSUME IInv, Once, [Next]_vars
  PROVE  Once'
<1>1. ASSUME NEW t \in Threads, NEW o \in Requests, Begin(t, o) PROVE Once'
  <2>1. Kept /\ Frame(t)
    BY <1>1, BeginKeeps
  <2>2. pc'[t] = Entry(o) /\ op'[t] = o /\ inits'[t] = 0
    BY <1>1 DEF Begin, Goto, IInv, ControlInv, Domains
  <2>3. OnceInv(t)'
    BY <2>2 DEF OnceInv, Entry, InGetMachine, InInit
  <2> QED BY <2>1, <2>3, OwnOnceSuffices
<1>2. ASSUME NEW t \in Threads, Publish(t) PROVE Once'
  <2>1. Kept /\ Frame(t)
    BY <1>2, PublishPreserves
  <2>2. OnceInv(t)'
    <3>1. OnceInv(t) /\ ThreadInv(t) /\ MemoryInv
      BY DEF IInv, ControlInv, Once
    <3>2. UNCHANGED <<pc, op, inits>>
      BY <1>2 DEF Publish, local
    <3>3. pc[t] \in InInit \cup {"call", "dispatch"} =>
            op[t].kern \in Kernels /\ \A v \in PtrVars : Seen(t, v) => Seen(t, v)'
      BY <2>1, <3>1, <3>2, SeenStays, RequestShape DEF ThreadInv, Seen, InCall, InInit
    <3> QED BY <3>1, <3>2, <3>3 DEF OnceInv, InGetMachine, InInit, PtrVars
  <2> QED BY <2>1, <2>2, OwnOnceSuffices
<1>3. CASE StartThreads \/ RewriteConfig \/ UNCHANGED vars
  BY <1>3 DEF StartThreads, RewriteConfig, vars, local, Once, OnceInv, Seen, Load
<1> QED BY <1>1, <1>2, <1>3, ContinueKeepsOnce DEF Next

(* However many threads race through the stubs, and however their stores   *)
(* are delayed and reordered, one call initialises its kernel at most once *)
(* (the stubs __kern, __kern_a, __kern_u): the stub's call through the     *)
(* same pointer never comes back to a stub.                                *)
THEOREM DispatchInitOncePerCall == Spec => []InitOncePerCall
<1>1. Once => InitOncePerCall
  BY DEF Once, OnceInv, InitOncePerCall
<1> QED BY <1>1, InvariantHolds, InitOnce, NextKeepsOnce, PTL DEF Spec

-----------------------------------------------------------------------------
(***************************************************************************)
(* The pointers behind the dispatcher.  A thread stores the dispatcher     *)
(* only when it sees both other pointers set (Once), but its stores may    *)
(* reach memory in any order: whoever sees the dispatcher relies on stores *)
(* that have been made, not on stores that can be seen.                    *)
(***************************************************************************)

(* What a thread sees after stores became visible, some thread saw before. *)
LEMMA PublishShows ==
  ASSUME MemoryInv, NEW p \in Threads, Publish(p), NEW t \in Threads, NEW x \in Loc
  PROVE  \E u \in Threads : Load(t, x)' = Load(u, x)
<1>1. PICK l \in DOMAIN buf[p] :
        /\ mem' = [mem EXCEPT ![l] = buf[p][l]]
        /\ buf' = [buf EXCEPT ![p] = [y \in DOMAIN buf[p] \ {l} |-> buf[p][y]]]
  BY DEF Publish
<1>2. DOMAIN buf'[p] = DOMAIN buf[p] \ {l}
  BY <1>1 DEF MemoryInv
<1>3. \A y \in DOMAIN buf[p] : y # l => buf'[p][y] = buf[p][y] /\ y \in DOMAIN buf'[p]
  BY <1>1, <1>2 DEF MemoryInv
<1>4. \A u \in Threads : u # p => buf'[u] = buf[u]
  BY <1>1 DEF MemoryInv
<1>5. mem'[l] = buf[p][l] /\ \A y \in Loc : y # l => mem'[y] = mem[y]
  BY <1>1 DEF MemoryInv
<1>6. CASE x = l
  <2>1. x \in DOMAIN buf'[t] => t # p /\ Load(t, x)' = Load(t, x)
    BY <1>2, <1>4, <1>6 DEF Load
  <2>2. x \notin DOMAIN buf'[t] => Load(t, x)' = Load(p, x)
    BY <1>5, <1>6 DEF Load
  <2> QED BY <2>1, <2>2
<1>7. CASE x # l
  BY <1>2, <1>3, <1>4, <1>5, <1>7 DEF Load
<1> QED BY <1>6, <1>7

LEMMA NextKeepsPublished ==
  ASSUME IInv, Once, PublishedMeansReady, [Next]_vars
  PROVE  PublishedMeansReady'
<1> SUFFICES ASSUME NEW k \in Kernels, NEW t \in Threads,
                    Load(t, Ptr(k, "kern"))' = Dispatcher,
                    NEW v \in {"kern_a", "kern_u"}
             PROVE  \E u \in Threads : Load(u, Ptr(k, v))' # Stub
  BY DEF PublishedMeansReady
<1>1. Kept /\ MemoryInv /\ v \in PtrVars /\ Ptr(k, "kern") \in Loc
  BY NextKept, PtrInLoc DEF IInv, PtrVars
<1>2. CASE \E w \in Threads : Load(w, Ptr(k, "kern")) = Dispatcher
  <2>1. PICK u \in Threads : Load(u, Ptr(k, v)) # Stub
    BY <1>2 DEF PublishedMeansReady
  <2> QED BY <1>1, <2>1, SeenStays
<1>3. CASE \A w \in Threads : Load(w, Ptr(k, "kern")) # Dispatcher
  <2>1. ~ \E p \in Threads : Publish(p)
    BY <1>1, <1>3, PublishShows
  <2>2. ~ UNCHANGED <<mem, buf>>
    BY <1>3 DEF Load
  <2>3. PICK p \in Threads : Continue(p)
    BY <2>1, <2>2 DEF Next, Begin, StartThreads, RewriteConfig, vars
  <2>4. ~ Untouched(Ptr(k, "kern"))
    BY <1>3 DEF Load, Untouched
  <2>5. k = op[p].kern /\ StoreKern(p)
    BY <2>3, <2>4, PtrStores DEF PtrVars
  <2>6. Load(p, Ptr(k, v)) # Stub
    BY <2>5 DEF Once, OnceInv, StoreKern, Goto, Seen
  <2> QED BY <1>1, <2>6, SeenStays
<1> QED BY <1>2, <1>3

(* For any delay and any order of the stores: who sees the dispatcher      *)
(* finds behind it what somebody has stored there, if need be the stub     *)
(* that is still to be overwritten; __init_kern stores the dispatcher      *)
(* last, and no other initialisation puts a stub back.                     *)
THEOREM DispatchPublishedMeansReady == Spec => []PublishedMeansReady
<1>1. Init => PublishedMeansReady
  <2> SUFFICES ASSUME Init, NEW k \in Kernels, NEW t \in Threads
               PROVE  Load(t, Ptr(k, "kern")) # Dispatcher
    BY DEF PublishedMeansReady
  <2>1. Load(t, Ptr(k, "kern")) = 0
    BY PtrInLoc DEF Init, PtrVars, Load
  <2> QED BY <2>1 DEF Dispatcher
<1> QED BY <1>1, InvariantHolds, InitOnce, NextKeepsOnce, NextKeepsPublished, PTL DEF Spec

-----------------------------------------------------------------------------
(***************************************************************************)
(* The machine is ready.  If one call has been through get_machine before  *)
(* the threads are started (InitFirst), every thread sees machine,         *)
(* alignment and mask, always.  Before, only Main runs, and it sees all    *)
(* three or is still inside get_machine.                                   *)
(***************************************************************************)

Ready(t) ==
  /\ Load(t, Lib("machine")) = BestMachine
  /\ Load(t, Lib("alignment")) = Alignment[BestMachine]
  /\ Load(t, Lib("mask")) = Alignment[BestMachine] - 1

OthersWait ==
  \A t \in Threads \ {Main} :
    pc[t] = "idle" /\ DOMAIN buf[t] = {} /\ ran[t] = 0 /\ answer[t] = -1

BeforeStart ==
  /\ OthersWait
  /\ Load(Main, Lib("machine")) # 0 /\ pc[Main] \notin {"store_alignment", "store_mask"}
       => Ready(Main)
  /\ \A k \in Kernels, v \in PtrVars :
       Load(Main, Ptr(k, v)) # 0 => Load(Main, Lib("machine")) # 0
  /\ pc[Main] = "idle" /\ op[Main] \in Requests
     /\ op[Main].kind \notin {"is_aligned", "get_machine"}
       => Load(Main, Lib("machine")) # 0
  /\ pc[Main] = "dispatch" => Load(Main, Lib("machine")) # 0

ReadyInv == IF started THEN \A t \in Threads : Ready(t) ELSE BeforeStart

LEMMA ReadyStays ==
  ASSUME Kept, NEW t \in Threads, Ready(t)
  PROVE  Ready(t)'
<1>1. Lib("machine") \in Loc /\ Lib("alignment") \in Loc /\ Lib("mask") \in Loc
  BY LibInLoc DEF LibVars
<1> QED BY <1>1, StoredLib DEF Kept, Ready

LEMMA InitReady == InitFirst /\ Init => ReadyInv
<1> SUFFICES ASSUME InitFirst, Init PROVE ReadyInv
  OBVIOUS
<1>1. ~started /\ Main \in Threads
  BY ThreadsAssumption DEF Init
<1>2. \A t \in Threads, l \in Loc : Load(t, l) = 0
  BY DEF Init, Load
<1>3. Lib("machine") \in Loc /\ \A k \in Kernels, v \in PtrVars : Ptr(k, v) \in Loc
  BY LibInLoc, PtrInLoc DEF LibVars
<1>4. op[Main] \notin Requests
  BY <1>1, RequestShape DEF Init, PtrVars
<1>5. \A t \in Threads \ {Main} :
        pc[t] = "idle" /\ DOMAIN buf[t] = {} /\ ran[t] = 0 /\ answer[t] = -1
  BY DEF Init
<1>6. pc[Main] = "idle"
  BY <1>1 DEF Init
<1> QED BY <1>1, <1>2, <1>3, <1>4, <1>5, <1>6 DEF ReadyInv, BeforeStart, OthersWait

LEMMA ContinueKeepsOthers ==
  ASSUME IInv, OthersWait, NEW t \in Threads, Continue(t)
  PROVE  t = Main /\ OthersWait'
<1>1. t = Main
  BY DEF OthersWait, Continue, Goto, Execute, Return, Rank,
   CallStub, CallDispatcher, CallImpl, Dispatch, GetMachine, SelectMachine, StoreAlignment,
   StoreMask, CheckPrefs, LoadPreferences, StorePrefs, StoreNPrefs, StoreLoaded, RankAligned,
   RankUnaligned, StoreKernA, StoreKernU, StoreKern, Manual, GetFuncDesc, GetAlignment,
   IsAlignedQuery, NameMachine, GetMachineName
<1>2. Frame(t)
  BY ContinueKeeps
<1>3. \A u \in Threads \ {t} : buf'[u] = buf[u]
  BY ContinueStores, StoreElsewhere DEF IInv
<1> QED BY <1>1, <1>2, <1>3 DEF OthersWait, Frame

LEMMA ContinueKeepsReady ==
  ASSUME IInv, BeforeStart, NEW t \in Threads, Continue(t)
  PROVE  BeforeStart'
<1> DEFINE machine == Load(Main, Lib("machine"))
<1>1. OthersWait' /\ t = Main
  BY ContinueKeepsOthers DEF BeforeStart, OthersWait
<1>2. IInv' /\ Kept /\ op' = op
  BY ContinueKeeps, ContinueLeaves
<1>3. ThreadInv(Main) /\ DOMAIN pc = Threads /\ MemoryInv /\ Main \in Threads
  BY <1>1 DEF IInv, ControlInv, Domains
<1>4. Lib("machine") \in Loc /\ BestMachine # 0
  BY LibInLoc, BestMachineRunnable DEF LibVars
<1>5. machine \in {0, BestMachine}
  BY <1>3, <1>4, LoadStored, StoredLib
<1>6. machine # 0 => machine' # 0
  BY <1>2, <1>3, <1>4, <1>5, SeenKept
<1>7. ASSUME Ready(Main)' \/ pc'[Main] \in {"store_alignment", "store_mask"},
             machine' # 0
      PROVE  BeforeStart'
  BY <1>1, <1>7 DEF BeforeStart, OthersWait
<1>8. CASE SelectMachine(t)
  <2>1. pc'[Main] = "store_alignment"
    BY <1>1, <1>3, <1>8 DEF SelectMachine, Goto
  <2>2. machine' # 0
    BY <1>1, <1>3, <1>4, <1>8, StoredLib, StoreKeeps DEF SelectMachine
  <2> QED BY <1>7, <2>1, <2>2
<1>9. CASE StoreAlignment(t)
  <2>1. pc'[Main] = "store_mask" /\ pc[Main] = "store_alignment"
    BY <1>1, <1>3, <1>9 DEF StoreAlignment, Goto
  <2>2. machine' # 0
    BY <1>3, <1>4, <1>6, <2>1 DEF ThreadInv, HasMachine
  <2> QED BY <1>7, <2>1, <2>2
<1>10. CASE StoreMask(t)
  <2>1. pc[Main] = "store_mask"
    BY <1>1, <1>10 DEF StoreMask, Goto
  <2>2. machine = BestMachine /\ Load(Main, Lib("alignment")) = Alignment[BestMachine]
    BY <1>3, <2>1 DEF ThreadInv, HasMachine
  <2>3. machine' = BestMachine /\ Load(Main, Lib("alignment"))' = Alignment[BestMachine]
    BY <1>2, <1>3, <2>2, SeenKept
  <2>4. Load(Main, Lib("mask"))' = Alignment[BestMachine] - 1
    BY <1>1, <1>3, <1>10, <2>2, StoreKeeps, StoredLib, LibInLoc DEF StoreMask, LibVars
  <2> QED BY <1>4, <1>7, <2>3, <2>4 DEF Ready
<1>11. CASE ~SelectMachine(t) /\ ~StoreAlignment(t) /\ ~StoreMask(t)
  <2>1. pc[Main] \notin {"store_alignment", "store_mask"}
    BY <1>1, <1>11 DEF Continue, Goto, Execute, Return, Rank,
       CallStub, CallDispatcher, CallImpl, Dispatch, GetMachine,
       CheckPrefs, LoadPreferences, StorePrefs, StoreNPrefs, StoreLoaded, RankAligned,
       RankUnaligned, StoreKernA, StoreKernU, StoreKern, Manual, GetFuncDesc, GetAlignment,
       IsAlignedQuery, NameMachine, GetMachineName
  <2>2. CASE machine # 0
    <3>1. Ready(Main)
      BY <2>1, <2>2 DEF BeforeStart, OthersWait
    <3> QED BY <1>2, <1>3, <1>6, <1>7, <2>2, <3>1, ReadyStays
  <2>3. CASE machine = 0
    <3>1. pc[Main] \notin HasMachine \cup {"dispatch"}
      BY <1>3, <1>4, <2>3 DEF ThreadInv, BeforeStart, OthersWait
    <3>2. \A k \in Kernels, v \in PtrVars : Load(Main, Ptr(k, v)) = 0
      BY <2>3 DEF BeforeStart, OthersWait
    <3>3. pc[Main] = "call" => Load(Main, resume[Main]) = Stub
      BY <1>3, <3>2, RequestShape DEF ThreadInv, InCall, Ptr, Stub
    <3>4. \/ CallStub(t) \/ GetMachine(t) \/ IsAlignedQuery(t) \/ NameMachine(t)
          \/ GetMachineName(t)
      BY <1>1, <1>11, <3>1, <3>3 DEF HasMachine, Continue, Goto, Execute, Return, Rank,
         CallDispatcher, CallImpl, Dispatch, CheckPrefs, LoadPreferences,
         StorePrefs, StoreNPrefs, StoreLoaded, RankAligned, RankUnaligned, StoreKernA,
         StoreKernU, StoreKern, Manual, GetFuncDesc, GetAlignment
    <3>5. \A x \in Loc \ {Lib("named_machine")} : Load(Main, x)' = Load(Main, x)
      <4>1. CASE NameMachine(t)
        BY <1>1, <1>3, <4>1, StoreElsewhere DEF NameMachine
      <4>2. CASE CallStub(t) \/ GetMachine(t) \/ IsAlignedQuery(t) \/ GetMachineName(t)
        BY <4>2 DEF CallStub, GetMachine, IsAlignedQuery, GetMachineName, Return, local, Load
      <4> QED BY <3>4, <4>1, <4>2
    <3>6. Lib("machine") # Lib("named_machine")
          /\ \A k \in Kernels, v \in PtrVars :
               Ptr(k, v) \in Loc /\ Ptr(k, v) # Lib("named_machine")
      BY PtrInLoc DEF Lib, Ptr, PtrVars
    <3>7. machine' = 0 /\ \A k \in Kernels, v \in PtrVars : Load(Main, Ptr(k, v))' = 0
      BY <1>4, <2>3, <3>2, <3>5, <3>6
    <3>8. pc'[Main] = "idle" => op[Main].kind \in {"is_aligned", "get_machine"}
      BY <1>1, <1>3, <2>3, <3>4
      DEF ThreadInv, CallStub, GetMachine, IsAlignedQuery, NameMachine, GetMachineName,
          Return, Goto, local
    <3>9. pc'[Main] # "dispatch"
      BY <1>1, <1>3, <2>3, <3>4 DEF CallStub, GetMachine, IsAlignedQuery, NameMachine,
         GetMachineName, Return, Goto, local
    <3> QED BY <1>1, <1>2, <3>7, <3>8, <3>9 DEF BeforeStart, OthersWait
  <2> QED BY <2>2, <2>3
<1> QED BY <1>8, <1>9, <1>10, <1>11

LEMMA NextKeepsReady ==
  ASSUME IInv, ReadyInv, [Next]_vars
  PROVE  ReadyInv'
<1>1. Kept /\ MemoryInv
  BY NextKept DEF IInv
<1>2. CASE started
  <2>1. started'
    BY <1>2, StepShape
  <2> QED BY <1>1, <1>2, <2>1, ReadyStays DEF ReadyInv
<1>3. CASE ~started
  <2>1. BeforeStart /\ Main \in Threads /\ DOMAIN pc = Threads
    BY <1>3, ThreadsAssumption DEF ReadyInv, IInv, ControlInv, Domains
  <2>2. ASSUME NEW t \in Threads, NEW o \in Requests, Begin(t, o)
        PROVE  ReadyInv'
    <3>1. t = Main /\ UNCHANGED <<mem, buf, started>> /\ Frame(t) /\ pc[t] = "idle"
      BY <1>3, <2>2, BeginKeeps DEF Begin, Goto
    <3>2. pc'[Main] = Entry(o)
      BY <2>1, <2>2, <3>1 DEF Begin, Goto
    <3>3. Entry(o) \notin {"idle", "dispatch", "store_alignment", "store_mask"}
      BY DEF Entry
    <3>4. BeforeStart'
      BY <2>1, <2>2, <3>1, <3>2, <3>3 DEF BeforeStart, OthersWait, Frame, Ready, Load, Begin
    <3> QED BY <1>3, <3>1, <3>4 DEF ReadyInv
  <2>3. ASSUME NEW t \in Threads, Continue(t)
        PROVE  ReadyInv'
    BY <1>3, <2>1, <2>3, ContinueKeepsReady, ContinueLeaves DEF ReadyInv
  <2>4. ASSUME NEW t \in Threads, Publish(t)
        PROVE  ReadyInv'
    <3>1. PICK l \in DOMAIN buf[t] :
            /\ mem' = [mem EXCEPT ![l] = buf[t][l]]
            /\ buf' = [buf EXCEPT ![t] = [x \in DOMAIN buf[t] \ {l} |-> buf[t][x]]]
      BY <2>4 DEF Publish
    <3>2. t = Main
      BY <2>1, <3>1 DEF BeforeStart, OthersWait
    <3>3. \A x \in Loc : Load(Main, x)' = Load(Main, x)
      BY <1>1, <3>1, <3>2 DEF MemoryInv, Load
    <3>4. \A u \in Threads \ {Main} : buf'[u] = buf[u]
      BY <1>1, <3>1, <3>2 DEF MemoryInv
    <3>5. /\ Lib("machine") \in Loc /\ Lib("alignment") \in Loc /\ Lib("mask") \in Loc
          /\ \A k \in Kernels, v \in PtrVars : Ptr(k, v) \in Loc
      BY LibInLoc, PtrInLoc DEF LibVars
    <3>6. UNCHANGED <<started, pc, op, ran, answer>>
      BY <2>4 DEF Publish, local
    <3>7. BeforeStart'
      BY <2>1, <3>3, <3>4, <3>5, <3>6 DEF BeforeStart, OthersWait, Ready
    <3> QED BY <1>3, <3>6, <3>7 DEF ReadyInv
  <2>5. CASE StartThreads
    <3>1. Load(Main, Lib("machine")) # 0 /\ pc[Main] = "idle" /\ DOMAIN buf[Main] = {}
      BY <2>1, <2>5 DEF StartThreads, BeforeStart, OthersWait
    <3>2. Ready(Main) /\ \A u \in Threads : DOMAIN buf[u] = {}
      BY <2>1, <3>1 DEF BeforeStart, OthersWait
    <3>3. \A u \in Threads : Ready(u)
      BY <2>1, <3>2 DEF Ready, Load
    <3> QED BY <2>5, <3>3 DEF ReadyInv, StartThreads, Ready, Load
  <2>6. CASE RewriteConfig \/ UNCHANGED vars
    BY <1>3, <2>1, <2>6
    DEF RewriteConfig, vars, local, ReadyInv, BeforeStart, OthersWait, Ready, Load
  <2> QED BY <2>2, <2>3, <2>4, <2>5, <2>6 DEF Next
<1> QED BY <1>2, <1>3

(* Past get_machine and in the dispatcher, a thread sees a machine that is *)
(* completely initialised.                                                 *)
LEMMA PlaceReady ==
  ASSUME IInv, ReadyInv, NEW t \in Threads,
         \/ pc[t] \in HasMachine \ {"store_alignment", "store_mask"}
         \/ pc[t] = "dispatch"
         \/ started
  PROVE  Ready(t)
<1>1. CASE started
  BY <1>1 DEF ReadyInv
<1>2. CASE ~started
  <2>1. t = Main /\ BeforeStart
    BY <1>2 DEF ReadyInv, BeforeStart, OthersWait, HasMachine
  <2>2. pc[t] \in HasMachine => Load(t, Lib("machine")) # 0
    BY BestMachineRunnable DEF IInv, ControlInv, ThreadInv
  <2> QED BY <1>2, <2>1, <2>2 DEF BeforeStart, OthersWait
<1> QED BY <1>1, <1>2

(* Then the test of __kern_d and of volk_is_aligned is the one for the     *)
(* machine's boundary.                                                     *)
LEMMA ReadyIsAligned ==
  ASSUME NEW t, NEW b, Ready(t)
  PROVE  IsAligned(t, b) <=> OnBoundary(b, Alignment[BestMachine])
<1>1. Load(t, Lib("mask")) + 1 = Alignment[BestMachine]
  BY BestMachineRunnable DEF Ready
<1> QED BY <1>1 DEF IsAligned

(* What the queries have answered.                                         *)
AnswerInv(t) ==
  answer[t] # -1 =>
    /\ pc[t] = "idle"
    /\ op[t].kind = "get_alignment" => answer[t] = Alignment[BestMachine]
    /\ started /\ op[t].kind = "is_aligned"
       => (answer[t] = 1 <=> OnBoundary(op[t].bufs, Alignment[BestMachine]))
    /\ op[t].kind = "get_machine" => answer[t] = BestMachine

AnswersInv == \A t \in Threads : AnswerInv(t)

LEMMA InitAnswers == Init => AnswersInv
BY DEF Init, AnswersInv, AnswerInv

LEMMA ContinueKeepsAnswers ==
  ASSUME IInv, ReadyInv, AnswersInv, NEW t \in Threads, Continue(t)
  PROVE  AnswersInv'
<1>1. op' = op /\ started' = started /\ Frame(t) /\ pc[t] # "idle"
  BY ContinueLeaves, ContinueKeeps, ContinueBusy
<1> SUFFICES AnswerInv(t)'
  BY <1>1 DEF AnswersInv, AnswerInv, Frame
<1>2. ThreadInv(t) /\ MemoryInv /\ DOMAIN answer = Threads /\ DOMAIN pc = Threads
  BY DEF IInv, ControlInv, Domains
<1>3. answer[t] = -1
  BY <1>1 DEF AnswersInv, AnswerInv
<1>4. \A v \in LibVars : Lib(v) \in Loc
  BY LibInLoc
<1>5. CASE GetFuncDesc(t)
  BY <1>1, <1>2, <1>5 DEF GetFuncDesc, Return, Goto, ThreadInv, AnswerInv
<1>6. CASE GetAlignment(t)
  <2>1. Ready(t)
    BY <1>6, PlaceReady DEF GetAlignment, HasMachine
  <2> QED BY <1>1, <1>2, <1>6, <2>1
          DEF GetAlignment, Return, Goto, ThreadInv, AnswerInv, Ready
<1>7. CASE IsAlignedQuery(t)
  <2>1. started => Ready(t)
    BY PlaceReady
  <2>2. started => (IsAligned(t, op[t].bufs) <=> OnBoundary(op[t].bufs, Alignment[BestMachine]))
    BY <2>1, ReadyIsAligned
  <2> QED BY <1>1, <1>2, <1>7, <2>2 DEF IsAlignedQuery, Return, Goto, ThreadInv, AnswerInv
<1>8. CASE GetMachineName(t)
  <2>1. Load(t, Lib("named_machine")) = BestMachine
    BY <1>2, <1>4, <1>8, LoadStored, StoredLib DEF GetMachineName, LibVars
  <2> QED BY <1>1, <1>2, <1>8, <2>1 DEF GetMachineName, Return, Goto, ThreadInv, AnswerInv
<1>9. CASE ~GetFuncDesc(t) /\ ~GetAlignment(t) /\ ~IsAlignedQuery(t) /\ ~GetMachineName(t)
  <2>1. answer' = answer
    BY <1>9
    DEF Continue, local, Execute, StorePtr, Rank, CallStub, CallDispatcher, CallImpl,
        Dispatch, GetMachine, SelectMachine, StoreAlignment, StoreMask, CheckPrefs,
        LoadPreferences, StorePrefs, StoreNPrefs, StoreLoaded, RankAligned, RankUnaligned,
        StoreKernA, StoreKernU, StoreKern, Manual, NameMachine
  <2> QED BY <1>3, <2>1 DEF AnswerInv
<1> QED BY <1>5, <1>6, <1>7, <1>8, <1>9

LEMMA NextKeepsAnswers ==
  ASSUME IInv, ReadyInv, AnswersInv, [Next]_vars
  PROVE  AnswersInv'
<1>1. ASSUME NEW t \in Threads, NEW o \in Requests, Begin(t, o) PROVE AnswersInv'
  <2>1. Frame(t) /\ started' = started /\ answer'[t] = -1
    BY <1>1, BeginKeeps DEF Begin, IInv, ControlInv, Domains
  <2> QED BY <2>1 DEF AnswersInv, AnswerInv, Frame
<1>2. CASE StartThreads
  <2>1. /\ ~started /\ UNCHANGED <<pc, op, answer>> /\ op[Main].kind # "is_aligned"
        /\ \A u \in Threads \ {Main} : answer[u] = -1
    BY <1>2 DEF StartThreads, ReadyInv, BeforeStart, OthersWait, local
  <2> QED BY <2>1 DEF AnswersInv, AnswerInv
<1>3. CASE (\E t \in Threads : Publish(t)) \/ RewriteConfig \/ UNCHANGED vars
  BY <1>3 DEF Publish, RewriteConfig, vars, local, AnswersInv, AnswerInv
<1> QED BY <1>1, <1>2, <1>3, ContinueKeepsAnswers DEF Next

(* If one call returns before the threads are started, volk_get_alignment, *)
(* volk_is_aligned and volk_get_machine always answer for the machine the  *)
(* dispatcher uses, although they read variables other threads may be      *)
(* setting and volk_get_machine keeps a copy of its own; however the       *)
(* stores are delayed.                                                     *)
THEOREM DispatchQueriesAgree == InitFirst => (Spec => []QueriesAgree)
<1> SUFFICES ASSUME InitFirst PROVE Spec => []QueriesAgree
  OBVIOUS
<1>1. Init => ReadyInv
  BY InitReady
<1>2. ReadyInv /\ AnswersInv => QueriesAgree
  BY DEF ReadyInv, Ready, AnswersInv, AnswerInv, QueriesAgree
<1> QED BY <1>1, <1>2, InvariantHolds, NextKeepsReady, InitAnswers, NextKeepsAnswers, PTL
        DEF Spec

-----------------------------------------------------------------------------
(***************************************************************************)
(* Nothing misaligned.  An implementation stored in kern_u is not an       *)
(* aligned one, and a call goes through kern_a only with buffers on the    *)
(* boundary.  The first needs that whoever names an implementation for     *)
(* unaligned buffers, in the config file or in the variable of a kernel,   *)
(* does not name one that requires alignment: volk_rank_archs takes the    *)
(* user's word for it.                                                     *)
(***************************************************************************)

UserNamesUnaligned ==
  \A k \in Kernels :
    /\ Env.override[k] # Unset =>
         \A i \in Named(Impls[k], Table(k, BestMachine), Env.override[k]) : ~Impls[k][i].aligned
    /\ \A v \in Versions : \A p \in DOMAIN Configs[v] : Configs[v][p].name = k =>
         \A i \in Named(Impls[k], Table(k, BestMachine), Configs[v][p].impl_u) :
           ~Impls[k][i].aligned

UnalignedStored ==
  \A k \in Kernels :
    /\ mem[Ptr(k, "kern_u")] # 0 => ~Impls[k][mem[Ptr(k, "kern_u")]].aligned
    /\ \A t \in Threads : Ptr(k, "kern_u") \in DOMAIN buf[t] =>
         ~Impls[k][buf[t][Ptr(k, "kern_u")]].aligned

RunInv(t) ==
  /\ pc[t] \in {"store_a", "store_u"} => ~Impls[op[t].kern][rank[t].u].aligned
  /\ pc[t] # "idle" /\ op[t].kind \in PtrVars /\ resume[t] = Ptr(op[t].kern, "kern_a")
       => OnBoundary(op[t].bufs, Alignment[BestMachine])
  /\ op[t].kind \in PtrVars /\ ran[t] # 0 /\ Executed(t).aligned
       => OnBoundary(op[t].bufs, Alignment[BestMachine])

RunsInv == UnalignedStored /\ \A t \in Threads : RunInv(t)

(* A list of which a thread sees only the beginning is still a list of     *)
(* entries of the file.                                                    *)
LEMMA VisiblePart ==
  ASSUME NEW v \in {0} \cup Versions, NEW n \in Nat
  PROVE  /\ Visible(PrefsAt(v), n) \in Seq([name : STRING, impl_a : STRING, impl_u : STRING])
         /\ \A p \in DOMAIN Visible(PrefsAt(v), n) :
              v # 0 /\ p \in DOMAIN Configs[v] /\ Visible(PrefsAt(v), n)[p] = Configs[v][p]
<1> DEFINE Entries == [name : STRING, impl_a : STRING, impl_u : STRING]
           list == PrefsAt(v)
           m == IF n < Len(list) THEN n ELSE Len(list)
<1>1. list \in Seq(Entries)
  <2>1. CASE v = 0
    BY <2>1 DEF PrefsAt
  <2>2. CASE v # 0
    <3>1. v \in DOMAIN Configs /\ Configs \in Seq(Seq(Entries))
      BY <2>2, FlagsAssumption DEF Versions
    <3>2. Configs[v] \in Seq(Entries)
      BY <3>1
    <3> QED BY <2>2, <3>2 DEF PrefsAt
  <2> QED BY <2>1, <2>2
<1>2. Len(list) \in Nat /\ DOMAIN list = 1 .. Len(list)
      /\ \A i \in 1 .. Len(list) : list[i] \in Entries
  <2> HIDE DEF list, Entries
  <2> QED BY <1>1
<1>3. m \in Nat /\ m <= Len(list) /\ (\A i \in 1 .. m : list[i] \in Entries)
  <2> HIDE DEF list, Entries
  <2> QED BY <1>2
<1>4. Visible(list, n) = SubSeq(list, 1, m)
  BY DEF Visible
<1>5. /\ SubSeq(list, 1, m) \in Seq(Entries)
      /\ Len(SubSeq(list, 1, m)) = m
      /\ \A i \in 1 .. m : SubSeq(list, 1, m)[i] = list[i]
  <2> HIDE DEF m, list, Entries
  <2>1. /\ SubSeq(list, 1, m) \in Seq(Entries)
        /\ Len(SubSeq(list, 1, m)) = IF 1 <= m THEN m - 1 + 1 ELSE 0
        /\ \A i \in 1 .. m - 1 + 1 : SubSeq(list, 1, m)[i] = list[1 + i - 1]
    BY <1>2, <1>3, SubSeqProperties
  <2> QED BY <1>3, <2>1
<1>6. DOMAIN SubSeq(list, 1, m) = 1 .. m
  BY <1>5
<1>7. v = 0 => m = 0
  <2>1. v = 0 => list = <<>>
    BY DEF PrefsAt
  <2>2. v = 0 => Len(list) = 0
    BY <2>1
  <2> HIDE DEF list
  <2> QED BY <1>3, <2>2
<1>8. v # 0 => list = Configs[v]
  BY DEF PrefsAt
<1> QED
  <2> HIDE DEF m, list, Entries
  <2>1. Visible(list, n) \in Seq(Entries)
    BY <1>4, <1>5
  <2>2. \A p \in DOMAIN Visible(list, n) :
              v # 0 /\ p \in DOMAIN Configs[v] /\ Visible(list, n)[p] = Configs[v][p]
    BY <1>2, <1>3, <1>4, <1>5, <1>6, <1>7, <1>8
  <2> QED BY <2>1, <2>2 DEF list, Entries

(* So what volk_rank_archs(..., false) returns requires no alignment,      *)
(* whatever mixture of pointer and length the thread sees.                 *)
LEMMA RankForUnaligned ==
  ASSUME UserNamesUnaligned, IInv, NEW t \in Threads, pc[t] \in {"rank_a", "rank_u"}
  PROVE  ~Impls[op[t].kern][RankFor(t, FALSE)].aligned
<1> DEFINE k == op[t].kern
           T == Table(k, BestMachine)
           prefs == Visible(PrefsAt(Load(t, Lib("prefs"))), Load(t, Lib("n_prefs")))
<1>1. k \in Kernels /\ Load(t, Lib("machine")) = BestMachine
  BY RequestShape DEF IInv, ControlInv, ThreadInv, HasMachine, InCall, InInit
<1>2. /\ T \subseteq Nat
      /\ \A i \in T : Mask(Impls[k][i].deps) \in 0 .. MaxInt /\ i \in DOMAIN Impls[k]
  BY <1>1, TableRunnable
<1>3. \A i \in T : Impls[k][i].aligned \in BOOLEAN
                   /\ (First20[Impls[k][i].name] = First20["generic"] => ~Impls[k][i].aligned)
  <2> SUFFICES ASSUME NEW i \in DOMAIN Impls[k]
               PROVE  /\ Impls[k][i].aligned \in BOOLEAN
                      /\ (First20[Impls[k][i].name] = First20["generic"] => ~Impls[k][i].aligned)
    BY <1>2
  <2> DEFINE R == [name : STRING, deps : SUBSET Nat, aligned : BOOLEAN]
             s == Impls[k]
  <2>1. s \in Seq(R)
    BY <1>1, ImplsAssumption
  <2>2. s[i] \in R
    <3>1. i \in DOMAIN s
      OBVIOUS
    <3> HIDE DEF R, s
    <3> QED BY <2>1, <3>1
  <2>3. Impls[k][i].aligned \in BOOLEAN
    BY <2>2
  <2> QED BY <1>1, <2>3, ImplsAssumption
<1>4. BestMachine \in Machines
  BY BestMachineRunnable DEF Runnable
<1>5. Named(Impls[k], T, "generic") # {}
  BY <1>1, <1>4, ImplsAssumption
<1>6. \A i \in Named(Impls[k], T, "generic") : ~Impls[k][i].aligned
  BY <1>3 DEF Named
<1>7. Load(t, Lib("prefs")) \in {0} \cup Versions /\ Load(t, Lib("n_prefs")) \in Nat
  <2>1. Lib("prefs") \in Loc /\ Lib("n_prefs") \in Loc /\ MemoryInv
    BY LibInLoc DEF IInv, LibVars
  <2>2. Load(t, Lib("prefs")) \in {0} \cup Stored(Lib("prefs"))
    BY <2>1, LoadStored
  <2>3. Load(t, Lib("n_prefs")) \in {0} \cup Stored(Lib("n_prefs"))
    BY <2>1, LoadStored
  <2> QED BY <2>2, <2>3, StoredLib
<1>8. DOMAIN prefs \subseteq Nat
  <2>1. prefs \in Seq([name : STRING, impl_a : STRING, impl_u : STRING])
    BY <1>7, VisiblePart
  <2> HIDE DEF prefs
  <2> QED BY <2>1
<1>9. \A p \in DOMAIN prefs : prefs[p].name = k =>
        \A i \in Named(Impls[k], T, prefs[p].impl_u) : ~Impls[k][i].aligned
  <2> SUFFICES ASSUME NEW p \in DOMAIN prefs, prefs[p].name = k,
                      NEW i \in Named(Impls[k], T, prefs[p].impl_u)
               PROVE  ~Impls[k][i].aligned
    OBVIOUS
  <2> DEFINE v == Load(t, Lib("prefs"))
  <2>1. v # 0 /\ p \in DOMAIN Configs[v] /\ prefs[p] = Configs[v][p]
    BY <1>7, VisiblePart
  <2>2. v \in Versions
    BY <1>7, <2>1
  <2> QED BY <1>1, <2>1, <2>2 DEF UserNamesUnaligned
<1>10. Env.override[k] # Unset =>
         \A i \in Named(Impls[k], T, Env.override[k]) : ~Impls[k][i].aligned
  BY <1>1 DEF UserNamesUnaligned
<1>11. RankFor(t, FALSE) = RankArchs(Env, prefs, k, Impls[k], T, FALSE)
  BY <1>1 DEF RankFor
<1>12. ~Impls[k][RankArchs(Env, prefs, k, Impls[k], T, FALSE)].aligned
  <2> HIDE DEF T, prefs, k
  <2> QED BY <1>2, <1>3, <1>5, <1>6, <1>8, <1>9, <1>10, RankUnalignedIsUnaligned
<1> QED BY <1>11, <1>12

LEMMA InitRuns == Init => RunsInv
<1> SUFFICES ASSUME Init PROVE RunsInv
  OBVIOUS
<1>1. UnalignedStored
  BY PtrInLoc DEF Init, UnalignedStored, PtrVars
<1>2. \A t \in Threads : RunInv(t)
  BY DEF Init, RunInv
<1> QED BY <1>1, <1>2 DEF RunsInv

LEMMA ContinueKeepsStored ==
  ASSUME IInv, RunsInv, NEW t \in Threads, Continue(t)
  PROVE  UnalignedStored'
<1> SUFFICES ASSUME NEW k \in Kernels
             PROVE  /\ mem'[Ptr(k, "kern_u")] # 0 => ~Impls[k][mem'[Ptr(k, "kern_u")]].aligned
                    /\ \A u \in Threads : Ptr(k, "kern_u") \in DOMAIN buf'[u] =>
                         ~Impls[k][buf'[u][Ptr(k, "kern_u")]].aligned
  BY DEF UnalignedStored
<1> DEFINE x == Ptr(k, "kern_u")
<1>1. /\ mem[x] # 0 => ~Impls[k][mem[x]].aligned
      /\ \A u \in Threads : x \in DOMAIN buf[u] => ~Impls[k][buf[u][x]].aligned
  BY DEF RunsInv, UnalignedStored
<1>2. CASE Untouched(x)
  BY <1>1, <1>2 DEF Untouched
<1>3. CASE k = op[t].kern /\ StoreKernU(t)
  <2>1. ~Impls[k][rank[t].u].aligned
    BY <1>3 DEF RunsInv, RunInv, StoreKernU, Goto
  <2>2. Store(t, x, rank[t].u) /\ x \in Loc /\ MemoryInv
    BY <1>3, PtrInLoc DEF StoreKernU, StorePtr, PtrVars, IInv
  <2>3. /\ mem'[x] \in {mem[x], rank[t].u}
        /\ \A u \in Threads : x \in DOMAIN buf'[u] =>
              buf'[u][x] = rank[t].u \/ (x \in DOMAIN buf[u] /\ buf'[u][x] = buf[u][x])
    BY <2>2, StoreThere
  <2> QED BY <1>1, <2>1, <2>3
<1> QED BY <1>2, <1>3, PtrStores DEF PtrVars

(* The pointer a call goes through next is kern_a only for buffers on the  *)
(* boundary: the caller's promise, or the test of __kern_d.                *)
LEMMA ContinueKeepsRuns ==
  ASSUME UserNamesUnaligned, IInv, ReadyInv, RunsInv, NEW t \in Threads, Continue(t)
  PROVE  RunsInv'
<1>1. op' = op /\ Frame(t) /\ IInv' /\ pc[t] # "idle"
  BY ContinueLeaves, ContinueKeeps, ContinueBusy
<1>2. RunInv(t) /\ ThreadInv(t) /\ MemoryInv /\ Domains
  BY DEF RunsInv, IInv, ControlInv
<1>3. ASSUME RunInv(t)' PROVE RunsInv'
  <2>1. \A u \in Threads \ {t} : RunInv(u)'
    BY <1>1 DEF RunsInv, RunInv, Frame, Executed
  <2> QED BY <1>3, <2>1, ContinueKeepsStored DEF RunsInv
<1>4. CASE RankUnaligned(t)
  <2>1. pc[t] = "rank_u" /\ UNCHANGED <<resume, ran>>
    BY <1>4 DEF RankUnaligned, Rank, Goto
  <2>2. ScanInBounds(t) => rank'[t].u = RankFor(t, FALSE)
    BY <1>2, <1>4 DEF RankUnaligned, Rank, Domains
  <2>3. ~ScanInBounds(t) => pc'[t] = "crashed"
    BY <1>2, <1>4 DEF RankUnaligned, Rank, Domains, Goto
  <2>4. ~Impls[op[t].kern][RankFor(t, FALSE)].aligned
    BY <2>1, RankForUnaligned
  <2>5. RunInv(t)'
    BY <1>1, <1>2, <2>1, <2>2, <2>3, <2>4 DEF RunInv, Executed
  <2> QED BY <1>3, <2>5
<1>5. CASE Dispatch(t)
  <2>1. Ready(t) /\ pc'[t] = "call" /\ ran' = ran /\ pc[t] = "dispatch"
    BY <1>2, <1>5, PlaceReady DEF Dispatch, Goto, Domains
  <2>2. resume'[t] = Ptr(op[t].kern, IF IsAligned(t, op[t].bufs) THEN "kern_a" ELSE "kern_u")
    BY <1>2, <1>5 DEF Dispatch, Domains
  <2>3. Ptr(op[t].kern, "kern_u") # Ptr(op[t].kern, "kern_a")
    BY DEF Ptr
  <2>4. RunInv(t)'
    BY <1>1, <1>2, <2>1, <2>2, <2>3, ReadyIsAligned DEF RunInv, Executed
  <2> QED BY <1>3, <2>4
<1>6. CASE CallImpl(t)
  <2>1. pc[t] = "call" /\ pc'[t] = "idle" /\ ran'[t] = Load(t, resume[t])
        /\ resume[t][2] # "kern" /\ Load(t, resume[t]) # 0
    BY <1>2, <1>6 DEF CallImpl, Execute, Goto, Domains, Stub
  <2>2. op[t].kern \in Kernels /\ op[t].kind \in PtrVars
    BY <1>2, <2>1, RequestShape DEF ThreadInv, InCall
  <2>3. resume[t] \in {Ptr(op[t].kern, "kern_a"), Ptr(op[t].kern, "kern_u")}
    BY <1>2, <2>1, <2>2 DEF ThreadInv, PtrVars, Ptr
  <2>4. CASE resume[t] = Ptr(op[t].kern, "kern_a")
    <3>1. RunInv(t)'
      BY <1>1, <1>2, <2>1, <2>2, <2>4 DEF RunInv
    <3> QED BY <1>3, <3>1
  <2>5. CASE resume[t] = Ptr(op[t].kern, "kern_u")
    <3>1. ~Impls[op[t].kern][Load(t, resume[t])].aligned
      BY <2>1, <2>2, <2>5 DEF RunsInv, UnalignedStored, Load
    <3>2. RunInv(t)'
      BY <1>1, <2>1, <3>1 DEF RunInv, Executed
    <3> QED BY <1>3, <3>2
  <2> QED BY <2>3, <2>4, <2>5
<1>7. CASE Manual(t) \/ GetFuncDesc(t) \/ GetAlignment(t) \/ IsAlignedQuery(t)
           \/ GetMachineName(t)
  <2>1. pc'[t] = "idle" /\ (ran'[t] = ran[t] \/ op[t].kind \notin PtrVars)
    BY <1>2, <1>7 DEF Manual, GetFuncDesc, GetAlignment, IsAlignedQuery, GetMachineName,
       Execute, Return, Goto, Domains, ThreadInv, PtrVars
  <2>2. RunInv(t)'
    BY <1>1, <1>2, <2>1 DEF RunInv, Executed
  <2> QED BY <1>3, <2>2
<1>8. CASE CallStub(t) \/ CallDispatcher(t) \/ GetMachine(t) \/ SelectMachine(t)
           \/ StoreAlignment(t) \/ StoreMask(t) \/ NameMachine(t)
  <2>1. pc'[t] \notin {"store_a", "store_u"} /\ UNCHANGED <<resume, ran>>
    BY <1>2, <1>8, AfterMachinePlace DEF CallStub, CallDispatcher, GetMachine, SelectMachine,
       StoreAlignment, StoreMask, NameMachine, Goto, Domains, ThreadInv, local, InGetMachine
  <2>2. RunInv(t)'
    BY <1>1, <1>2, <2>1 DEF RunInv, Executed
  <2> QED BY <1>3, <2>2
<1>9. CASE CheckPrefs(t) \/ LoadPreferences(t) \/ StorePrefs(t) \/ StoreNPrefs(t)
           \/ StoreLoaded(t) \/ RankAligned(t) \/ StoreKern(t)
  <2>1. pc'[t] \notin {"store_a", "store_u"} /\ UNCHANGED <<resume, ran>>
    BY <1>2, <1>9 DEF CheckPrefs, LoadPreferences, StorePrefs, StoreNPrefs, StoreLoaded,
       RankAligned, Rank, StoreKern, StorePtr, Goto, Domains, local
  <2>2. RunInv(t)'
    BY <1>1, <1>2, <2>1 DEF RunInv, Executed
  <2> QED BY <1>3, <2>2
<1>10. CASE StoreKernA(t) \/ StoreKernU(t)
  <2>1. pc[t] \in {"store_a", "store_u"} /\ UNCHANGED <<resume, ran, rank>>
    BY <1>10 DEF StoreKernA, StoreKernU, StorePtr, Goto
  <2>2. RunInv(t)'
    BY <1>1, <1>2, <2>1 DEF RunInv, Executed
  <2> QED BY <1>3, <2>2
<1> QED BY <1>4, <1>5, <1>6, <1>7, <1>8, <1>9, <1>10 DEF Continue

LEMMA NextKeepsRuns ==
  ASSUME UserNamesUnaligned, IInv, ReadyInv, RunsInv, [Next]_vars
  PROVE  RunsInv'
<1>1. ASSUME NEW t \in Threads, NEW o \in Requests, Begin(t, o) PROVE RunsInv'
  <2>1. Frame(t) /\ UNCHANGED <<mem, buf>> /\ Domains
    BY <1>1, BeginKeeps DEF Begin, IInv, ControlInv
  <2>2. op'[t] = o /\ ran'[t] = 0 /\ pc'[t] = Entry(o)
        /\ (o.kind \in PtrVars => resume'[t] = Ptr(o.kern, o.kind))
    BY <1>1, <2>1 DEF Begin, Goto, Domains
  <2>3. o.kind = "kern_a" => OnBoundary(o.bufs, Alignment[BestMachine])
    BY DEF Requests, KernelCalls, ManualCalls, Queries, Calls
  <2>4. o.kind \in PtrVars /\ Ptr(o.kern, o.kind) = Ptr(o.kern, "kern_a") => o.kind = "kern_a"
    BY DEF Ptr
  <2>5. RunInv(t)'
    BY <2>2, <2>3, <2>4 DEF RunInv, Entry
  <2>6. \A u \in Threads \ {t} : RunInv(u)'
    BY <2>1 DEF RunsInv, RunInv, Frame, Executed
  <2> QED BY <2>1, <2>5, <2>6 DEF RunsInv, UnalignedStored
<1>2. ASSUME NEW t \in Threads, Publish(t) PROVE RunsInv'
  <2>1. PICK l \in DOMAIN buf[t] :
          /\ mem' = [mem EXCEPT ![l] = buf[t][l]]
          /\ buf' = [buf EXCEPT ![t] = [x \in DOMAIN buf[t] \ {l} |-> buf[t][x]]]
    BY <1>2 DEF Publish
  <2>2. MemoryInv /\ UNCHANGED <<pc, op, resume, rank, ran>>
    BY <1>2 DEF IInv, Publish, local
  <2>3. \A x \in Loc : mem'[x] = mem[x] \/ (x \in DOMAIN buf[t] /\ mem'[x] = buf[t][x])
    BY <2>1, <2>2 DEF MemoryInv
  <2>4. \A u \in Threads : \A x \in DOMAIN buf'[u] :
          x \in DOMAIN buf[u] /\ buf'[u][x] = buf[u][x]
    BY <2>1, <2>2 DEF MemoryInv
  <2>5. UnalignedStored'
    BY <2>3, <2>4, PtrInLoc DEF RunsInv, UnalignedStored, PtrVars
  <2> QED BY <2>2, <2>5 DEF RunsInv, RunInv, Executed
<1>3. CASE StartThreads \/ RewriteConfig \/ UNCHANGED vars
  BY <1>3 DEF StartThreads, RewriteConfig, vars, local, RunsInv, RunInv, UnalignedStored,
     Executed
<1> QED BY <1>1, <1>2, <1>3, ContinueKeepsRuns DEF Next

(* If one call returns before the threads are started, and nobody names an *)
(* implementation for unaligned buffers that requires alignment, no call   *)
(* through kern, kern_a or kern_u executes an aligned implementation on    *)
(* buffers off the machine's boundary; for any number of threads and any   *)
(* delay of their stores.  Without InitFirst this is false (run            *)
(* dispatch_first_use).                                                    *)
THEOREM DispatchNoMisalignedRun ==
  InitFirst /\ UserNamesUnaligned => (Spec => []NoMisalignedRun)
<1> SUFFICES ASSUME InitFirst, UserNamesUnaligned PROVE Spec => []NoMisalignedRun
  OBVIOUS
<1>1. RunsInv => NoMisalignedRun
  BY DEF RunsInv, RunInv, NoMisalignedRun
<1>2. Init => ReadyInv
  BY InitReady
<1>3. IInv /\ ReadyInv /\ RunsInv /\ [Next]_vars => RunsInv'
  BY NextKeepsRuns
<1> QED BY <1>1, <1>2, <1>3, InvariantHolds, NextKeepsReady, InitRuns, PTL DEF Spec

-----------------------------------------------------------------------------
(***************************************************************************)
(* From here on, a store is visible to all threads at once (Delayed = 0):  *)
(* the theorems say what holds of every interleaving of the threads'       *)
(* accesses.                                                               *)
(***************************************************************************)

LEMMA DirectLoad ==
  ASSUME Delayed = 0, MemoryInv, NEW t \in Threads, NEW l
  PROVE  Load(t, l) = mem[l]
BY DEF MemoryInv, Load

(* The preference list.  While the file is not rewritten, all threads that *)
(* load it load the same; the length is stored after the pointer and the   *)
(* flag after the length, so that a thread that sees the flag sees the     *)
(* whole list.                                                             *)
FileLength == Len(Configs[file])

PrefsShared ==
  /\ mem[Lib("prefs")] \in {0, file}
  /\ mem[Lib("n_prefs")] \in {0, FileLength}
  /\ mem[Lib("n_prefs")] # 0 => mem[Lib("prefs")] = file
  /\ mem[Lib("prefs_loaded")] = 1 => mem[Lib("n_prefs")] = FileLength

PrefsLocal(t) ==
  /\ pc[t] \in {"store_prefs", "store_n", "store_loaded"} => got[t] = file
  /\ pc[t] = "store_n" /\ FileLength # 0 => mem[Lib("prefs")] = file
  /\ pc[t] \in {"store_loaded", "rank_a", "rank_u"} => mem[Lib("n_prefs")] = FileLength
  /\ pc[t] # "crashed"

PrefsInv == PrefsShared /\ \A t \in Threads : PrefsLocal(t)

LEMMA ConfigLists ==
  ASSUME IInv
  PROVE  /\ Configs[file] \in Seq([name : STRING, impl_a : STRING, impl_u : STRING])
         /\ FileLength \in Nat
         /\ FileLength = 0 <=> Configs[file] = <<>>
         /\ file # 0
<1> DEFINE R == [name : STRING, impl_a : STRING, impl_u : STRING]
<1>1. file \in Versions
  BY DEF IInv, ControlInv, Domains
<1>2. Configs \in Seq(Seq(R))
  BY FlagsAssumption
<1>3. file \in DOMAIN Configs /\ file # 0
  BY <1>1, <1>2 DEF Versions
<1> HIDE DEF R
<1>4. Configs[file] \in Seq(R)
  BY <1>2, <1>3
<1>5. Len(Configs[file]) = 0 <=> Configs[file] = <<>>
  BY <1>4, EmptySeq
<1> QED BY <1>3, <1>4, <1>5 DEF FileLength, R

(* The list a thread that ranks sees is the whole list of the file.        *)
LEMMA WholeListSeen ==
  ASSUME Delayed = 0, IInv, PrefsInv, NEW t \in Threads, pc[t] \in {"rank_a", "rank_u"}
  PROVE  /\ Load(t, Lib("n_prefs")) <= Len(PrefsAt(Load(t, Lib("prefs"))))
         /\ Visible(PrefsAt(Load(t, Lib("prefs"))), Load(t, Lib("n_prefs"))) = Configs[file]
<1> DEFINE p == mem[Lib("prefs")]
           list == PrefsAt(p)
<1>1. Load(t, Lib("prefs")) = p /\ Load(t, Lib("n_prefs")) = FileLength
  BY DirectLoad DEF IInv, PrefsInv, PrefsLocal
<1>2. p \in {0, file} /\ (FileLength # 0 => p = file)
  <2>1. mem[Lib("n_prefs")] = FileLength
    BY DEF PrefsInv, PrefsLocal
  <2> QED BY <2>1 DEF PrefsInv, PrefsShared
<1>3. CASE FileLength # 0
  <2>1. list = Configs[file] /\ FileLength = Len(list)
    BY <1>2, <1>3, ConfigLists DEF PrefsAt, FileLength
  <2>2. SubSeq(list, 1, Len(list)) = list
    BY <2>1, ConfigLists, SubSeqFull
  <2>3. Visible(list, FileLength) = list
    BY <2>1, <2>2, ConfigLists DEF Visible
  <2> QED BY <1>1, <2>1, <2>3, ConfigLists
<1>4. CASE FileLength = 0
  <2>1. Configs[file] = <<>>
    BY <1>4, ConfigLists
  <2>2. list = <<>> /\ Len(list) = 0
    BY <1>2, <2>1 DEF PrefsAt
  <2>3. Visible(list, FileLength) = <<>>
    BY <1>4, <2>2, SubSeqEmpty DEF Visible
  <2> QED BY <1>1, <1>4, <2>1, <2>2, <2>3
<1> QED BY <1>3, <1>4

(* The stores to the three statics of volk_rank_archs.                     *)
LEMMA PrefsStores ==
  ASSUME Delayed = 0, IInv, NEW t \in Threads, Continue(t)
  PROVE  /\ mem'[Lib("prefs")] =
              IF StorePrefs(t) /\ Configs[got[t]] # <<>> THEN got[t] ELSE mem[Lib("prefs")]
         /\ mem'[Lib("n_prefs")] =
              IF StoreNPrefs(t) THEN Len(Configs[got[t]]) ELSE mem[Lib("n_prefs")]
         /\ mem'[Lib("prefs_loaded")] = IF StoreLoaded(t) THEN 1 ELSE mem[Lib("prefs_loaded")]
<1>1. DOMAIN mem = Loc /\ \A w \in LibVars : Lib(w) \in Loc
  BY LibInLoc DEF IInv, MemoryInv
<1>2. \A l, v : Store(t, l, v) => mem' = [mem EXCEPT ![l] = v]
  BY DEF Store
<1>3. CASE StorePrefs(t)
  BY <1>1, <1>2, <1>3 DEF StorePrefs, StoreNPrefs, StoreLoaded, Goto, Lib, LibVars
<1>4. CASE StoreNPrefs(t)
  BY <1>1, <1>2, <1>4 DEF StorePrefs, StoreNPrefs, StoreLoaded, Goto, Lib, LibVars
<1>5. CASE StoreLoaded(t)
  BY <1>1, <1>2, <1>5 DEF StorePrefs, StoreNPrefs, StoreLoaded, Goto, Lib, LibVars
<1>6. CASE ~StorePrefs(t) /\ ~StoreNPrefs(t) /\ ~StoreLoaded(t)
  <2>1. \/ UNCHANGED mem
        \/ \E v : Store(t, Lib("machine"), v) \/ Store(t, Lib("alignment"), v)
                  \/ Store(t, Lib("mask"), v) \/ Store(t, Lib("named_machine"), v)
        \/ \E w \in PtrVars : \E v : Store(t, Ptr(op[t].kern, w), v)
    <3>1. CASE CallStub(t) \/ CallDispatcher(t) \/ CallImpl(t) \/ Dispatch(t) \/ GetMachine(t)
               \/ CheckPrefs(t) \/ LoadPreferences(t) \/ RankAligned(t) \/ RankUnaligned(t)
               \/ Manual(t) \/ GetFuncDesc(t) \/ GetAlignment(t) \/ IsAlignedQuery(t)
               \/ GetMachineName(t)
      BY <3>1 DEF CallStub, CallDispatcher, CallImpl, Dispatch, GetMachine, CheckPrefs,
         LoadPreferences, RankAligned, RankUnaligned, Rank, Manual, GetFuncDesc, GetAlignment,
         IsAlignedQuery, GetMachineName, Execute, Return
    <3>2. CASE SelectMachine(t) \/ StoreAlignment(t) \/ StoreMask(t) \/ NameMachine(t)
      BY <3>2 DEF SelectMachine, StoreAlignment, StoreMask, NameMachine
    <3>3. CASE StoreKernA(t) \/ StoreKernU(t) \/ StoreKern(t)
      BY <3>3 DEF StoreKernA, StoreKernU, StoreKern, StorePtr, PtrVars
    <3> QED BY <1>6, <3>1, <3>2, <3>3 DEF Continue
  <2>2. \A w \in PtrVars :
          Ptr(op[t].kern, w) \notin {Lib("prefs"), Lib("n_prefs"), Lib("prefs_loaded")}
    BY DEF Ptr, Lib, PtrVars
  <2> QED BY <1>1, <1>2, <1>6, <2>1, <2>2 DEF Lib, LibVars
<1> QED BY <1>3, <1>4, <1>5, <1>6

LEMMA ContinueKeepsPrefs ==
  ASSUME Delayed = 0, IInv, PrefsInv, NEW t \in Threads, Continue(t)
  PROVE  PrefsInv'
<1> DEFINE p == mem[Lib("prefs")]
           n == mem[Lib("n_prefs")]
           loaded == mem[Lib("prefs_loaded")]
<1>1. file' = file /\ op' = op /\ Frame(t) /\ Domains
  BY ContinueLeaves, ContinueKeeps DEF IInv, ControlInv
<1>2. PrefsLocal(t) /\ PrefsShared /\ FileLength' = FileLength /\ FileLength \in Nat /\ file # 0
  BY <1>1, ConfigLists DEF PrefsInv, FileLength
<1>3. /\ p' = IF StorePrefs(t) /\ Configs[got[t]] # <<>> THEN got[t] ELSE p
      /\ n' = IF StoreNPrefs(t) THEN Len(Configs[got[t]]) ELSE n
      /\ loaded' = IF StoreLoaded(t) THEN 1 ELSE loaded
  BY PrefsStores
<1>4. StorePrefs(t) => got[t] = file /\ pc[t] = "store_prefs"
  BY <1>2 DEF PrefsLocal, StorePrefs, Goto
<1>5. StoreNPrefs(t) => got[t] = file /\ pc[t] = "store_n" /\ (FileLength # 0 => p = file)
  BY <1>2 DEF PrefsLocal, StoreNPrefs, Goto
<1>6. StoreLoaded(t) => n = FileLength /\ pc[t] = "store_loaded"
  BY <1>2 DEF PrefsLocal, StoreLoaded, Goto
<1>7. /\ p' = IF StorePrefs(t) /\ Configs[file] # <<>> THEN file ELSE p
      /\ n' = IF StoreNPrefs(t) THEN FileLength ELSE n
  BY <1>3, <1>4, <1>5 DEF FileLength
<1>8. (p = file => p' = file) /\ (n = FileLength => n' = FileLength)
  BY <1>7
<1>9. PrefsShared'
  BY <1>1, <1>2, <1>3, <1>5, <1>6, <1>7 DEF PrefsShared
<1>10. \A u \in Threads \ {t} : PrefsLocal(u)'
  BY <1>1, <1>2, <1>8 DEF PrefsInv, PrefsLocal, Frame
<1>11. PrefsLocal(t)'
  <2>1. CASE StorePrefs(t)
    <3>1. pc'[t] = "store_n" /\ got'[t] = file
      BY <1>1, <1>4, <2>1 DEF StorePrefs, Goto, Domains, local
    <3>2. FileLength # 0 => p' = file
      BY <1>7, <2>1, ConfigLists
    <3> QED BY <1>1, <1>2, <3>1, <3>2 DEF PrefsLocal
  <2>2. CASE StoreNPrefs(t)
    <3>1. pc'[t] = "store_loaded" /\ got'[t] = file
      BY <1>1, <1>5, <2>2 DEF StoreNPrefs, Goto, Domains, local
    <3> QED BY <1>1, <1>2, <1>7, <2>2, <3>1 DEF PrefsLocal
  <2>3. CASE StoreLoaded(t)
    <3>1. pc'[t] = "rank_a"
      BY <1>1, <2>3 DEF StoreLoaded, Goto, Domains
    <3> QED BY <1>1, <1>2, <1>6, <1>8, <2>3, <3>1 DEF PrefsLocal
  <2>4. CASE CheckPrefs(t)
    <3>1. pc'[t] = "load" \/ (pc'[t] = "rank_a" /\ loaded = 1)
      <4>1. Load(t, Lib("prefs_loaded")) = loaded
        BY DirectLoad DEF IInv
      <4> QED BY <1>1, <2>4, <4>1 DEF CheckPrefs, Goto, Domains
    <3> QED BY <1>1, <1>2, <1>8, <3>1 DEF PrefsLocal, PrefsShared
  <2>5. CASE LoadPreferences(t)
    BY <1>1, <1>2, <2>5 DEF LoadPreferences, Goto, Domains, PrefsLocal
  <2>6. CASE RankAligned(t) \/ RankUnaligned(t)
    <3>1. pc[t] \in {"rank_a", "rank_u"}
      BY <2>6 DEF RankAligned, RankUnaligned, Rank, Goto
    <3>2. ScanInBounds(t)
      BY <3>1, WholeListSeen DEF ScanInBounds, InBounds
    <3>3. pc'[t] \in {"rank_u", "store_a"}
      BY <1>1, <2>6, <3>2 DEF RankAligned, RankUnaligned, Rank, Goto, Domains
    <3> QED BY <1>1, <1>2, <1>8, <3>1, <3>3 DEF PrefsLocal
  <2>7. CASE StoreKernA(t) \/ StoreKernU(t) \/ StoreKern(t) \/ CallStub(t)
             \/ CallDispatcher(t) \/ Dispatch(t) \/ SelectMachine(t) \/ StoreAlignment(t)
    <3>1. pc'[t] \in {"store_u", "store_kern", "call", "machine", "dispatch",
                      "store_alignment", "store_mask"}
      BY <1>1, <2>7 DEF StoreKernA, StoreKernU, StoreKern, CallStub, CallDispatcher, Dispatch,
         SelectMachine, StoreAlignment, Goto, Domains
    <3> QED BY <3>1 DEF PrefsLocal
  <2>8. CASE GetMachine(t) \/ StoreMask(t)
    <3>1. pc[t] \in InGetMachine /\ pc'[t] \in {AfterMachine(t), "select"}
      BY <1>1, <2>8 DEF GetMachine, StoreMask, Goto, Domains, InGetMachine
    <3> QED BY <3>1, AfterMachinePlace DEF PrefsLocal
  <2>9. CASE CallImpl(t) \/ Manual(t) \/ GetFuncDesc(t) \/ GetAlignment(t)
             \/ IsAlignedQuery(t) \/ GetMachineName(t) \/ NameMachine(t)
    <3>1. pc'[t] \in {"idle", "named_machine"}
      BY <1>1, <2>9 DEF CallImpl, Manual, GetFuncDesc, GetAlignment, IsAlignedQuery,
         GetMachineName, NameMachine, Execute, Return, Goto, Domains
    <3> QED BY <3>1 DEF PrefsLocal
  <2> QED BY <2>1, <2>2, <2>3, <2>4, <2>5, <2>6, <2>7, <2>8, <2>9 DEF Continue
<1> QED BY <1>9, <1>10, <1>11 DEF PrefsInv

LEMMA NextKeepsPrefs ==
  ASSUME Delayed = 0, ConfigStable, IInv, PrefsInv, [Next]_vars
  PROVE  PrefsInv'
<1>1. ASSUME NEW t \in Threads, NEW o \in Requests, Begin(t, o) PROVE PrefsInv'
  <2>1. Frame(t) /\ UNCHANGED <<mem, file>> /\ pc'[t] = Entry(o)
    BY <1>1, BeginKeeps DEF Begin, Goto, IInv, ControlInv, Domains
  <2>2. PrefsLocal(t)'
    BY <2>1 DEF PrefsLocal, Entry
  <2> QED BY <2>1, <2>2 DEF PrefsInv, PrefsShared, PrefsLocal, Frame, FileLength
<1>2. ASSUME NEW t \in Threads, Publish(t) PROVE FALSE
  BY <1>2 DEF Publish, IInv, MemoryInv
<1>3. CASE StartThreads \/ UNCHANGED vars
  BY <1>3 DEF StartThreads, vars, local, PrefsInv, PrefsShared, PrefsLocal, FileLength
<1>4. ~RewriteConfig
  BY DEF RewriteConfig
<1> QED BY <1>1, <1>2, <1>3, <1>4, ContinueKeepsPrefs DEF Next

LEMMA InitPrefs == Init => PrefsInv
<1> SUFFICES ASSUME Init PROVE PrefsInv
  OBVIOUS
<1>1. \A w \in LibVars : mem[Lib(w)] = 0
  BY LibInLoc DEF Init
<1>2. PrefsShared
  BY <1>1 DEF PrefsShared, LibVars
<1>3. \A t \in Threads : PrefsLocal(t)
  BY DEF Init, PrefsLocal
<1> QED BY <1>2, <1>3 DEF PrefsInv

(* While nobody rewrites the config file, the scan of volk_rank_archs      *)
(* never leaves the preference array, although pointer, length and flag    *)
(* are three unsynchronised variables and every thread that finds the flag *)
(* clear loads the list again.                                             *)
THEOREM DispatchPrefsInBounds ==
  Delayed = 0 /\ ConfigStable => (Spec => []PrefsInBounds)
<1> SUFFICES ASSUME Delayed = 0, ConfigStable PROVE Spec => []PrefsInBounds
  OBVIOUS
<1>1. PrefsInv => PrefsInBounds
  BY DEF PrefsInv, PrefsLocal, PrefsInBounds
<1>2. IInv /\ PrefsInv /\ [Next]_vars => PrefsInv'
  BY NextKeepsPrefs
<1> QED BY <1>1, <1>2, InvariantHolds, InitPrefs, PTL DEF Spec

(* What every thread chooses.                                              *)
Choice(k, align) ==
  RankArchs(Env, Configs[file], k, Impls[k], Table(k, BestMachine), align)

ChoiceShared(k) ==
  /\ mem[Ptr(k, "kern_a")] \in {0, Choice(k, TRUE)}
  /\ mem[Ptr(k, "kern_u")] \in {0, Choice(k, FALSE)}

ChoiceLocal(t) ==
  /\ pc[t] \in {"rank_u", "store_a"} => rank[t].a = Choice(op[t].kern, TRUE)
  /\ pc[t] \in {"store_a", "store_u"} => rank[t].u = Choice(op[t].kern, FALSE)

ChoicesInv == (\A k \in Kernels : ChoiceShared(k)) /\ \A t \in Threads : ChoiceLocal(t)

LEMMA RankIsChoice ==
  ASSUME Delayed = 0, IInv, PrefsInv, NEW t \in Threads, pc[t] \in {"rank_a", "rank_u"},
         NEW align
  PROVE  ScanInBounds(t) /\ RankFor(t, align) = Choice(op[t].kern, align)
<1>1. Load(t, Lib("machine")) = BestMachine
  BY DEF IInv, ControlInv, ThreadInv, HasMachine
<1>2. RankFor(t, align) = Choice(op[t].kern, align)
  BY <1>1, WholeListSeen DEF RankFor, Choice
<1> QED BY <1>2, WholeListSeen DEF ScanInBounds, InBounds

LEMMA ContinueKeepsChoices ==
  ASSUME Delayed = 0, IInv, PrefsInv, ChoicesInv, NEW t \in Threads, Continue(t)
  PROVE  ChoicesInv'
<1>1. file' = file /\ op' = op /\ Frame(t) /\ Domains /\ ThreadInv(t) /\ MemoryInv
  BY ContinueLeaves, ContinueKeeps DEF IInv, ControlInv
<1>2. \A k, align : Choice(k, align)' = Choice(k, align)
  BY <1>1 DEF Choice
<1>3. ASSUME NEW k \in Kernels PROVE ChoiceShared(k)'
  <2>1. ASSUME NEW v \in {"kern_a", "kern_u"}, ~Untouched(Ptr(k, v))
        PROVE  /\ k = op[t].kern
               /\ v = "kern_a" => mem'[Ptr(k, v)] = rank[t].a /\ pc[t] = "store_a"
               /\ v = "kern_u" => mem'[Ptr(k, v)] = rank[t].u /\ pc[t] = "store_u"
    BY <1>1, <2>1, PtrStores, PtrInLoc
    DEF StoreKernA, StoreKernU, StorePtr, Store, Goto, PtrVars, MemoryInv
  <2>2. ChoiceShared(k) /\ ChoiceLocal(t)
    BY DEF ChoicesInv
  <2>3. \A v \in {"kern_a", "kern_u"} : Untouched(Ptr(k, v)) => mem'[Ptr(k, v)] = mem[Ptr(k, v)]
    BY DEF Untouched
  <2> QED BY <1>2, <2>1, <2>2, <2>3 DEF ChoiceShared, ChoiceLocal
<1>4. \A u \in Threads \ {t} : ChoiceLocal(u)'
  BY <1>1, <1>2 DEF ChoicesInv, ChoiceLocal, Frame
<1>5. ChoiceLocal(t)'
  <2>1. CASE RankAligned(t)
    <3>1. pc[t] = "rank_a" /\ pc'[t] = "rank_u" /\ rank'[t].a = Choice(op[t].kern, TRUE)
      <4>1. pc[t] = "rank_a" /\ ScanInBounds(t) /\ RankFor(t, TRUE) = Choice(op[t].kern, TRUE)
        BY <2>1, RankIsChoice DEF RankAligned, Rank, Goto
      <4>2. pc'[t] = "rank_u" /\ rank'[t].a = RankFor(t, TRUE)
        <5>1. pc'[t] = "rank_u"
          BY <1>1, <2>1, <4>1 DEF RankAligned, Rank, Goto, Domains
        <5>2. rank' = [rank EXCEPT ![t]["a"] = RankFor(t, TRUE)]
          <6>1. RankFor(t, "a" = "a") = RankFor(t, TRUE)
            OBVIOUS
          <6> QED BY <2>1, <4>1, <6>1 DEF RankAligned, Rank
        <5>3. DOMAIN rank = Threads /\ DOMAIN rank[t] = {"a", "u"}
          BY <1>1 DEF Domains
        <5> QED BY <5>1, <5>2, <5>3
      <4> QED BY <4>1, <4>2
    <3> QED BY <1>1, <1>2, <3>1 DEF ChoiceLocal
  <2>2. CASE RankUnaligned(t)
    <3>1. pc[t] = "rank_u" /\ pc'[t] = "store_a" /\ rank'[t].u = Choice(op[t].kern, FALSE)
          /\ rank'[t].a = rank[t].a
      BY <1>1, <2>2, RankIsChoice DEF RankUnaligned, Rank, Goto, Domains
    <3> QED BY <1>1, <1>2, <3>1 DEF ChoicesInv, ChoiceLocal
  <2>3. CASE StoreKernA(t)
    BY <1>1, <1>2, <2>3 DEF StoreKernA, StorePtr, Goto, Domains, ChoicesInv, ChoiceLocal
  <2>4. CASE ~RankAligned(t) /\ ~RankUnaligned(t) /\ ~StoreKernA(t)
    <3>1. pc'[t] \notin {"rank_u", "store_a", "store_u"}
      <4>1. CASE GetMachine(t) \/ StoreMask(t)
        <5>1. pc[t] \in InGetMachine /\ pc'[t] \in {AfterMachine(t), "select"}
          BY <1>1, <4>1 DEF GetMachine, StoreMask, Goto, Domains, InGetMachine
        <5> QED BY <5>1, AfterMachinePlace
      <4>2. CASE NameMachine(t)
        BY <1>1, <4>2 DEF NameMachine
      <4> QED BY <1>1, <2>4, <4>1, <4>2 DEF Continue, Goto, Execute, Return, Domains,
           CallStub, CallDispatcher, CallImpl, Dispatch, SelectMachine, StoreAlignment,
           CheckPrefs, LoadPreferences, StorePrefs, StoreNPrefs, StoreLoaded, StoreKernU,
           StoreKern, Manual, GetFuncDesc, GetAlignment, IsAlignedQuery, GetMachineName
    <3> QED BY <3>1 DEF ChoiceLocal
  <2> QED BY <2>1, <2>2, <2>3, <2>4
<1> QED BY <1>3, <1>4, <1>5 DEF ChoicesInv

LEMMA NextKeepsChoices ==
  ASSUME Delayed = 0, ConfigStable, IInv, PrefsInv, ChoicesInv, [Next]_vars
  PROVE  ChoicesInv'
<1>1. ASSUME NEW t \in Threads, NEW o \in Requests, Begin(t, o) PROVE ChoicesInv'
  <2>1. Frame(t) /\ UNCHANGED <<mem, file>> /\ pc'[t] = Entry(o)
    BY <1>1, BeginKeeps DEF Begin, Goto, IInv, ControlInv, Domains
  <2>2. ChoiceLocal(t)'
    BY <2>1 DEF ChoiceLocal, Entry
  <2> QED BY <2>1, <2>2 DEF ChoicesInv, ChoiceShared, ChoiceLocal, Frame, Choice
<1>2. ASSUME NEW t \in Threads, Publish(t) PROVE FALSE
  BY <1>2 DEF Publish, IInv, MemoryInv
<1>3. CASE StartThreads \/ UNCHANGED vars
  BY <1>3 DEF StartThreads, vars, local, ChoicesInv, ChoiceShared, ChoiceLocal, Choice
<1>4. ~RewriteConfig
  BY DEF RewriteConfig
<1> QED BY <1>1, <1>2, <1>3, <1>4, ContinueKeepsChoices DEF Next

LEMMA InitChoices == Init => ChoicesInv
<1> SUFFICES ASSUME Init PROVE ChoicesInv
  OBVIOUS
<1>1. \A k \in Kernels, v \in PtrVars : mem[Ptr(k, v)] = 0
  BY PtrInLoc DEF Init
<1>2. \A k \in Kernels : ChoiceShared(k)
  BY <1>1 DEF ChoiceShared, PtrVars
<1>3. \A t \in Threads : ChoiceLocal(t)
  BY DEF Init, ChoiceLocal
<1> QED BY <1>2, <1>3 DEF ChoicesInv

LEMMA NextKeepsFinal ==
  ASSUME Delayed = 0, ConfigStable, IInv, ChoicesInv, ChoicesInv', [Next]_vars,
         NEW k \in Kernels, NEW v \in {"kern_a", "kern_u"}, mem[Ptr(k, v)] # Stub
  PROVE  mem'[Ptr(k, v)] = mem[Ptr(k, v)]
<1>1. IInv' /\ Kept /\ MemoryInv /\ Main \in Threads
  BY NextKeepsIInv, NextKept, ThreadsAssumption DEF IInv
<1>2. \A l : Load(Main, l) = mem[l] /\ Load(Main, l)' = mem'[l]
  BY <1>1 DEF IInv, MemoryInv, Load
<1>3. mem'[Ptr(k, v)] # Stub
  BY <1>1, <1>2, SeenStays DEF PtrVars
<1>4. file' = file
  <2>1. ASSUME NEW t \in Threads, Continue(t) PROVE file' = file
    BY <2>1, ContinueLeaves
  <2>2. CASE (\E t \in Threads : (\E o \in Requests : Begin(t, o)) \/ Publish(t))
             \/ StartThreads \/ UNCHANGED vars
    BY <2>2 DEF Begin, Publish, StartThreads, vars
  <2> QED BY <2>1, <2>2 DEF Next, RewriteConfig
<1>5. Choice(k, v = "kern_a")' = Choice(k, v = "kern_a")
  BY <1>4 DEF Choice
<1>6. /\ mem[Ptr(k, v)] = Choice(k, v = "kern_a")
      /\ mem'[Ptr(k, v)] = Choice(k, v = "kern_a")'
  BY <1>3 DEF ChoicesInv, ChoiceShared, Stub, Choice
<1> QED BY <1>5, <1>6

(* While nobody rewrites the config file, a function pointer that is set   *)
(* is never set to another implementation: the threads that initialise a   *)
(* kernel twice choose alike.                                              *)
THEOREM DispatchChoiceIsFinal ==
  Delayed = 0 /\ ConfigStable => (Spec => ChoiceIsFinal)
<1> SUFFICES ASSUME Delayed = 0, ConfigStable PROVE Spec => ChoiceIsFinal
  OBVIOUS
<1>1. IInv /\ PrefsInv /\ [Next]_vars => PrefsInv'
  BY NextKeepsPrefs
<1>2. IInv /\ PrefsInv /\ ChoicesInv /\ [Next]_vars => ChoicesInv'
  BY NextKeepsChoices
<1>3. IInv /\ ChoicesInv /\ ChoicesInv' /\ [Next]_vars =>
        [\A k \in Kernels, v \in {"kern_a", "kern_u"} :
           mem[Ptr(k, v)] # Stub => mem'[Ptr(k, v)] = mem[Ptr(k, v)]]_vars
  BY NextKeepsFinal
<1> QED BY <1>1, <1>2, <1>3, InvariantHolds, InitPrefs, InitChoices, PTL
        DEF Spec, ChoiceIsFinal

-----------------------------------------------------------------------------
(***************************************************************************)
(* The refinement.  A call of the abstract specification begins where the  *)
(* dispatcher's does, and finishes where it executes or answers; every     *)
(* other step of the dispatcher is a stutter.  What is left to show is     *)
(* that the pointer a call ends up with is the one for its buffers.        *)
(***************************************************************************)

ViaInv(t) ==
  /\ pc[t] # "idle" => ran[t] = 0 /\ answer[t] = -1
  /\ pc[t] # "idle" /\ op[t].kind \in {"kern_a", "kern_u"} =>
       resume[t] = Ptr(op[t].kern, op[t].kind)
  /\ pc[t] = "dispatch" => op[t].kind = "kern"
  /\ pc[t] # "idle" /\ op[t].kind = "kern" =>
       resume[t] \in {Ptr(op[t].kern, "kern"),
                      Ptr(op[t].kern, IF OnBoundary(op[t].bufs, Alignment[BestMachine])
                                      THEN "kern_a" ELSE "kern_u")}

CallsInv == \A t \in Threads : ViaInv(t)

LEMMA InitCalls == Init => CallsInv
BY DEF Init, CallsInv, ViaInv

(* Every step of a call either stays inside it, doing nothing the caller   *)
(* can see, or is one of those that return.                                *)
LEMMA ContinueSilent ==
  ASSUME IInv, PrefsInv', NEW t \in Threads, Continue(t)
  PROVE  \/ /\ CallImpl(t) \/ Manual(t) \/ GetFuncDesc(t) \/ GetAlignment(t)
               \/ IsAlignedQuery(t) \/ GetMachineName(t)
         \/ pc'[t] # "idle" /\ UNCHANGED <<ran, answer>>
<1>1. Domains
  BY DEF IInv, ControlInv
<1>2. CASE CallStub(t) \/ CallDispatcher(t) \/ Dispatch(t) \/ SelectMachine(t)
           \/ StoreAlignment(t) \/ CheckPrefs(t) \/ LoadPreferences(t)
  BY <1>1, <1>2 DEF CallStub, CallDispatcher, Dispatch, SelectMachine, StoreAlignment,
     CheckPrefs, LoadPreferences, Goto, Domains, local
<1>3. CASE StorePrefs(t) \/ StoreNPrefs(t) \/ StoreLoaded(t) \/ RankAligned(t)
           \/ RankUnaligned(t) \/ StoreKernA(t) \/ StoreKernU(t) \/ StoreKern(t)
  BY <1>1, <1>3 DEF StorePrefs, StoreNPrefs, StoreLoaded, RankAligned, RankUnaligned, Rank,
     StoreKernA, StoreKernU, StoreKern, StorePtr, Goto, Domains, local
<1>4. CASE GetMachine(t) \/ StoreMask(t)
  <2>1. pc[t] \in InGetMachine /\ pc'[t] \in {AfterMachine(t), "select"}
    BY <1>1, <1>4 DEF GetMachine, StoreMask, Goto, Domains, InGetMachine
  <2>2. UNCHANGED <<ran, answer>>
    BY <1>4 DEF GetMachine, StoreMask, local
  <2> QED BY <2>1, <2>2, AfterMachinePlace
<1>5. CASE NameMachine(t)
  BY <1>5 DEF NameMachine, local
<1> QED BY <1>2, <1>3, <1>4, <1>5 DEF Continue

LEMMA ContinueKeepsCalls ==
  ASSUME IInv, IInv', ReadyInv, PrefsInv', CallsInv, NEW t \in Threads, Continue(t)
  PROVE  CallsInv'
<1>1. op' = op /\ Frame(t) /\ Domains /\ ThreadInv(t) /\ pc[t] # "idle"
  BY ContinueLeaves, ContinueKeeps, ContinueBusy DEF IInv, ControlInv
<1> SUFFICES ViaInv(t)'
  BY <1>1 DEF CallsInv, ViaInv, Frame
<1>2. ViaInv(t)
  BY DEF CallsInv
<1>3. CASE CallImpl(t) \/ Manual(t) \/ GetFuncDesc(t) \/ GetAlignment(t)
           \/ IsAlignedQuery(t) \/ GetMachineName(t)
  <2>1. pc'[t] = "idle"
    BY <1>1, <1>3 DEF CallImpl, Manual, GetFuncDesc, GetAlignment, IsAlignedQuery,
       GetMachineName, Execute, Return, Goto, Domains
  <2> QED BY <2>1 DEF ViaInv
<1>4. CASE UNCHANGED <<ran, answer>> /\ Dispatch(t)
  <2>1. pc[t] = "dispatch" /\ Ready(t)
    BY <1>4, PlaceReady DEF Dispatch, Goto
  <2>2. resume'[t] = Ptr(op[t].kern, IF OnBoundary(op[t].bufs, Alignment[BestMachine])
                                     THEN "kern_a" ELSE "kern_u")
    BY <1>1, <1>4, <2>1, ReadyIsAligned DEF Dispatch, Domains
  <2>3. op[t].kind = "kern"
    BY <1>1, <1>2, <2>1 DEF ViaInv
  <2> QED BY <1>1, <1>2, <1>4, <2>2, <2>3 DEF ViaInv
<1>5. CASE UNCHANGED <<ran, answer>> /\ ~Dispatch(t)
  <2>1. UNCHANGED resume
    BY <1>5 DEF Continue, local, Execute, Return, Rank, StorePtr,
       CallStub, CallDispatcher, CallImpl, GetMachine, SelectMachine, StoreAlignment,
       StoreMask, CheckPrefs, LoadPreferences, StorePrefs, StoreNPrefs, StoreLoaded,
       RankAligned, RankUnaligned, StoreKernA, StoreKernU, StoreKern, Manual, GetFuncDesc,
       GetAlignment, IsAlignedQuery, NameMachine, GetMachineName
  <2>2. pc'[t] = "dispatch" => op[t].kind = "kern"
    <3>1. CASE CallDispatcher(t)
      <4>1. resume[t][2] = "kern" /\ pc[t] = "call"
        BY <3>1 DEF CallDispatcher, Goto
      <4>2. op[t].kind \in PtrVars
        BY <1>1, <4>1 DEF ThreadInv, InCall
      <4> QED BY <1>1, <1>2, <4>1, <4>2 DEF ViaInv, Ptr, PtrVars
    <3>2. CASE ~CallDispatcher(t)
      <4>1. CASE GetMachine(t) \/ StoreMask(t)
        <5>1. pc[t] \in InGetMachine /\ pc'[t] \in {AfterMachine(t), "select"}
          BY <1>1, <4>1 DEF GetMachine, StoreMask, Goto, Domains, InGetMachine
        <5> QED BY <5>1, AfterMachinePlace
      <4>2. CASE ~GetMachine(t) /\ ~StoreMask(t)
        BY <1>1, <1>2, <1>5, <3>2, <4>2
        DEF ViaInv, Continue, Domains, Execute, Return, Rank, Goto, CallStub, CallImpl,
            SelectMachine, StoreAlignment, local, CheckPrefs, LoadPreferences, StorePrefs,
            StoreNPrefs, StoreLoaded, RankAligned, RankUnaligned, StoreKernA, StoreKernU,
            StoreKern, Manual, GetFuncDesc, GetAlignment, IsAlignedQuery, NameMachine,
            GetMachineName
      <4> QED BY <4>1, <4>2
    <3> QED BY <3>1, <3>2
  <2> QED BY <1>1, <1>2, <1>5, <2>1, <2>2 DEF ViaInv
<1> QED BY <1>3, <1>4, <1>5, ContinueSilent

LEMMA NextKeepsCalls ==
  ASSUME IInv, IInv', ReadyInv, PrefsInv', CallsInv, [Next]_vars
  PROVE  CallsInv'
<1>1. ASSUME NEW t \in Threads, NEW o \in Requests, Begin(t, o) PROVE CallsInv'
  <2>1. Frame(t) /\ Domains
    BY <1>1, BeginKeeps DEF IInv, ControlInv
  <2>2. op'[t] = o /\ ran'[t] = 0 /\ answer'[t] = -1 /\ pc'[t] = Entry(o)
        /\ (o.kind \in PtrVars => resume'[t] = Ptr(o.kern, o.kind))
    BY <1>1, <2>1 DEF Begin, Goto, Domains
  <2>3. ViaInv(t)'
    BY <2>2 DEF ViaInv, Entry, PtrVars
  <2> QED BY <2>1, <2>3 DEF CallsInv, ViaInv, Frame
<1>2. CASE (\E t \in Threads : Publish(t)) \/ StartThreads \/ RewriteConfig \/ UNCHANGED vars
  BY <1>2 DEF Publish, StartThreads, RewriteConfig, vars, local, CallsInv, ViaInv
<1> QED BY <1>1, <1>2, ContinueKeepsCalls DEF Next

(* The abstract variable that has no namesake.                             *)
Busy == [t \in Threads |-> pc[t] # "idle"]

LEMMA OneCall ==
  ASSUME NEW t \in Threads, NEW from, NEW to, Goto(t, from, to), DOMAIN pc = Threads,
         from = "idle" <=> to # "idle"
  PROVE  /\ Busy[t] = (from # "idle")
         /\ Busy' = [Busy EXCEPT ![t] = to # "idle"]
<1>1. pc[t] = from /\ pc' = [pc EXCEPT ![t] = to]
  BY DEF Goto
<1>2. \A u \in Threads : (pc'[u] # "idle") = IF u = t THEN to # "idle" ELSE pc[u] # "idle"
  BY <1>1
<1> QED BY <1>1, <1>2 DEF Busy

LEMMA InitAbstract == Init => Abstract!Init
BY DEF Init, Abstract!Init

LEMMA BeginAbstract ==
  ASSUME IInv, NEW t \in Threads, NEW o \in Requests, Begin(t, o)
  PROVE  Abstract!Begin(t)
<1>1. DOMAIN pc = Threads
  BY DEF IInv, ControlInv, Domains
<1>2. Entry(o) # "idle"
  BY DEF Entry
<1>3. /\ ~Busy[t]
      /\ Busy' = [Busy EXCEPT ![t] = TRUE]
  <2>1. Goto(t, "idle", Entry(o))
    BY DEF Begin
  <2>2. \A b : Busy' = [Busy EXCEPT ![t] = Entry(o) # "idle"] /\ (Entry(o) # "idle") = b
               => Busy' = [Busy EXCEPT ![t] = b]
    OBVIOUS
  <2>3. Busy' = [Busy EXCEPT ![t] = Entry(o) # "idle"]
    <3>1. "idle" = "idle" <=> Entry(o) # "idle"
      BY <1>2
    <3> QED BY <1>1, <2>1, <3>1, OneCall
  <2>4. (Entry(o) # "idle") = TRUE
    BY <1>2
  <2>5. ~Busy[t]
    BY <2>1 DEF Busy, Goto
  <2> QED BY <2>2, <2>3, <2>4, <2>5
<1>4. /\ op' = [op EXCEPT ![t] = o]
      /\ ran' = [ran EXCEPT ![t] = 0]
      /\ answer' = [answer EXCEPT ![t] = -1]
      /\ UNCHANGED file
  BY DEF Begin
<1> QED BY <1>3, <1>4 DEF Abstract!Begin, Busy

LEMMA OutcomesKnown ==
  ASSUME IInv, NEW t \in Threads, pc[t] # "idle"
  PROVE  op[t] \in Requests /\ PromisedOutcomes(op[t], file) = OutcomesOf(op[t], file)
<1>1. op[t] \in Requests /\ file \in Versions
  BY DEF IInv, ControlInv, Domains, ThreadInv
<1> QED BY <1>1 DEF PromisedOutcomes, OutcomeTable

LEMMA ReturnAbstract ==
  ASSUME IInv, CallsInv, NEW t \in Threads, NEW value, NEW from, from # "idle",
         Return(t, from, value), [ran |-> 0, answer |-> value] \in OutcomesOf(op[t], file),
         ran \in [Threads -> Nat]
  PROVE  Abstract!Finish(t)
<1> DEFINE out == [ran |-> 0, answer |-> value]
<1>1. DOMAIN pc = Threads /\ pc[t] = from
  BY DEF IInv, ControlInv, Domains, Return, Goto
<1>2. Busy[t] /\ Busy' = [Busy EXCEPT ![t] = FALSE]
  BY <1>1, OneCall DEF Return
<1>3. ran[t] = 0
  BY <1>1 DEF CallsInv, ViaInv
<1>4. ran' = [ran EXCEPT ![t] = out.ran] /\ answer' = [answer EXCEPT ![t] = out.answer]
  BY <1>3 DEF Return
<1>5. out \in PromisedOutcomes(op[t], file) /\ UNCHANGED <<file, op>>
  BY <1>1, OutcomesKnown DEF Return
<1> QED BY <1>2, <1>4, <1>5 DEF Abstract!Finish, Busy

LEMMA ExecuteAbstract ==
  ASSUME IInv, CallsInv, NEW t \in Threads, NEW i, NEW from, from # "idle",
         Execute(t, from, i), [ran |-> i, answer |-> -1] \in OutcomesOf(op[t], file),
         answer \in [Threads -> Int]
  PROVE  Abstract!Finish(t)
<1> DEFINE out == [ran |-> i, answer |-> -1]
<1>1. DOMAIN pc = Threads /\ pc[t] = from
  BY DEF IInv, ControlInv, Domains, Execute, Goto
<1>2. Busy[t] /\ Busy' = [Busy EXCEPT ![t] = FALSE]
  BY <1>1, OneCall DEF Execute
<1>3. answer[t] = -1
  BY <1>1 DEF CallsInv, ViaInv
<1>4. ran' = [ran EXCEPT ![t] = out.ran] /\ answer' = [answer EXCEPT ![t] = out.answer]
  BY <1>3 DEF Execute
<1>5. out \in PromisedOutcomes(op[t], file) /\ UNCHANGED <<file, op>>
  BY <1>1, OutcomesKnown DEF Execute
<1> QED BY <1>2, <1>4, <1>5 DEF Abstract!Finish, Busy

(* The step that ends a call returns what the abstract specification       *)
(* settled for it.                                                         *)
LEMMA ContinueAbstract ==
  ASSUME Delayed = 0, IInv, TypeOK, ReadyInv, PrefsInv, PrefsInv', ChoicesInv, CallsInv,
         NEW t \in Threads, Continue(t)
  PROVE  Abstract!Finish(t) \/ UNCHANGED Abstract!vars
<1>1. op' = op /\ file' = file /\ Domains /\ ThreadInv(t) /\ MemoryInv /\ pc[t] # "idle"
  BY ContinueLeaves, ContinueBusy DEF IInv, ControlInv
<1>2. op[t] \in Requests /\ file \in Versions /\ answer \in [Threads -> Int]
      /\ ran \in [Threads -> Nat]
  BY <1>1 DEF ThreadInv, Domains, TypeOK
<1>3. CASE CallImpl(t)
  <2>1. pc[t] = "call" /\ Execute(t, "call", Load(t, resume[t])) /\ resume[t][2] # "kern"
        /\ Load(t, resume[t]) # 0
    BY <1>3 DEF CallImpl, Stub
  <2>2. op[t].kind \in PtrVars /\ op[t].kern \in Kernels
    BY <1>1, <2>1, RequestShape DEF ThreadInv, InCall
  <2>3. Load(t, resume[t]) = mem[resume[t]]
    BY <1>1, DirectLoad
  <2>4. ViaInv(t) /\ ChoiceShared(op[t].kern)
    BY <2>2 DEF CallsInv, ChoicesInv
  <2>5. /\ mem[Ptr(op[t].kern, "kern_a")] # 0 =>
             mem[Ptr(op[t].kern, "kern_a")] = Choice(op[t].kern, TRUE)
        /\ mem[Ptr(op[t].kern, "kern_u")] # 0 =>
             mem[Ptr(op[t].kern, "kern_u")] = Choice(op[t].kern, FALSE)
    BY <2>4 DEF ChoiceShared
  <2>6. \A align : Promised(op[t], file, align) = Choice(op[t].kern, align)
    BY DEF Promised, Choice
  <2>7. [ran |-> Load(t, resume[t]), answer |-> -1] \in OutcomesOf(op[t], file)
    <3>1. CASE op[t].kind = "kern"
      <4>1. resume[t] = Ptr(op[t].kern, IF OnBoundary(op[t].bufs, Alignment[BestMachine])
                                        THEN "kern_a" ELSE "kern_u")
        BY <2>1, <2>4, <3>1 DEF ViaInv, Ptr
      <4>2. Load(t, resume[t]) =
              Promised(op[t], file, OnBoundary(op[t].bufs, Alignment[BestMachine]))
        <5>1. CASE OnBoundary(op[t].bufs, Alignment[BestMachine])
          BY <2>1, <2>3, <2>5, <2>6, <4>1, <5>1 DEF OnBoundary
        <5>2. CASE ~OnBoundary(op[t].bufs, Alignment[BestMachine])
          BY <2>1, <2>3, <2>5, <2>6, <4>1, <5>2 DEF OnBoundary
        <5> QED BY <5>1, <5>2
      <4> QED BY <3>1, <4>2 DEF OutcomesOf
    <3>2. CASE op[t].kind = "kern_a"
      BY <2>1, <2>3, <2>4, <2>5, <2>6, <3>2 DEF OutcomesOf, ViaInv
    <3>3. CASE op[t].kind = "kern_u"
      BY <2>1, <2>3, <2>4, <2>5, <2>6, <3>3 DEF OutcomesOf, ViaInv
    <3> QED BY <2>2, <3>1, <3>2, <3>3 DEF PtrVars
  <2>8. Abstract!Finish(t)
    BY <1>2, <2>1, <2>7, ExecuteAbstract
  <2> QED BY <2>8
<1>4. CASE Manual(t)
  <2>1. op[t].kind = "manual" /\ Load(t, Lib("machine")) = BestMachine
    BY <1>1, <1>4 DEF ThreadInv, Manual, HasMachine
  <2>2. \E i : Execute(t, "manual", i) /\ [ran |-> i, answer |-> -1] \in OutcomesOf(op[t], file)
    BY <1>4, <2>1 DEF Manual, OutcomesOf
  <2>3. Abstract!Finish(t)
    BY <1>2, <2>2, ExecuteAbstract
  <2> QED BY <2>3
<1>5. CASE GetFuncDesc(t)
  <2>1. op[t].kind = "func_desc" /\ Load(t, Lib("machine")) = BestMachine
    BY <1>1, <1>5 DEF ThreadInv, GetFuncDesc, HasMachine
  <2>2. Return(t, "func_desc", BestMachine)
        /\ [ran |-> 0, answer |-> BestMachine] \in OutcomesOf(op[t], file)
    BY <1>5, <2>1 DEF GetFuncDesc, OutcomesOf
  <2>3. Abstract!Finish(t)
    BY <1>2, <2>2, ReturnAbstract
  <2> QED BY <2>3
<1>6. CASE GetAlignment(t)
  <2>1. op[t].kind = "get_alignment" /\ Ready(t)
    BY <1>1, <1>6, PlaceReady DEF ThreadInv, GetAlignment, HasMachine
  <2>2. Return(t, "alignment", Alignment[BestMachine])
        /\ [ran |-> 0, answer |-> Alignment[BestMachine]] \in OutcomesOf(op[t], file)
    BY <1>6, <2>1 DEF GetAlignment, OutcomesOf, Ready
  <2>3. Abstract!Finish(t)
    BY <1>2, <2>2, ReturnAbstract
  <2> QED BY <2>3
<1>7. CASE IsAlignedQuery(t)
  <2>1. op[t].kind = "is_aligned"
    BY <1>1, <1>7 DEF ThreadInv, IsAlignedQuery
  <2>2. \E a : Return(t, "is_aligned", a)
               /\ [ran |-> 0, answer |-> a] \in OutcomesOf(op[t], file)
    BY <1>7, <2>1 DEF IsAlignedQuery, OutcomesOf
  <2>3. Abstract!Finish(t)
    BY <1>2, <2>2, ReturnAbstract
  <2> QED BY <2>3
<1>8. CASE GetMachineName(t)
  <2>1. op[t].kind = "get_machine" /\ Load(t, Lib("named_machine")) = BestMachine
    BY <1>1, <1>8, LoadStored, StoredLib, LibInLoc DEF ThreadInv, GetMachineName, LibVars
  <2>2. Return(t, "named_machine", BestMachine)
        /\ [ran |-> 0, answer |-> BestMachine] \in OutcomesOf(op[t], file)
    BY <1>8, <2>1 DEF GetMachineName, OutcomesOf
  <2>3. Abstract!Finish(t)
    BY <1>2, <2>2, ReturnAbstract
  <2> QED BY <2>3
<1>9. CASE pc'[t] # "idle" /\ UNCHANGED <<ran, answer>>
  <2>1. \A u \in Threads \ {t} : pc'[u] = pc[u]
    BY ContinueKeeps DEF Frame
  <2>2. Busy' = Busy
    BY <1>1, <1>9, <2>1 DEF Busy
  <2> QED BY <1>1, <1>9, <2>2 DEF Abstract!vars, Busy
<1> QED BY <1>3, <1>4, <1>5, <1>6, <1>7, <1>8, <1>9, ContinueSilent

LEMMA NextAbstract ==
  ASSUME Delayed = 0, ConfigStable, IInv, TypeOK, ReadyInv, PrefsInv, PrefsInv', ChoicesInv,
         CallsInv, [Next]_vars
  PROVE  [Abstract!Next]_(Abstract!vars)
<1>1. ASSUME NEW t \in Threads, NEW o \in Requests, Begin(t, o) PROVE Abstract!Next
  BY <1>1, BeginAbstract DEF Abstract!Next
<1>2. ASSUME NEW t \in Threads, Continue(t) PROVE [Abstract!Next]_(Abstract!vars)
  BY <1>2, ContinueAbstract DEF Abstract!Next
<1>3. CASE (\E t \in Threads : Publish(t)) \/ StartThreads \/ UNCHANGED vars
  BY <1>3 DEF Publish, StartThreads, vars, local, Abstract!vars
<1>4. ~RewriteConfig
  BY DEF RewriteConfig
<1> QED BY <1>1, <1>2, <1>3, <1>4 DEF Next

(* The dispatcher implements OneShotCalls: without delayed stores, while   *)
(* nobody rewrites the config file, and if one call returns before the     *)
(* threads are started, every call of every thread executes the one        *)
(* implementation, or returns the one answer, that the processor, the      *)
(* environment and the config file settled before the first call, although *)
(* all of it is computed lazily and without a lock.                        *)
THEOREM DispatchImplementsOneShot ==
  InitFirst /\ Delayed = 0 /\ ConfigStable => (Spec => ImplementsOneShot)
<1> SUFFICES ASSUME InitFirst, Delayed = 0, ConfigStable PROVE Spec => ImplementsOneShot
  OBVIOUS
<1>1. Init => ReadyInv
  BY InitReady
<1>2. IInv /\ PrefsInv /\ [Next]_vars => PrefsInv'
  BY NextKeepsPrefs
<1>3. IInv /\ PrefsInv /\ ChoicesInv /\ [Next]_vars => ChoicesInv'
  BY NextKeepsChoices
<1>4. IInv /\ IInv' /\ ReadyInv /\ PrefsInv' /\ CallsInv /\ [Next]_vars => CallsInv'
  BY NextKeepsCalls
<1>5. IInv /\ TypeOK /\ ReadyInv /\ PrefsInv /\ PrefsInv' /\ ChoicesInv /\ CallsInv
      /\ [Next]_vars => [Abstract!Next]_(Abstract!vars)
  BY NextAbstract
<1> QED BY <1>1, <1>2, <1>3, <1>4, <1>5, InvariantHolds, DispatchTypes, InitAbstract,
           NextKeepsReady, InitPrefs, InitChoices, InitCalls, PTL
        DEF Spec, ImplementsOneShot, Abstract!Spec
=============================================================================
