---------------------------- MODULE OneShotCalls ----------------------------
(***************************************************************************)
(* What a caller of VOLK may rely on, without stubs, lazy initialisation   *)
(* or function pointers: a call takes some time and then has run one       *)
(* implementation, or returned one answer, that was settled by the         *)
(* processor, the environment and the config file before the first call.   *)
(***************************************************************************)
EXTENDS Integers

CONSTANTS
  Threads, Requests,
  Outcomes(_, _)    \* the outcomes [ran, answer] of a request under a config

VARIABLES file, busy, op, ran, answer
vars == <<file, busy, op, ran, answer>>

Init ==
  /\ busy = [t \in Threads |-> FALSE]
  /\ ran = [t \in Threads |-> 0]
  /\ answer = [t \in Threads |-> -1]

Begin(t) ==
  /\ ~busy[t]
  /\ busy' = [busy EXCEPT ![t] = TRUE]
  /\ \E o \in Requests : op' = [op EXCEPT ![t] = o]
  /\ ran' = [ran EXCEPT ![t] = 0]
  /\ answer' = [answer EXCEPT ![t] = -1]
  /\ UNCHANGED file

Finish(t) ==
  /\ busy[t]
  /\ busy' = [busy EXCEPT ![t] = FALSE]
  /\ \E out \in Outcomes(op[t], file) :
       /\ ran' = [ran EXCEPT ![t] = out.ran]
       /\ answer' = [answer EXCEPT ![t] = out.answer]
  /\ UNCHANGED <<file, op>>

Next == \E t \in Threads : Begin(t) \/ Finish(t)

Spec == Init /\ [][Next]_vars
=============================================================================
