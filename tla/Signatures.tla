------------------------------- MODULE Signatures -------------------------------
(***************************************************************************)
(* How run_volk_tests calls a kernel of which it knows the name only:      *)
(* get_signatures_from_name takes the name apart, buffers are made for     *)
(* what it says, and the function is cast to a type that takes so many     *)
(* pointers and perhaps a scalar.  The compiler checks none of that.       *)
(*                                                                         *)
(* A name is a sequence of tokens, of which volk_type_from_string and the  *)
(* caller tell three kinds: types, multipliers such as x2, and words.      *)
(***************************************************************************)
EXTENDS Integers, Sequences, SequencesExt

CONSTANT Tests   (* kernels: [name, declared], see TestList                 *)

(* What volk_type_from_string makes of the letters behind the number of    *)
(* bits, and of an s before it.                                            *)
Type(bits, letters) ==
  [kind |-> "type", bytes |-> bits \div 8, is_float |-> "f" \in letters,
   is_complex |-> "c" \in letters, is_signed |-> "i" \in letters, is_scalar |-> FALSE]
Scalar(type) == [type EXCEPT !.is_scalar = TRUE]

Multiplier(n) == [kind |-> "times", times |-> n]
Word(text) == [kind |-> "word", text |-> text]

(* Arguments, as they are declared and as they are passed.                 *)
Pointer(type) == [kind |-> "pointer", type |-> type]
Value(type) == [kind |-> "value", type |-> type]

VARIABLES
  test,       (* the kernel that is tested                                  *)
  tokens,     (* what is left of its name                                   *)
  side,       (* "input", "name" or "output"                                *)
  inputsig, outputsig,
  inputsc,    (* the scalars, once they are pulled out of inputsig          *)
  called      (* [how: "not yet", "called" or "thrown", args]               *)

signatureVars == <<test, tokens, side, inputsig, outputsig, inputsc, called>>

NotYet == [how |-> "not yet", args |-> <<>>]
Thrown == [how |-> "thrown", args |-> <<>>]
NoTest == [name |-> <<>>, declared |-> <<>>]

SignatureInit ==
  /\ test = NoTest /\ tokens = <<>> /\ side = "input"
  /\ inputsig = <<>> /\ outputsig = <<>> /\ inputsc = <<>> /\ called = NotYet

-----------------------------------------------------------------------------
(* get_signatures_from_name.                                               *)
BeginName(t) ==
  /\ test = NoTest
  /\ test' = t /\ tokens' = t.name
  /\ UNCHANGED <<side, inputsig, outputsig, inputsc, called>>

Reads(kind) == test # NoTest /\ called = NotYet /\ tokens # <<>> /\ Head(tokens).kind = kind
Read == tokens' = Tail(tokens) /\ UNCHANGED <<test, inputsc>>

(* Mutant of TypeToken: a type behind the name is still an input.          *)
TypeTokenInput ==
  /\ Reads("type") /\ Read
  /\ inputsig' = Append(inputsig, Head(tokens))
  /\ UNCHANGED <<side, outputsig, called>>

TypeToken ==
  /\ Reads("type") /\ Read
  /\ side' = IF side = "name" THEN "output" ELSE side
  /\ IF side = "input"
     THEN inputsig' = Append(inputsig, Head(tokens)) /\ UNCHANGED outputsig
     ELSE outputsig' = Append(outputsig, Head(tokens)) /\ UNCHANGED inputsig
  /\ UNCHANGED called

(* The last type again, so that there are n of it.                         *)
Repeated(sig, n) == sig \o [k \in 1 .. n - 1 |-> Last(sig)]

TimesToken ==
  /\ Reads("times") /\ Read
  /\ IF side = "input"
     THEN inputsig' = Repeated(inputsig, Head(tokens).times) /\ UNCHANGED outputsig
     ELSE outputsig' = Repeated(outputsig, Head(tokens).times) /\ UNCHANGED inputsig
  /\ UNCHANGED <<side, called>>

(* A word ends the inputs.  Behind the outputs it may only be the last     *)
(* token.                                                                  *)
WordToken ==
  /\ Reads("word") /\ Read
  /\ side' = IF side = "input" THEN "name" ELSE side
  /\ called' = IF side = "output" /\ Head(tokens) # Last(test.name) THEN Thrown ELSE called
  /\ UNCHANGED <<inputsig, outputsig>>

-----------------------------------------------------------------------------
(* run_volk_tests: "pull the input scalars into their own vector".         *)
PullScalars ==
  /\ test # NoTest /\ tokens = <<>> /\ called = NotYet
  /\ \E k \in DOMAIN inputsig : inputsig[k].is_scalar
  /\ inputsc' = inputsc \o SelectSeq(inputsig, LAMBDA t : t.is_scalar)
  /\ inputsig' = SelectSeq(inputsig, LAMBDA t : ~t.is_scalar)
  /\ UNCHANGED <<test, tokens, side, outputsig, called>>

both_sigs == outputsig \o inputsig
Buffers == [k \in DOMAIN both_sigs |-> Pointer([both_sigs[k] EXCEPT !.is_scalar = FALSE])]

(* A float is passed by value, a complex scalar by its address.            *)
PassedScalar(type) ==
  IF type.is_complex THEN Pointer(Type(32, {"f", "c"})) ELSE Value(Type(32, {"f"}))

CalledWith(args) == [how |-> "called", args |-> args]

(* The run_cast_test functions.  Those for four buffers know no scalar.    *)
Handler ==
  CASE Len(both_sigs) \in 1 .. 3 /\ inputsc = <<>> -> CalledWith(Buffers)
    [] Len(both_sigs) \in 1 .. 3 /\ Len(inputsc) = 1 /\ inputsc[1].is_float ->
         CalledWith(Append(Buffers, PassedScalar(inputsc[1])))
    [] Len(both_sigs) = 4 -> CalledWith(Buffers)
    [] OTHER -> Thrown

Call ==
  /\ test # NoTest /\ tokens = <<>> /\ called = NotYet
  /\ \A k \in DOMAIN inputsig : ~inputsig[k].is_scalar
  /\ called' = Handler
  /\ UNCHANGED <<test, tokens, side, inputsig, outputsig, inputsc>>

NextTest ==
  /\ called # NotYet
  /\ test' = NoTest /\ tokens' = <<>> /\ side' = "input"
  /\ inputsig' = <<>> /\ outputsig' = <<>> /\ inputsc' = <<>> /\ called' = NotYet

SignatureNext ==
  \/ \E t \in Tests : BeginName(t)
  \/ TypeToken \/ TimesToken \/ WordToken
  \/ PullScalars \/ Call \/ NextTest

SignatureSpec == SignatureInit /\ [][SignatureNext]_signatureVars

-----------------------------------------------------------------------------
(* How an output is compared: as elements of so many bytes, as floats or   *)
(* as integers with a sign or not, so many for each point.  Complex        *)
(* integers of 4 bytes are taken for pairs of 2.                           *)
CompareAs(type) ==
  [bytes |-> IF ~type.is_float /\ type.is_complex /\ type.bytes = 4 THEN 2 ELSE type.bytes,
   is_float |-> type.is_float, is_signed |-> type.is_signed,
   per_point |-> IF type.is_complex THEN 2 ELSE 1]

(* Every kernel of the list is called with as many pointers, to buffers of *)
(* the same types and in the same order, and with the same scalar as its   *)
(* function declares, and each of its outputs is compared to the last byte *)
(* (get_signatures_from_name, run_volk_tests).                             *)
TestedAsDeclared ==
  called # NotYet =>
    /\ called = CalledWith(test.declared)
    /\ \A k \in DOMAIN outputsig :
         LET type == outputsig[k]
             as == CompareAs(type)
         IN  /\ as.bytes * as.per_point = type.bytes * (IF type.is_complex THEN 2 ELSE 1)
             /\ as.is_float = type.is_float /\ as.is_signed = type.is_signed
=============================================================================
