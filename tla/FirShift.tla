------------------------------ MODULE FirShift ------------------------------
(***************************************************************************)
(* What the reverb program relies on when it drives a FIR core: the filter *)
(* it replaces, the FIR_HW = 0 branch of test() with its shift register of *)
(* samples, between two queues.  Every sample that is written yields one   *)
(* result, in order: the sum of the products of the coefficients with that *)
(* sample and the ones before it.                                          *)
(*                                                                         *)
(* Coefficients may be written only when no sample is waiting.  A reset    *)
(* empties the queues; the coefficients stay, and so do samples, in places *)
(* nothing is promised about.                                              *)
(***************************************************************************)
EXTENDS Integers, Sequences

CONSTANTS
  NUM,              \* coefficients
  Taps, Samples,    \* values of coefficients and samples
  ZeroTap, ZeroSample

VARIABLES
  h,                \* coefficients
  line,             \* line[k]: the k-th sample before the next one
  in, out           \* samples to be filtered, results to be read

firVars == <<h, line, in, out>>

Product(tap, x) == IF tap = ZeroTap \/ x = ZeroSample THEN {} ELSE {<<tap, x>>}

Result(x) ==
  Product(h[0], x) \cup UNION { Product(h[k], line[k]) : k \in 1 .. NUM - 1 }

FirInit ==
  /\ h = [k \in 0 .. NUM - 1 |-> ZeroTap]
  /\ line = [k \in 1 .. NUM - 1 |-> ZeroSample]
  /\ in = <<>> /\ out = <<>>

WriteCoefficient ==
  /\ in = <<>>
  /\ \E k \in 0 .. NUM - 1, tap \in Taps : h' = [h EXCEPT ![k] = tap]
  /\ UNCHANGED <<line, in, out>>

WriteSample ==
  /\ \E x \in Samples : in' = Append(in, x)
  /\ UNCHANGED <<h, line, out>>

Filter ==
  /\ in # <<>>
  /\ out' = Append(out, Result(Head(in)))
  /\ line' = [k \in 1 .. NUM - 1 |-> IF k = 1 THEN Head(in) ELSE line[k - 1]]
  /\ in' = Tail(in)
  /\ UNCHANGED h

ReadResult ==
  /\ out # <<>>
  /\ out' = Tail(out)
  /\ UNCHANGED <<h, line, in>>

Reset ==
  /\ line' \in [1 .. NUM - 1 -> Samples]
  /\ in' = <<>> /\ out' = <<>>
  /\ UNCHANGED h

FirNext ==
  WriteCoefficient \/ WriteSample \/ Filter \/ ReadResult \/ Reset

FirSpec == FirInit /\ [][FirNext]_firVars
=============================================================================
