----------------------------- MODULE FirFilter -----------------------------
(***************************************************************************)
(* One FIR core (fir.vhd), clock cycle by clock cycle, with its two RAMs,  *)
(* its multiplier-accumulator (mac.vhd), the FIFO before and the FIFO      *)
(* behind it, and the part of the program that drives it (fir.c).          *)
(*                                                                         *)
(* The samples are a ring: data_addr_oldest is overwritten with the newest *)
(* sample, the ones after it get older.  Products are formed in the order  *)
(* 1, 2, ..., NUM_COEFFICIENTS - 1, 0, one in two cycles; the accumulator  *)
(* has them two cycles after they were read.                               *)
(*                                                                         *)
(* Data.  A coefficient is the pair of the program start that wrote it and *)
(* its index, a sample is its number, a sum is a set of products.          *)
(***************************************************************************)
EXTENDS Integers, Sequences

CONSTANTS
  NUM_COEFFICIENTS,  \* 512, and the number of words in each RAM
  FIFO_DEPTH,        \* words in a FIFO (32)
  Restarts,          \* how the program may be started again
  MaxRuns,           \* bound: program starts
  MaxSamples         \* bound: samples sent to the filter

ASSUME FirFilterAssumption ==
  /\ NUM_COEFFICIENTS \in Nat \ {0, 1}
  /\ FIFO_DEPTH \in Nat \ {0}
  /\ Restarts \subseteq {"KEY0", "download"}
  /\ MaxRuns \in Nat \ {0}
  /\ MaxSamples \in Nat

VARIABLES
  state, mul_cnt, data_addr_oldest,
  ram_coeff, ram_data, coeff_dout, data_dout,
  mac,               \* its registers: factors a and b, accum_sload, result
  m2s, s2m,          \* the FIFOs: samples to, results from the filter
  pc, i,             \* the program: where it is, its loop index
  run,               \* how often it was started
  first, next,       \* its first sample, the sample it sends next
  heard              \* the last result it has read, and for which sample

ramVars == <<ram_coeff, ram_data>>
filterVars == <<state, mul_cnt, data_addr_oldest, ram_data, coeff_dout,
                data_dout, mac>>
programVars == <<pc, i, run, first, next, heard>>
vars == <<filterVars, ram_coeff, m2s, s2m, programVars>>

Index == 0 .. NUM_COEFFICIENTS - 1
NoTap == <<0, 0>>
Taps == {NoTap} \cup ((1 .. MaxRuns) \X Index)
Samples == 0 .. MaxSamples       \* 0: a sample that is zero

-----------------------------------------------------------------------------
(* The multiplier-accumulator *)

Product(tap, x) == IF tap = NoTap \/ x = 0 THEN {} ELSE {<<tap, x>>}

Twice == <<NoTap, 0>>            \* a product was added twice
Add(sum, new) == IF sum \cap new = {} THEN sum \cup new ELSE {Twice}

MacReset == [a |-> NoTap, b |-> 0, sload |-> FALSE, result |-> {}]

(* A clock edge: the factors and accum_sload are registered, the product   *)
(* of the registered factors is added to the result, or replaces it.       *)
MacEdge(mac_dataa, mac_datab, mac_load) ==
  mac' = [a |-> mac_dataa, b |-> mac_datab, sload |-> mac_load,
          result |-> IF mac.sload THEN Product(mac.a, mac.b)
                     ELSE Add(mac.result, Product(mac.a, mac.b))]

-----------------------------------------------------------------------------
(* The sequencer.  What it drives is registered at the end of the cycle.   *)

AddressTooEarly(cnt) == cnt                                  \* mutant

(* The RAM answers one cycle later, hence the address is one ahead.        *)
Address(cnt) == cnt + 1

(* Addresses are cut to the width of the address bus.                      *)
Truncate(addr) == addr % NUM_COEFFICIENTS

ReadRams(mul_cnt_next) ==
  /\ coeff_dout' = ram_coeff[Truncate(Address(mul_cnt_next))]
  /\ data_dout' = ram_data[Truncate(data_addr_oldest + Address(mul_cnt_next))]

IdleWait ==
  /\ state = "IDLE" /\ m2s = <<>>
  /\ MacEdge(NoTap, 0, TRUE)
  /\ UNCHANGED <<state, mul_cnt, data_addr_oldest, ram_data, coeff_dout,
                 data_dout, m2s, s2m>>

Accept ==
  /\ state = "IDLE" /\ m2s # <<>>
  /\ MacEdge(NoTap, 0, TRUE)
  /\ ram_data' = [ram_data EXCEPT ![data_addr_oldest] = Head(m2s)]
  /\ ReadRams(mul_cnt)
  /\ m2s' = Tail(m2s)
  /\ state' = "LOAD"
  /\ UNCHANGED <<mul_cnt, data_addr_oldest, s2m>>

Load ==
  /\ state = "LOAD"
  /\ MacEdge(coeff_dout, data_dout, FALSE)
  /\ state' = "MAC"
  /\ UNCHANGED <<mul_cnt, data_addr_oldest, ram_data, coeff_dout, data_dout,
                 m2s, s2m>>

Multiply ==
  /\ state = "MAC"
  /\ MacEdge(NoTap, 0, FALSE)
  /\ IF mul_cnt = NUM_COEFFICIENTS - 1
       THEN /\ mul_cnt' = 0
            /\ state' = "OUTPUT"
            /\ UNCHANGED <<coeff_dout, data_dout>>
       ELSE /\ mul_cnt' = mul_cnt + 1
            /\ ReadRams(mul_cnt + 1)
            /\ state' = "LOAD"
  /\ UNCHANGED <<data_addr_oldest, ram_data, m2s, s2m>>

OlderAddrNoWrap(a) == a - 1                                  \* mutant

OlderAddr(a) == IF a = 0 THEN NUM_COEFFICIENTS - 1 ELSE a - 1

(* While the FIFO is full (stout_ready = 0) the accumulator adds zeros,    *)
(* which changes nothing: those cycles are stuttering steps.               *)
Output ==
  /\ state = "OUTPUT" /\ Len(s2m) < FIFO_DEPTH
  /\ s2m' = Append(s2m, mac.result)
  /\ MacEdge(NoTap, 0, TRUE)
  /\ data_addr_oldest' = OlderAddr(data_addr_oldest)
  /\ state' = "IDLE"
  /\ UNCHANGED <<mul_cnt, ram_data, coeff_dout, data_dout, m2s>>

(* A coefficient or FIFO access of the program at a clock edge is seen by  *)
(* the filter in the next cycle: it is a step after this one.              *)
Clock ==
  /\ IdleWait \/ Accept \/ Load \/ Multiply \/ Output
  /\ UNCHANGED <<ram_coeff, programVars>>

-----------------------------------------------------------------------------
(* The program.  A FIFO write waits while the FIFO is full, a read while   *)
(* it is empty.                                                            *)

Push(x) == Len(m2s) < FIFO_DEPTH /\ m2s' = Append(m2s, x)

SetCoefficient ==
  /\ pc = "coefficient"
  /\ ram_coeff' = [ram_coeff EXCEPT ![i] = <<run, i>>]
  /\ IF i = NUM_COEFFICIENTS - 1 THEN pc' = "flush" /\ i' = 0
                                 ELSE pc' = pc /\ i' = i + 1
  /\ UNCHANGED <<filterVars, m2s, s2m, run, first, next, heard>>

Flush ==
  /\ pc = "flush" /\ pc' = "flush_read"
  /\ Push(0)
  /\ UNCHANGED <<filterVars, ram_coeff, s2m, i, run, first, next, heard>>

FlushReadTwoWords ==                                         \* mutant
  /\ pc = "flush_read"
  /\ Len(s2m) > 1 /\ s2m' = Tail(Tail(s2m))
  /\ IF i = NUM_COEFFICIENTS - 1 THEN pc' = "sample" /\ i' = 0
                                 ELSE pc' = "flush" /\ i' = i + 1
  /\ UNCHANGED <<filterVars, ram_coeff, m2s, run, first, next, heard>>

FlushReadShort ==                                            \* mutant
  /\ pc = "flush_read"
  /\ s2m # <<>> /\ s2m' = Tail(s2m)
  /\ IF i = NUM_COEFFICIENTS - 3 THEN pc' = "sample" /\ i' = 0
                                 ELSE pc' = "flush" /\ i' = i + 1
  /\ UNCHANGED <<filterVars, ram_coeff, m2s, run, first, next, heard>>

FlushRead ==
  /\ pc = "flush_read"
  /\ s2m # <<>> /\ s2m' = Tail(s2m)
  /\ IF i = NUM_COEFFICIENTS - 1 THEN pc' = "sample" /\ i' = 0
                                 ELSE pc' = "flush" /\ i' = i + 1
  /\ UNCHANGED <<filterVars, ram_coeff, m2s, run, first, next, heard>>

WriteSample ==
  /\ pc = "sample" /\ pc' = "sample_read"
  /\ next <= MaxSamples                                      \* bound
  /\ Push(next)
  /\ next' = next + 1
  /\ UNCHANGED <<filterVars, ram_coeff, s2m, i, run, first, heard>>

ReadSample ==
  /\ pc = "sample_read" /\ pc' = "sample"
  /\ s2m # <<>> /\ s2m' = Tail(s2m)
  /\ heard' = [n |-> next - 1, sum |-> Head(s2m)]
  /\ UNCHANGED <<filterVars, ram_coeff, m2s, i, run, first, next>>

Program == SetCoefficient \/ Flush \/ FlushRead \/ WriteSample \/ ReadSample

-----------------------------------------------------------------------------
(* Starting the program again *)

NothingHeard == [n |-> 0, sum |-> {}]

ProgramStart ==
  /\ run < MaxRuns /\ run' = run + 1                         \* bound
  /\ pc' = "coefficient" /\ i' = 0
  /\ first' = next /\ heard' = NothingHeard
  /\ UNCHANGED next

(* KEY(0) resets the processor, the filter and the FIFOs.  No RAM has a    *)
(* reset.                                                                  *)
Reset ==
  /\ "KEY0" \in Restarts
  /\ state' = "IDLE" /\ mul_cnt' = 0 /\ data_addr_oldest' = 0
  /\ mac' = MacReset
  /\ m2s' = <<>> /\ s2m' = <<>>
  /\ ProgramStart
  /\ UNCHANGED <<ramVars, coeff_dout, data_dout>>

(* The debugger loads and starts the program; the reset it can request     *)
(* goes to the processor and the header MAC, not to the filters and FIFOs. *)
Download ==
  /\ "download" \in Restarts
  /\ ProgramStart
  /\ UNCHANGED <<filterVars, ram_coeff, m2s, s2m>>

Init ==
  /\ state = "IDLE" /\ mul_cnt = 0 /\ data_addr_oldest = 0
  /\ ram_coeff = [k \in Index |-> NoTap] /\ ram_data = [k \in Index |-> 0]
  /\ coeff_dout = NoTap /\ data_dout = 0
  /\ mac = MacReset
  /\ m2s = <<>> /\ s2m = <<>>
  /\ pc = "coefficient" /\ i = 0 /\ run = 1
  /\ first = 1 /\ next = 1 /\ heard = NothingHeard

Next == Clock \/ Program \/ Reset \/ Download

Spec == Init /\ [][Next]_vars
FairSpec == Spec /\ WF_vars(Clock) /\ WF_vars(Program)

-----------------------------------------------------------------------------
(* Properties *)

Sums == SUBSET (Taps \X Samples)

(* Every variable has its type: no counter or address leaves the range     *)
(* its VHDL subtype allows (fir.vhd, coeff_cnt).                           *)
TypeOK ==
  /\ state \in {"IDLE", "LOAD", "MAC", "OUTPUT"}
  /\ mul_cnt \in Index /\ data_addr_oldest \in Index
  /\ ram_coeff \in [Index -> Taps] /\ ram_data \in [Index -> Samples]
  /\ coeff_dout \in Taps /\ data_dout \in Samples
  /\ mac \in [a : Taps, b : Samples, sload : BOOLEAN, result : Sums]
  /\ m2s \in Seq(Samples) /\ Len(m2s) <= FIFO_DEPTH
  /\ s2m \in Seq(Sums) /\ Len(s2m) <= FIFO_DEPTH
  /\ pc \in {"coefficient", "flush", "flush_read", "sample", "sample_read"}
  /\ i \in Index /\ run \in 1 .. MaxRuns
  /\ first \in 1 .. MaxSamples + 1 /\ next \in 1 .. MaxSamples + 1
  /\ heard \in [n : Samples, sum : Sums]

(* The result the program reads for a sample is the convolution of its own *)
(* samples with its own coefficients: nothing of an earlier run is left,   *)
(* although neither the reset nor the setup clears the sample RAM          *)
(* (fir_filter_setup_hw sends zeros instead).                              *)
FilterOutput ==
  heard.n # 0 =>
    heard.sum = { <<<<run, k>>, heard.n - k>> :
                    k \in { j \in Index : heard.n - j >= first } }

(* The filter with its FIFOs does what the software filter does that it    *)
(* replaces (test() with FIR_HW = 0): the ring and the multiplication      *)
(* order implement a shift register, one result per sample, in order.      *)
(* The sample in work counts as waiting until its result is out.           *)
Shift == INSTANCE FirShift WITH
  NUM <- NUM_COEFFICIENTS,
  ZeroTap <- NoTap, ZeroSample <- 0,
  h <- ram_coeff,
  line <- [k \in 1 .. NUM_COEFFICIENTS - 1 |->
             ram_data[(data_addr_oldest + k) % NUM_COEFFICIENTS]],
  in <- IF state = "IDLE" THEN m2s ELSE <<ram_data[data_addr_oldest]>> \o m2s,
  out <- s2m

ImplementsShiftRegister == Shift!FirSpec

(* A read of the result FIFO, which blocks the processor, comes back       *)
(* (fir_filter_setup_hw, fir_filter_sample_hw), even for a program that    *)
(* was started while the filter was busy.                                  *)
ReadsEnd ==
  /\ pc = "flush_read" ~> pc # "flush_read"
  /\ pc = "sample_read" ~> pc # "sample_read"
=============================================================================
