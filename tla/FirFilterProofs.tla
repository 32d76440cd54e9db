--------------------------- MODULE FirFilterProofs ---------------------------
(***************************************************************************)
(* Proofs about the FIR core for any number of coefficients, any FIFO      *)
(* depth and any number of runs and samples: type correctness, and that    *)
(* ring, multiplication order and accumulator implement the shift register *)
(* of FirShift as long as the program is only started again by KEY(0).     *)
(***************************************************************************)
EXTENDS FirFilter, SequenceTheorems, TLAPS

N == NUM_COEFFICIENTS

(* Addresses that pass the end of a RAM continue at its start.             *)
LEMMA ModLow == ASSUME NEW a \in Index PROVE a % N = a
  BY FirFilterAssumption, SMTT(30) DEF N, Index

LEMMA ModHigh == ASSUME NEW a \in N .. 2 * N - 1 PROVE a % N = a - N
  BY FirFilterAssumption, SMTT(30) DEF N

LEMMA ModIndex == ASSUME NEW a \in 0 .. 2 * N - 1 PROVE a % N \in Index
<1>1. CASE a < N
  BY <1>1, ModLow, FirFilterAssumption DEF Index, N
<1>2. CASE a >= N
  BY <1>2, ModHigh, FirFilterAssumption DEF Index, N
<1>3. QED
  BY <1>1, <1>2, FirFilterAssumption DEF N

LEMMA SumTypes ==
  /\ \A tap \in Taps, x \in Samples : Product(tap, x) \in Sums
  /\ \A sum \in Sums, new \in Sums : Add(sum, new) \in Sums
  /\ {} \in Sums /\ NoTap \in Taps /\ 0 \in Samples
<1>1. NoTap \in Taps /\ 0 \in Samples
  BY FirFilterAssumption DEF Taps, Samples
<1>2. ASSUME NEW tap \in Taps, NEW x \in Samples PROVE Product(tap, x) \in Sums
  <2>1. <<tap, x>> \in Taps \X Samples
    OBVIOUS
  <2>2. QED
    BY <2>1 DEF Product, Sums
<1>3. ASSUME NEW sum \in Sums, NEW new \in Sums PROVE Add(sum, new) \in Sums
  <2>1. Twice \in Taps \X Samples
    BY <1>1 DEF Twice
  <2>2. QED
    BY <2>1 DEF Add, Sums
<1>4. QED
  BY <1>1, <1>2, <1>3 DEF Sums

(* What the multiplier-accumulator holds after an edge.                    *)
MacType == [a : Taps, b : Samples, sload : BOOLEAN, result : Sums]

LEMMA MacEdgeType ==
  ASSUME mac \in MacType,
         NEW tap \in Taps, NEW x \in Samples, NEW load \in BOOLEAN,
         MacEdge(tap, x, load)
  PROVE  mac' \in MacType
<1>1. /\ mac.a \in Taps /\ mac.b \in Samples
      /\ mac.sload \in BOOLEAN /\ mac.result \in Sums
  BY DEF MacType
<1> DEFINE r == IF mac.sload THEN Product(mac.a, mac.b)
                ELSE Add(mac.result, Product(mac.a, mac.b))
<1>2. r \in Sums
  BY <1>1, SumTypes
<1>3. mac' = [a |-> tap, b |-> x, sload |-> load, result |-> r]
  BY DEF MacEdge
<1> HIDE DEF r
<1>4. QED
  BY <1>2, <1>3 DEF MacType

(* The counters, RAMs and the program keep their types by themselves; the  *)
(* accumulator and the FIFOs are dealt with in lemmas of their own.        *)
TypeRegisters ==
  /\ state \in {"IDLE", "LOAD", "MAC", "OUTPUT"}
  /\ mul_cnt \in Index /\ data_addr_oldest \in Index
  /\ ram_coeff \in [Index -> Taps] /\ ram_data \in [Index -> Samples]
  /\ coeff_dout \in Taps /\ data_dout \in Samples

TypeFifos ==
  /\ m2s \in Seq(Samples) /\ Len(m2s) <= FIFO_DEPTH
  /\ s2m \in Seq(Sums) /\ Len(s2m) <= FIFO_DEPTH

TypeProgram ==
  /\ pc \in {"coefficient", "flush", "flush_read", "sample", "sample_read"}
  /\ i \in Index /\ run \in 1 .. MaxRuns
  /\ first \in 1 .. MaxSamples + 1 /\ next \in 1 .. MaxSamples + 1
  /\ heard \in [n : Samples, sum : Sums]

LEMMA TypeParts ==
  /\ TypeOK <=> TypeRegisters /\ mac \in MacType /\ TypeFifos /\ TypeProgram
  /\ TypeOK' <=>
       TypeRegisters' /\ mac' \in MacType /\ TypeFifos' /\ TypeProgram'
BY DEF TypeOK, TypeRegisters, MacType, TypeFifos, TypeProgram

(* Reading the RAMs gives a coefficient and a sample.                      *)
LEMMA ReadType ==
  ASSUME TypeRegisters, NEW cnt \in Index, ReadRams(cnt)
  PROVE  coeff_dout' \in Taps /\ data_dout' \in Samples
<1>1. cnt + 1 \in 0 .. 2 * N - 1 /\ data_addr_oldest + (cnt + 1) \in 0 .. 2 * N - 1
  BY FirFilterAssumption DEF TypeRegisters, Index, N
<1>2. (cnt + 1) % N \in Index /\ (data_addr_oldest + (cnt + 1)) % N \in Index
  BY <1>1, ModIndex
<1>3. QED
  BY <1>2 DEF ReadRams, Truncate, Address, TypeRegisters, N

(* A FIFO a word is put into or taken from remains one.                    *)
LEMMA FifoType ==
  ASSUME NEW S, NEW q \in Seq(S), Len(q) <= FIFO_DEPTH
  PROVE  /\ \A x \in S : Len(q) < FIFO_DEPTH =>
              /\ Append(q, x) \in Seq(S) /\ Len(Append(q, x)) = Len(q) + 1
              /\ Len(Append(q, x)) <= FIFO_DEPTH
         /\ q # <<>> => /\ Tail(q) \in Seq(S) /\ Head(q) \in S
                        /\ Len(Tail(q)) = Len(q) - 1
                        /\ Len(Tail(q)) <= FIFO_DEPTH
         /\ Len(q) \in Nat /\ (Len(q) = 0 <=> q = <<>>)
<1>1. Len(q) \in Nat /\ (Len(q) = 0 <=> q = <<>>)
  BY EmptySeq, LenProperties
<1>2. ASSUME NEW x \in S
      PROVE  Append(q, x) \in Seq(S) /\ Len(Append(q, x)) = Len(q) + 1
  BY AppendProperties
<1>3. ASSUME q # <<>>
      PROVE  /\ Tail(q) \in Seq(S) /\ Head(q) \in S
             /\ Len(Tail(q)) = Len(q) - 1
  BY <1>3, HeadTailProperties
<1>4. QED
  BY <1>1, <1>2, <1>3, FirFilterAssumption

LEMMA FifoTypes ==
  ASSUME TypeFifos
  PROVE  /\ \A x \in Samples : Len(m2s) < FIFO_DEPTH =>
              /\ Append(m2s, x) \in Seq(Samples)
              /\ Len(Append(m2s, x)) <= FIFO_DEPTH
         /\ m2s # <<>> => /\ Tail(m2s) \in Seq(Samples) /\ Head(m2s) \in Samples
                          /\ Len(Tail(m2s)) <= FIFO_DEPTH
         /\ \A x \in Sums : Len(s2m) < FIFO_DEPTH =>
              /\ Append(s2m, x) \in Seq(Sums)
              /\ Len(Append(s2m, x)) <= FIFO_DEPTH
         /\ s2m # <<>> => /\ Tail(s2m) \in Seq(Sums) /\ Head(s2m) \in Sums
                          /\ Len(Tail(s2m)) <= FIFO_DEPTH
<1>1. m2s \in Seq(Samples) /\ Len(m2s) <= FIFO_DEPTH
      /\ s2m \in Seq(Sums) /\ Len(s2m) <= FIFO_DEPTH
  BY DEF TypeFifos
<1>2. QED
  BY <1>1, FifoType

LEMMA TypeInit == Init => TypeOK
<1> SUFFICES ASSUME Init PROVE TypeOK
  OBVIOUS
<1>1. TypeRegisters
  BY SumTypes, FirFilterAssumption DEF Init, TypeRegisters, Index
<1>2. mac \in MacType
  BY SumTypes DEF Init, MacReset, MacType
<1>3. TypeFifos
  BY EmptySeq, FirFilterAssumption DEF Init, TypeFifos
<1>4. TypeProgram
  BY SumTypes, FirFilterAssumption
  DEF Init, TypeProgram, Index, NothingHeard, Samples
<1>5. QED
  BY <1>1, <1>2, <1>3, <1>4, TypeParts

LEMMA TypeClock == TypeOK /\ Clock => TypeOK'
<1> SUFFICES ASSUME TypeOK, Clock PROVE TypeOK'
  OBVIOUS
<1>a. TypeRegisters /\ mac \in MacType /\ TypeFifos /\ TypeProgram
  BY TypeParts
<1>b. TypeProgram'
  BY <1>a DEF Clock, programVars, TypeProgram
<1>c. 0 \in Index /\ NUM_COEFFICIENTS - 1 \in Index
  BY FirFilterAssumption DEF Index
<1>1. CASE IdleWait
  <2>1. TypeRegisters' /\ TypeFifos'
    BY <1>1, <1>a DEF IdleWait, Clock, TypeRegisters, TypeFifos
  <2>2. mac' \in MacType
    BY <1>1, <1>a, MacEdgeType, SumTypes DEF IdleWait
  <2>3. QED
    BY <2>1, <2>2, <1>b, TypeParts
<1>2. CASE Accept
  <2>1. Head(m2s) \in Samples /\ TypeFifos'
    BY <1>2, <1>a, FifoTypes DEF Accept, TypeFifos
  <2>2. coeff_dout' \in Taps /\ data_dout' \in Samples
    BY <1>2, <1>a, ReadType DEF Accept, TypeRegisters
  <2>3. TypeRegisters'
    BY <1>2, <1>a, <2>1, <2>2 DEF Accept, Clock, TypeRegisters
  <2>4. mac' \in MacType
    BY <1>2, <1>a, MacEdgeType, SumTypes DEF Accept
  <2>5. QED
    BY <2>1, <2>3, <2>4, <1>b, TypeParts
<1>3. CASE Load
  <2>1. TypeRegisters' /\ TypeFifos'
    BY <1>3, <1>a DEF Load, Clock, TypeRegisters, TypeFifos
  <2>2. mac' \in MacType
    BY <1>3, <1>a, MacEdgeType DEF Load, TypeRegisters
  <2>3. QED
    BY <2>1, <2>2, <1>b, TypeParts
<1>4. CASE Multiply
  <2>1. TypeFifos' /\ mac' \in MacType
    BY <1>4, <1>a, MacEdgeType, SumTypes DEF Multiply, TypeFifos
  <2>2. TypeRegisters'
    <3>1. CASE mul_cnt = NUM_COEFFICIENTS - 1
      BY <1>4, <3>1, <1>a, <1>c DEF Multiply, Clock, TypeRegisters
    <3>2. CASE mul_cnt # NUM_COEFFICIENTS - 1
      <4>1. mul_cnt + 1 \in Index
        BY <3>2, <1>a, FirFilterAssumption DEF TypeRegisters, Index
      <4>2. coeff_dout' \in Taps /\ data_dout' \in Samples
        BY <1>4, <3>2, <4>1, <1>a, ReadType DEF Multiply
      <4>3. QED
        BY <1>4, <3>2, <4>1, <4>2, <1>a DEF Multiply, Clock, TypeRegisters
    <3>3. QED
      BY <3>1, <3>2
  <2>3. QED
    BY <2>1, <2>2, <1>b, TypeParts
<1>5. CASE Output
  <2>1. OlderAddr(data_addr_oldest) \in Index
    BY <1>a, <1>c DEF OlderAddr, TypeRegisters, Index
  <2>2. TypeRegisters'
    BY <1>5, <1>a, <2>1 DEF Output, Clock, TypeRegisters
  <2>3. mac' \in MacType
    BY <1>5, <1>a, MacEdgeType, SumTypes DEF Output
  <2>4. TypeFifos'
    BY <1>5, <1>a, FifoTypes DEF Output, TypeFifos, MacType
  <2>5. QED
    BY <2>2, <2>3, <2>4, <1>b, TypeParts
<1>6. QED
  BY <1>1, <1>2, <1>3, <1>4, <1>5 DEF Clock

LEMMA TypeProgramStep == TypeOK /\ (Program \/ Reset \/ Download) => TypeOK'
<1> SUFFICES ASSUME TypeOK, Program \/ Reset \/ Download PROVE TypeOK'
  OBVIOUS
<1>a. TypeRegisters /\ mac \in MacType /\ TypeFifos /\ TypeProgram
  BY TypeParts
<1>b. 0 \in Index /\ i \in Index
      /\ (i # NUM_COEFFICIENTS - 1 => i + 1 \in Index)
  BY <1>a, FirFilterAssumption DEF Index, TypeProgram
<1>c. UNCHANGED filterVars =>
        (UNCHANGED ram_coeff => TypeRegisters') /\ mac' \in MacType
  BY <1>a DEF filterVars, TypeRegisters
<1>1. CASE SetCoefficient
  <2>1. <<run, i>> \in Taps
    BY <1>a DEF TypeProgram, Taps
  <2>2. TypeRegisters' /\ TypeFifos'
    BY <1>1, <2>1, <1>a DEF SetCoefficient, filterVars, TypeRegisters, TypeFifos
  <2>3. TypeProgram'
    BY <1>1, <1>a, <1>b DEF SetCoefficient, TypeProgram
  <2>4. QED
    BY <1>1, <1>c, <2>2, <2>3, TypeParts DEF SetCoefficient
<1>2. CASE Flush
  <2>1. TypeFifos'
    BY <1>2, <1>a, FifoTypes, SumTypes DEF Flush, Push, TypeFifos
  <2>2. TypeProgram'
    BY <1>2, <1>a DEF Flush, TypeProgram
  <2>3. QED
    BY <1>2, <1>c, <2>1, <2>2, TypeParts DEF Flush
<1>3. CASE FlushRead
  <2>1. TypeFifos'
    BY <1>3, <1>a, FifoTypes DEF FlushRead, TypeFifos
  <2>2. TypeProgram'
    BY <1>3, <1>a, <1>b DEF FlushRead, TypeProgram
  <2>3. QED
    BY <1>3, <1>c, <2>1, <2>2, TypeParts DEF FlushRead
<1>4. CASE WriteSample
  <2>1. next \in Samples /\ next + 1 \in 1 .. MaxSamples + 1
    BY <1>4, <1>a, FirFilterAssumption DEF WriteSample, TypeProgram, Samples
  <2>2. TypeFifos'
    BY <1>4, <2>1, <1>a, FifoTypes DEF WriteSample, Push, TypeFifos
  <2>3. TypeProgram'
    BY <1>4, <2>1, <1>a DEF WriteSample, TypeProgram
  <2>4. QED
    BY <1>4, <1>c, <2>2, <2>3, TypeParts DEF WriteSample
<1>5. CASE ReadSample
  <2>1. next - 1 \in Samples
    BY <1>a, FirFilterAssumption DEF TypeProgram, Samples
  <2>2. Head(s2m) \in Sums /\ TypeFifos'
    BY <1>5, <1>a, FifoTypes DEF ReadSample, TypeFifos
  <2>3. TypeProgram'
    BY <1>5, <2>1, <2>2, <1>a DEF ReadSample, TypeProgram
  <2>4. QED
    BY <1>5, <1>c, <2>2, <2>3, TypeParts DEF ReadSample
<1>d. ProgramStart => TypeProgram'
  BY <1>a, <1>b, SumTypes, FirFilterAssumption
  DEF ProgramStart, NothingHeard, TypeProgram
<1>6. CASE Reset
  <2>1. TypeRegisters'
    BY <1>6, <1>a, <1>b DEF Reset, ramVars, TypeRegisters
  <2>2. TypeFifos' /\ mac' \in MacType
    BY <1>6, EmptySeq, SumTypes, FirFilterAssumption
    DEF Reset, TypeFifos, MacReset, MacType
  <2>3. QED
    BY <1>6, <1>d, <2>1, <2>2, TypeParts DEF Reset
<1>7. CASE Download
  BY <1>7, <1>a, <1>c, <1>d, TypeParts DEF Download, TypeFifos
<1>8. QED
  BY <1>1, <1>2, <1>3, <1>4, <1>5, <1>6, <1>7 DEF Program

(* No counter, address or FIFO of a FIR core leaves its range, whatever    *)
(* the program has been doing when it was started again (fir.vhd).         *)
THEOREM FirTypeCorrect == Spec => []TypeOK
<1>1. Init => TypeOK
  BY TypeInit
<1>2. TypeOK /\ [Next]_vars => TypeOK'
  <2>1. ASSUME TypeOK, UNCHANGED vars PROVE TypeOK'
    BY <2>1 DEF vars, filterVars, programVars, TypeOK
  <2>2. QED
    BY <2>1, TypeClock, TypeProgramStep DEF Next
<1>3. QED
  BY <1>1, <1>2, PTL DEF Spec

-----------------------------------------------------------------------------
(***************************************************************************)
(* Proof that a FIR core with its FIFOs, driven by the program, implements *)
(* the shift register of FirShift, unless the program is started again     *)
(* without a reset of the filter ("download").                             *)
(*                                                                         *)
(* The invariant has three parts.  OneInFlight: the program waits for each *)
(* result, so coefficients never change while a sum is being formed.       *)
(* TapsPlaced: coefficients with different indices differ, so no product   *)
(* is added twice.  SumSoFar: after mul_cnt products the accumulator holds *)
(* exactly those, counting the contents it is about to drop as nothing.    *)
(***************************************************************************)

(* The k-th product for coefficients h, samples x and oldest sample o; the  *)
(* last one, k = N, is the newest sample's.                                *)
CoeffOf(h, k) == h[k % N]
SampleOf(x, o, k) == x[(o + k) % N]
Term(h, x, o, k) == Product(CoeffOf(h, k), SampleOf(x, o, k))
Partial(h, x, o, c) == UNION { Term(h, x, o, k) : k \in 1 .. c }

NextCoeff == CoeffOf(ram_coeff, mul_cnt + 1)
NextSample == SampleOf(ram_data, data_addr_oldest, mul_cnt + 1)
SumOf(c) == Partial(ram_coeff, ram_data, data_addr_oldest, c)

OneInFlight ==
  Len(m2s) + Len(s2m) + (IF state = "IDLE" THEN 0 ELSE 1)
    = IF pc \in {"flush_read", "sample_read"} THEN 1 ELSE 0

Placed(h) == \A k \in Index : h[k] = NoTap \/ h[k][2] = k
TapsPlaced == Placed(ram_coeff)

SumSoFar ==
  /\ state = "IDLE" => mul_cnt = 0
  /\ state = "LOAD" =>
       /\ coeff_dout = NextCoeff /\ data_dout = NextSample
       /\ mac.a = NoTap
       /\ (IF mac.sload THEN {} ELSE mac.result) = SumOf(mul_cnt)
  /\ state = "MAC" =>
       /\ mac.a = NextCoeff /\ mac.b = NextSample
       /\ ~ mac.sload /\ mac.result = SumOf(mul_cnt)
  /\ state = "OUTPUT" => mul_cnt = 0 /\ mac.result = SumOf(N)

FilterInv == TypeOK /\ OneInFlight /\ TapsPlaced /\ SumSoFar

-----------------------------------------------------------------------------
(* Positions in the ring and sums of products *)

LEMMA Places ==
  ASSUME NEW o \in Index, NEW k \in 1 .. N - 1
  PROVE  /\ k % N = k
         /\ (o + k) % N \in Index /\ (o + k) % N # o
<1>1. k \in Index /\ o + k \in 0 .. 2 * N - 1
  BY FirFilterAssumption DEF Index, N
<1>2. CASE o + k < N
  BY <1>1, <1>2, ModLow, ModIndex, FirFilterAssumption DEF Index, N
<1>3. CASE o + k >= N
  <2>1. (o + k) % N = o + k - N
    BY <1>1, <1>3, ModHigh, FirFilterAssumption DEF Index, N
  <2>2. QED
    BY <1>1, <2>1, ModLow, ModIndex, FirFilterAssumption DEF Index, N
<1>4. QED
  BY <1>1, <1>2, <1>3, FirFilterAssumption DEF Index, N

LEMMA LastPlace ==
  ASSUME NEW o \in Index
  PROVE  N % N = 0 /\ (o + N) % N = o
BY ModHigh, FirFilterAssumption DEF Index, N

LEMMA PartialNext ==
  ASSUME NEW h, NEW x, NEW o, NEW c \in Nat
  PROVE  /\ Partial(h, x, o, 0) = {}
         /\ Partial(h, x, o, c + 1) = Partial(h, x, o, c) \cup Term(h, x, o, c + 1)
<1>1. 1 .. c + 1 = (1 .. c) \cup {c + 1} /\ 1 .. 0 = {}
  OBVIOUS
<1>2. QED
  BY <1>1, Zenon DEF Partial

(* No product is in the sum twice.                                         *)
LEMMA TermDisjoint ==
  ASSUME NEW h, Placed(h), NEW x, NEW o, NEW c \in 0 .. N - 1
  PROVE  Partial(h, x, o, c) \cap Term(h, x, o, c + 1) = {}
<1> SUFFICES ASSUME NEW k \in 1 .. c, NEW p,
                    p \in Term(h, x, o, k), p \in Term(h, x, o, c + 1)
             PROVE  FALSE
  BY DEF Partial
<1>1. /\ p = <<CoeffOf(h, k), SampleOf(x, o, k)>> /\ CoeffOf(h, k) # NoTap
      /\ p = <<CoeffOf(h, c + 1), SampleOf(x, o, c + 1)>>
  BY DEF Term, Product
<1>2. CoeffOf(h, k) = CoeffOf(h, c + 1)
  BY <1>1
<1>3. k \in Index /\ k % N = k
  BY ModLow, FirFilterAssumption DEF Index, N
<1>4. (c + 1) % N \in Index /\ (c + 1) % N # k
  <2>1. CASE c + 1 < N
    <3>1. c + 1 \in Index
      BY <2>1, FirFilterAssumption DEF Index, N
    <3>2. (c + 1) % N = c + 1
      BY <3>1, ModLow
    <3>3. QED
      BY <3>1, <3>2
  <2>2. CASE c + 1 = N
    <3>1. (c + 1) % N = 0
      BY <2>2, ModHigh, FirFilterAssumption DEF N
    <3>2. QED
      BY <3>1, FirFilterAssumption DEF Index
  <2>3. QED
    BY <2>1, <2>2, FirFilterAssumption DEF N
<1>5. QED
  BY <1>1, <1>2, <1>3, <1>4 DEF CoeffOf, Placed

LEMMA AddTerm ==
  ASSUME NEW h, Placed(h), NEW x, NEW o, NEW c \in 0 .. N - 1
  PROVE  Add(Partial(h, x, o, c), Term(h, x, o, c + 1)) = Partial(h, x, o, c + 1)
<1>1. Partial(h, x, o, c) \cap Term(h, x, o, c + 1) = {}
  BY TermDisjoint
<1>2. Partial(h, x, o, c + 1) = Partial(h, x, o, c) \cup Term(h, x, o, c + 1)
  BY PartialNext
<1>3. QED
  BY <1>1, <1>2 DEF Add

(* Adding a zero product changes nothing.                                  *)
LEMMA AddNothing ==
  ASSUME NEW sum, NEW x
  PROVE  Product(NoTap, x) = {} /\ Add(sum, {}) = sum
BY DEF Product, Add

-----------------------------------------------------------------------------
(* The invariant *)

LEMMA FilterInvInit == Init => FilterInv
<1> SUFFICES ASSUME Init PROVE FilterInv
  OBVIOUS
<1>1. OneInFlight
  BY DEF Init, OneInFlight
<1>2. TapsPlaced
  BY DEF Init, TapsPlaced, Placed
<1>3. SumSoFar
  BY DEF Init, SumSoFar
<1>4. QED
  BY <1>1, <1>2, <1>3, TypeInit DEF FilterInv

(* What TypeOK says of the lengths of the FIFOs, with their changes.       *)
LEMMA Lengths ==
  ASSUME TypeOK
  PROVE  /\ Len(m2s) \in Nat /\ Len(s2m) \in Nat
         /\ Len(m2s) = 0 <=> m2s = <<>>
         /\ Len(s2m) = 0 <=> s2m = <<>>
         /\ m2s # <<>> => Len(Tail(m2s)) = Len(m2s) - 1
         /\ s2m # <<>> => Len(Tail(s2m)) = Len(s2m) - 1
         /\ \A x \in Samples : Len(Append(m2s, x)) = Len(m2s) + 1
         /\ \A x \in Sums : Len(Append(s2m, x)) = Len(s2m) + 1
<1>1. m2s \in Seq(Samples) /\ s2m \in Seq(Sums)
  BY DEF TypeOK
<1>2. QED
  BY <1>1, LenProperties, EmptySeq, HeadTailProperties, AppendProperties

LEMMA OneInFlightStep ==
  ASSUME TypeOK, OneInFlight, Clock \/ Program \/ Reset
  PROVE  OneInFlight'
<1>a. /\ Len(m2s) \in Nat /\ Len(s2m) \in Nat
      /\ m2s # <<>> => Len(Tail(m2s)) = Len(m2s) - 1
      /\ s2m # <<>> => Len(Tail(s2m)) = Len(s2m) - 1
      /\ \A x \in Samples : Len(Append(m2s, x)) = Len(m2s) + 1
      /\ \A x \in Sums : Len(Append(s2m, x)) = Len(s2m) + 1
  BY Lengths
<1>b. mac.result \in Sums /\ 0 \in Samples /\ i \in Index
  BY SumTypes DEF TypeOK
<1>1. CASE IdleWait /\ UNCHANGED programVars
  BY <1>1 DEF IdleWait, OneInFlight, programVars
<1>2. CASE Accept /\ UNCHANGED programVars
  BY <1>2, <1>a DEF Accept, OneInFlight, programVars
<1>3. CASE Load /\ UNCHANGED programVars
  BY <1>3 DEF Load, OneInFlight, programVars
<1>4. CASE Multiply /\ UNCHANGED programVars
  BY <1>4 DEF Multiply, OneInFlight, programVars
<1>5. CASE Output /\ UNCHANGED programVars
  BY <1>5, <1>a, <1>b DEF Output, OneInFlight, programVars
<1>6. CASE SetCoefficient
  BY <1>6 DEF SetCoefficient, OneInFlight, filterVars
<1>7. CASE Flush
  BY <1>7, <1>a, <1>b DEF Flush, Push, OneInFlight, filterVars
<1>8. CASE FlushRead
  BY <1>8, <1>a DEF FlushRead, OneInFlight, filterVars
<1>9. CASE WriteSample
  <2>1. next \in Samples
    BY <1>9, FirFilterAssumption DEF WriteSample, TypeOK, Samples
  <2>2. QED
    BY <1>9, <2>1, <1>a DEF WriteSample, Push, OneInFlight, filterVars
<1>10. CASE ReadSample
  BY <1>10, <1>a DEF ReadSample, OneInFlight, filterVars
<1>11. CASE Reset
  BY <1>11, EmptySeq DEF Reset, ProgramStart, OneInFlight
<1>12. QED
  BY <1>1, <1>2, <1>3, <1>4, <1>5, <1>6, <1>7, <1>8, <1>9, <1>10, <1>11
  DEF Clock, Program

(* While a coefficient is written nothing is in flight.                    *)
LEMMA QuietSetup ==
  ASSUME TypeOK, OneInFlight, pc \notin {"flush_read", "sample_read"}
  PROVE  m2s = <<>> /\ s2m = <<>> /\ state = "IDLE"
BY Lengths DEF OneInFlight

LEMMA TapsPlacedStep ==
  ASSUME TypeOK, TapsPlaced, Next
  PROVE  TapsPlaced'
<1>1. CASE SetCoefficient
  BY <1>1 DEF SetCoefficient, TapsPlaced, Placed, TypeOK
<1>2. CASE ~ SetCoefficient
  <2>1. UNCHANGED ram_coeff
    BY <1>2 DEF Next, Clock, Program, Flush, FlushRead, WriteSample, ReadSample,
                Reset, Download, ramVars
  <2>2. QED
    BY <2>1 DEF TapsPlaced
<1>3. QED
  BY <1>1, <1>2

(* The registers the sequencer works on.                                   *)
LEMMA SumSoFarClock ==
  ASSUME TypeOK, TapsPlaced, SumSoFar, Clock
  PROVE  SumSoFar'
<1>a. /\ data_addr_oldest \in Index /\ mul_cnt \in Index /\ UNCHANGED ram_coeff
      /\ ram_data \in [Index -> Samples] /\ m2s \in Seq(Samples)
  BY DEF TypeOK, Clock
<1>b. mul_cnt \in 0 .. N - 1 /\ N \in Nat \ {0, 1} /\ mul_cnt \in Nat
  BY <1>a, FirFilterAssumption DEF Index, N
<1>1. CASE IdleWait
  BY <1>1 DEF IdleWait, SumSoFar
<1>2. CASE Accept
  <2>1. /\ state' = "LOAD" /\ mul_cnt' = mul_cnt /\ mul_cnt = 0
        /\ UNCHANGED data_addr_oldest
        /\ ram_data' = [ram_data EXCEPT ![data_addr_oldest] = Head(m2s)]
        /\ mac'.a = NoTap /\ mac'.sload = TRUE
        /\ coeff_dout' = ram_coeff[(mul_cnt + 1) % N]
        /\ data_dout' = ram_data[(data_addr_oldest + (mul_cnt + 1)) % N]
    BY <1>2 DEF Accept, MacEdge, ReadRams, Truncate, Address, SumSoFar, N
  <2>2. (data_addr_oldest + 1) % N \in Index
        /\ (data_addr_oldest + 1) % N # data_addr_oldest
    BY <1>a, <1>b, Places
  <2>3. data_dout' = NextSample'
    BY <2>1, <2>2, <1>a DEF NextSample, SampleOf
  <2>4. coeff_dout' = NextCoeff'
    BY <2>1, <1>a DEF NextCoeff, CoeffOf
  <2>5. SumOf(mul_cnt)' = {}
    BY <2>1, PartialNext DEF SumOf
  <2>6. QED
    BY <2>1, <2>3, <2>4, <2>5 DEF SumSoFar
<1>3. CASE Load
  <2>1. /\ state' = "MAC" /\ UNCHANGED <<mul_cnt, data_addr_oldest, ram_data>>
        /\ coeff_dout = NextCoeff /\ data_dout = NextSample
        /\ mac.a = NoTap
        /\ (IF mac.sload THEN {} ELSE mac.result) = SumOf(mul_cnt)
        /\ mac' = [a |-> coeff_dout, b |-> data_dout, sload |-> FALSE,
                   result |-> IF mac.sload THEN Product(mac.a, mac.b)
                              ELSE Add(mac.result, Product(mac.a, mac.b))]
    BY <1>3 DEF Load, MacEdge, SumSoFar
  <2>2. mac'.result = IF mac.sload THEN {} ELSE mac.result
    BY <2>1, AddNothing
  <2>3. NextCoeff' = NextCoeff /\ NextSample' = NextSample
        /\ SumOf(mul_cnt)' = SumOf(mul_cnt)
    BY <2>1, <1>a DEF NextCoeff, NextSample, SumOf
  <2>4. QED
    BY <2>1, <2>2, <2>3 DEF SumSoFar
<1>4. CASE Multiply
  <2>1. /\ UNCHANGED <<data_addr_oldest, ram_data>>
        /\ mac.a = NextCoeff /\ mac.b = NextSample
        /\ ~ mac.sload /\ mac.result = SumOf(mul_cnt)
        /\ mac' = [a |-> NoTap, b |-> 0, sload |-> FALSE,
                   result |-> IF mac.sload THEN Product(mac.a, mac.b)
                              ELSE Add(mac.result, Product(mac.a, mac.b))]
    BY <1>4 DEF Multiply, MacEdge, SumSoFar
  <2>2. Product(mac.a, mac.b)
          = Term(ram_coeff, ram_data, data_addr_oldest, mul_cnt + 1)
    BY <2>1 DEF Term, NextCoeff, NextSample
  <2>3. mac'.result = SumOf(mul_cnt + 1)
    BY <2>1, <2>2, <1>b, AddTerm DEF SumOf, TapsPlaced
  <2>4. CASE mul_cnt = NUM_COEFFICIENTS - 1
    <3>1. mul_cnt' = 0 /\ state' = "OUTPUT"
      BY <1>4, <2>4 DEF Multiply
    <3>2. SumOf(N)' = SumOf(mul_cnt + 1)
      BY <2>1, <2>4, <1>a, <1>b DEF SumOf, N
    <3>3. QED
      BY <3>1, <3>2, <2>3 DEF SumSoFar
  <2>5. CASE mul_cnt # NUM_COEFFICIENTS - 1
    <3>1. /\ mul_cnt' = mul_cnt + 1 /\ state' = "LOAD"
          /\ coeff_dout' = ram_coeff[(mul_cnt' + 1) % N]
          /\ data_dout' = ram_data[(data_addr_oldest + (mul_cnt' + 1)) % N]
      BY <1>4, <2>5 DEF Multiply, ReadRams, Truncate, Address, N
    <3>2. coeff_dout' = NextCoeff' /\ data_dout' = NextSample'
      BY <3>1, <2>1, <1>a DEF NextCoeff, NextSample, CoeffOf, SampleOf
    <3>3. SumOf(mul_cnt)' = SumOf(mul_cnt + 1)
      BY <3>1, <2>1, <1>a DEF SumOf
    <3>4. QED
      BY <3>1, <3>2, <3>3, <2>1, <2>3 DEF SumSoFar
  <2>6. QED
    BY <2>4, <2>5
<1>5. CASE Output
  BY <1>5 DEF Output, SumSoFar
<1>6. QED
  BY <1>1, <1>2, <1>3, <1>4, <1>5 DEF Clock

LEMMA SumSoFarKept ==
  ASSUME SumSoFar, UNCHANGED <<filterVars, ram_coeff>>
  PROVE  SumSoFar'
<1>1. UNCHANGED <<state, mul_cnt, data_addr_oldest, ram_data, coeff_dout,
                  data_dout, mac, ram_coeff>>
  BY DEF filterVars
<1>2. NextCoeff' = NextCoeff /\ NextSample' = NextSample
      /\ SumOf(mul_cnt)' = SumOf(mul_cnt) /\ SumOf(N)' = SumOf(N)
  BY <1>1 DEF NextCoeff, NextSample, SumOf
<1>3. QED
  BY <1>1, <1>2 DEF SumSoFar

LEMMA SumSoFarStep ==
  ASSUME TypeOK, OneInFlight, TapsPlaced, SumSoFar, Clock \/ Program \/ Reset
  PROVE  SumSoFar'
<1>1. CASE SetCoefficient
  <2>1. state = "IDLE" /\ UNCHANGED <<state, mul_cnt>>
    BY <1>1, QuietSetup DEF SetCoefficient, filterVars
  <2>2. QED
    BY <2>1 DEF SumSoFar
<1>2. CASE Flush \/ FlushRead \/ WriteSample \/ ReadSample
  BY <1>2, SumSoFarKept DEF Flush, FlushRead, WriteSample, ReadSample
<1>3. CASE Reset
  BY <1>3 DEF Reset, SumSoFar
<1>4. QED
  BY <1>1, <1>2, <1>3, SumSoFarClock DEF Program

LEMMA FilterInvStep ==
  "download" \notin Restarts /\ FilterInv /\ [Next]_vars => FilterInv'
<1> SUFFICES ASSUME "download" \notin Restarts, FilterInv, [Next]_vars
             PROVE  FilterInv'
  OBVIOUS
<1>1. CASE Next
  <2>1. Clock \/ Program \/ Reset
    BY <1>1 DEF Next, Download
  <2>2. TypeOK'
    BY <2>1, TypeClock, TypeProgramStep DEF FilterInv
  <2>3. QED
    BY <1>1, <2>1, <2>2, OneInFlightStep, TapsPlacedStep, SumSoFarStep
    DEF FilterInv
<1>2. CASE UNCHANGED vars
  <2>1. /\ UNCHANGED <<filterVars, ram_coeff, m2s, s2m, programVars>>
        /\ UNCHANGED <<state, pc>>
    BY <1>2 DEF vars, filterVars, programVars
  <2>2. SumSoFar' /\ OneInFlight' /\ TapsPlaced'
    BY <2>1, SumSoFarKept DEF FilterInv, OneInFlight, TapsPlaced
  <2>3. TypeOK'
    BY <1>2 DEF FilterInv, TypeOK, vars, filterVars, programVars
  <2>4. QED
    BY <2>2, <2>3 DEF FilterInv
<1>3. QED
  BY <1>1, <1>2

-----------------------------------------------------------------------------
(* Refinement *)

(* The shift register and the waiting samples the filter stands for.       *)
Line == [k \in 1 .. N - 1 |-> ram_data[(data_addr_oldest + k) % N]]
Waiting == IF state = "IDLE" THEN m2s ELSE <<ram_data[data_addr_oldest]>> \o m2s

LEMMA Mapping ==
  /\ UNCHANGED Shift!firVars <=> UNCHANGED <<ram_coeff, Line, Waiting, s2m>>
  /\ Shift!FirInit <=> /\ ram_coeff = [k \in 0 .. N - 1 |-> NoTap]
                       /\ Line = [k \in 1 .. N - 1 |-> 0]
                       /\ Waiting = <<>> /\ s2m = <<>>
  /\ Shift!WriteCoefficient <=>
       /\ Waiting = <<>>
       /\ \E k \in 0 .. N - 1, tap \in Taps :
            ram_coeff' = [ram_coeff EXCEPT ![k] = tap]
       /\ UNCHANGED <<Line, Waiting, s2m>>
  /\ Shift!WriteSample <=>
       /\ \E x \in Samples : Waiting' = Append(Waiting, x)
       /\ UNCHANGED <<ram_coeff, Line, s2m>>
  /\ Shift!Filter <=>
       /\ Waiting # <<>>
       /\ s2m' = Append(s2m, Shift!Result(Head(Waiting)))
       /\ Line' = [k \in 1 .. N - 1 |->
                     IF k = 1 THEN Head(Waiting) ELSE Line[k - 1]]
       /\ Waiting' = Tail(Waiting)
       /\ UNCHANGED ram_coeff
  /\ Shift!ReadResult <=>
       s2m # <<>> /\ s2m' = Tail(s2m) /\ UNCHANGED <<ram_coeff, Line, Waiting>>
  /\ Shift!Reset <=>
       /\ Line' \in [1 .. N - 1 -> Samples]
       /\ Waiting' = <<>> /\ s2m' = <<>>
       /\ UNCHANGED ram_coeff
BY DEF Line, Waiting, N, Shift!firVars, Shift!FirInit, Shift!WriteCoefficient,
       Shift!WriteSample, Shift!Filter, Shift!ReadResult, Shift!Reset

(* The finished sum is the result the shift register asks for.             *)
LEMMA FullSum ==
  ASSUME TypeOK
  PROVE  SumOf(N) = Shift!Result(ram_data[data_addr_oldest])
<1> DEFINE T(k) == Term(ram_coeff, ram_data, data_addr_oldest, k)
<1>a. data_addr_oldest \in Index /\ N \in Nat \ {0, 1}
  BY FirFilterAssumption DEF TypeOK, N
<1>1. SumOf(N) = UNION { T(k) : k \in 1 .. N }
  BY DEF SumOf, Partial
<1>2. \A k \in 1 .. N - 1 : T(k) = Shift!Product(ram_coeff[k], Line[k])
  BY <1>a, Places DEF Term, CoeffOf, SampleOf, Product, Shift!Product, Line
<1>3. T(N) = Shift!Product(ram_coeff[0], ram_data[data_addr_oldest])
  BY <1>a, LastPlace DEF Term, CoeffOf, SampleOf, Product, Shift!Product
<1>4. Shift!Result(ram_data[data_addr_oldest])
        = T(N) \cup UNION { Shift!Product(ram_coeff[k], Line[k]) : k \in 1 .. N - 1 }
  BY <1>3 DEF Shift!Result, Line, N
<1>5. UNION { Shift!Product(ram_coeff[k], Line[k]) : k \in 1 .. N - 1 }
        = UNION { T(k) : k \in 1 .. N - 1 }
  BY <1>2
<1>6. 1 .. N = (1 .. N - 1) \cup {N}
  BY <1>a
<1> HIDE DEF T
<1>7. UNION { T(k) : k \in 1 .. N } = T(N) \cup UNION { T(k) : k \in 1 .. N - 1 }
  BY <1>6, Zenon
<1>8. QED
  BY <1>1, <1>4, <1>5, <1>7

LEMMA ConsSeq ==
  ASSUME NEW S, NEW x \in S, NEW s \in Seq(S)
  PROVE  /\ <<x>> \o s # <<>> /\ Head(<<x>> \o s) = x /\ Tail(<<x>> \o s) = s
         /\ s # <<>> => <<Head(s)>> \o Tail(s) = s
<1>1. <<x>> \in Seq(S) /\ Len(<<x>>) = 1
  OBVIOUS
<1>2. /\ <<x>> \o s \in Seq(S) /\ Len(<<x>> \o s) = 1 + Len(s)
      /\ \A j \in 1 .. 1 + Len(s) : (<<x>> \o s)[j] = IF j <= 1 THEN x ELSE s[j - 1]
  BY <1>1, ConcatProperties
<1>3. Len(s) \in Nat
  BY LenProperties
<1>4. <<x>> \o s # <<>>
  BY <1>2, <1>3, EmptySeq
<1>5. Head(<<x>> \o s) = x
  BY <1>2, <1>3
<1>6. Tail(<<x>> \o s) = s
  <2>1. /\ Tail(<<x>> \o s) \in Seq(S) /\ Len(Tail(<<x>> \o s)) = Len(s)
        /\ \A j \in 1 .. Len(s) : Tail(<<x>> \o s)[j] = (<<x>> \o s)[j + 1]
    BY <1>2, <1>3, <1>4, HeadTailProperties
  <2>2. \A j \in 1 .. Len(s) : Tail(<<x>> \o s)[j] = s[j]
    BY <2>1, <1>2, <1>3
  <2>3. QED
    BY <2>1, <2>2, SeqEqual
<1>7. ASSUME s # <<>> PROVE <<Head(s)>> \o Tail(s) = s
  <2>1. /\ Head(s) \in S /\ Tail(s) \in Seq(S) /\ Len(Tail(s)) = Len(s) - 1
        /\ \A j \in 1 .. Len(Tail(s)) : Tail(s)[j] = s[j + 1]
    BY <1>7, HeadTailProperties
  <2>2. <<Head(s)>> \in Seq(S) /\ Len(<<Head(s)>>) = 1 /\ <<Head(s)>>[1] = Head(s)
    BY <2>1
  <2>3. Head(s) = s[1]
    BY <1>7
  <2>4. /\ <<Head(s)>> \o Tail(s) \in Seq(S)
        /\ Len(<<Head(s)>> \o Tail(s)) = Len(s)
        /\ \A j \in 1 .. Len(s) : (<<Head(s)>> \o Tail(s))[j] = s[j]
    BY <2>1, <2>2, <2>3, <1>3, ConcatProperties
  <2>5. QED
    BY <2>4, SeqEqual
<1>8. QED
  BY <1>4, <1>5, <1>6, <1>7

LEMMA ClockImplements ==
  ASSUME FilterInv, Clock
  PROVE  UNCHANGED Shift!firVars \/ Shift!Filter
<1>a. /\ data_addr_oldest \in Index /\ ram_data \in [Index -> Samples]
      /\ m2s \in Seq(Samples) /\ N \in Nat \ {0, 1} /\ UNCHANGED ram_coeff
  BY FirFilterAssumption DEF FilterInv, TypeOK, Clock, N
<1>b. ram_data[data_addr_oldest] \in Samples
  BY <1>a
<1>1. CASE IdleWait \/ Load \/ Multiply
  <2>1. UNCHANGED <<data_addr_oldest, ram_data, m2s, s2m>>
        /\ (state = "IDLE" <=> state' = "IDLE")
    BY <1>1 DEF IdleWait, Load, Multiply
  <2>2. Line' = Line /\ Waiting' = Waiting
    BY <2>1 DEF Line, Waiting
  <2>3. QED
    BY <2>1, <2>2, <1>a, Mapping
<1>2. CASE Accept
  <2>1. /\ state = "IDLE" /\ state' = "LOAD" /\ m2s # <<>> /\ m2s' = Tail(m2s)
        /\ UNCHANGED <<data_addr_oldest, s2m>>
        /\ ram_data' = [ram_data EXCEPT ![data_addr_oldest] = Head(m2s)]
    BY <1>2 DEF Accept
  <2>2. \A k \in 1 .. N - 1 : ram_data'[(data_addr_oldest + k) % N]
                                = ram_data[(data_addr_oldest + k) % N]
    BY <2>1, <1>a, Places
  <2>3. Line' = Line
    BY <2>1, <2>2 DEF Line
  <2>4. Waiting' = <<Head(m2s)>> \o Tail(m2s)
    BY <2>1, <1>a DEF Waiting
  <2>5. Waiting' = Waiting
    BY <2>1, <2>4, <1>a, <1>b, ConsSeq DEF Waiting
  <2>6. QED
    BY <2>1, <2>3, <2>5, <1>a, Mapping
<1>3. CASE Output
  <2>1. /\ state = "OUTPUT" /\ state' = "IDLE" /\ UNCHANGED <<ram_data, m2s>>
        /\ s2m' = Append(s2m, mac.result)
        /\ data_addr_oldest' = OlderAddr(data_addr_oldest)
    BY <1>3 DEF Output
  <2>2. Waiting = <<ram_data[data_addr_oldest]>> \o m2s /\ Waiting' = m2s
    BY <2>1 DEF Waiting
  <2>3. /\ Waiting # <<>> /\ Head(Waiting) = ram_data[data_addr_oldest]
        /\ Waiting' = Tail(Waiting)
    BY <2>2, <1>a, <1>b, ConsSeq
  <2>4. mac.result = Shift!Result(Head(Waiting))
    BY <2>1, <2>3, FullSum DEF FilterInv, SumSoFar
  <2>5. ASSUME NEW k \in 1 .. N - 1
        PROVE  (OlderAddr(data_addr_oldest) + k) % N
                 = IF k = 1 THEN data_addr_oldest
                   ELSE (data_addr_oldest + (k - 1)) % N
    <3>1. CASE data_addr_oldest = 0
      <4>1. OlderAddr(data_addr_oldest) = N - 1
        BY <3>1 DEF OlderAddr, N
      <4>2. (N - 1 + k) % N = k - 1
        <5>1. N - 1 + k \in N .. 2 * N - 1
          BY <1>a
        <5>. DEFINE a == N - 1 + k
        <5>. HIDE DEF a
        <5>2. a % N = a - N
          BY <5>1, ModHigh DEF a
        <5>3. QED
          BY <5>2, <1>a DEF a
      <4>3. k - 1 \in Index /\ (k - 1) % N = k - 1
        BY <1>a, ModLow DEF Index, N
      <4>4. QED
        BY <3>1, <4>1, <4>2, <4>3, <1>a
    <3>2. CASE data_addr_oldest # 0
      <4>1. OlderAddr(data_addr_oldest) + k = data_addr_oldest + (k - 1)
        BY <3>2, <1>a DEF OlderAddr, Index
      <4>2. data_addr_oldest % N = data_addr_oldest
        BY <1>a, ModLow
      <4>3. k = 1 => data_addr_oldest + (k - 1) = data_addr_oldest
        BY <1>a DEF Index
      <4>4. QED
        BY <4>1, <4>2, <4>3
    <3>3. QED
      BY <3>1, <3>2
  <2>6. Line' = [k \in 1 .. N - 1 |->
                   IF k = 1 THEN Head(Waiting) ELSE Line[k - 1]]
    <3>1. Line' = [k \in 1 .. N - 1 |->
                     ram_data[(OlderAddr(data_addr_oldest) + k) % N]]
      BY <2>1 DEF Line
    <3>2. ASSUME NEW k \in 1 .. N - 1
          PROVE  ram_data[(OlderAddr(data_addr_oldest) + k) % N]
                   = IF k = 1 THEN Head(Waiting) ELSE Line[k - 1]
      <4>1. CASE k = 1
        BY <4>1, <2>3, <2>5
      <4>2. CASE k # 1
        <5>1. k - 1 \in 1 .. N - 1
          BY <4>2, <1>a
        <5>2. QED
          BY <4>2, <5>1, <2>5 DEF Line
      <4>3. QED
        BY <4>1, <4>2
    <3>3. QED
      BY <3>1, <3>2
  <2>7. Shift!Filter
    BY <2>1, <2>3, <2>4, <2>6, <1>a, Mapping
  <2>8. QED
    BY <2>7
<1>4. QED
  BY <1>1, <1>2, <1>3 DEF Clock

LEMMA OtherImplements ==
  ASSUME FilterInv, Program \/ Reset
  PROVE  \/ Shift!WriteCoefficient \/ Shift!WriteSample \/ Shift!ReadResult
         \/ Shift!Reset
<1>a. /\ i \in Index /\ run \in 1 .. MaxRuns /\ 0 \in Samples
      /\ ram_data \in [Index -> Samples] /\ N \in Nat \ {0, 1}
  BY SumTypes, FirFilterAssumption DEF FilterInv, TypeOK, N
<1>b. UNCHANGED filterVars =>
        /\ Line' = Line /\ UNCHANGED state
        /\ UNCHANGED m2s => Waiting' = Waiting
  BY DEF filterVars, Line, Waiting
<1>c. pc \notin {"flush_read", "sample_read"} => state = "IDLE" /\ m2s = <<>>
  BY QuietSetup DEF FilterInv
<1>1. CASE SetCoefficient
  <2>1. <<run, i>> \in Taps /\ i \in 0 .. N - 1
    BY <1>a DEF Taps, Index, N
  <2>2. Waiting = <<>>
    BY <1>1, <1>c DEF SetCoefficient, Waiting
  <2>3. QED
    BY <1>1, <1>b, <2>1, <2>2, Mapping DEF SetCoefficient
<1>2. ASSUME UNCHANGED <<filterVars, ram_coeff, s2m>>,
             pc \notin {"flush_read", "sample_read"},
             NEW x \in Samples, Push(x)
      PROVE  Shift!WriteSample
  BY <1>2, <1>b, <1>c, Mapping DEF Push, Waiting
<1>3. CASE Flush
  BY <1>3, <1>2, <1>a DEF Flush
<1>4. CASE WriteSample
  <2>1. next \in Samples
    BY <1>4, FirFilterAssumption DEF WriteSample, FilterInv, TypeOK, Samples
  <2>2. QED
    BY <1>4, <1>2, <2>1 DEF WriteSample
<1>5. CASE FlushRead \/ ReadSample
  BY <1>5, <1>b, Mapping DEF FlushRead, ReadSample
<1>6. CASE Reset
  <2>0. 0 \in Index
    BY FirFilterAssumption DEF Index
  <2>1. \A k \in 1 .. N - 1 : (0 + k) % N \in Index
    BY <2>0, Places
  <2>2. Line' \in [1 .. N - 1 -> Samples]
    BY <1>6, <1>a, <2>1 DEF Reset, ramVars, Line
  <2>3. Waiting' = <<>>
    BY <1>6 DEF Reset, Waiting
  <2>4. QED
    BY <1>6, <2>2, <2>3, Mapping DEF Reset, ramVars
<1>7. QED
  BY <1>1, <1>3, <1>4, <1>5, <1>6 DEF Program

LEMMA InitImplements == Init => Shift!FirInit
<1> SUFFICES ASSUME Init PROVE Shift!FirInit
  OBVIOUS
<1>0. 0 \in Index
  BY FirFilterAssumption DEF Index
<1>1. \A k \in 1 .. N - 1 : (0 + k) % N \in Index
  BY <1>0, Places
<1>2. Line = [k \in 1 .. N - 1 |-> 0]
  BY <1>1 DEF Init, Line
<1>3. QED
  BY <1>2, Mapping DEF Init, Waiting, Index, N

(* Unless the program is started again while the filter keeps its state, a *)
(* FIR core with its FIFOs behaves as the shift register of the software   *)
(* filter, for any number of coefficients: the sums it delivers are those  *)
(* of the newest sample and the ones before it, one per sample, in order.  *)
THEOREM FirImplements ==
  ASSUME "download" \notin Restarts
  PROVE  Spec => ImplementsShiftRegister
<1>1. Init => FilterInv /\ Shift!FirInit
  BY FilterInvInit, InitImplements
<1>2. FilterInv /\ [Next]_vars => FilterInv'
  BY FilterInvStep
<1>3. FilterInv /\ [Next]_vars => [Shift!FirNext]_Shift!firVars
  <2>1. ASSUME FilterInv, Next
        PROVE  Shift!FirNext \/ UNCHANGED Shift!firVars
    BY <2>1, ClockImplements, OtherImplements DEF Next, Download, Shift!FirNext
  <2>2. ASSUME UNCHANGED vars PROVE UNCHANGED Shift!firVars
    BY <2>2, Mapping DEF vars, filterVars, Line, Waiting
  <2>3. QED
    BY <2>1, <2>2
<1>4. QED
  BY <1>1, <1>2, <1>3, PTL DEF Spec, ImplementsShiftRegister, Shift!FirSpec

-----------------------------------------------------------------------------
(* What the program reads.  The refinement lets this be argued on the      *)
(* shift register: RunInv says what Line and Waiting hold at each place in *)
(* the program.                                                            *)

(* Line[k] is the k-th sample before sample n, zero before the run began.  *)
History(n) ==
  \A k \in 1 .. N - 1 : Line[k] = IF n - k >= first THEN n - k ELSE 0

(* The newest m entries are zero.                                          *)
Zeros(m) == \A k \in 1 .. N - 1 : k <= m => Line[k] = 0

(* The convolution of the run's coefficients and samples at sample n.      *)
Convolved(n) ==
  { <<<<run, k>>, n - k>> : k \in { j \in Index : n - j >= first } }

CoefficientsSet ==
  \A k \in Index : pc # "coefficient" \/ k < i => ram_coeff[k] = <<run, k>>

FlushInv ==
  /\ pc \in {"coefficient", "flush", "flush_read"} => first = next
  /\ pc = "flush" => Zeros(i)
  /\ pc = "flush_read" =>
       IF Waiting = <<>> THEN Zeros(i + 1) ELSE Waiting = <<0>> /\ Zeros(i)

SampleInv ==
  /\ pc = "sample" => first <= next /\ History(next)
  /\ pc = "sample_read" =>
       /\ first < next
       /\ IF Waiting = <<>>
            THEN History(next) /\ s2m = <<Convolved(next - 1)>>
            ELSE Waiting = <<next - 1>> /\ History(next - 1)

RunInv == CoefficientsSet /\ FlushInv /\ SampleInv /\ FilterOutput

LEMMA RunInvInit == Init => RunInv
BY DEF Init, RunInv, CoefficientsSet, FlushInv, SampleInv, FilterOutput,
       NothingHeard, Index

(* OneInFlight on the level of the shift register.                         *)
LEMMA WaitingOrDone ==
  ASSUME FilterInv
  PROVE  /\ pc \notin {"flush_read", "sample_read"} =>
              Waiting = <<>> /\ s2m = <<>> /\ m2s = <<>> /\ state = "IDLE"
         /\ pc \in {"flush_read", "sample_read"} => (Waiting = <<>> <=> s2m # <<>>)
<1>1. /\ Len(m2s) \in Nat /\ Len(s2m) \in Nat
      /\ Len(m2s) = 0 <=> m2s = <<>>
      /\ Len(s2m) = 0 <=> s2m = <<>>
  BY Lengths DEF FilterInv
<1>2. state # "IDLE" => Waiting # <<>>
  <2>1. ram_data[data_addr_oldest] \in Samples /\ m2s \in Seq(Samples)
    BY DEF FilterInv, TypeOK
  <2>2. <<ram_data[data_addr_oldest]>> \o m2s # <<>>
    BY <2>1, ConsSeq
  <2>3. QED
    BY <2>2 DEF Waiting
<1>3. state = "IDLE" => Waiting = m2s
  BY DEF Waiting
<1>4. QED
  BY <1>1, <1>2, <1>3 DEF FilterInv, OneInFlight

(* The result for a sample of the run, when the older ones are in place.   *)
LEMMA ResultConvolved ==
  ASSUME TypeOK, \A k \in Index : ram_coeff[k] = <<run, k>>,
         NEW n \in Nat, first <= n, History(n)
  PROVE  Shift!Result(n) = Convolved(n)
<1>a. first \in Nat \ {0} /\ run \in Nat \ {0} /\ N \in Nat \ {0, 1}
  BY FirFilterAssumption DEF TypeOK, N
<1>b. Index = {0} \cup (1 .. N - 1) /\ 0 \notin 1 .. N - 1
  BY <1>a DEF Index, N
<1> DEFINE P(k) == IF n - k >= first THEN {<<<<run, k>>, n - k>>} ELSE {}
<1>1. Shift!Product(ram_coeff[0], n) = P(0)
  <2>1. ram_coeff[0] = <<run, 0>> /\ <<run, 0>> # NoTap
    BY <1>a, <1>b DEF NoTap
  <2>2. n # 0 /\ n - 0 = n
    BY <1>a
  <2>3. QED
    BY <2>1, <2>2 DEF Shift!Product
<1>2. ASSUME NEW k \in 1 .. N - 1
      PROVE  Shift!Product(ram_coeff[k], Line[k]) = P(k)
  <2>1. ram_coeff[k] = <<run, k>> /\ <<run, k>> # NoTap
    BY <1>a, <1>b DEF NoTap
  <2>2. Line[k] = IF n - k >= first THEN n - k ELSE 0
    BY DEF History
  <2>3. n - k >= first => n - k # 0
    BY <1>a
  <2>4. QED
    BY <2>1, <2>2, <2>3 DEF Shift!Product
<1>3. Shift!Result(n)
        = Shift!Product(ram_coeff[0], n)
          \cup UNION { Shift!Product(ram_coeff[k], Line[k]) : k \in 1 .. N - 1 }
  BY DEF Shift!Result, Line, N
<1>4. UNION { Shift!Product(ram_coeff[k], Line[k]) : k \in 1 .. N - 1 }
        = UNION { P(k) : k \in 1 .. N - 1 }
  BY <1>2
<1>5. Convolved(n) = UNION { P(k) : k \in Index }
  BY DEF Convolved
<1> HIDE DEF P
<1>6. UNION { P(k) : k \in Index } = P(0) \cup UNION { P(k) : k \in 1 .. N - 1 }
  BY <1>b, Zenon
<1>7. QED
  BY <1>1, <1>3, <1>4, <1>5, <1>6

LEMMA RunInvClock ==
  ASSUME FilterInv, RunInv, Clock
  PROVE  RunInv'
<1>a. /\ UNCHANGED <<pc, i, run, first, next, heard, ram_coeff>>
      /\ i \in Index /\ N \in Nat \ {0, 1}
      /\ first \in Nat \ {0} /\ next \in Nat \ {0}
  BY FirFilterAssumption DEF Clock, programVars, FilterInv, TypeOK, N
<1>b. CoefficientsSet' /\ FilterOutput'
  BY <1>a DEF RunInv, CoefficientsSet, FilterOutput
<1>1. CASE UNCHANGED Shift!firVars
  <2>1. UNCHANGED <<Line, Waiting, s2m>>
    BY <1>1, Mapping
  <2>2. \A n : History(n)' <=> History(n)
    BY <1>a, <2>1 DEF History
  <2>3. \A m : Zeros(m)' <=> Zeros(m)
    BY <2>1 DEF Zeros
  <2>4. \A n : Convolved(n)' = Convolved(n)
    BY <1>a DEF Convolved
  <2>5. FlushInv' /\ SampleInv'
    BY <1>a, <2>1, <2>2, <2>3, <2>4 DEF RunInv, FlushInv, SampleInv, Zeros, History, Convolved
  <2>6. QED
    BY <1>b, <2>5 DEF RunInv
<1>2. CASE Shift!Filter
  <2>1. /\ Waiting # <<>>
        /\ s2m' = Append(s2m, Shift!Result(Head(Waiting)))
        /\ Line' = [k \in 1 .. N - 1 |->
                      IF k = 1 THEN Head(Waiting) ELSE Line[k - 1]]
        /\ Waiting' = Tail(Waiting)
    BY <1>2, Mapping
  <2>2. pc \in {"flush_read", "sample_read"} /\ s2m = <<>>
    BY <2>1, WaitingOrDone
  <2>3. CASE pc = "flush_read"
    <3>1. Waiting = <<0>> /\ Zeros(i) /\ first = next
      BY <2>1, <2>3 DEF RunInv, FlushInv
    <3>2. Waiting' = <<>> /\ Head(Waiting) = 0
      BY <2>1, <3>1
    <3>3. Zeros(i + 1)'
      <4>1. ASSUME NEW k \in 1 .. N - 1, k <= i + 1 PROVE Line'[k] = 0
        <5>1. CASE k = 1
          BY <2>1, <3>2, <5>1
        <5>2. CASE k # 1
          <6>1. k - 1 \in 1 .. N - 1 /\ k - 1 <= i
            BY <4>1, <5>2, <1>a DEF Index
          <6>2. QED
            BY <2>1, <3>1, <5>2, <6>1 DEF Zeros
        <5>3. QED
          BY <5>1, <5>2
      <4>2. QED
        BY <4>1, <1>a DEF Zeros
    <3>4. FlushInv' /\ SampleInv'
      BY <1>a, <2>3, <3>1, <3>2, <3>3 DEF FlushInv, SampleInv
    <3>5. QED
      BY <1>b, <3>4 DEF RunInv
  <2>4. CASE pc = "sample_read"
    <3>1. Waiting = <<next - 1>> /\ History(next - 1) /\ first < next
      BY <2>1, <2>4 DEF RunInv, SampleInv
    <3>2. Waiting' = <<>> /\ Head(Waiting) = next - 1
      BY <2>1, <3>1
    <3>3. History(next)'
      <4>1. ASSUME NEW k \in 1 .. N - 1
            PROVE  Line'[k] = IF next - k >= first THEN next - k ELSE 0
        <5>1. CASE k = 1
          BY <2>1, <3>1, <3>2, <5>1, <1>a
        <5>2. CASE k # 1
          <6>1. k - 1 \in 1 .. N - 1 /\ next - 1 - (k - 1) = next - k
            BY <5>2, <1>a
          <6>2. Line[k - 1] = IF next - k >= first THEN next - k ELSE 0
            BY <3>1, <6>1 DEF History
          <6>3. QED
            BY <2>1, <5>2, <6>2
        <5>3. QED
          BY <5>1, <5>2
      <4>2. QED
        BY <4>1, <1>a DEF History
    <3>4. Shift!Result(next - 1) = Convolved(next - 1)
      <4>1. \A k \in Index : ram_coeff[k] = <<run, k>>
        BY <2>4 DEF RunInv, CoefficientsSet
      <4>2. next - 1 \in Nat /\ first <= next - 1
        BY <3>1, <1>a
      <4>3. QED
        BY <4>1, <4>2, <3>1, ResultConvolved DEF FilterInv
    <3>5. s2m' = <<Convolved(next - 1)>>
      BY <2>1, <2>2, <3>2, <3>4
    <3>6. Convolved(next - 1)' = Convolved(next - 1)
      BY <1>a DEF Convolved
    <3>7. FlushInv' /\ SampleInv'
      BY <1>a, <2>4, <3>1, <3>2, <3>3, <3>5, <3>6 DEF FlushInv, SampleInv
    <3>8. QED
      BY <1>b, <3>7 DEF RunInv
  <2>5. QED
    BY <2>2, <2>3, <2>4
<1>3. QED
  BY <1>1, <1>2, ClockImplements

(* The predicates depend on the line, the run and its first sample only.   *)
LEMMA SameLine ==
  ASSUME UNCHANGED <<Line, first, run>>
  PROVE  /\ \A n : History(n)' <=> History(n)
         /\ \A m : Zeros(m)' <=> Zeros(m)
         /\ \A n : Convolved(n)' = Convolved(n)
BY DEF History, Zeros, Convolved

LEMMA RunInvProgram ==
  ASSUME FilterInv, RunInv, Program
  PROVE  RunInv'
<1>a. /\ i \in Index /\ N \in Nat \ {0, 1} /\ run \in Nat
      /\ first \in Nat \ {0} /\ next \in Nat \ {0}
      /\ ram_coeff \in [Index -> Taps]
  BY FirFilterAssumption DEF FilterInv, TypeOK, N
<1>b. UNCHANGED filterVars /\ UNCHANGED <<run, first>>
      /\ UNCHANGED state /\ Line' = Line
  BY DEF Program, SetCoefficient, Flush, FlushRead, WriteSample, ReadSample,
         filterVars, Line
<1>c. /\ \A n : History(n)' <=> History(n)
      /\ \A m : Zeros(m)' <=> Zeros(m)
      /\ \A n : Convolved(n)' = Convolved(n)
  BY <1>b, SameLine
<1>d. UNCHANGED m2s => Waiting' = Waiting
  BY <1>b DEF filterVars, Waiting
<1>e. UNCHANGED <<ram_coeff, i>> /\ pc # "coefficient" => CoefficientsSet'
  BY <1>b DEF RunInv, CoefficientsSet
<1>f. UNCHANGED heard => FilterOutput'
  BY <1>b DEF RunInv, FilterOutput
<1>g. pc \notin {"flush_read", "sample_read"} =>
        Waiting = <<>> /\ s2m = <<>> /\ m2s = <<>> /\ state = "IDLE"
  BY WaitingOrDone
<1>1. CASE SetCoefficient
  <2>1. CoefficientsSet'
    <3>1. ASSUME NEW k \in Index, pc' # "coefficient" \/ k < i'
          PROVE  ram_coeff'[k] = <<run, k>>
      <4>1. k <= i
        BY <1>1, <3>1, <1>a DEF SetCoefficient, Index
      <4>2. CASE k = i
        BY <1>1, <4>2, <1>a DEF SetCoefficient
      <4>3. CASE k < i
        <5>1. ram_coeff[k] = <<run, k>>
          BY <4>3 DEF RunInv, CoefficientsSet
        <5>2. QED
          BY <1>1, <4>3, <5>1, <1>a DEF SetCoefficient, Index
      <4>4. QED
        BY <4>1, <4>2, <4>3, <1>a DEF Index
    <3>2. QED
      BY <3>1, <1>b DEF CoefficientsSet
  <2>2. pc' = "flush" => Zeros(i)'
    BY <1>1 DEF SetCoefficient, Zeros
  <2>3. FlushInv' /\ SampleInv'
    BY <1>1, <1>b, <2>2
    DEF SetCoefficient, RunInv, FlushInv, SampleInv, Zeros
  <2>4. QED
    BY <1>1, <2>1, <2>3, <1>f DEF SetCoefficient, RunInv
<1>2. CASE Flush
  <2>1. Waiting' = <<0>>
    BY <1>2, <1>b, <1>g DEF Flush, Push, Waiting
  <2>2. first = next /\ Zeros(i) /\ i' = i
    BY <1>2 DEF Flush, RunInv, FlushInv
  <2>3. Zeros(i)'
    BY <2>2, <1>b DEF Zeros
  <2>4. FlushInv' /\ SampleInv'
    BY <1>2, <1>b, <2>1, <2>2, <2>3 DEF Flush, FlushInv, SampleInv
  <2>5. QED
    BY <1>2, <2>4, <1>e, <1>f DEF Flush, RunInv
<1>3. CASE FlushRead
  <2>1. Waiting = <<>> /\ Waiting' = <<>> /\ first = next /\ Zeros(i + 1)
    BY <1>3, <1>d, WaitingOrDone DEF FlushRead, RunInv, FlushInv
  <2>2. CASE i = NUM_COEFFICIENTS - 1
    <3>1. pc' = "sample" /\ UNCHANGED <<first, next>>
      BY <1>3, <2>2, <1>b DEF FlushRead
    <3>2. History(next)
      BY <2>1, <2>2, <1>a DEF History, Zeros, N
    <3>3. History(next)'
      BY <3>1, <3>2, <1>b DEF History
    <3>4. FlushInv' /\ SampleInv'
      BY <3>1, <3>3, <2>1, <1>a DEF FlushInv, SampleInv
    <3>5. CoefficientsSet'
      BY <1>3, <3>1, <1>b DEF FlushRead, RunInv, CoefficientsSet
    <3>6. QED
      BY <1>3, <3>4, <3>5, <1>f DEF FlushRead, RunInv
  <2>3. CASE i # NUM_COEFFICIENTS - 1
    <3>1. pc' = "flush" /\ i' = i + 1 /\ UNCHANGED <<first, next>>
      BY <1>3, <2>3, <1>b DEF FlushRead
    <3>2. Zeros(i)'
      BY <2>1, <3>1, <1>b DEF Zeros
    <3>3. FlushInv' /\ SampleInv'
      BY <3>1, <3>2, <2>1 DEF FlushInv, SampleInv
    <3>4. CoefficientsSet'
      BY <1>3, <3>1, <1>b DEF FlushRead, RunInv, CoefficientsSet
    <3>5. QED
      BY <1>3, <3>3, <3>4, <1>f DEF FlushRead, RunInv
  <2>4. QED
    BY <2>2, <2>3
<1>4. CASE WriteSample
  <2>1. Waiting' = <<next>> /\ next' = next + 1 /\ pc' = "sample_read"
    BY <1>4, <1>b, <1>g DEF WriteSample, Push, Waiting
  <2>2. first <= next /\ History(next)
    BY <1>4 DEF WriteSample, RunInv, SampleInv
  <2>3. next' - 1 = next /\ first' < next'
    BY <2>1, <2>2, <1>a, <1>b
  <2>4. History(next - 1)'
    BY <2>2, <2>3, <1>b DEF History
  <2>5. FlushInv' /\ SampleInv'
    BY <2>1, <2>3, <2>4 DEF FlushInv, SampleInv
  <2>6. QED
    BY <1>4, <2>5, <1>e, <1>f DEF WriteSample, RunInv
<1>5. CASE ReadSample
  <2>1. /\ pc = "sample_read" /\ pc' = "sample" /\ UNCHANGED <<next, m2s>>
        /\ s2m # <<>> /\ heard' = [n |-> next - 1, sum |-> Head(s2m)]
    BY <1>5 DEF ReadSample
  <2>2. Waiting = <<>> /\ History(next) /\ s2m = <<Convolved(next - 1)>>
        /\ first < next
    BY <2>1, WaitingOrDone DEF RunInv, SampleInv
  <2>3. heard'.n = next - 1 /\ heard'.sum = Convolved(next - 1)
    BY <2>1, <2>2
  <2>4. FilterOutput'
    BY <2>3, <1>b DEF FilterOutput, Convolved
  <2>5. History(next)'
    BY <2>1, <2>2, <1>b DEF History
  <2>6. FlushInv' /\ SampleInv'
    BY <2>1, <2>2, <2>5, <1>a, <1>b DEF FlushInv, SampleInv
  <2>7. QED
    BY <1>5, <2>1, <2>4, <2>6, <1>e DEF ReadSample, RunInv
<1>6. QED
  BY <1>1, <1>2, <1>3, <1>4, <1>5 DEF Program

LEMMA RunInvReset == Reset => RunInv'
<1> SUFFICES ASSUME Reset PROVE RunInv'
  OBVIOUS
<1>1. pc' = "coefficient" /\ i' = 0 /\ first' = next /\ next' = next
      /\ heard' = NothingHeard
  BY DEF Reset, ProgramStart
<1>2. CoefficientsSet' /\ FlushInv' /\ SampleInv' /\ FilterOutput'
  BY <1>1 DEF CoefficientsSet, FlushInv, SampleInv, FilterOutput, NothingHeard,
              Index
<1>3. QED
  BY <1>2 DEF RunInv

(* Unless the program is started again while the filter keeps its state,   *)
(* every result it reads is the convolution of the samples and the         *)
(* coefficients of its own run, whatever is left in the RAMs of the run    *)
(* before: the zeros of fir_filter_setup_hw are enough.                    *)
THEOREM FirOutputCorrect ==
  ASSUME "download" \notin Restarts
  PROVE  Spec => []FilterOutput
<1>1. Init => FilterInv /\ RunInv
  BY FilterInvInit, RunInvInit
<1>2. FilterInv /\ RunInv /\ [Next]_vars => FilterInv' /\ RunInv'
  <2>1. ASSUME FilterInv, RunInv, Next PROVE RunInv'
    BY <2>1, RunInvClock, RunInvProgram, RunInvReset DEF Next, Download
  <2>2. ASSUME RunInv, UNCHANGED vars PROVE RunInv'
    BY <2>2 DEF vars, filterVars, programVars, RunInv, CoefficientsSet, FlushInv,
      SampleInv, FilterOutput, History, Zeros, Convolved, Line, Waiting
  <2>3. QED
    BY <2>1, <2>2, FilterInvStep
<1>3. RunInv => FilterOutput
  BY DEF RunInv
<1>4. QED
  BY <1>1, <1>2, <1>3, PTL DEF Spec
=============================================================================
