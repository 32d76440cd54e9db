-------------------------- MODULE FftWrapperProofs --------------------------
(***************************************************************************)
(* Proofs about the FFT wrapper for frames of any length, FIFOs of any     *)
(* depth and any pauses of core and program.                               *)
(*                                                                         *)
(* The words are scaled with the exponent of their frame if the core's     *)
(* exponent is on its port at least two cycles before the first bin        *)
(* (Lead > 1), since it passes through two registers.                      *)
(*                                                                         *)
(* The last section is about the loop behind the transform (Unpack).       *)
(***************************************************************************)
EXTENDS FftWrapper, SequenceTheorems, TLAPS

(* The words of the frame that the wrapper has taken from the FIFO.        *)
Taken == 2 * core.n + IF input_state = "IMAG" THEN 1 ELSE 0

(* A frame is on its way in, or none is in the wrapper; the words of the   *)
(* frame are all put out or about to be.                                   *)
Collecting == core.phase = "collect"
Loading == Collecting /\ (pc = "receive" => Taken + Len(m2s) = 2 * N)
Draining == Collecting /\ pc = "receive" /\ Taken = 0 /\ m2s = <<>>

Got == IF pc = "receive" THEN i ELSE 0

-----------------------------------------------------------------------------
(* The invariant                                                           *)

Parts == {"re", "im"}
Words == [frame : Frames, dir : {0, 1}, bin : Int, part : Parts]
Scalings == Frames \X {0, 1}
Results == [word : Words, exponent : Scalings, exponent_abs : Scalings]
Cores == [phase : {"collect", "compute", "emit"}, n : Nat, frame : Frames, dir : {0, 1},
          ok : BOOLEAN, valid : BOOLEAN, exp : Frames]

Types ==
  /\ state \in {"TRANSFER", "OUTPUT"}
  /\ input_state \in {"REAL", "IMAG"} /\ index \in 0 .. N /\ temp_in \in Words
  /\ output_state \in {"REAL", "IMAG", "INVERSE"} /\ receive_index \in 0 .. N
  /\ temp_out \in Words /\ exponent \in Scalings /\ exponent_abs \in Scalings
  /\ core \in Cores /\ inverse \in {0, 1}
  /\ m2s \in Seq(Words) /\ Len(m2s) <= FIFO_DEPTH
  /\ s2m \in Seq(Results)
  /\ Len(s2m) <= FIFO_DEPTH
  /\ pc \in {"idle", "send", "receive"} /\ frame \in Frames /\ i \in 0 .. 2 * N - 1

(* The words that are sent and not taken.                                  *)
Sent ==
  /\ Collecting => \A k \in 1 .. Len(m2s) : m2s[k] = In(frame, Taken + k - 1)
  /\ ~Collecting => m2s = <<>> /\ input_state = "REAL" /\ pc = "receive"
  /\ pc = "idle" => Taken + Len(m2s) = 0 /\ i = 0
  /\ pc = "send" => Taken + Len(m2s) = i
  /\ pc = "receive" /\ Collecting => Loading \/ Draining

(* The pairs that the core has.                                            *)
Collected ==
  /\ Collecting =>
       /\ core.n < N /\ index = core.n /\ ~core.valid
       /\ Taken > 0 => state = "TRANSFER"
       /\ input_state = "IMAG" => temp_in = In(frame, Taken - 1)
  /\ ~Collecting \/ core.n > 0 => core.frame = frame /\ core.dir = inverse /\ core.ok

(* The exponent goes through two registers before the first bin comes.     *)
Computed ==
  core.phase = "compute" =>
    /\ ~core.valid /\ core.n <= Lead /\ receive_index = 0 /\ output_state # "IMAG"
    /\ \/ index = N /\ core.n = 0 /\ state = "TRANSFER"
       \/ index = 0 /\ state = "OUTPUT"
    /\ core.n > 0 => core.exp = frame
    /\ core.n > 1 => exponent = <<frame, inverse>>

Scaled ==
  /\ core.exp = frame /\ exponent = <<frame, inverse>>
  /\ Lead > 1 => exponent_abs = <<frame, inverse>>

(* Where core and wrapper are in the frame that is put out.                *)
Emitted ==
  core.phase = "emit" =>
    /\ index = 0 /\ state = "OUTPUT" /\ core.n < N /\ Scaled
    /\ output_state = "INVERSE" => receive_index = core.n
    /\ output_state = "REAL" =>
         /\ receive_index = core.n
         /\ core.n > 0 => core.valid /\ temp_out = Word(frame, inverse, core.n, "re")
    /\ output_state = "IMAG" =>
         receive_index = core.n - 1 /\ temp_out = Word(frame, inverse, core.n - 1, "im")

(* What is left to do of a frame when the core is through with it.         *)
Ended ==
  Collecting =>
    /\ output_state = "IMAG" =>
         /\ Draining /\ state = "OUTPUT" /\ receive_index = N - 1 /\ Scaled
         /\ temp_out = Word(frame, inverse, N - 1, "im")
    /\ output_state # "IMAG" => receive_index \in {0, N}
    /\ receive_index # 0 => Taken = 0
    /\ state = "OUTPUT" => receive_index # 0
    /\ state = "TRANSFER" /\ receive_index # 0 => output_state = "REAL"

(* The direction has reached the output when a frame comes in.             *)
Directed ==
  /\ output_state = "IMAG" => inverse = 0
  /\ (inverse = 1 /\ output_state # "INVERSE") \/ (inverse = 0 /\ output_state = "INVERSE") =>
       Collecting /\ Taken = 0

PutOut ==
  IF Loading \/ core.phase = "compute" THEN 0
  ELSE IF Collecting THEN FrameWords(inverse) - IF output_state = "IMAG" THEN 1 ELSE 0
  ELSE IF output_state = "INVERSE" THEN core.n
  ELSE IF output_state = "REAL" THEN 2 * core.n ELSE 2 * core.n - 1

(* The words that are put out and not read.  Only the last imaginary word  *)
(* can be lost: it does not wait for room in the FIFO.                     *)
Received ==
  /\ \/ Got + Len(s2m) = PutOut
     \/ Spare = 0 /\ Draining /\ output_state # "IMAG" /\ Got + Len(s2m) + 1 = PutOut
  /\ Lead > 1 => \A k \in 1 .. Len(s2m) : s2m[k] = Out(frame, inverse, Got + k - 1)
  /\ output_state = "IMAG" => Len(s2m) <= FIFO_DEPTH - Spare

FrameInv == Types /\ Sent /\ Collected /\ Computed /\ Emitted /\ Ended /\ Directed /\ Received

-----------------------------------------------------------------------------
(* Words and FIFOs                                                         *)

LEMMA Sizes ==
  /\ N \in Nat /\ N > 1 /\ Spare \in Nat /\ Lead \in Nat /\ Lead > 0
  /\ FIFO_DEPTH \in Nat /\ FIFO_DEPTH > Spare
BY FftWrapperAssumption

LEMMA WordTypes ==
  /\ \A f \in Frames, d \in {0, 1}, k \in Int, part \in Parts : Word(f, d, k, part) \in Words
  /\ \A f \in Frames, j \in Int : In(f, j) \in Words /\ In(f, j).frame = f
  /\ None \in Words /\ Junk \in Words
<1>1. \A f \in Frames, d \in {0, 1}, k \in Int, part \in Parts : Word(f, d, k, part) \in Words
  BY DEF Word, Words
<1>2. ASSUME NEW f \in Frames, NEW j \in Int
      PROVE  In(f, j) \in Words /\ In(f, j).frame = f
  <2>1. j \div 2 \in Int
    BY Z3T(20)
  <2>2. (IF j % 2 = 0 THEN "re" ELSE "im") \in Parts
    BY DEF Parts
  <2>3. In(f, j).frame = f
    BY DEF In, Word
  <2> QED BY <1>1, <2>1, <2>2, <2>3 DEF In
<1>3. None \in Words /\ Junk \in Words
  BY <1>1 DEF None, Junk, Frames, Parts
<1> QED BY <1>1, <1>2, <1>3

(* The words of a bin in the output.                                       *)
LEMMA BinsOut ==
  ASSUME NEW f, NEW k \in Nat
  PROVE  /\ Out(f, 0, 2 * k) =
              [word |-> Word(f, 0, k, "re"), exponent |-> <<f, 0>>, exponent_abs |-> <<f, 0>>]
         /\ Out(f, 0, 2 * k + 1) =
              [word |-> Word(f, 0, k, "im"), exponent |-> <<f, 0>>, exponent_abs |-> <<f, 0>>]
         /\ Out(f, 1, k) =
              [word |-> Word(f, 1, k, "re"), exponent |-> <<f, 1>>, exponent_abs |-> <<f, 1>>]
<1>1. /\ (2 * k) \div 2 = k /\ (2 * k) % 2 = 0
      /\ (2 * k + 1) \div 2 = k /\ (2 * k + 1) % 2 # 0
  BY Z3T(20)
<1> QED BY <1>1 DEF Out

LEMMA TailWords ==
  ASSUME NEW S, NEW q \in Seq(S), q # <<>>
  PROVE  /\ Tail(q) \in Seq(S) /\ Len(Tail(q)) = Len(q) - 1 /\ Len(q) \in Nat /\ Len(q) > 0
         /\ Head(q) = q[1] /\ Head(q) \in S
         /\ \A k \in 1 .. Len(Tail(q)) : Tail(q)[k] = q[k + 1]
<1>1. Len(q) \in Nat /\ Len(q) > 0
  BY LenProperties, EmptySeq
<1> QED BY <1>1, HeadTailProperties

LEMMA AppendWords ==
  ASSUME NEW S, NEW q \in Seq(S), NEW x \in S
  PROVE  /\ Append(q, x) \in Seq(S) /\ Len(Append(q, x)) = Len(q) + 1 /\ Len(q) \in Nat
         /\ \A k \in 1 .. Len(q) : Append(q, x)[k] = q[k]
         /\ Append(q, x)[Len(q) + 1] = x
<1>1. Len(q) \in Nat
  BY LenProperties
<1> QED BY <1>1, AppendProperties

LEMMA NoWords == ASSUME NEW S, NEW q \in Seq(S) PROVE Len(q) \in Nat /\ (q = <<>> <=> Len(q) = 0)
BY LenProperties, EmptySeq

LEMMA FifoTypes ==
  ASSUME Types
  PROVE  /\ m2s \in Seq(Words) /\ s2m \in Seq(Results) /\ Len(m2s) \in Nat /\ Len(s2m) \in Nat
         /\ m2s = <<>> <=> Len(m2s) = 0
         /\ s2m = <<>> <=> Len(s2m) = 0
BY NoWords DEF Types

-----------------------------------------------------------------------------
(* The processes of a clock cycle                                          *)

(* input_proc takes no word, the first or the second one of a pair.  When  *)
(* it goes back to the first index there is no word.                       *)
LEMMA InputCases ==
  ASSUME Types, Sent, Collected, NEW si, Input(si)
  PROVE  /\ m2s' \in Seq(Words) /\ Len(m2s') <= FIFO_DEPTH
         /\ \/ /\ UNCHANGED <<m2s, input_state, temp_in>> /\ ~Arrives(si)
               /\ index' = IF input_state = "REAL" /\ index = N THEN 0 ELSE index
            \/ /\ Arrives(si) /\ Collecting /\ input_state = "REAL" /\ input_state' = "IMAG"
               /\ temp_in' = Head(m2s) /\ m2s' = Tail(m2s) /\ index' = index
            \/ /\ Arrives(si) /\ Collecting /\ input_state = "IMAG" /\ input_state' = "REAL"
               /\ temp_in' = temp_in /\ m2s' = Tail(m2s) /\ index' = index + 1
<1>1. Arrives(si) => m2s # <<>> /\ Collecting
  BY DEF Arrives, Sent
<1>2. Collecting => index # N
  BY Sizes DEF Collected, Types
<1>3. m2s' \in Seq(Words) /\ Len(m2s') <= FIFO_DEPTH
  <2>1. m2s # <<>> => Tail(m2s) \in Seq(Words) /\ Len(Tail(m2s)) <= FIFO_DEPTH
    BY FifoTypes, Sizes, TailWords DEF Types
  <2> QED BY <1>1, <2>1 DEF Input, Types
<1>4. CASE input_state = "REAL"
  BY <1>1, <1>2, <1>3, <1>4 DEF Input, InputReal, InputImag, inputVars
<1>5. CASE input_state = "IMAG"
  BY <1>1, <1>2, <1>3, <1>5 DEF Input, InputReal, InputImag, inputVars
<1> QED BY <1>4, <1>5 DEF Types

(* What arrives is the next word of the frame.                             *)
LEMMA NextArrives ==
  ASSUME Types, Sent, Collecting, NEW si, Arrives(si)
  PROVE  /\ Head(m2s) = In(frame, Taken) /\ Len(Tail(m2s)) = Len(m2s) - 1 /\ Len(m2s) \in Nat
         /\ \A k \in 1 .. Len(Tail(m2s)) : Tail(m2s)[k] = In(frame, Taken + 1 + k - 1)
         /\ Len(m2s) > 0 /\ (Tail(m2s) = <<>> <=> Len(Tail(m2s)) = 0)
         /\ state = "TRANSFER"
<1>1. m2s # <<>> /\ m2s \in Seq(Words) /\ state = "TRANSFER"
  BY FifoTypes DEF Arrives
<1>2. /\ Tail(m2s) \in Seq(Words) /\ Len(Tail(m2s)) = Len(m2s) - 1
      /\ Len(m2s) \in Nat /\ Len(m2s) > 0
      /\ Head(m2s) = m2s[1]
      /\ \A k \in 1 .. Len(Tail(m2s)) : Tail(m2s)[k] = m2s[k + 1]
  BY <1>1, TailWords
<1>3. Taken \in Nat
  BY DEF Taken, Types, Cores
<1>4. \A k \in 1 .. Len(m2s) : m2s[k] = In(frame, Taken + k - 1)
  BY DEF Sent
<1>5. Head(m2s) = In(frame, Taken)
  <2>1. 1 \in 1 .. Len(m2s) /\ Taken + 1 - 1 = Taken
    BY <1>2, <1>3
  <2> QED BY <1>2, <1>4, <2>1
<1>6. ASSUME NEW k \in 1 .. Len(Tail(m2s))
      PROVE  Tail(m2s)[k] = In(frame, Taken + 1 + k - 1)
  <2>1. k + 1 \in 1 .. Len(m2s) /\ Taken + (k + 1) - 1 = Taken + 1 + k - 1
    BY <1>2, <1>3
  <2>2. m2s[k + 1] = In(frame, Taken + (k + 1) - 1)
    BY <1>4, <2>1
  <2> QED BY <1>2, <2>1, <2>2
<1>7. Tail(m2s) = <<>> <=> Len(Tail(m2s)) = 0
  BY <1>2, NoWords
<1> QED BY <1>1, <1>2, <1>5, <1>6, <1>7

(* output_proc puts out no word, or appends one if there is room.          *)
LEMMA PutFacts ==
  ASSUME Types, NEW x \in Words, Put(x)
  PROVE  /\ s2m' \in Seq(Results) /\ Len(s2m') <= FIFO_DEPTH
         /\ Len(s2m) < FIFO_DEPTH =>
              /\ Len(s2m') = Len(s2m) + 1 /\ s2m'[Len(s2m) + 1] = Shifted(x)
              /\ \A k \in 1 .. Len(s2m) : s2m'[k] = s2m[k]
         /\ Len(s2m) >= FIFO_DEPTH => s2m' = s2m
<1>1. Shifted(x) \in Results
  BY DEF Shifted, Results, Types
<1>2. s2m \in Seq(Results) /\ Len(s2m) <= FIFO_DEPTH /\ Len(s2m) \in Nat
  BY FifoTypes DEF Types
<1>3. CASE Len(s2m) < FIFO_DEPTH
  <2>1. s2m' = Append(s2m, Shifted(x))
    BY <1>3 DEF Put
  <2> HIDE DEF Results
  <2>2. /\ Append(s2m, Shifted(x)) \in Seq(Results)
        /\ Len(Append(s2m, Shifted(x))) = Len(s2m) + 1
        /\ Append(s2m, Shifted(x))[Len(s2m) + 1] = Shifted(x)
        /\ \A k \in 1 .. Len(s2m) : Append(s2m, Shifted(x))[k] = s2m[k]
    BY <1>1, <1>2, AppendWords
  <2> QED BY <1>2, <1>3, <2>1, <2>2, Sizes
<1>4. CASE ~(Len(s2m) < FIFO_DEPTH)
  BY <1>2, <1>4, Sizes DEF Put
<1> QED BY <1>3, <1>4

LEMMA SourceTypes ==
  ASSUME Types
  PROVE  src("re") \in Words /\ src("im") \in Words /\ None \in Words
<1>1. core.frame \in Frames /\ core.dir \in {0, 1} /\ core.n \in Int
  BY DEF Types, Cores
<1> QED BY <1>1, WordTypes DEF src, Parts

LEMMA OutputTypes ==
  ASSUME Types, output_state = "IMAG" => receive_index < N, Output
  PROVE  /\ output_state' \in {"REAL", "IMAG", "INVERSE"} /\ receive_index' \in 0 .. N
         /\ temp_out' \in Words
         /\ s2m' \in Seq(Results) /\ Len(s2m') <= FIFO_DEPTH
<1>1. /\ output_state \in {"REAL", "IMAG", "INVERSE"} /\ receive_index \in 0 .. N
      /\ temp_out \in Words /\ s2m \in Seq(Results) /\ Len(s2m) <= FIFO_DEPTH
  BY DEF Types
<1>2. src("re") \in Words /\ src("im") \in Words /\ None \in Words
  BY SourceTypes
<1>3. s2m' = s2m \/ \E x \in Words : Put(x)
  BY <1>1, <1>2 DEF Output, EndOfFrame, OutputReal, OutputImag, OutputInverse, Quiet
<1>4. s2m' \in Seq(Results) /\ Len(s2m') <= FIFO_DEPTH
  <2> HIDE DEF Results
  <2> QED BY <1>1, <1>3, PutFacts
<1>5. /\ output_state' \in {"REAL", "IMAG", "INVERSE"} /\ temp_out' \in Words
  BY <1>1, <1>2 DEF Output, EndOfFrame, OutputReal, OutputImag, OutputInverse, Default
<1>6. receive_index' \in 0 .. N
  BY <1>1, Sizes DEF Output, EndOfFrame, OutputReal, OutputImag, OutputInverse
<1> QED BY <1>4, <1>5, <1>6

LEMMA CoreTypes ==
  ASSUME Types, Sent, NEW si \in BOOLEAN, NEW moves \in BOOLEAN, Core(si, moves)
  PROVE  core' \in Cores
<1>1. core \in Cores /\ inverse \in {0, 1}
  BY DEF Types
<1>2. CASE Collecting /\ Collect(Pair(si))
  <2> DEFINE f == IF core.n = 0 THEN Head(m2s).frame ELSE core.frame
             good == /\ temp_in = In(f, 2 * core.n) /\ Head(m2s) = In(f, 2 * core.n + 1)
                     /\ (index = 0) = (core.n = 0) /\ (index = N - 1) = (core.n = N - 1)
             ok == good /\ (core.n > 0 => core.ok)
  <2>1. ok \in BOOLEAN
    <3> HIDE DEF good
    <3> QED BY <1>1 DEF Cores
  <2>2. CASE ~Pair(si)
    BY <1>1, <1>2, <2>2 DEF Collect
  <2>3. CASE Pair(si)
    <3>1. f \in Frames
      <4>1. Head(m2s).frame = frame
        <5>1. Head(m2s) = In(frame, Taken) /\ frame \in Frames
          BY <1>2, <2>3, NextArrives DEF Pair, Types
        <5>2. Taken \in Int
          BY <1>1 DEF Taken, Cores
        <5> QED BY <5>1, <5>2, WordTypes
      <4> QED BY <1>1, <4>1 DEF Cores, Types
    <3>2. core' = [core EXCEPT
                    !.n = IF core.n = N - 1 THEN 0 ELSE @ + 1,
                    !.phase = IF core.n = N - 1 THEN "compute" ELSE @,
                    !.frame = f, !.dir = IF index = 0 THEN inverse ELSE @, !.ok = ok]
      BY <1>2, <2>3 DEF Collect
    <3> DEFINE n == IF core.n = N - 1 THEN 0 ELSE core.n + 1
               p == IF core.n = N - 1 THEN "compute" ELSE core.phase
               d == IF index = 0 THEN inverse ELSE core.dir
    <3>3. n \in Nat /\ p \in {"collect", "compute", "emit"} /\ d \in {0, 1}
      BY <1>1 DEF Cores
    <3>4. core' = [core EXCEPT !.n = n, !.phase = p, !.frame = f, !.dir = d, !.ok = ok]
      BY <3>2
    <3> HIDE DEF f, ok, good, n, p, d
    <3> QED BY <1>1, <2>1, <3>1, <3>3, <3>4 DEF Cores
  <2> QED BY <2>2, <2>3
<1>3. core.n + 1 \in Nat /\ core.frame \in Frames
  BY <1>1 DEF Cores
<1>4. CASE Compute(moves)
  <2> DEFINE next == [core EXCEPT !.n = core.n + 1, !.exp = core.frame]
             first == [core EXCEPT !.phase = "emit", !.n = 0, !.valid = TRUE]
  <2>1. core' = core \/ core' = next \/ core' = first
    BY <1>4 DEF Compute
  <2>2. next \in Cores
    BY <1>1, <1>3 DEF Cores
  <2>3. first \in Cores
    BY <1>1 DEF Cores
  <2> HIDE DEF next, first
  <2> QED BY <1>1, <2>1, <2>2, <2>3
<1>5. CASE Emit(moves)
  <2> DEFINE held == [core EXCEPT !.valid = moves]
             last == [core EXCEPT !.phase = "collect", !.n = 0, !.valid = FALSE]
             next == [core EXCEPT !.n = core.n + 1, !.valid = moves]
  <2>1. core' = core \/ core' = held \/ core' = last \/ core' = next
    BY <1>5 DEF Emit
  <2>2. held \in Cores
    BY <1>1 DEF Cores
  <2>3. last \in Cores
    BY <1>1 DEF Cores
  <2>4. next \in Cores
    BY <1>1, <1>3 DEF Cores
  <2> HIDE DEF held, last, next
  <2> QED BY <1>1, <2>1, <2>2, <2>3, <2>4
<1> QED BY <1>2, <1>4, <1>5 DEF Core, Collecting

LEMMA ClockTypes ==
  ASSUME FrameInv, NEW si \in BOOLEAN, NEW moves \in BOOLEAN, Clock(si, moves)
  PROVE  Types'
<1>1. Types /\ Sent /\ Collected
  BY DEF FrameInv
<1>2. output_state = "IMAG" => receive_index < N
  <2>1. core \in Cores /\ receive_index \in Int
    BY <1>1 DEF Types
  <2>2. core.phase \in {"collect", "compute", "emit"} /\ core.n \in Int
    BY <2>1 DEF Cores
  <2> QED BY <2>1, <2>2, Sizes DEF FrameInv, Computed, Emitted, Ended, Collecting
<1>3. /\ output_state' \in {"REAL", "IMAG", "INVERSE"} /\ receive_index' \in 0 .. N
      /\ temp_out' \in Words
      /\ s2m' \in Seq(Results) /\ Len(s2m') <= FIFO_DEPTH
  BY <1>1, <1>2, OutputTypes DEF Clock
<1>4. core' \in Cores
  BY <1>1, CoreTypes DEF Clock
<1>5. /\ m2s' \in Seq(Words) /\ Len(m2s') <= FIFO_DEPTH
      /\ input_state' \in {"REAL", "IMAG"} /\ index' \in 0 .. N /\ temp_in' \in Words
  <2>1. Input(si)
    BY DEF Clock
  <2>2. m2s # <<>> => Head(m2s) \in Words
    BY <1>1, FifoTypes, TailWords
  <2>3. Arrives(si) => m2s # <<>>
    BY DEF Arrives
  <2>4. Collecting => index < N
    BY <1>1, Sizes DEF Collected
  <2>5. index \in 0 .. N /\ temp_in \in Words /\ input_state \in {"REAL", "IMAG"}
    BY <1>1 DEF Types
  <2>6. m2s' \in Seq(Words) /\ Len(m2s') <= FIFO_DEPTH
    BY <1>1, <2>1, InputCases
  <2>7. CASE /\ UNCHANGED <<m2s, input_state, temp_in>> /\ ~Arrives(si)
             /\ index' = IF input_state = "REAL" /\ index = N THEN 0 ELSE index
    BY <2>5, <2>6, <2>7, Sizes
  <2>8. CASE /\ Arrives(si) /\ Collecting /\ input_state = "REAL" /\ input_state' = "IMAG"
             /\ temp_in' = Head(m2s) /\ m2s' = Tail(m2s) /\ index' = index
    BY <2>2, <2>3, <2>5, <2>6, <2>8
  <2>9. CASE /\ Arrives(si) /\ Collecting /\ input_state = "IMAG" /\ input_state' = "REAL"
             /\ temp_in' = temp_in /\ m2s' = Tail(m2s) /\ index' = index + 1
    BY <2>4, <2>5, <2>6, <2>9, Sizes
  <2> QED BY <1>1, <2>1, <2>7, <2>8, <2>9, InputCases
<1>6. state' \in {"TRANSFER", "OUTPUT"}
  BY <1>1 DEF Clock, StateNext, Types
<1>7. exponent' \in Scalings /\ exponent_abs' \in Scalings
  <2>1. core.exp \in Frames /\ inverse \in {0, 1} /\ exponent \in Scalings
    BY <1>1 DEF Types, Cores
  <2>2. <<core.exp, inverse>> \in Scalings
    BY <2>1 DEF Scalings
  <2> QED BY <2>1, <2>2 DEF Clock, Exponent
<1>8. inverse' \in {0, 1} /\ pc' \in {"idle", "send", "receive"} /\ frame' \in Frames
      /\ i' \in 0 .. 2 * N - 1
  BY <1>1 DEF Clock, programVars, Types
<1> HIDE DEF Words, Results, Scalings, Cores, Frames
<1> QED BY <1>3, <1>4, <1>5, <1>6, <1>7, <1>8 DEF Types

-----------------------------------------------------------------------------
(* The core collects                                                       *)

LEMMA Phases ==
  ASSUME Types
  PROVE  /\ core.phase \in {"collect", "compute", "emit"} /\ core.n \in Nat
         /\ core.valid \in BOOLEAN /\ inverse \in {0, 1} /\ receive_index \in Nat
         /\ receive_index <= N /\ index \in Nat /\ i \in Nat /\ i <= 2 * N - 1
         /\ Taken \in Nat /\ (Taken = 0 <=> core.n = 0 /\ input_state = "REAL")
         /\ output_state \in {"REAL", "IMAG", "INVERSE"} /\ state \in {"TRANSFER", "OUTPUT"}
         /\ input_state \in {"REAL", "IMAG"} /\ pc \in {"idle", "send", "receive"}
         /\ core = [phase |-> core.phase, n |-> core.n, frame |-> core.frame, dir |-> core.dir,
                    ok |-> core.ok, valid |-> core.valid, exp |-> core.exp]
<1>1. core.phase \in {"collect", "compute", "emit"} /\ core.n \in Nat /\ core.valid \in BOOLEAN
      /\ core = [phase |-> core.phase, n |-> core.n, frame |-> core.frame, dir |-> core.dir,
                 ok |-> core.ok, valid |-> core.valid, exp |-> core.exp]
  BY DEF Types, Cores
<1>2. input_state \in {"REAL", "IMAG"}
  BY DEF Types
<1>3. Taken \in Nat /\ (Taken = 0 <=> core.n = 0 /\ input_state = "REAL")
  BY <1>1, <1>2 DEF Taken
<1>4. /\ inverse \in {0, 1} /\ receive_index \in Nat
      /\ receive_index <= N /\ index \in Nat /\ i \in Nat /\ i <= 2 * N - 1
      /\ output_state \in {"REAL", "IMAG", "INVERSE"} /\ state \in {"TRANSFER", "OUTPUT"}
      /\ pc \in {"idle", "send", "receive"}
  BY Sizes DEF Types
<1> QED BY <1>1, <1>2, <1>3, <1>4

(* What output_proc does while the core has no bin: it puts out the last   *)
(* imaginary word, ends the frame, or waits in the state that the PIO      *)
(* selects.                                                                *)
LEMMA CollectOutput ==
  ASSUME FrameInv, Collecting, Output
  PROVE  \/ /\ output_state = "IMAG" /\ Draining /\ Put(temp_out)
            /\ output_state' = "REAL" /\ receive_index' = N /\ state = "OUTPUT"
         \/ /\ output_state # "IMAG" /\ s2m' = s2m
            /\ output_state' = IF inverse = 1 /\ ~(output_state = "INVERSE" /\ receive_index = N)
                               THEN "INVERSE" ELSE "REAL"
            /\ receive_index' = IF inverse = 0 /\ output_state = "INVERSE"
                                THEN receive_index ELSE 0
<1>1. ~core.valid /\ Types /\ Ended
  BY DEF FrameInv, Collected
<1>2. ~Take
  BY <1>1 DEF Take, src_valid
<1>3. /\ inverse \in {0, 1} /\ receive_index \in Nat
      /\ output_state \in {"REAL", "IMAG", "INVERSE"}
  BY <1>1, Phases
<1>4. output_state = "IMAG" => Draining /\ state = "OUTPUT" /\ receive_index = N - 1
  BY <1>1 DEF Ended
<1>5. output_state # "IMAG" => receive_index \in {0, N}
  BY <1>1 DEF Ended
<1>6. CASE output_state = "IMAG"
  <2>1. OutputImag
    BY <1>6 DEF Output, EndOfFrame, OutputReal, OutputInverse
  <2>2. LastImag
    BY <1>4, <1>6 DEF LastImag
  <2>3. N - 1 + 1 = N
    BY Sizes
  <2> QED BY <1>4, <1>6, <2>1, <2>2, <2>3 DEF OutputImag
<1>7. CASE output_state = "REAL"
  <2>1. EndOfFrame \/ OutputReal
    BY <1>7 DEF Output, OutputImag, OutputInverse
  <2> QED BY <1>2, <1>3, <1>5, <1>7, <2>1 DEF EndOfFrame, OutputReal, Default, Quiet
<1>8. CASE output_state = "INVERSE"
  <2>1. EndOfFrame \/ OutputInverse
    BY <1>8 DEF Output, OutputReal, OutputImag
  <2> QED BY <1>2, <1>3, <1>5, <1>8, <2>1, Sizes DEF EndOfFrame, OutputInverse, Default, Quiet
<1> QED BY <1>3, <1>6, <1>7, <1>8

(* A pair that comes to the core is the next one of the frame, in order.   *)
LEMMA CollectCore ==
  ASSUME FrameInv, Collecting, NEW si, Input(si), Collect(Pair(si))
  PROVE  /\ ~Pair(si) => core' = core
         /\ Pair(si) =>
              /\ core'.frame = frame /\ core'.dir = inverse /\ core'.ok /\ ~core'.valid
              /\ core.n # N - 1 => core'.phase = "collect" /\ core'.n = core.n + 1
              /\ core.n = N - 1 => core'.phase = "compute" /\ core'.n = 0
<1>1. Types /\ Sent /\ Collected
  BY DEF FrameInv
<1>2. ~Pair(si) => core' = core
  BY DEF Collect
<1>3. CASE Pair(si)
  <2>1. Arrives(si) /\ input_state = "IMAG"
    BY <1>3 DEF Pair
  <2>2. core.n \in Nat /\ core \in Cores /\ inverse \in {0, 1}
    BY <1>1, Phases DEF Types
  <2>3. Taken = 2 * core.n + 1 /\ Taken - 1 = 2 * core.n
    BY <2>1, <2>2 DEF Taken
  <2>4. Head(m2s) = In(frame, 2 * core.n + 1)
    BY <1>1, <2>1, <2>3, NextArrives
  <2>5. temp_in = In(frame, 2 * core.n) /\ index = core.n /\ core.n < N /\ ~core.valid
    BY <1>1, <2>1, <2>3 DEF Collected
  <2> DEFINE f == IF core.n = 0 THEN Head(m2s).frame ELSE core.frame
             good == /\ temp_in = In(f, 2 * core.n) /\ Head(m2s) = In(f, 2 * core.n + 1)
                     /\ (index = 0) = (core.n = 0) /\ (index = N - 1) = (core.n = N - 1)
             ok == good /\ (core.n > 0 => core.ok)
             d == IF index = 0 THEN inverse ELSE core.dir
             n == IF core.n = N - 1 THEN 0 ELSE core.n + 1
             p == IF core.n = N - 1 THEN "compute" ELSE core.phase
  <2>6. f = frame
    <3>1. Head(m2s).frame = frame
      <4>1. frame \in Frames /\ 2 * core.n + 1 \in Int
        BY <1>1, <2>2 DEF Types
      <4> QED BY <2>4, <4>1, WordTypes
    <3> QED BY <1>1, <2>2, <3>1 DEF Collected
  <2>7. good
    BY <2>4, <2>5, <2>6
  <2>8. ok
    <3> HIDE DEF good
    <3> QED BY <1>1, <2>2, <2>7 DEF Collected
  <2>9. d = inverse
    BY <1>1, <2>2, <2>5 DEF Collected
  <2>10. core' = [core EXCEPT
                    !.n = IF core.n = N - 1 THEN 0 ELSE @ + 1,
                    !.phase = IF core.n = N - 1 THEN "compute" ELSE @,
                    !.frame = f, !.dir = IF index = 0 THEN inverse ELSE @, !.ok = ok]
    BY <1>3 DEF Collect
  <2>11. core' = [core EXCEPT !.n = n, !.phase = p, !.frame = f, !.dir = d, !.ok = ok]
    BY <2>10
  <2> HIDE DEF f, good, ok, d, n, p
  <2>12. /\ core'.frame = f /\ core'.dir = d /\ core'.ok = ok /\ core'.n = n /\ core'.phase = p
         /\ core'.valid = core.valid
    BY <2>2, <2>11 DEF Cores
  <2>13. core'.ok
    BY <2>8, <2>12, Zenon
  <2>14. /\ core'.n = IF core.n = N - 1 THEN 0 ELSE core.n + 1
         /\ core'.phase = IF core.n = N - 1 THEN "compute" ELSE core.phase
    BY <2>12 DEF n, p
  <2> QED BY <1>3, <2>5, <2>6, <2>9, <2>12, <2>13, <2>14 DEF Collecting
<1> QED BY <1>2, <1>3

(* The words that are put out lie on top of those that wait.               *)
LEMMA ReceivedMore ==
  ASSUME Types, Received, Got + Len(s2m) = PutOut, Len(s2m) < FIFO_DEPTH,
         NEW x \in Words, Put(x), Got' = Got, PutOut' = PutOut + 1,
         frame' = frame, inverse' = inverse,
         Lead > 1 => Shifted(x) = Out(frame, inverse, PutOut),
         output_state' = "IMAG" => Len(s2m) < FIFO_DEPTH - Spare
  PROVE  Received'
<1>1. Got \in Nat /\ Len(s2m) \in Nat
  BY FifoTypes DEF Types, Got
<1>2. /\ Len(s2m') = Len(s2m) + 1 /\ s2m'[Len(s2m) + 1] = Shifted(x)
      /\ \A k \in 1 .. Len(s2m) : s2m'[k] = s2m[k]
  BY PutFacts
<1>3. Got' + Len(s2m') = PutOut'
  BY <1>1, <1>2
<1>4. ASSUME Lead > 1, NEW k \in 1 .. Len(s2m')
      PROVE  s2m'[k] = Out(frame', inverse', Got' + k - 1)
  <2>1. CASE k = Len(s2m) + 1
    <3>1. Got + k - 1 = PutOut
      BY <1>1, <2>1
    <3> QED BY <1>2, <1>4, <2>1, <3>1
  <2>2. CASE k # Len(s2m) + 1
    <3>1. k \in 1 .. Len(s2m)
      BY <1>1, <1>2, <2>2
    <3>2. s2m[k] = Out(frame, inverse, Got + k - 1)
      BY <1>4, <3>1 DEF Received
    <3> QED BY <1>2, <3>1, <3>2
  <2> QED BY <2>1, <2>2
<1>5. output_state' = "IMAG" => Len(s2m') <= FIFO_DEPTH - Spare
  BY <1>1, <1>2, Sizes
<1> QED BY <1>3, <1>4, <1>5 DEF Received

LEMMA FrameWordsOf == FrameWords(0) = 2 * N /\ FrameWords(1) = N
BY DEF FrameWords

LEMMA PhaseOrder ==
  ASSUME Types
  PROVE  /\ Loading => Collecting /\ ~Draining
         /\ Draining => Collecting /\ ~Loading /\ pc = "receive"
<1>1. m2s = <<>> => Len(m2s) = 0
  BY FifoTypes
<1> QED BY <1>1, Sizes DEF Loading, Draining

(* A cycle in which the core takes words or waits for them.                *)
LEMMA CollectClock ==
  ASSUME FrameInv, Collecting, NEW si \in BOOLEAN, NEW moves \in BOOLEAN, Clock(si, moves)
  PROVE  FrameInv'
<1>1. /\ Types /\ Sent /\ Collected /\ Ended /\ Directed /\ Received
  BY DEF FrameInv
<1>2. Types'
  BY ClockTypes
<1>3. Input(si) /\ Output /\ Collect(Pair(si)) /\ state' = StateNext /\ Exponent
      /\ inverse' = inverse /\ pc' = pc /\ frame' = frame /\ i' = i
  BY DEF Clock, Core, Collecting, programVars
<1>4. /\ core.n \in Nat /\ core.n < N /\ index = core.n /\ ~core.valid /\ index # N
  BY <1>1, Phases, Sizes DEF Collected
<1>5. state = "TRANSFER" => state' = "TRANSFER"
  BY <1>3, <1>4 DEF StateNext
<1>6. state = "OUTPUT" => ~Arrives(si)
  BY DEF Arrives
<1>7. Arrives(si) => /\ ~Draining /\ Loading /\ state = "TRANSFER" /\ state' = "TRANSFER"
                     /\ output_state # "IMAG"
  <2>1. Arrives(si) => m2s # <<>> /\ state = "TRANSFER"
    BY DEF Arrives
  <2>2. Arrives(si) => ~Draining
    BY <2>1 DEF Draining
  <2> QED BY <1>1, <1>5, <2>1, <2>2 DEF Loading, Sent, Ended
(* output_proc *)
<1>8. \/ /\ output_state = "IMAG" /\ Draining /\ Put(temp_out)
         /\ output_state' = "REAL" /\ receive_index' = N /\ state = "OUTPUT"
      \/ /\ output_state # "IMAG" /\ s2m' = s2m
         /\ output_state' = IF inverse = 1 /\ ~(output_state = "INVERSE" /\ receive_index = N)
                            THEN "INVERSE" ELSE "REAL"
         /\ receive_index' = IF inverse = 0 /\ output_state = "INVERSE"
                             THEN receive_index ELSE 0
  BY <1>3, CollectOutput
<1>9. output_state' # "IMAG" /\ receive_index' \in {0, N}
  BY <1>1, <1>8 DEF Ended
<1>10. receive_index' # 0 => ~Arrives(si) /\ Taken = 0
  BY <1>1, <1>6, <1>8, Phases DEF Ended, Draining
<1>11. /\ state' = "OUTPUT" => receive_index' # 0
       /\ state' = "TRANSFER" /\ receive_index' # 0 => output_state' = "REAL"
  <2>1. state = "OUTPUT" /\ output_state # "IMAG" => state' = "TRANSFER"
    BY <1>1, <1>3, Phases DEF StateNext, Ended
  <2>2. output_state = "IMAG" => state' = "OUTPUT" /\ receive_index' = N /\ N # 0
    BY <1>1, <1>3, <1>8, Sizes DEF StateNext, Ended
  <2>3. output_state # "IMAG" /\ receive_index' # 0 => output_state' = "REAL"
    BY <1>8
  <2>4. state \in {"TRANSFER", "OUTPUT"}
    BY <1>1, Phases
  <2> QED BY <1>5, <2>1, <2>2, <2>3, <2>4
<1>12. /\ output_state' # "IMAG"
       /\ \/ inverse = 1 /\ output_state' # "INVERSE"
          \/ inverse = 0 /\ output_state' = "INVERSE"
          => Taken = 0 /\ ~Arrives(si)
  <2>1. output_state' = "INVERSE" => inverse = 1
    BY <1>8
  <2>2. inverse = 1 => output_state # "IMAG"
    BY <1>1 DEF Directed
  <2>3. output_state = "INVERSE" /\ receive_index = N => state = "OUTPUT" /\ Taken = 0
    <3>1. N # 0
      BY Sizes
    <3>2. state \in {"TRANSFER", "OUTPUT"}
      BY <1>1 DEF Types
    <3> QED BY <1>1, <3>1, <3>2 DEF Ended
  <2> QED BY <1>6, <1>8, <1>9, <2>1, <2>2, <2>3
(* input_proc and the core *)
<1>13. CASE ~Arrives(si)
  <2>1. core' = core /\ UNCHANGED <<m2s, input_state, temp_in, index>>
    <3>1. /\ UNCHANGED <<m2s, input_state, temp_in>>
          /\ index' = IF input_state = "REAL" /\ index = N THEN 0 ELSE index
      BY <1>1, <1>3, <1>13, InputCases
    <3>2. ~Pair(si)
      BY <1>13 DEF Pair
    <3> QED BY <1>3, <1>4, <3>1, <3>2, CollectCore
  <2>2. /\ Collecting' /\ Taken' = Taken /\ Got' = Got
        /\ (Loading' <=> Loading) /\ (Draining' <=> Draining)
    BY <1>3, <2>1 DEF Collecting, Taken, Loading, Draining, Got
  <2>3. Sent'
    BY <1>1, <1>3, <2>1, <2>2 DEF Sent
  <2>4. Taken > 0 => state' = "TRANSFER"
    BY <1>1, <1>5 DEF Collected
  <2>5. Collected'
    BY <1>1, <1>3, <2>1, <2>2, <2>4 DEF Collected
  <2>6. Computed' /\ Emitted'
    BY <2>2 DEF Collecting, Computed, Emitted
  <2>7. Ended'
    BY <1>9, <1>10, <1>11, <2>2 DEF Ended
  <2>8. Directed'
    BY <1>3, <1>12, <2>2 DEF Directed
  <2>9. Received'
    <3>1. CASE output_state = "IMAG"
      <4>1. /\ Draining /\ ~Loading /\ Draining' /\ ~Loading' /\ inverse = 0
            /\ Put(temp_out)
        BY <1>1, <1>8, <2>2, <3>1, PhaseOrder DEF Directed
      <4>2. PutOut = 2 * N - 1 /\ PutOut' = 2 * N
        <5>1. core.phase # "compute" /\ core'.phase # "compute"
          BY <2>2 DEF Collecting
        <5>2. PutOut = FrameWords(inverse) - 1 /\ PutOut' = FrameWords(inverse') - 0
          BY <1>9, <2>2, <3>1, <4>1, <5>1 DEF PutOut
        <5> QED BY <1>3, <4>1, <5>2, FrameWordsOf, Sizes
      <4>3. Got + Len(s2m) = PutOut /\ Len(s2m) <= FIFO_DEPTH - Spare
        BY <1>1, <3>1 DEF Received
      <4>4. CASE Len(s2m) < FIFO_DEPTH
        <5>1. temp_out \in Words
          BY <1>1 DEF Types
        <5>2. Lead > 1 => Shifted(temp_out) = Out(frame, inverse, PutOut)
          <6>1. PutOut = 2 * (N - 1) + 1 /\ N - 1 \in Nat
            BY <4>2, Sizes
          <6>2. Scaled /\ temp_out = Word(frame, inverse, N - 1, "im")
            BY <1>1, <3>1 DEF Ended
          <6> HIDE DEF PutOut
          <6> QED BY <4>1, <6>1, <6>2, BinsOut DEF Shifted, Scaled
        <5>3. PutOut' = PutOut + 1
          BY <4>2, Sizes
        <5> QED BY <1>1, <1>3, <1>9, <2>2, <4>1, <4>3, <4>4, <5>1, <5>2, <5>3, ReceivedMore
      <4>5. CASE ~(Len(s2m) < FIFO_DEPTH)
        <5>1. Len(s2m) \in Nat /\ Got \in Nat
          BY <1>1, FifoTypes DEF Types, Got
        <5>2. Spare = 0 /\ s2m' = s2m
          BY <4>1, <4>3, <4>5, <5>1, Sizes DEF Put
        <5>3. Got' + Len(s2m') + 1 = PutOut'
          BY <2>2, <4>2, <4>3, <5>1, <5>2, Sizes
        <5>4. Lead > 1 => \A k \in 1 .. Len(s2m') : s2m'[k] = Out(frame', inverse', Got' + k - 1)
          BY <1>1, <1>3, <2>2, <5>2 DEF Received
        <5> QED BY <1>9, <4>1, <5>2, <5>3, <5>4 DEF Received
      <4> QED BY <4>4, <4>5
    <3>2. CASE output_state # "IMAG"
      <4>1. s2m' = s2m /\ PutOut' = PutOut
        <5>1. core.phase = "collect" /\ core'.phase = "collect"
          BY <2>2 DEF Collecting
        <5> QED BY <1>3, <1>8, <1>9, <2>2, <3>2, <5>1 DEF PutOut
      <4> QED BY <1>1, <1>3, <1>9, <2>2, <3>2, <4>1 DEF Received
    <3> QED BY <3>1, <3>2
  <2> QED BY <1>2, <2>3, <2>5, <2>6, <2>7, <2>8, <2>9 DEF FrameInv
<1>14. CASE Arrives(si)
  <2>1. /\ ~Draining /\ Loading /\ state = "TRANSFER" /\ state' = "TRANSFER"
        /\ output_state # "IMAG" /\ s2m' = s2m /\ receive_index' = 0
    BY <1>7, <1>8, <1>9, <1>10, <1>14
  <2>2. /\ Head(m2s) = In(frame, Taken) /\ Len(Tail(m2s)) = Len(m2s) - 1 /\ Len(m2s) \in Nat
        /\ \A k \in 1 .. Len(Tail(m2s)) : Tail(m2s)[k] = In(frame, Taken + 1 + k - 1)
        /\ Len(m2s) > 0 /\ (Tail(m2s) = <<>> <=> Len(Tail(m2s)) = 0)
    BY <1>1, <1>14, NextArrives
  <2>3. m2s' = Tail(m2s) /\ Got' = Got
    BY <1>1, <1>3, <1>14, InputCases DEF Got
  <2>4. Taken \in Nat /\ input_state \in {"REAL", "IMAG"} /\ pc \in {"idle", "send", "receive"}
        /\ i \in Nat
    BY <1>1, Phases
  <2>5. pc # "idle"
    BY <1>1, <2>2, <2>4 DEF Sent
  <2>6. /\ output_state' = IF inverse = 1 THEN "INVERSE" ELSE "REAL"
    <3>1. output_state' \in {"REAL", "IMAG", "INVERSE"} /\ inverse \in {0, 1}
      BY <1>1, <1>2 DEF Types
    <3> QED BY <1>12, <1>14, <3>1
  <2>7. pc = "receive" => Taken + Len(m2s) = 2 * N
    BY <2>1 DEF Loading
  <2>8. PutOut = 0
    BY <2>1 DEF PutOut
  <2>9. CASE input_state = "REAL"
    <3>1. /\ input_state' = "IMAG" /\ temp_in' = Head(m2s) /\ index' = index
      BY <1>1, <1>3, <1>14, <2>9, InputCases
    <3>2. core' = core
      BY <1>3, <2>9, CollectCore DEF Pair
    <3>3. Collecting' /\ Taken' = Taken + 1
      BY <1>4, <2>9, <3>1, <3>2 DEF Collecting, Taken
    <3>4. Loading' /\ (pc = "send" => Taken' + Len(m2s') = i)
      <4>1. Taken' + Len(m2s') = Taken + Len(m2s)
        <5>1. Len(m2s') = Len(m2s) - 1
          BY <2>2, <2>3, Zenon
        <5>2. Len(m2s) \in Nat
          BY <2>2
        <5> QED BY <2>4, <3>3, <5>1, <5>2
      <4> QED BY <1>1, <1>3, <2>7, <3>3, <4>1 DEF Loading, Sent
    <3>5. Sent'
      BY <1>3, <2>2, <2>3, <2>4, <2>5, <3>3, <3>4 DEF Sent
    <3>6. Collected'
      <4>1. temp_in' = In(frame', Taken' - 1)
        BY <1>3, <2>2, <2>4, <3>1, <3>3
      <4> QED BY <1>1, <1>3, <1>4, <2>1, <3>1, <3>2, <3>3, <4>1 DEF Collected
    <3>7. Computed' /\ Emitted'
      BY <3>3 DEF Collecting, Computed, Emitted
    <3>8. Ended'
      BY <1>9, <2>1, <3>3 DEF Ended
    <3>9. Directed'
      BY <1>3, <2>6 DEF Directed
    <3>10. Received'
      <4>1. PutOut' = 0
        BY <3>4 DEF PutOut
      <4> QED BY <1>1, <1>3, <1>9, <2>1, <2>3, <2>8, <4>1 DEF Received
    <3> QED BY <1>2, <3>5, <3>6, <3>7, <3>8, <3>9, <3>10 DEF FrameInv
  <2>10. CASE input_state = "IMAG"
    <3>1. input_state' = "REAL" /\ index' = core.n + 1
      BY <1>1, <1>3, <1>4, <1>14, <2>10, InputCases
    <3>2. Pair(si)
      BY <1>14, <2>10 DEF Pair
    <3>3. /\ core'.frame = frame /\ core'.dir = inverse /\ core'.ok /\ ~core'.valid
          /\ core.n # N - 1 => core'.phase = "collect" /\ core'.n = core.n + 1
          /\ core.n = N - 1 => core'.phase = "compute" /\ core'.n = 0
      BY <1>3, <3>2, CollectCore
    <3>4. Taken = 2 * core.n + 1
      BY <1>4, <2>10 DEF Taken
    <3>5. Directed'
      BY <1>3, <2>6 DEF Directed
    <3>6. CASE core.n # N - 1
      <4>1. Collecting' /\ Taken' = Taken + 1 /\ core'.n = core.n + 1 /\ core'.n < N
        BY <1>4, <3>1, <3>3, <3>4, <3>6, Sizes DEF Collecting, Taken
      <4>2. Loading' /\ (pc = "send" => Taken' + Len(m2s') = i)
        <5>1. Taken' + Len(m2s') = Taken + Len(m2s)
          <6>1. Len(m2s') = Len(m2s) - 1
            BY <2>2, <2>3, Zenon
          <6>2. Len(m2s) \in Nat
            BY <2>2
          <6> QED BY <2>4, <4>1, <6>1, <6>2
        <5> QED BY <1>1, <1>3, <2>7, <4>1, <5>1 DEF Loading, Sent
      <4>3. Sent'
        BY <1>3, <2>2, <2>3, <2>4, <2>5, <4>1, <4>2 DEF Sent
      <4>4. Collected'
        BY <1>3, <2>1, <3>1, <3>3, <4>1 DEF Collected
      <4>5. Computed' /\ Emitted'
        BY <4>1 DEF Collecting, Computed, Emitted
      <4>6. Ended'
        BY <1>9, <2>1, <4>1 DEF Ended
      <4>7. Received'
        <5>1. PutOut' = 0
          BY <4>2 DEF PutOut
        <5> QED BY <1>1, <1>3, <1>9, <2>1, <2>3, <2>8, <5>1 DEF Received
      <4> QED BY <1>2, <3>5, <4>3, <4>4, <4>5, <4>6, <4>7 DEF FrameInv
    <3>7. CASE core.n = N - 1
      <4>1. core'.phase = "compute" /\ core'.n = 0 /\ index' = N /\ ~Collecting'
        BY <3>1, <3>3, <3>7, Sizes DEF Collecting
      <4>2. pc = "receive" /\ Taken + Len(m2s) = 2 * N
        <5>1. Taken = 2 * N - 1
          BY <3>4, <3>7, Sizes
        <5>2. pc = "send" => Taken + Len(m2s) = i /\ i <= 2 * N - 1
          BY <1>1, Phases DEF Sent
        <5> QED BY <2>2, <2>4, <2>5, <2>7, <5>1, <5>2, Sizes
      <4>3. m2s' = <<>>
        <5>1. Taken = 2 * N - 1
          BY <3>4, <3>7, Sizes
        <5>2. Len(m2s) - 1 = 0
          BY <2>2, <4>2, <5>1, Sizes
        <5> QED BY <2>2, <2>3, <5>2
      <4>4. Sent'
        BY <1>3, <3>1, <4>1, <4>2, <4>3 DEF Sent
      <4>5. Collected'
        BY <1>3, <3>3, <4>1 DEF Collected
      <4>6. Computed'
        BY <1>3, <1>9, <2>1, <3>3, <4>1, Sizes DEF Computed
      <4>7. Emitted' /\ Ended'
        BY <4>1 DEF Emitted, Ended
      <4>8. Received'
        <5>1. PutOut' = 0
          BY <4>1 DEF PutOut
        <5> QED BY <1>1, <1>3, <1>9, <2>1, <2>3, <2>8, <5>1 DEF Received
      <4> QED BY <1>2, <3>5, <4>4, <4>5, <4>6, <4>7, <4>8 DEF FrameInv
    <3> QED BY <3>6, <3>7
  <2> QED BY <2>4, <2>9, <2>10
<1> QED BY <1>13, <1>14

-----------------------------------------------------------------------------
(* The core computes and puts out                                          *)

(* While the core has a whole frame nothing comes in.                      *)
LEMMA NothingComesIn ==
  ASSUME FrameInv, ~Collecting, NEW si, Input(si)
  PROVE  /\ m2s = <<>> /\ m2s' = <<>> /\ input_state = "REAL" /\ input_state' = "REAL"
         /\ index' = IF index = N THEN 0 ELSE index
         /\ ~Arrives(si)
<1>1. /\ Types /\ Sent /\ Collected /\ m2s = <<>> /\ input_state = "REAL"
  BY DEF FrameInv, Sent
<1> QED BY <1>1, InputCases

(* The direction selects the state between two words of a frame.           *)
LEMMA DefaultState ==
  ASSUME FrameInv, ~Collecting
  PROVE  /\ inverse \in {0, 1} /\ output_state \in {"REAL", "IMAG", "INVERSE"}
         /\ Default = output_state
         /\ inverse = 1 <=> output_state = "INVERSE"
<1>1. Types /\ Directed
  BY DEF FrameInv
<1> QED BY <1>1, Phases DEF Directed, Default

(* A cycle in which the core is computing or shows its exponent.           *)
LEMMA ComputeClock ==
  ASSUME FrameInv, core.phase = "compute", NEW si \in BOOLEAN, NEW moves \in BOOLEAN,
         Clock(si, moves)
  PROVE  FrameInv'
<1>1. /\ Types /\ Sent /\ Collected /\ Computed /\ Directed /\ Received
  BY DEF FrameInv
<1>2. Types' /\ ~Collecting
  BY ClockTypes DEF Collecting
<1>3. /\ Input(si) /\ Output /\ state' = StateNext /\ Exponent
      /\ (core.n > 0 => moves) /\ Compute(moves)
      /\ inverse' = inverse /\ pc' = pc /\ frame' = frame /\ i' = i
  BY DEF Clock, Core, programVars
<1>4. /\ ~core.valid /\ core.n <= Lead /\ receive_index = 0 /\ output_state # "IMAG"
      /\ \/ index = N /\ core.n = 0 /\ state = "TRANSFER"
         \/ index = 0 /\ state = "OUTPUT"
      /\ core.n > 0 => core.exp = frame
      /\ core.n > 1 => exponent = <<frame, inverse>>
      /\ core.n \in Nat /\ core \in Cores
  BY <1>1, Phases DEF Computed, Types
<1>5. core.frame = frame /\ core.dir = inverse /\ core.ok
  BY <1>1, <1>2 DEF Collected
<1>6. m2s' = <<>> /\ input_state' = "REAL" /\ pc = "receive" /\ index' = 0 /\ state' = "OUTPUT"
  <2>1. m2s' = <<>> /\ input_state' = "REAL" /\ index' = IF index = N THEN 0 ELSE index
    BY <1>2, <1>3, NothingComesIn
  <2>2. pc = "receive" /\ N # 0
    BY <1>1, <1>2, Sizes DEF Sent
  <2> QED BY <1>3, <1>4, <2>1, <2>2 DEF StateNext
<1>7. s2m' = s2m /\ output_state' = output_state /\ receive_index' = 0
  <2>1. ~Take /\ N # 0
    BY <1>4, Sizes DEF Take, src_valid
  <2>2. Default = output_state /\ (inverse = 1 <=> output_state = "INVERSE")
    BY <1>2, DefaultState
  <2>3. OutputReal \/ OutputInverse
    BY <1>3, <1>4, <2>1 DEF Output, EndOfFrame, OutputImag
  <2>4. CASE OutputReal
    BY <1>4, <2>1, <2>2, <2>4 DEF OutputReal, Quiet
  <2>5. CASE OutputInverse
    BY <1>4, <2>1, <2>2, <2>5 DEF OutputInverse, Quiet
  <2> QED BY <2>3, <2>4, <2>5
<1>8. /\ core.n > 0 => state = "OUTPUT"
      /\ exponent' = IF state = "OUTPUT" THEN <<core.exp, inverse>> ELSE exponent
      /\ exponent_abs' = exponent
  BY <1>3, <1>4 DEF Exponent
<1>9. Got' = Got /\ PutOut = 0
  BY <1>3 DEF Got, PutOut
<1>10. Directed'
  <2>1. inverse \in {0, 1} /\ (inverse = 1 <=> output_state = "INVERSE")
    BY <1>2, DefaultState
  <2> QED BY <1>3, <1>4, <1>7, <2>1 DEF Directed
<1>11. ASSUME PutOut' = 0 PROVE Received'
  <2>1. ~Draining
    BY <1>2 DEF Draining
  <2> QED BY <1>1, <1>3, <1>4, <1>7, <1>9, <1>11, <2>1 DEF Received
<1>12. CASE core.n < Lead
  <2>1. \/ core' = core /\ core.n = 0
        \/ core' = [core EXCEPT !.n = core.n + 1, !.exp = core.frame]
    <3>1. core' = IF ~moves THEN core ELSE [core EXCEPT !.n = core.n + 1, !.exp = core.frame]
      BY <1>3, <1>12 DEF Compute
    <3> QED BY <1>3, <1>4, <3>1
  <2>2. /\ core'.phase = "compute" /\ ~core'.valid
        /\ core'.frame = frame /\ core'.dir = inverse /\ core'.ok
        /\ \/ core'.n = 0 /\ core.n = 0
           \/ core'.n = core.n + 1 /\ core'.exp = frame
    <3>1. CASE core' = core /\ core.n = 0
      BY <1>4, <1>5, <3>1
    <3>2. CASE core' = [core EXCEPT !.n = core.n + 1, !.exp = core.frame]
      <4>1. /\ core'.phase = core.phase /\ core'.valid = core.valid
            /\ core'.frame = core.frame /\ core'.dir = core.dir /\ core'.ok = core.ok
            /\ core'.n = core.n + 1 /\ core'.exp = core.frame
        BY <1>4, <3>2 DEF Cores
      <4>2. core'.ok /\ ~core'.valid
        BY <1>4, <1>5, <4>1, Zenon
      <4> QED BY <1>5, <4>1, <4>2
    <3> QED BY <2>1, <3>1, <3>2
  <2>3. Sent' /\ Collected'
    BY <1>3, <1>5, <1>6, <2>2 DEF Sent, Collected, Collecting
  <2>4. Computed'
    <3>1. core'.n <= Lead /\ core'.n \in Nat
      BY <1>4, <1>12, <2>2, Sizes
    <3>2. core'.n > 0 => core'.exp = frame
      BY <1>4, <2>2
    <3>3. core'.n > 1 => exponent' = <<frame, inverse>>
      <4>1. core'.n > 1 => core.n > 0
        BY <1>4, <2>2
      <4> QED BY <1>4, <1>8, <4>1
    <3> QED BY <1>3, <1>4, <1>6, <1>7, <2>2, <3>1, <3>2, <3>3 DEF Computed
  <2>5. Emitted' /\ Ended'
    BY <2>2 DEF Emitted, Ended, Collecting
  <2>6. Received'
    BY <1>11, <2>2 DEF PutOut
  <2> QED BY <1>2, <1>10, <2>3, <2>4, <2>5, <2>6 DEF FrameInv
<1>13. CASE ~(core.n < Lead)
  <2>1. core.n = Lead /\ core.n > 0 /\ (Lead > 1 => core.n > 1)
    BY <1>4, <1>13, Sizes
  <2>2. core' = [core EXCEPT !.phase = "emit", !.n = 0, !.valid = TRUE]
    BY <1>3, <1>13, <2>1 DEF Compute
  <2>3. /\ core'.phase = "emit" /\ core'.n = 0 /\ core'.frame = frame /\ core'.dir = inverse
        /\ core'.ok /\ core'.exp = frame
    <3>1. /\ core'.phase = "emit" /\ core'.n = 0 /\ core'.frame = core.frame
          /\ core'.dir = core.dir /\ core'.ok = core.ok /\ core'.exp = core.exp
      BY <1>4, <2>2 DEF Cores
    <3>2. core'.ok
      BY <1>5, <3>1, Zenon
    <3> QED BY <1>4, <1>5, <2>1, <3>1, <3>2
  <2>4. Sent' /\ Collected'
    BY <1>3, <1>6, <2>3 DEF Sent, Collected, Collecting
  <2>5. Computed' /\ Ended'
    BY <2>3 DEF Computed, Ended, Collecting
  <2>6. Scaled'
    BY <1>3, <1>4, <1>8, <2>1, <2>3 DEF Scaled
  <2>7. Emitted'
    BY <1>4, <1>6, <1>7, <2>3, <2>6, Sizes DEF Emitted
  <2>8. Received'
    <3>1. ~Loading' /\ ~Collecting'
      BY <2>3 DEF Loading, Collecting
    <3>2. PutOut' = IF output_state' = "INVERSE" THEN core'.n
                    ELSE IF output_state' = "REAL" THEN 2 * core'.n ELSE 2 * core'.n - 1
      BY <2>3, <3>1 DEF PutOut
    <3>3. output_state' = "INVERSE" \/ output_state' = "REAL"
      BY <1>2, <1>4, <1>7, DefaultState
    <3> QED BY <1>11, <2>3, <3>2, <3>3
  <2> QED BY <1>2, <1>10, <2>4, <2>5, <2>6, <2>7, <2>8 DEF FrameInv
<1> QED BY <1>12, <1>13

(* A cycle in which the core puts out bins or pauses.                      *)
LEMMA EmitClock ==
  ASSUME FrameInv, core.phase = "emit", NEW si \in BOOLEAN, NEW moves \in BOOLEAN,
         Clock(si, moves)
  PROVE  FrameInv'
<1>1. /\ Types /\ Sent /\ Collected /\ Emitted /\ Directed /\ Received
  BY DEF FrameInv
<1>2. Types' /\ ~Collecting
  BY ClockTypes DEF Collecting
<1>3. /\ Input(si) /\ Output /\ state' = StateNext /\ Exponent /\ Emit(moves)
      /\ inverse' = inverse /\ pc' = pc /\ frame' = frame /\ i' = i
  BY DEF Clock, Core, programVars
<1>4. /\ core.n \in Nat /\ core \in Cores /\ core.valid \in BOOLEAN /\ receive_index \in Nat
      /\ output_state \in {"REAL", "IMAG", "INVERSE"} /\ inverse \in {0, 1}
      /\ Len(s2m) \in Nat /\ Got \in Nat
  BY <1>1, Phases, FifoTypes DEF Types, Got
<1>5. /\ index = 0 /\ state = "OUTPUT" /\ core.n < N /\ Scaled
      /\ output_state = "INVERSE" => receive_index = core.n
      /\ output_state = "REAL" =>
           /\ receive_index = core.n
           /\ core.n > 0 => core.valid /\ temp_out = Word(frame, inverse, core.n, "re")
      /\ output_state = "IMAG" =>
           receive_index = core.n - 1 /\ temp_out = Word(frame, inverse, core.n - 1, "im")
  BY <1>1 DEF Emitted
<1>6. core.frame = frame /\ core.dir = inverse /\ core.ok
  BY <1>1, <1>2 DEF Collected
<1>7. /\ src("re") = Word(frame, inverse, core.n, "re")
      /\ src("im") = Word(frame, inverse, core.n, "im")
  BY <1>6 DEF src
<1>8. /\ m2s' = <<>> /\ input_state' = "REAL" /\ input_state = "REAL" /\ m2s = <<>>
      /\ pc = "receive" /\ index' = 0 /\ state' = "OUTPUT"
      /\ receive_index # N /\ ~LastImag
  <2>1. /\ m2s' = <<>> /\ input_state' = "REAL" /\ index' = IF index = N THEN 0 ELSE index
        /\ input_state = "REAL" /\ m2s = <<>>
    BY <1>2, <1>3, NothingComesIn
  <2>2. pc = "receive" /\ N # 0
    BY <1>1, <1>2, Sizes DEF Sent
  <2>3. receive_index # N
    BY <1>4, <1>5, Sizes
  <2>4. ~LastImag
    BY <1>4, <1>5, Sizes DEF LastImag
  <2> QED BY <1>3, <1>5, <2>1, <2>2, <2>3, <2>4 DEF StateNext
<1>9. Default = output_state /\ (inverse = 1 <=> output_state = "INVERSE")
  BY <1>2, DefaultState
<1>10. ASSUME core'.exp = core.exp PROVE Scaled'
  BY <1>3, <1>5, <1>10 DEF Exponent, Scaled
<1>11. Take <=> stout_ready /\ core.valid
  BY <1>5, <1>8, <1>3 DEF Take, src_valid
<1>12. src_ready <=> stout_ready /\ ~(output_state = "IMAG" /\ Take)
  BY <1>8 DEF src_ready
<1>13. Got' = Got /\ ~Loading /\ ~Draining
  BY <1>2, <1>3 DEF Got, Loading, Draining
<1>14. PutOut = IF output_state = "INVERSE" THEN core.n
                ELSE IF output_state = "REAL" THEN 2 * core.n ELSE 2 * core.n - 1
  BY <1>2, <1>13 DEF PutOut
<1>15. Got + Len(s2m) = PutOut
  BY <1>1, <1>13 DEF Received
<1>16. Directed'
  <2>1. output_state' = output_state \/ (output_state = "REAL" /\ output_state' = "IMAG")
        \/ (output_state = "IMAG" /\ output_state' = "REAL")
    BY <1>3, <1>9, <1>8 DEF Output, EndOfFrame, OutputReal, OutputImag, OutputInverse
  <2> QED BY <1>3, <1>4, <1>9, <2>1 DEF Directed
(* Not one of the next steps changes what the program or input_proc has.   *)
<1>17. ASSUME core'.phase = "emit"
       PROVE  /\ Sent' /\ Computed' /\ Ended' /\ ~Loading' /\ ~Draining'
              /\ PutOut' = IF output_state' = "INVERSE" THEN core'.n
                           ELSE IF output_state' = "REAL" THEN 2 * core'.n ELSE 2 * core'.n - 1
  <2>1. ~Collecting' /\ core'.phase # "compute"
    BY <1>17 DEF Collecting
  <2>2. ~Loading' /\ ~Draining'
    BY <2>1 DEF Loading, Draining
  <2>3. Sent'
    BY <1>3, <1>8, <2>1 DEF Sent
  <2> QED BY <2>1, <2>2, <2>3 DEF Computed, Ended, PutOut
<1>18. ASSUME core'.phase = "emit", core'.frame = frame, core'.dir = inverse, core'.ok
       PROVE  Collected'
  BY <1>3, <1>18 DEF Collected, Collecting
(* No word is put out.                                                     *)
<1>19. CASE ~Take
  <2>1. UNCHANGED <<output_state, receive_index, temp_out, s2m>>
    <3>1. OutputReal \/ OutputImag \/ OutputInverse
      BY <1>3, <1>8 DEF Output, EndOfFrame
    <3>2. CASE OutputReal
      BY <1>9, <1>19, <3>2 DEF OutputReal, Quiet
    <3>3. CASE OutputImag
      BY <1>8, <1>9, <1>19, <3>3 DEF OutputImag, Quiet
    <3>4. CASE OutputInverse
      BY <1>9, <1>19, <3>4 DEF OutputInverse, Quiet
    <3> QED BY <3>1, <3>2, <3>3, <3>4
  <2>2. core' = core \/ (~core.valid /\ core' = [core EXCEPT !.valid = moves])
    BY <1>3, <1>11, <1>12, <1>19 DEF Emit
  <2>3. /\ core'.phase = core.phase /\ core'.n = core.n /\ core'.frame = core.frame
        /\ core'.dir = core.dir /\ core'.ok = core.ok /\ core'.exp = core.exp
        /\ core.valid => core'.valid = core.valid
    <3>1. CASE core' = core
      BY <3>1
    <3>2. CASE ~core.valid /\ core' = [core EXCEPT !.valid = moves]
      BY <1>4, <3>2 DEF Cores
    <3> QED BY <2>2, <3>1, <3>2
  <2>4. core'.ok /\ (core.valid => core'.valid)
    BY <1>6, <2>3, Zenon
  <2>5. Emitted'
    BY <1>3, <1>5, <1>8, <1>10, <2>1, <2>3, <2>4 DEF Emitted
  <2>6. Received'
    <3>1. PutOut' = PutOut
      BY <1>14, <1>17, <2>1, <2>3
    <3> QED BY <1>1, <1>3, <1>13, <1>15, <2>1, <3>1 DEF Received
  <2> QED BY <1>2, <1>6, <1>16, <1>17, <1>18, <2>3, <2>4, <2>5, <2>6 DEF FrameInv
(* The imaginary word is put out while the next bin waits.                 *)
<1>20. CASE Take /\ output_state = "IMAG"
  <2>1. /\ Put(temp_out) /\ output_state' = "REAL" /\ temp_out' = src("re")
        /\ receive_index' = receive_index + 1
    BY <1>3, <1>8, <1>20 DEF Output, EndOfFrame, OutputReal, OutputImag, OutputInverse
  <2>2. core' = core
    BY <1>3, <1>11, <1>12, <1>20 DEF Emit
  <2>3. core.n - 1 \in Nat /\ core.n - 1 + 1 = core.n /\ PutOut = 2 * (core.n - 1) + 1
    BY <1>4, <1>5, <1>14, <1>20
  <2>4. Emitted'
    BY <1>3, <1>4, <1>5, <1>7, <1>8, <1>10, <1>11, <1>20, <2>1, <2>2, <2>3 DEF Emitted
  <2>5. Received'
    <3>1. PutOut' = PutOut + 1
      BY <1>4, <1>14, <1>17, <1>20, <2>1, <2>2
    <3>2. Lead > 1 => Shifted(temp_out) = Out(frame, inverse, PutOut)
      <4>1. inverse = 0
        BY <1>4, <1>9, <1>20
      <4> HIDE DEF PutOut
      <4> QED BY <1>5, <1>20, <2>3, <4>1, BinsOut DEF Shifted, Scaled
    <3>3. Len(s2m) < FIFO_DEPTH /\ temp_out \in Words
      BY <1>1, <1>4, <1>20, Sizes DEF Take, stout_ready, Types
    <3> QED BY <1>1, <1>3, <1>13, <1>15, <2>1, <3>1, <3>2, <3>3, ReceivedMore
  <2> QED BY <1>2, <1>6, <1>16, <1>17, <1>18, <2>2, <2>4, <2>5 DEF FrameInv
(* A bin is taken.                                                         *)
<1>21. CASE Take /\ output_state # "IMAG"
  <2> DEFINE x == Word(frame, inverse, core.n, "re")
  <2>1. /\ Put(x) /\ inverse' = inverse
        /\ output_state' = IF output_state = "REAL" THEN "IMAG" ELSE "INVERSE"
        /\ receive_index' = IF output_state = "REAL" THEN core.n ELSE core.n + 1
        /\ output_state = "REAL" => temp_out' = Word(frame, inverse, core.n, "im")
    <3>1. CASE output_state = "REAL"
      <4>1. OutputReal
        BY <1>3, <1>8, <3>1 DEF Output, EndOfFrame, OutputImag, OutputInverse
      <4>2. (IF receive_index = 0 THEN src("re") ELSE temp_out) = x
        BY <1>4, <1>5, <1>7, <3>1
      <4>3. Put(IF receive_index = 0 THEN src("re") ELSE temp_out)
        BY <1>21, <4>1 DEF OutputReal
      <4>4. Put(x)
        BY <4>2, <4>3
      <4> HIDE DEF x
      <4> QED BY <1>3, <1>5, <1>7, <1>21, <3>1, <4>1, <4>4 DEF OutputReal
    <3>2. CASE output_state = "INVERSE"
      <4>1. OutputInverse
        BY <1>3, <1>8, <3>2 DEF Output, EndOfFrame, OutputReal, OutputImag
      <4>2. inverse = 1
        BY <1>9, <3>2
      <4> QED BY <1>3, <1>5, <1>7, <1>21, <3>2, <4>1, <4>2 DEF OutputInverse
    <3> QED BY <1>4, <1>21, <3>1, <3>2
  <2>2. core.valid /\ src_ready
    BY <1>11, <1>12, <1>21
  <2>3. Len(s2m) < FIFO_DEPTH - Spare /\ Len(s2m) < FIFO_DEPTH /\ x \in Words
    <3>1. frame \in Frames
      BY <1>1 DEF Types
    <3> QED BY <1>4, <1>21, <3>1, Sizes, WordTypes DEF Take, stout_ready, Parts
  <2>4. Lead > 1 => Shifted(x) = Out(frame, inverse, PutOut)
    <3>1. output_state = "REAL" => PutOut = 2 * core.n
      BY <1>14
    <3>2. output_state = "INVERSE" => PutOut = core.n
      BY <1>14
    <3>3. Lead > 1 => exponent = <<frame, inverse>> /\ exponent_abs = <<frame, inverse>>
      BY <1>5 DEF Scaled
    <3>4. CASE output_state = "REAL"
      <4>1. inverse = 0
        BY <1>4, <1>9, <3>4
      <4> HIDE DEF PutOut
      <4> QED BY <1>4, <3>1, <3>3, <3>4, <4>1, BinsOut DEF Shifted
    <3>5. CASE output_state = "INVERSE"
      <4>1. inverse = 1
        BY <1>9, <3>5
      <4> HIDE DEF PutOut
      <4> QED BY <1>4, <3>2, <3>3, <3>5, <4>1, BinsOut DEF Shifted
    <3> QED BY <1>4, <1>21, <3>4, <3>5
  <2>5. CASE core.n # N - 1
    <3>1. core' = [core EXCEPT !.n = core.n + 1, !.valid = moves]
      BY <1>3, <2>2, <2>5 DEF Emit
    <3>2. /\ core'.phase = "emit" /\ core'.n = core.n + 1 /\ core'.frame = frame
          /\ core'.dir = inverse /\ core'.ok = core.ok /\ core'.exp = core.exp
      BY <1>4, <1>6, <3>1 DEF Cores
    <3>3. core'.ok
      BY <1>6, <3>2, Zenon
    <3>4. core.n + 1 < N /\ core.n + 1 - 1 = core.n
      BY <1>4, <1>5, <2>5, Sizes
    <3>5. Emitted'
      <4>1. Scaled'
        BY <1>10, <3>2
      <4>2. core'.n - 1 = core.n /\ core'.n < N
        BY <1>4, <3>2, <3>4
      <4> HIDE DEF x
      <4> QED BY <1>3, <1>4, <1>8, <1>21, <2>1, <3>2, <4>1, <4>2 DEF Emitted
    <3>6. Received'
      <4>1. PutOut' = PutOut + 1
        BY <1>4, <1>14, <1>17, <1>21, <2>1, <3>2
      <4> HIDE DEF x
      <4> QED BY <1>1, <1>3, <1>13, <1>15, <2>1, <2>3, <2>4, <4>1, ReceivedMore
    <3> QED BY <1>2, <1>16, <1>17, <1>18, <3>2, <3>3, <3>5, <3>6 DEF FrameInv
  <2>6. CASE core.n = N - 1
    <3>1. core' = [core EXCEPT !.phase = "collect", !.n = 0, !.valid = FALSE]
      BY <1>3, <2>2, <2>6 DEF Emit
    <3>2. /\ core'.phase = "collect" /\ core'.n = 0 /\ core'.exp = core.exp /\ ~core'.valid
      BY <1>4, <3>1 DEF Cores
    <3>3. Collecting' /\ Taken' = 0 /\ ~Loading' /\ Draining'
      <4>1. Len(m2s') = 0
        BY <1>2, <1>8, FifoTypes, NoWords DEF Types
      <4> QED BY <1>3, <1>8, <3>2, <4>1, Sizes DEF Collecting, Taken, Loading, Draining
    <3>4. Sent' /\ Collected'
      <4>1. 1 .. Len(m2s') = {}
        <5>1. Len(m2s') = 0
          BY <1>2, <1>8, FifoTypes, NoWords DEF Types
        <5> QED BY <5>1
      <4> QED BY <1>3, <1>8, <3>2, <3>3, <4>1, Sizes DEF Sent, Collected
    <3>5. Computed' /\ Emitted'
      BY <3>2 DEF Computed, Emitted
    <3>6. Ended'
      <4>1. Scaled'
        BY <1>10, <3>2
      <4>2. output_state = "INVERSE" => receive_index' = N
        BY <2>1, <2>6, Sizes
      <4>3. output_state = "REAL" => receive_index' = N - 1
        BY <2>1, <2>6
      <4> HIDE DEF x
      <4> QED BY <1>3, <1>4, <1>8, <1>21, <2>1, <2>6, <3>3, <4>1, <4>2, <4>3, Sizes DEF Ended
    <3>7. Received'
      <4>1. PutOut' = FrameWords(inverse) - IF output_state' = "IMAG" THEN 1 ELSE 0
        BY <1>3, <3>2, <3>3 DEF PutOut
      <4>2. PutOut' = PutOut + 1
        BY <1>4, <1>9, <1>14, <1>21, <2>1, <2>6, <4>1, FrameWordsOf, Sizes
      <4> HIDE DEF x
      <4> QED BY <1>1, <1>3, <1>13, <1>15, <2>1, <2>3, <2>4, <4>2, ReceivedMore
    <3> QED BY <1>2, <1>16, <3>4, <3>5, <3>6, <3>7 DEF FrameInv
  <2> QED BY <2>5, <2>6
<1> QED BY <1>19, <1>20, <1>21

-----------------------------------------------------------------------------
(* The program's steps                                                     *)

(* A new direction comes when the FIFOs are empty and all words are out.   *)
LEMMA SelectStep == FrameInv /\ SelectDirection => FrameInv'
<1> SUFFICES ASSUME FrameInv, SelectDirection PROVE FrameInv'
  OBVIOUS
<1>1. Types /\ Sent /\ Collected /\ Computed /\ Emitted /\ Ended /\ Directed /\ Received
  BY DEF FrameInv
<1>2. /\ pc = "idle" /\ pc' = "send" /\ inverse' \in {0, 1}
      /\ UNCHANGED <<wrapperVars, core, m2s, s2m, frame, i>>
  BY DEF SelectDirection
<1>3. /\ UNCHANGED <<state, input_state, index, temp_in, output_state, receive_index, temp_out,
                     exponent, exponent_abs>>
  BY <1>2 DEF wrapperVars, inputVars, outputVars
<1>4. Collecting /\ i = 0 /\ Taken = 0 /\ Len(m2s) = 0 /\ core.n = 0 /\ input_state = "REAL"
  <2>1. Collecting /\ i = 0 /\ Taken + Len(m2s) = 0
    BY <1>1, <1>2 DEF Sent
  <2>2. Taken \in Nat /\ Len(m2s) \in Nat
    BY <1>1, Phases, FifoTypes
  <2>3. Taken = 0 /\ Len(m2s) = 0
    BY <2>1, <2>2
  <2> QED BY <1>1, <2>1, <2>3, Phases
<1>5. output_state # "IMAG"
  BY <1>1, <1>2, <1>4 DEF Ended, Draining
<1>6. Len(s2m) = 0 /\ s2m = <<>>
  <2>1. Loading /\ ~Draining
    BY <1>2, <1>4 DEF Loading, Draining
  <2>2. PutOut = 0 /\ Got = 0
    BY <1>2, <2>1 DEF PutOut, Got
  <2>3. Len(s2m) \in Nat /\ (s2m = <<>> <=> Len(s2m) = 0)
    BY <1>1, FifoTypes
  <2> QED BY <1>1, <2>1, <2>2, <2>3 DEF Received
<1>7. Collecting' /\ Taken' = Taken /\ Loading' /\ core.phase # "compute"
  BY <1>2, <1>3, <1>4 DEF Collecting, Taken, Loading
<1>8. Types'
  BY <1>1, <1>2, <1>3 DEF Types
<1>9. Sent'
  BY <1>2, <1>3, <1>4, <1>7 DEF Sent
<1>10. Collected'
  BY <1>1, <1>2, <1>3, <1>4, <1>7 DEF Collected
<1>11. Computed' /\ Emitted'
  BY <1>7 DEF Collecting, Computed, Emitted
<1>12. Ended'
  BY <1>1, <1>3, <1>4, <1>5, <1>7 DEF Ended
<1>13. Directed'
  BY <1>3, <1>4, <1>5, <1>7 DEF Directed
<1>14. Received'
  <2>1. PutOut' = 0 /\ Got' = 0 /\ s2m' = <<>> /\ Len(s2m') = 0
    BY <1>2, <1>6, <1>7 DEF PutOut, Got
  <2> QED BY <1>3, <1>5, <2>1 DEF Received
<1> QED BY <1>8, <1>9, <1>10, <1>11, <1>12, <1>13, <1>14 DEF FrameInv

LEMMA SendStep == FrameInv /\ SendWord => FrameInv'
<1> SUFFICES ASSUME FrameInv, SendWord PROVE FrameInv'
  OBVIOUS
<1>1. Types /\ Sent /\ Collected /\ Computed /\ Emitted /\ Ended /\ Directed /\ Received
  BY DEF FrameInv
<1>2. /\ pc = "send" /\ Len(m2s) < FIFO_DEPTH /\ m2s' = Append(m2s, In(frame, i))
      /\ \/ i = 2 * N - 1 /\ pc' = "receive" /\ i' = 0
         \/ i # 2 * N - 1 /\ pc' = pc /\ i' = i + 1
      /\ UNCHANGED <<wrapperVars, core, inverse, s2m, frame>>
  BY DEF SendWord
<1>3. /\ UNCHANGED <<state, input_state, index, temp_in, output_state, receive_index, temp_out,
                     exponent, exponent_abs>>
  BY <1>2 DEF wrapperVars, inputVars, outputVars
<1>4. Collecting /\ i = Taken + Len(m2s) /\ i \in Nat /\ i <= 2 * N - 1 /\ Taken \in Nat
      /\ Len(m2s) \in Nat /\ frame \in Frames /\ m2s \in Seq(Words)
  BY <1>1, <1>2, Phases, FifoTypes DEF Sent, Types
<1>5. output_state # "IMAG"
  BY <1>1, <1>2, <1>4 DEF Ended, Draining
<1>6. /\ m2s' \in Seq(Words) /\ Len(m2s') = Len(m2s) + 1
      /\ \A k \in 1 .. Len(m2s) : m2s'[k] = m2s[k]
      /\ m2s'[Len(m2s) + 1] = In(frame, i)
  <2>1. In(frame, i) \in Words
    BY <1>4, WordTypes
  <2> HIDE DEF Words
  <2> QED BY <1>2, <1>4, <2>1, AppendWords
<1>7. Collecting' /\ Taken' = Taken
  BY <1>2, <1>3, <1>4 DEF Collecting, Taken
<1>8. Loading' /\ (pc' = "send" => Taken' + Len(m2s') = i')
  <2>1. Taken' + Len(m2s') = i + 1
    BY <1>4, <1>6, <1>7
  <2>2. pc' = "receive" => i = 2 * N - 1
    BY <1>2
  <2>3. i = 2 * N - 1 => i + 1 = 2 * N
    BY <1>4, Sizes
  <2> QED BY <1>2, <1>7, <2>1, <2>2, <2>3 DEF Loading
<1>9. Types'
  <2>1. i' \in 0 .. 2 * N - 1 /\ pc' \in {"idle", "send", "receive"}
    <3> DEFINE last == 2 * N - 1
    <3>1. last \in Nat /\ i \in Nat /\ i <= last
      BY <1>4, Sizes
    <3>2. i' = 0 \/ (i # last /\ i' = i + 1)
      BY <1>2
    <3> HIDE DEF last
    <3>3. i' \in 0 .. last
      BY <3>1, <3>2
    <3>4. pc' \in {"idle", "send", "receive"}
      BY <1>2
    <3> QED BY <3>3, <3>4 DEF last
  <2>2. Len(m2s') <= FIFO_DEPTH
    BY <1>2, <1>4, <1>6, Sizes
  <2> HIDE DEF Words, Results, Cores, Scalings
  <2> QED BY <1>1, <1>2, <1>3, <1>6, <2>1, <2>2 DEF Types
<1>10. Sent'
  <2>1. ASSUME NEW k \in 1 .. Len(m2s')
        PROVE  m2s'[k] = In(frame, Taken + k - 1)
    <3>1. CASE k = Len(m2s) + 1
      <4>1. Taken + k - 1 = i
        BY <1>4, <3>1
      <4> QED BY <1>6, <3>1, <4>1
    <3>2. CASE k # Len(m2s) + 1
      <4>1. k \in 1 .. Len(m2s)
        BY <1>4, <1>6, <3>2
      <4> QED BY <1>1, <1>4, <1>6, <4>1 DEF Sent
    <3> QED BY <3>1, <3>2
  <2> QED BY <1>2, <1>7, <1>8, <2>1 DEF Sent
<1>11. Collected'
  BY <1>1, <1>2, <1>3, <1>4, <1>7 DEF Collected
<1>12. Computed' /\ Emitted'
  BY <1>7 DEF Collecting, Computed, Emitted
<1>13. Ended'
  BY <1>1, <1>3, <1>4, <1>5, <1>7 DEF Ended
<1>14. Directed'
  BY <1>1, <1>2, <1>3, <1>4, <1>7 DEF Directed
<1>15. Received'
  <2>1. PutOut' = 0 /\ Got' = 0 /\ s2m' = s2m
    BY <1>2, <1>8 DEF PutOut, Got
  <2>2. Loading /\ ~Draining
    BY <1>2, <1>4 DEF Loading, Draining
  <2>3. PutOut = 0 /\ Got = 0
    BY <1>2, <2>2 DEF PutOut, Got
  <2> QED BY <1>1, <1>2, <1>3, <1>5, <2>1, <2>2, <2>3 DEF Received
<1> QED BY <1>9, <1>10, <1>11, <1>12, <1>13, <1>14, <1>15 DEF FrameInv

(* No more words come out than the program asks for, and these only when   *)
(* core and wrapper are through with the frame.                            *)
LEMMA PutOutLimit ==
  ASSUME FrameInv
  PROVE  /\ PutOut \in Int /\ PutOut <= FrameWords(inverse)
         /\ PutOut = FrameWords(inverse) => Collecting /\ ~Loading /\ output_state # "IMAG"
<1>1. Types /\ Computed /\ Emitted /\ Directed
  BY DEF FrameInv
<1>2. /\ core.phase \in {"collect", "compute", "emit"} /\ core.n \in Nat /\ inverse \in {0, 1}
      /\ output_state \in {"REAL", "IMAG", "INVERSE"}
  BY <1>1, Phases
<1>3. FrameWords(inverse) \in Nat /\ FrameWords(inverse) > 0
  BY <1>2, FrameWordsOf, Sizes
<1>4. CASE Loading \/ core.phase = "compute"
  BY <1>3, <1>4 DEF PutOut
<1>5. CASE ~Loading /\ Collecting
  <2>1. core.phase # "compute"
    BY <1>5 DEF Collecting
  <2>2. PutOut = FrameWords(inverse) - IF output_state = "IMAG" THEN 1 ELSE 0
    BY <1>5, <2>1 DEF PutOut
  <2> QED BY <1>3, <1>5, <2>2
<1>6. CASE core.phase = "emit"
  <2>1. ~Collecting /\ ~Loading
    BY <1>6 DEF Collecting, Loading
  <2>2. PutOut = IF output_state = "INVERSE" THEN core.n
                 ELSE IF output_state = "REAL" THEN 2 * core.n ELSE 2 * core.n - 1
    BY <1>6, <2>1 DEF PutOut
  <2>3. core.n < N /\ (inverse = 1 <=> output_state = "INVERSE")
    BY <1>1, <1>2, <1>6, <2>1 DEF Emitted, Directed
  <2> QED BY <1>2, <2>2, <2>3, FrameWordsOf, Sizes
<1> QED BY <1>2, <1>4, <1>5, <1>6 DEF Collecting

LEMMA ReadStep == FrameInv /\ ReadWord => FrameInv'
<1> SUFFICES ASSUME FrameInv, ReadWord PROVE FrameInv'
  OBVIOUS
<1>1. Types /\ Sent /\ Collected /\ Computed /\ Emitted /\ Ended /\ Directed /\ Received
  BY DEF FrameInv
<1>2. /\ pc = "receive" /\ s2m # <<>> /\ s2m' = Tail(s2m)
      /\ IF i = FrameWords(inverse) - 1
         THEN pc' = "idle" /\ i' = 0 /\ frame' = (frame + 1) % 3
         ELSE i' = i + 1 /\ pc' = pc /\ frame' = frame
      /\ UNCHANGED <<wrapperVars, core, inverse, m2s>>
  BY DEF ReadWord, ReadWords, FrameWords
<1>3. /\ UNCHANGED <<state, input_state, index, temp_in, output_state, receive_index, temp_out,
                     exponent, exponent_abs>>
  BY <1>2 DEF wrapperVars, inputVars, outputVars
<1>4. /\ s2m' \in Seq(Results) /\ Len(s2m') = Len(s2m) - 1 /\ Len(s2m) \in Nat /\ Len(s2m) > 0
      /\ \A k \in 1 .. Len(s2m') : s2m'[k] = s2m[k + 1]
      /\ s2m \in Seq(Results) /\ Len(s2m) <= FIFO_DEPTH
  <2>1. s2m \in Seq(Results) /\ Len(s2m) <= FIFO_DEPTH
    BY <1>1, FifoTypes DEF Types
  <2> HIDE DEF Results
  <2> QED BY <1>2, <2>1, TailWords
<1>5. i \in Nat /\ i <= 2 * N - 1 /\ inverse \in {0, 1} /\ Got = i
  BY <1>1, <1>2, Phases DEF Got
<1>6. PutOut \in Int /\ PutOut <= FrameWords(inverse) /\ FrameWords(inverse) \in Nat
  BY <1>5, PutOutLimit, FrameWordsOf, Sizes
<1>7. \/ i + Len(s2m) = PutOut
      \/ Spare = 0 /\ Draining /\ output_state # "IMAG" /\ i + Len(s2m) + 1 = PutOut
  BY <1>1, <1>5 DEF Received
<1>8. Taken' = Taken /\ (Collecting' <=> Collecting)
  BY <1>2, <1>3 DEF Taken, Collecting
<1>9. Types'
  <2>1. pc' \in {"idle", "send", "receive"} /\ frame' \in Frames
    <3>1. frame \in Frames
      BY <1>1 DEF Types
    <3>2. (frame + 1) % 3 \in Frames
      BY <3>1 DEF Frames
    <3> QED BY <1>2, <3>1, <3>2
  <2>2. i' \in 0 .. 2 * N - 1
    <3>1. i < FrameWords(inverse)
      BY <1>4, <1>5, <1>6, <1>7
    <3>2. FrameWords(inverse) <= 2 * N
      BY <1>5, FrameWordsOf, Sizes
    <3> QED BY <1>2, <1>5, <1>6, <3>1, <3>2, Sizes
  <2>3. Len(s2m') <= FIFO_DEPTH
    BY <1>4, Sizes
  <2> HIDE DEF Words, Results, Cores, Scalings, Frames
  <2> QED BY <1>1, <1>2, <1>3, <1>4, <2>1, <2>2, <2>3 DEF Types
<1>10. CASE i # FrameWords(inverse) - 1
  <2>1. i' = i + 1 /\ pc' = "receive" /\ frame' = frame /\ Got' = i + 1
    BY <1>2, <1>10 DEF Got
  <2>2. (Loading' <=> Loading) /\ (Draining' <=> Draining) /\ (Scaled' <=> Scaled)
    BY <1>2, <1>3, <1>8, <2>1 DEF Loading, Draining, Scaled
  <2>3. Sent' /\ Collected'
    BY <1>1, <1>2, <1>3, <1>8, <2>1, <2>2 DEF Sent, Collected
  <2>4. Computed' /\ Emitted'
    BY <1>1, <1>2, <1>3, <2>1, <2>2 DEF Computed, Emitted
  <2>5. Ended' /\ Directed'
    BY <1>1, <1>2, <1>3, <1>8, <2>1, <2>2 DEF Ended, Directed
  <2>6. Received'
    <3>1. PutOut' = PutOut
      BY <1>2, <1>3, <1>8, <2>2 DEF PutOut
    <3>2. \/ Got' + Len(s2m') = PutOut'
          \/ Spare = 0 /\ Draining' /\ output_state' # "IMAG" /\ Got' + Len(s2m') + 1 = PutOut'
      BY <1>3, <1>4, <1>5, <1>6, <1>7, <2>1, <2>2, <3>1
    <3>3. ASSUME Lead > 1, NEW k \in 1 .. Len(s2m')
          PROVE  s2m'[k] = Out(frame', inverse', Got' + k - 1)
      <4>1. k + 1 \in 1 .. Len(s2m) /\ Got + (k + 1) - 1 = Got' + k - 1
        BY <1>4, <1>5, <2>1
      <4>2. s2m[k + 1] = Out(frame, inverse, Got + (k + 1) - 1)
        BY <1>1, <3>3, <4>1 DEF Received
      <4> QED BY <1>2, <1>4, <2>1, <4>1, <4>2
    <3>4. output_state' = "IMAG" => Len(s2m') <= FIFO_DEPTH - Spare
      BY <1>1, <1>3, <1>4, Sizes DEF Received
    <3> QED BY <3>2, <3>3, <3>4 DEF Received
  <2> QED BY <1>9, <2>3, <2>4, <2>5, <2>6 DEF FrameInv
(* The last word of the frame *)
<1>11. CASE i = FrameWords(inverse) - 1
  <2>1. pc' = "idle" /\ i' = 0 /\ Got' = 0
    BY <1>2, <1>11 DEF Got
  <2>2. Len(s2m) = 1 /\ PutOut = FrameWords(inverse)
    BY <1>4, <1>5, <1>6, <1>7, <1>11
  <2>3. Collecting /\ ~Loading /\ output_state # "IMAG"
    BY <2>2, PutOutLimit
  <2>4. Taken = 0 /\ m2s = <<>> /\ Len(m2s) = 0
    <3>1. Draining
      BY <1>1, <1>2, <2>3 DEF Sent
    <3> QED BY <1>1, <3>1, FifoTypes DEF Draining
  <2>5. core.n = 0 /\ input_state = "REAL"
    BY <1>1, <2>4, Phases
  <2>6. Sent'
    BY <1>2, <1>3, <1>8, <2>1, <2>3, <2>4 DEF Sent
  <2>7. Collected'
    BY <1>1, <1>2, <1>3, <1>8, <2>3, <2>4, <2>5 DEF Collected
  <2>8. Computed' /\ Emitted'
    BY <1>2, <2>3 DEF Computed, Emitted, Collecting
  <2>9. Ended' /\ Directed'
    BY <1>1, <1>2, <1>3, <1>8, <2>3, <2>4 DEF Ended, Directed
  <2>10. Received'
    <3>1. Len(s2m') = 0 /\ 1 .. Len(s2m') = {}
      BY <1>4, <2>2
    <3>2. Loading'
      BY <1>8, <2>1, <2>3 DEF Loading
    <3>3. PutOut' = 0
      BY <3>2 DEF PutOut
    <3> QED BY <1>3, <2>1, <2>3, <3>1, <3>3 DEF Received
  <2> QED BY <1>9, <2>6, <2>7, <2>8, <2>9, <2>10 DEF FrameInv
<1> QED BY <1>10, <1>11

-----------------------------------------------------------------------------
(* The specification                                                       *)

LEMMA FrameStart == Init => FrameInv
<1> SUFFICES ASSUME Init PROVE FrameInv
  OBVIOUS
<1>1. Collecting /\ Taken = 0 /\ Len(m2s) = 0 /\ Len(s2m) = 0 /\ Loading /\ Got = 0
  BY DEF Init, Collecting, Taken, Loading, Got
<1>2. Types
  <2>1. None \in Words /\ core \in Cores
    BY WordTypes DEF Init, Cores, Frames
  <2>2. m2s \in Seq(Words) /\ s2m \in Seq(Results)
    BY EmptySeq DEF Init
  <2>3. <<0, 0>> \in Scalings /\ 1 \in Frames
    BY DEF Scalings, Frames
  <2> HIDE DEF Words, Results, Cores, Scalings, Frames
  <2> QED BY <1>1, <2>1, <2>2, <2>3, Sizes DEF Init, Types
<1>3. Sent /\ Collected
  BY <1>1, Sizes DEF Init, Sent, Collected
<1>4. Computed /\ Emitted /\ Ended /\ Directed
  BY <1>1 DEF Init, Computed, Emitted, Ended, Directed
<1>5. Received
  <2>1. PutOut = 0
    BY <1>1 DEF PutOut
  <2> QED BY <1>1, <2>1 DEF Init, Received
<1> QED BY <1>2, <1>3, <1>4, <1>5 DEF FrameInv

LEMMA FrameStep == FrameInv /\ [Next]_vars => FrameInv'
<1> SUFFICES ASSUME FrameInv, [Next]_vars PROVE FrameInv'
  OBVIOUS
<1>1. ASSUME NEW si \in BOOLEAN, NEW moves \in BOOLEAN, Clock(si, moves)
      PROVE  FrameInv'
  <2>1. core.phase \in {"collect", "compute", "emit"}
    BY Phases DEF FrameInv
  <2> QED BY <1>1, <2>1, CollectClock, ComputeClock, EmitClock DEF Collecting
<1>2. CASE UNCHANGED vars
  <2>1. UNCHANGED <<state, input_state, index, temp_in, output_state, receive_index, temp_out,
                    exponent, exponent_abs, core, inverse, m2s, s2m, pc, frame, i>>
    BY <1>2 DEF vars, wrapperVars, inputVars, outputVars, programVars
  <2>2. /\ Taken' = Taken /\ (Collecting' <=> Collecting) /\ (Loading' <=> Loading)
        /\ (Draining' <=> Draining) /\ Got' = Got /\ (Scaled' <=> Scaled)
    BY <2>1 DEF Taken, Collecting, Loading, Draining, Got, Scaled
  <2>3. PutOut' = PutOut
    BY <2>1, <2>2 DEF PutOut
  <2> HIDE DEF Words, Results, Cores, Scalings, Frames
  <2>4. Types' /\ Sent' /\ Collected'
    BY <2>1, <2>2 DEF FrameInv, Types, Sent, Collected
  <2>5. Computed' /\ Emitted' /\ Ended' /\ Directed'
    BY <2>1, <2>2 DEF FrameInv, Computed, Emitted, Ended, Directed
  <2>6. Received'
    BY <2>1, <2>2, <2>3 DEF FrameInv, Received
  <2> QED BY <2>4, <2>5, <2>6 DEF FrameInv
<1> QED BY <1>1, <1>2, SelectStep, SendStep, ReadStep DEF Next

LEMMA FrameInvHolds == Spec => []FrameInv
  BY FrameStart, FrameStep, PTL DEF Spec

(* The indices of both halves of the wrapper stay within a frame, and      *)
(* neither FIFO holds more than its depth, whatever the pauses are.        *)
THEOREM FftTypeCorrect == Spec => []TypeOK
<1>1. FrameInv => TypeOK
  BY DEF FrameInv, Types, Cores, Scalings, TypeOK
<1> QED BY <1>1, FrameInvHolds, PTL

(* The PIO keeps the direction of the frame in the core, the wrapper is in *)
(* its output state whenever the core has a bin, and an imaginary word     *)
(* comes out of forward frames only.                                       *)
THEOREM FftDirection == Spec => []DirectionHolds
<1>1. FrameInv => DirectionHolds
  BY DEF FrameInv, Collected, Emitted, Directed, Collecting, DirectionHolds
<1> QED BY <1>1, FrameInvHolds, PTL

(* The program reads the words of its own frame in order, each scaled with *)
(* the exponent of that frame, and never more of them than it asks for.    *)
(* With Lead = 1 the second register would be one frame behind at the      *)
(* first word.                                                             *)
THEOREM FftReadsFrame == ASSUME Lead > 1 PROVE Spec => []ReadsFrame
<1>1. FrameInv => ReadsFrame
  <2> SUFFICES ASSUME FrameInv PROVE ReadsFrame
    OBVIOUS
  <2>1. Types /\ Sent /\ Received
    BY DEF FrameInv
  <2>2. \A k \in 1 .. Len(s2m) : s2m[k] = Out(frame, inverse, Got + k - 1)
    BY <2>1 DEF Received
  <2>3. /\ PutOut \in Int /\ PutOut <= FrameWords(inverse) /\ FrameWords(inverse) \in Nat
        /\ Len(s2m) \in Nat /\ Got \in Nat /\ (s2m = <<>> <=> Len(s2m) = 0)
    <3>1. inverse \in {0, 1} /\ Got \in Nat
      BY <2>1, Phases DEF Got
    <3>2. FrameWords(inverse) \in Nat
      BY <3>1, FrameWordsOf, Sizes
    <3> QED BY <2>1, <3>1, <3>2, PutOutLimit, FifoTypes
  <2>4. Got + Len(s2m) <= PutOut
    BY <2>1, <2>3 DEF Received
  <2>5. s2m # <<>> => pc = "receive"
    <3>1. pc # "receive" => Collecting /\ Loading
      BY <2>1 DEF Sent, Loading
    <3>2. Loading => PutOut = 0
      BY DEF PutOut
    <3> QED BY <2>3, <2>4, <3>1, <3>2
  <2>6. Got + Len(s2m) <= FrameWords(inverse)
    BY <2>3, <2>4
  <2> QED BY <2>2, <2>5, <2>6 DEF ReadsFrame, Got
<1> QED BY <1>1, FrameInvHolds, PTL

-----------------------------------------------------------------------------
(* The loop behind the transform (fft.c), whose state is the four arrays   *)
(* and the number of the pass.                                             *)
CONSTANTS Half, re, im
VARIABLES r_1, i_1, r_2, i_2, pass

U == INSTANCE Unpack WITH i <- pass

(* The bins 1 .. pass - 1 and their mirror images are done, the            *)
(* others are as the transform has left them.                              *)

Unpacked(k) == k \in 1 .. pass - 1 \/ U!SIZE - k \in 1 .. pass - 1

UnpackTypes ==
  /\ pass \in 1 .. Half
  /\ r_1 \in [U!Bins -> Int] /\ i_1 \in [U!Bins -> Int]
  /\ r_2 \in [U!Bins -> Int] /\ i_2 \in [U!Bins -> Int]

BinRight(k) ==
  IF Unpacked(k) THEN U!Symmetric(k) /\ U!AddsUp(k)
  ELSE r_1[k] = re[k] /\ r_2[k] = im[k] /\ i_1[k] = 0 /\ i_2[k] = 0

UnpackInv == UnpackTypes /\ \A k \in U!Bins : BinRight(k)

LEMMA Minus == \A x \in Int : -x = 0 - x
  OBVIOUS

LEMMA UnpackInit == ASSUME U!Buffers, U!Init PROVE UnpackInv
  BY DEF U!Buffers, U!Init, UnpackInv, UnpackTypes, BinRight, Unpacked, U!Bins, U!SIZE

(* What a pass computes from the four words of two bins.                   *)
LEMMA HalvesAddUp ==
  ASSUME NEW a \in Int, NEW b \in Int
  PROVE  /\ a - (U!Halve(a + b) + U!Halve(a - b)) \in {0, 1}
         /\ U!Halve(a + b) - U!Halve(a - b) = b
  BY DEF U!Halve

LEMMA PassTypes ==
  ASSUME U!Buffers, UnpackInv, U!Pass
  PROVE  /\ UnpackTypes'
         /\ \A k \in U!Bins \ {pass, U!SIZE - pass} :
              r_1'[k] = r_1[k] /\ i_1'[k] = i_1[k] /\ r_2'[k] = r_2[k] /\ i_2'[k] = i_2[k]
         /\ r_1'[pass] = U!Halve(re[pass] + re[U!SIZE - pass]) /\ r_1'[U!SIZE - pass] = r_1'[pass]
         /\ r_2'[pass] = U!Halve(im[pass] + im[U!SIZE - pass]) /\ r_2'[U!SIZE - pass] = r_2'[pass]
         /\ i_1'[pass] = U!Halve(im[pass] - im[U!SIZE - pass]) /\ i_1'[U!SIZE - pass] = -i_1'[pass]
         /\ i_2'[pass] = -U!Halve(re[pass] - re[U!SIZE - pass]) /\ i_2'[U!SIZE - pass] = -i_2'[pass]
<1> DEFINE j == U!SIZE - pass
<1>1. /\ pass \in 1 .. Half - 1 /\ Half \in Nat /\ pass' = pass + 1
      /\ pass \in U!Bins /\ j \in U!Bins /\ pass # j
  BY DEF U!Buffers, UnpackInv, UnpackTypes, U!Pass, U!Bins, U!SIZE
<1>2. re[pass] \in Int /\ re[j] \in Int /\ im[pass] \in Int /\ im[j] \in Int
  BY <1>1 DEF U!Buffers
<1>3. r_1[pass] = re[pass] /\ r_1[j] = re[j] /\ r_2[pass] = im[pass] /\ r_2[j] = im[j]
  <2>1. ~Unpacked(pass) /\ ~Unpacked(j)
    BY <1>1 DEF Unpacked, U!SIZE
  <2> QED BY <1>1, <2>1 DEF UnpackInv, BinRight
<1>4. /\ U!Halve(re[pass] + re[j]) \in Int /\ U!Halve(im[pass] + im[j]) \in Int
      /\ U!Halve(im[pass] - im[j]) \in Int /\ -U!Halve(im[pass] - im[j]) \in Int
      /\ -U!Halve(re[pass] - re[j]) \in Int
      /\ -(-U!Halve(re[pass] - re[j])) \in Int
  <2>1. \A z \in Int : U!Halve(z) \in Int /\ -U!Halve(z) \in Int /\ -(-U!Halve(z)) \in Int
    BY DEF U!Halve
  <2> QED BY <1>2, <2>1
<1> DEFINE a == U!Halve(re[pass] + re[j])
           b == U!Halve(im[pass] + im[j])
           x == U!Halve(im[pass] - im[j])
           y == -U!Halve(re[pass] - re[j])
<1>5. /\ r_1' = [r_1 EXCEPT ![pass] = a, ![j] = a]
      /\ r_2' = [r_2 EXCEPT ![pass] = b, ![j] = b]
      /\ i_1' = [i_1 EXCEPT ![pass] = x, ![j] = -x]
      /\ i_2' = [i_2 EXCEPT ![pass] = y, ![j] = -y]
  BY <1>3 DEF U!Pass
<1>6. a \in Int /\ b \in Int /\ x \in Int /\ -x \in Int /\ y \in Int /\ -y \in Int
  BY <1>4
<1> HIDE DEF a, b, x, y
<1>7. UnpackTypes'
  BY <1>1, <1>5, <1>6 DEF UnpackInv, UnpackTypes
<1>8. /\ r_1'[pass] = a /\ r_1'[j] = a /\ r_2'[pass] = b /\ r_2'[j] = b
      /\ i_1'[pass] = x /\ i_1'[j] = -x /\ i_2'[pass] = y /\ i_2'[j] = -y
  BY <1>1, <1>5 DEF UnpackInv, UnpackTypes
<1>9. \A k \in U!Bins \ {pass, j} :
        r_1'[k] = r_1[k] /\ i_1'[k] = i_1[k] /\ r_2'[k] = r_2[k] /\ i_2'[k] = i_2[k]
  BY <1>1, <1>5 DEF UnpackInv, UnpackTypes
<1> QED BY <1>7, <1>8, <1>9 DEF a, b, x, y

LEMMA PassBins ==
  ASSUME U!Buffers, UnpackInv, U!Pass, NEW k \in U!Bins
  PROVE  BinRight(k)'
<1> DEFINE j == U!SIZE - pass
<1>1. /\ pass \in 1 .. Half - 1 /\ Half \in Nat /\ pass' = pass + 1
      /\ pass \in U!Bins /\ j \in U!Bins /\ pass # j /\ pass # 0 /\ j # 0
      /\ U!Mirror(pass) = j /\ U!Mirror(j) = pass
  BY DEF U!Buffers, UnpackInv, UnpackTypes, U!Pass, U!Bins, U!SIZE, U!Mirror
<1>2. re[pass] \in Int /\ re[j] \in Int /\ im[pass] \in Int /\ im[j] \in Int
  BY <1>1 DEF U!Buffers
<1>3. CASE k \in {pass, j}
  <2>1. Unpacked(k)'
    BY <1>1, <1>3 DEF Unpacked, U!SIZE
  <2> DEFINE a == U!Halve(re[pass] + re[j])
             b == U!Halve(im[pass] + im[j])
             x == U!Halve(im[pass] - im[j])
             y == U!Halve(re[pass] - re[j])
  <2>2. a \in Int /\ b \in Int /\ x \in Int /\ y \in Int
    BY <1>2 DEF U!Halve
  <2>3. re[pass] - (a + y) \in {0, 1} /\ im[pass] - (x + b) \in {0, 1}
    <3>1. re[pass] - (a + y) \in {0, 1} /\ im[pass] - (b + x) \in {0, 1}
      BY <1>2, HalvesAddUp
    <3> HIDE DEF a, b, x, y
    <3> QED BY <3>1, <2>2
  <2>4. a - y = re[j] /\ b - x = im[j]
    BY <1>2, HalvesAddUp
  <2>5. /\ r_1'[pass] = a /\ r_1'[j] = a /\ r_2'[pass] = b /\ r_2'[j] = b
        /\ i_1'[pass] = x /\ i_1'[j] = -x /\ i_2'[pass] = -y /\ i_2'[j] = -(-y)
    BY PassTypes
  <2> HIDE DEF a, b, x, y, j
  <2>6. U!Symmetric(k)'
    BY <1>1, <1>3, <2>2, <2>5 DEF U!Symmetric
  <2>7. U!AddsUp(k)'
    BY <1>1, <1>2, <1>3, <2>2, <2>3, <2>4, <2>5 DEF U!AddsUp
  <2> QED BY <2>1, <2>6, <2>7 DEF BinRight
<1>4. CASE k \notin {pass, j}
  <2>1. Unpacked(k)' <=> Unpacked(k)
    BY <1>1, <1>4 DEF Unpacked, U!SIZE, U!Bins
  <2>2. r_1'[k] = r_1[k] /\ i_1'[k] = i_1[k] /\ r_2'[k] = r_2[k] /\ i_2'[k] = i_2[k]
    BY <1>4, PassTypes
  <2>3. CASE Unpacked(k)
    <3>1. U!Mirror(k) \in U!Bins /\ U!Mirror(k) \notin {pass, j}
      BY <1>1, <1>4, <2>3 DEF U!Mirror, Unpacked, U!Bins, U!SIZE
    <3>2. /\ r_1'[U!Mirror(k)] = r_1[U!Mirror(k)] /\ i_1'[U!Mirror(k)] = i_1[U!Mirror(k)]
          /\ r_2'[U!Mirror(k)] = r_2[U!Mirror(k)] /\ i_2'[U!Mirror(k)] = i_2[U!Mirror(k)]
      BY <3>1, PassTypes
    <3> QED BY <2>1, <2>2, <2>3, <3>2 DEF UnpackInv, BinRight, U!Symmetric, U!AddsUp
  <2>4. CASE ~Unpacked(k)
    BY <2>1, <2>2, <2>4 DEF UnpackInv, BinRight
  <2> QED BY <2>3, <2>4
<1> QED BY <1>3, <1>4

LEMMA UnpackStep == ASSUME U!Buffers, UnpackInv, [U!Next]_(U!vars) PROVE UnpackInv'
<1>1. CASE U!Pass
  BY <1>1, PassTypes, PassBins DEF UnpackInv
<1>2. CASE UNCHANGED U!vars
  BY <1>2 DEF U!vars, UnpackInv, UnpackTypes, BinRight, Unpacked, U!Symmetric, U!AddsUp
<1> QED BY <1>1, <1>2 DEF U!Next

(* At the end only the bins 0 and Half are left, which are their own       *)
(* mirror images and have no imaginary parts.                              *)
LEMMA UnpackEnd == ASSUME U!Buffers, UnpackInv PROVE U!Separated
<1> SUFFICES ASSUME pass = Half, NEW k \in U!Bins PROVE U!Symmetric(k) /\ U!AddsUp(k)
  BY DEF U!Separated
<1>1. CASE Unpacked(k)
  BY <1>1 DEF UnpackInv, BinRight
<1>2. CASE ~Unpacked(k)
  <2>1. U!Mirror(k) = k
    BY <1>2 DEF Unpacked, U!Bins, U!SIZE, U!Mirror, U!Buffers
  <2>2. r_1[k] = re[k] /\ r_2[k] = im[k] /\ i_1[k] = 0 /\ i_2[k] = 0
    BY <1>2 DEF UnpackInv, BinRight
  <2>3. re[k] \in Int /\ im[k] \in Int
    BY DEF U!Buffers
  <2>4. -i_1[k] = 0 - i_1[k] /\ -i_2[k] = 0 - i_2[k]
    BY Minus DEF UnpackInv, UnpackTypes
  <2>5. re[k] - (re[k] - 0) = 0 /\ im[k] - (0 + im[k]) = 0
    BY <2>3
  <2> DEFINE m_1 == -i_1[k]
             m_2 == -i_2[k]
  <2>6. m_1 = i_1[k] /\ m_2 = i_2[k]
    <3>1. m_1 = 0 - i_1[k] /\ m_2 = 0 - i_2[k]
      BY <2>4
    <3> HIDE DEF m_1, m_2
    <3> QED BY <2>2, <3>1
  <2>7. U!Symmetric(k)
    BY <2>1, <2>6 DEF U!Symmetric
  <2> QED BY <2>2, <2>5, <2>7 DEF U!AddsUp
<1> QED BY <1>1, <1>2

(* For any number of bins and any result of the transform, the loop takes  *)
(* the spectra of the two channels apart.                                  *)
THEOREM UnpackSeparates == ASSUME U!Buffers PROVE U!Spec => []U!Separated
<1>1. U!Init => UnpackInv
  BY UnpackInit
<1>2. UnpackInv /\ [U!Next]_(U!vars) => UnpackInv'
  BY UnpackStep
<1>3. UnpackInv => U!Separated
  BY UnpackEnd
<1> QED BY <1>1, <1>2, <1>3, PTL DEF U!Spec
=============================================================================
