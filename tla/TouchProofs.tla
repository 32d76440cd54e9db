---------------------------- MODULE TouchProofs -----------------------------
(***************************************************************************)
(* Proofs about the touch screen for any clock divider, any acquisition    *)
(* time and any positions of the finger, whenever it touches the screen,   *)
(* slides or is lifted.                                                    *)
(***************************************************************************)
EXTENDS Touch, SequenceTheorems, TLAPS

Converting == tc_state # "IDLE"

(* Rising edges of DCLK in this conversion, and the bits of the two        *)
(* coordinates that have been shifted in by then.                          *)
Edges == IF tc_state \in {"DCLK_HIGH_TIME", "COMPLETE"} THEN dclk_cntr ELSE dclk_cntr - 1
Shifted(n) == IF n < MSB THEN 0 ELSE IF n < MSB + LENGTH - 1 THEN n - MSB + 1 ELSE LENGTH
Taken == Shifted(Edges) + IF coor_select = "Y" THEN LENGTH ELSE 0

Want(k) == IF k <= LENGTH THEN Bit("X", at, k) ELSE Bit("Y", at, k - LENGTH)

-----------------------------------------------------------------------------
(* The invariant                                                           *)

Places == Positions \cup {"none"}
Bits == [axis : {"X", "Y", "none"}, pos : Places, k : 0 .. LENGTH]
Adcs == [edges : 0 .. CYCLES, word : Seq(Int), pos : Places]

Types ==
  /\ tc_state \in {"IDLE", "DCLK_LOW_TIME", "DCLK_RISING_EDGE", "DCLK_HIGH_TIME",
                   "DCLK_FALLING_EDGE", "COMPLETE"}
  /\ dclk_cntr \in 0 .. CYCLES /\ coor_select \in {"X", "Y"}
  /\ adc_din \in {0, 1} /\ dclk \in {0, 1}
  /\ coor_buf \in Seq(Bits) /\ Len(coor_buf) = 2 * LENGTH
  /\ adc \in Adcs
  /\ pen \in BOOLEAN /\ at \in Positions /\ steady \in BOOLEAN /\ in_step \in BOOLEAN
  /\ pc \in {"reset", "flag", "x", "y", "clear"}

(* One of the two counters runs, the other one rests.                      *)
Counting(time) ==
  IF Acquires THEN clk_cntr = 1 /\ acq_cntr \in 0 .. ACQUISITION_TIME - 1
  ELSE clk_cntr \in 1 .. time - 1 /\ acq_cntr = 0

Timed ==
  /\ clk_cntr \in 0 .. LIMIT /\ acq_cntr \in 0 .. ACQUISITION_TIME
  /\ tc_state = "DCLK_LOW_TIME" => Counting(LOW_TIME)
  /\ tc_state = "DCLK_HIGH_TIME" => Counting(HIGH_TIME)

(* Controller and converter count the same edges, unless a reset took them *)
(* out of step.                                                            *)
Clocked ==
  /\ Converting => dclk_cntr > 0
  /\ tc_state = "IDLE" => dclk = 0
  /\ tc_state = "DCLK_FALLING_EDGE" /\ dclk_cntr > 1 => dclk = 1
  /\ tc_state \in {"DCLK_LOW_TIME", "DCLK_RISING_EDGE"} => dclk = 0
  /\ tc_state \in {"DCLK_HIGH_TIME", "COMPLETE"} => dclk = 1
  /\ tc_state = "COMPLETE" => dclk_cntr = CYCLES /\ coor_select = "Y"
  /\ in_step =>
       IF Converting /\ Edges > 0 THEN adc.edges = Edges ELSE adc.edges \in {0, CYCLES}
  /\ adc.edges = 0 => adc.word = <<>>
  /\ ~in_step => adc = Unused

(* The control word is on its way to the converter.                        *)
Commanded ==
  /\ Len(adc.word) = IF adc.edges < 8 THEN adc.edges ELSE 8
  /\ in_step /\ Converting /\ Edges > 0 =>
       \A k \in 1 .. Len(adc.word) : adc.word[k] = CONTROL_WORD[coor_select][k]
  /\ tc_state \in {"DCLK_LOW_TIME", "DCLK_RISING_EDGE"} /\ dclk_cntr <= 8 =>
       adc_din = CONTROL_WORD[coor_select][dclk_cntr]

(* While the finger rests the converter samples its place, and the bits    *)
(* come in.                                                                *)
Sampled ==
  steady =>
    /\ pen
    /\ in_step /\ Converting =>
         /\ Edges > 8 \/ (Edges = 8 /\ dclk = 0) => adc.pos = at
         /\ \A k \in 1 .. Taken : coor_buf[2 * LENGTH - Taken + k] = Want(k)

(* The second coordinate waits in a buffer between the reads.              *)
Delivered ==
  /\ pc = "y" => y_buffer = point_y
  /\ pc = "clear" => y_raw = point_y

PointInv == Types /\ Timed /\ Clocked /\ Commanded /\ Sampled /\ Delivered
-----------------------------------------------------------------------------
(* Constants and sequences                                                 *)

LEMMA Times ==
  /\ LIMIT \in Nat /\ ACQUISITION_TIME \in Nat /\ ACQUISITION_TIME > 5
  /\ LOW_TIME \in Nat /\ LOW_TIME > 2 /\ LOW_TIME <= LIMIT
  /\ HIGH_TIME \in Nat /\ HIGH_TIME > 2 /\ HIGH_TIME <= LIMIT
<1>1. LIMIT \in Nat /\ LIMIT > 5 /\ ACQUISITION_FACTOR \in Nat /\ ACQUISITION_FACTOR >= 1
  BY TouchAssumption DEF LIMIT
<1> HIDE DEF LIMIT
<1>2. ACQUISITION_TIME \in Nat /\ ACQUISITION_TIME >= LIMIT
  <2>1. \A f, l \in Nat : f >= 1 => f * l \in Nat /\ f * l >= l
    BY Z3T(20)
  <2> QED BY <1>1, <2>1 DEF ACQUISITION_TIME
<1>3. /\ LOW_TIME \in Nat /\ LOW_TIME > 2 /\ LOW_TIME <= LIMIT
      /\ HIGH_TIME \in Nat /\ HIGH_TIME > 2 /\ HIGH_TIME <= LIMIT
  BY <1>1, Z3T(20) DEF LOW_TIME, HIGH_TIME
<1> QED BY <1>1, <1>2, <1>3

LEMMA ControlWords ==
  /\ \A axis \in {"X", "Y"} :
       /\ CONTROL_WORD[axis] \in Seq(Int) /\ Len(CONTROL_WORD[axis]) = 8
       /\ \A k \in 1 .. 8 : CONTROL_WORD[axis][k] \in {0, 1}
  /\ CONTROL_WORD["X"] # CONTROL_WORD["Y"]
<1>1. /\ CONTROL_WORD["X"] = <<1, 0, 0, 1, 0, 0, 1, 1>>
      /\ CONTROL_WORD["Y"] = <<1, 1, 0, 1, 0, 0, 0, 0>>
  BY DEF CONTROL_WORD
<1>2. /\ <<1, 0, 0, 1, 0, 0, 1, 1>> \in Seq(Int) /\ Len(<<1, 0, 0, 1, 0, 0, 1, 1>>) = 8
      /\ <<1, 1, 0, 1, 0, 0, 0, 0>> \in Seq(Int) /\ Len(<<1, 1, 0, 1, 0, 0, 0, 0>>) = 8
  OBVIOUS
<1>3. \A k \in 1 .. 8 : /\ <<1, 0, 0, 1, 0, 0, 1, 1>>[k] \in {0, 1}
                        /\ <<1, 1, 0, 1, 0, 0, 0, 0>>[k] \in {0, 1}
  OBVIOUS
<1>4. <<1, 0, 0, 1, 0, 0, 1, 1>>[2] # <<1, 1, 0, 1, 0, 0, 0, 0>>[2]
  OBVIOUS
<1> QED BY <1>1, <1>2, <1>3, <1>4

LEMMA FunctionIsSeq ==
  ASSUME NEW S, NEW n \in Nat, NEW f \in [1 .. n -> S]
  PROVE  f \in Seq(S) /\ Len(f) = n
<1>1. f \in Seq(S)
  BY SeqDef, Zenon
<1>2. DOMAIN f = 1 .. n /\ DOMAIN f = 1 .. Len(f) /\ Len(f) \in Nat
  BY <1>1, LenProperties
<1>3. Len(f) = n
  <2>1. ~(n < Len(f))
    BY <1>2
  <2>2. ~(Len(f) < n)
    BY <1>2
  <2> QED BY <1>2, <2>1, <2>2
<1> QED BY <1>1, <1>3

LEMMA CoordinateSeq ==
  ASSUME NEW axis \in {"X", "Y"}, NEW pos \in Positions
  PROVE  /\ Coordinate(axis, pos) \in Seq(Bits) /\ Len(Coordinate(axis, pos)) = LENGTH
         /\ \A k \in 1 .. LENGTH : Coordinate(axis, pos)[k] = Bit(axis, pos, k)
<1>1. \A k \in 1 .. LENGTH : Bit(axis, pos, k) \in Bits
  BY DEF Bit, Bits, Places, LENGTH
<1>2. Coordinate(axis, pos) \in [1 .. LENGTH -> Bits]
  BY <1>1 DEF Coordinate
<1>3. LENGTH \in Nat
  BY DEF LENGTH
<1> HIDE DEF Bits, LENGTH
<1> QED BY <1>2, <1>3, FunctionIsSeq DEF Coordinate

(* A bit is shifted in at the end.                                         *)
LEMMA ShiftIn ==
  ASSUME NEW S, NEW q \in Seq(S), Len(q) = 2 * LENGTH, NEW x \in S
  PROVE  /\ Append(Tail(q), x) \in Seq(S) /\ Len(Append(Tail(q), x)) = 2 * LENGTH
         /\ \A k \in 1 .. 2 * LENGTH - 1 : Append(Tail(q), x)[k] = q[k + 1]
         /\ Append(Tail(q), x)[2 * LENGTH] = x
<1>1. q # <<>>
  <2>1. 2 * LENGTH # 0 /\ Len(<<>>) = 0
    BY EmptySeq DEF LENGTH
  <2> QED BY <2>1
<1>2. /\ Tail(q) \in Seq(S) /\ Len(Tail(q)) = 2 * LENGTH - 1
      /\ \A k \in 1 .. Len(Tail(q)) : Tail(q)[k] = q[k + 1]
  BY <1>1, HeadTailProperties
<1>3. /\ Append(Tail(q), x) \in Seq(S) /\ Len(Append(Tail(q), x)) = Len(Tail(q)) + 1
      /\ \A k \in 1 .. Len(Tail(q)) : Append(Tail(q), x)[k] = Tail(q)[k]
      /\ Append(Tail(q), x)[Len(Tail(q)) + 1] = x
  BY <1>2, AppendProperties
<1>4. 2 * LENGTH - 1 + 1 = 2 * LENGTH
  BY DEF LENGTH
<1> QED BY <1>2, <1>3, <1>4

-----------------------------------------------------------------------------
(* A clock cycle of the controller                                         *)

LEMMA ControllerTimes ==
  ASSUME Types, Timed, Controller
  PROVE  Timed'
<1>1. /\ clk_cntr \in 0 .. LIMIT /\ acq_cntr \in 0 .. ACQUISITION_TIME
      /\ tc_state = "DCLK_LOW_TIME" => Counting(LOW_TIME)
      /\ tc_state = "DCLK_HIGH_TIME" => Counting(HIGH_TIME)
      /\ clk_cntr \in Nat /\ acq_cntr \in Nat
  BY Times DEF Timed
<1>2. CASE IdleState
  BY <1>1, <1>2 DEF IdleState, Timed
<1>3. ASSUME NEW time \in {LOW_TIME, HIGH_TIME}, Restart, dclk_cntr' = dclk_cntr
      PROVE  /\ Counting(time)' /\ clk_cntr' \in 0 .. LIMIT
             /\ acq_cntr' \in 0 .. ACQUISITION_TIME
  <2>1. time \in Nat /\ time > 2 /\ clk_cntr' = 1 /\ acq_cntr' = 0
    BY <1>3, Times DEF Restart
  <2>2. 1 \in 1 .. time - 1 /\ 0 \in 0 .. ACQUISITION_TIME - 1 /\ 1 \in 0 .. LIMIT
        /\ 0 \in 0 .. ACQUISITION_TIME
    BY <2>1, Times
  <2> QED BY <2>1, <2>2 DEF Counting
<1>4. CASE FallingEdge
  <2>1. /\ tc_state' = "DCLK_LOW_TIME" /\ Restart /\ dclk_cntr' = dclk_cntr
    BY <1>4 DEF FallingEdge
  <2>2. Counting(LOW_TIME)' /\ clk_cntr' \in 0 .. LIMIT /\ acq_cntr' \in 0 .. ACQUISITION_TIME
    BY <1>3, <2>1
  <2> QED BY <2>1, <2>2 DEF Timed
<1>5. CASE RisingEdge
  <2>1. /\ tc_state' = "DCLK_HIGH_TIME" /\ Restart /\ dclk_cntr' = dclk_cntr
    BY <1>5 DEF RisingEdge
  <2>2. Counting(HIGH_TIME)' /\ clk_cntr' \in 0 .. LIMIT /\ acq_cntr' \in 0 .. ACQUISITION_TIME
    BY <1>3, <2>1
  <2> QED BY <2>1, <2>2 DEF Timed
<1>6. ASSUME NEW time \in {LOW_TIME, HIGH_TIME}, Counting(time), Count
      PROVE  /\ clk_cntr' \in 0 .. LIMIT /\ acq_cntr' \in 0 .. ACQUISITION_TIME
             /\ ~Elapsed(time) /\ dclk_cntr' = dclk_cntr => Counting(time)'
  <2>1. time \in Nat /\ time > 2 /\ time <= LIMIT /\ LIMIT \in Nat /\ ACQUISITION_TIME \in Nat
        /\ ACQUISITION_TIME > 5
    BY <1>6, Times
  <2> HIDE DEF LIMIT, ACQUISITION_TIME
  <2>2. CASE Acquires
    <3>1. clk_cntr = 1 /\ acq_cntr \in 0 .. ACQUISITION_TIME - 1
          /\ clk_cntr' = clk_cntr /\ acq_cntr' = acq_cntr + 1
      BY <1>6, <2>2 DEF Counting, Count
    <3>2. ~Elapsed(time) => acq_cntr + 1 \in 0 .. ACQUISITION_TIME - 1
      BY <2>1, <3>1 DEF Elapsed
    <3>3. dclk_cntr' = dclk_cntr => Acquires'
      BY <2>2 DEF Acquires
    <3>4. 1 \in 0 .. LIMIT /\ acq_cntr + 1 \in 0 .. ACQUISITION_TIME
      BY <2>1, <3>1
    <3> QED BY <3>1, <3>2, <3>3, <3>4 DEF Counting
  <2>3. CASE ~Acquires
    <3>1. clk_cntr \in 1 .. time - 1 /\ acq_cntr = 0
          /\ clk_cntr' = clk_cntr + 1 /\ acq_cntr' = acq_cntr
      BY <1>6, <2>3 DEF Counting, Count
    <3>2. ~Elapsed(time) => clk_cntr + 1 \in 1 .. time - 1
      BY <2>1, <3>1 DEF Elapsed
    <3>3. dclk_cntr' = dclk_cntr => ~Acquires'
      BY <2>3 DEF Acquires
    <3>4. clk_cntr + 1 \in 0 .. LIMIT /\ 0 \in 0 .. ACQUISITION_TIME
      BY <2>1, <3>1
    <3> QED BY <3>1, <3>2, <3>3, <3>4 DEF Counting
  <2> QED BY <2>2, <2>3
<1>7. CASE LowTime
  <2>1. /\ Count /\ Counting(LOW_TIME) /\ dclk_cntr' = dclk_cntr
        /\ tc_state' = IF Elapsed(LOW_TIME) THEN "DCLK_RISING_EDGE" ELSE "DCLK_LOW_TIME"
    BY <1>1, <1>7 DEF LowTime
  <2>2. /\ clk_cntr' \in 0 .. LIMIT /\ acq_cntr' \in 0 .. ACQUISITION_TIME
        /\ ~Elapsed(LOW_TIME) => Counting(LOW_TIME)'
    BY <1>6, <2>1
  <2> QED BY <2>1, <2>2 DEF Timed
<1>8. CASE HighTime
  <2>1. /\ Count /\ Counting(HIGH_TIME) /\ tc_state = "DCLK_HIGH_TIME"
        /\ IF Elapsed(HIGH_TIME) THEN tc_state' \in {"DCLK_FALLING_EDGE", "COMPLETE"}
           ELSE tc_state' = tc_state /\ dclk_cntr' = dclk_cntr
    BY <1>1, <1>8 DEF HighTime
  <2>2. /\ clk_cntr' \in 0 .. LIMIT /\ acq_cntr' \in 0 .. ACQUISITION_TIME
        /\ ~Elapsed(HIGH_TIME) => Counting(HIGH_TIME)'
    BY <1>6, <2>1
  <2> QED BY <2>1, <2>2 DEF Timed
<1>9. CASE Complete
  <2>1. 0 \in 0 .. LIMIT /\ 0 \in 0 .. ACQUISITION_TIME
    BY Times
  <2> QED BY <1>9, <2>1 DEF Complete, Timed
<1> QED BY <1>2, <1>4, <1>5, <1>7, <1>8, <1>9 DEF Controller

(* The controller's step as the other conjuncts see it.                    *)
LEMMA ControllerCases ==
  ASSUME Types, Clocked, Controller
  PROVE  \/ /\ tc_state = "IDLE" /\ tc_state' = "IDLE" /\ penirq_n # 0
            /\ UNCHANGED <<dclk_cntr, coor_select, adc_din, dclk, coor_buf, steady>>
         \/ /\ tc_state = "IDLE" /\ tc_state' = "DCLK_FALLING_EDGE" /\ penirq_n = 0
            /\ dclk_cntr' = 1 /\ coor_select' = "X" /\ steady' = pen
            /\ UNCHANGED <<adc_din, dclk, coor_buf>>
         \/ /\ tc_state = "DCLK_FALLING_EDGE" /\ tc_state' = "DCLK_LOW_TIME" /\ dclk' = 0
            /\ adc_din' = IF dclk_cntr \in 1 .. 8 THEN CONTROL_WORD[coor_select][dclk_cntr] ELSE 0
            /\ UNCHANGED <<dclk_cntr, coor_select, coor_buf, steady>>
         \/ /\ tc_state = "DCLK_LOW_TIME"
            /\ tc_state' \in {"DCLK_LOW_TIME", "DCLK_RISING_EDGE"}
            /\ UNCHANGED <<dclk_cntr, coor_select, adc_din, dclk, coor_buf, steady>>
         \/ /\ tc_state = "DCLK_RISING_EDGE" /\ RisingEdge
         \/ /\ tc_state = "DCLK_HIGH_TIME" /\ tc_state' = "DCLK_HIGH_TIME"
            /\ UNCHANGED <<dclk_cntr, coor_select, adc_din, dclk, coor_buf, steady>>
         \/ /\ tc_state = "DCLK_HIGH_TIME" /\ tc_state' = "DCLK_FALLING_EDGE"
            /\ dclk_cntr < CYCLES /\ dclk_cntr' = dclk_cntr + 1
            /\ UNCHANGED <<coor_select, adc_din, dclk, coor_buf, steady>>
         \/ /\ tc_state = "DCLK_HIGH_TIME" /\ tc_state' = "DCLK_FALLING_EDGE"
            /\ dclk_cntr = CYCLES /\ dclk_cntr' = 1 /\ coor_select = "X" /\ coor_select' = "Y"
            /\ UNCHANGED <<adc_din, dclk, coor_buf, steady>>
         \/ /\ tc_state = "DCLK_HIGH_TIME" /\ tc_state' = "COMPLETE"
            /\ dclk_cntr = CYCLES /\ coor_select = "Y"
            /\ UNCHANGED <<dclk_cntr, coor_select, adc_din, dclk, coor_buf, steady>>
         \/ /\ tc_state = "COMPLETE" /\ tc_state' = "IDLE" /\ dclk' = 0
            /\ UNCHANGED <<dclk_cntr, coor_select, adc_din, coor_buf, steady>>
<1>1. dclk_cntr \in 0 .. CYCLES /\ coor_select \in {"X", "Y"}
  BY DEF Types
<1>2. CASE IdleState
  BY <1>2 DEF IdleState
<1>3. CASE FallingEdge
  BY <1>3 DEF FallingEdge
<1>4. CASE LowTime
  BY <1>4 DEF LowTime
<1>5. CASE RisingEdge
  BY <1>5 DEF RisingEdge
<1>6. CASE HighTime
  <2>1. dclk_cntr < CYCLES \/ dclk_cntr = CYCLES
    BY <1>1 DEF CYCLES
  <2>2. ~(CYCLES < CYCLES)
    BY DEF CYCLES
  <2> QED BY <1>1, <1>6, <2>1, <2>2 DEF HighTime
<1>7. CASE Complete
  BY <1>7 DEF Complete
<1> QED BY <1>2, <1>3, <1>4, <1>5, <1>6, <1>7 DEF Controller

LEMMA AdcFacts ==
  ASSUME Types
  PROVE  /\ adc.edges \in 0 .. CYCLES /\ adc.word \in Seq(Int) /\ adc.pos \in Places
         /\ Len(adc.word) \in Nat
         /\ adc = [edges |-> adc.edges, word |-> adc.word, pos |-> adc.pos]
<1>1. adc \in Adcs
  BY DEF Types
<1> QED BY <1>1, LenProperties DEF Adcs

LEMMA UnusedAdc ==
  /\ Unused \in Adcs /\ Unused.edges = 0
  /\ Unused.word = <<>> /\ Len(Unused.word) = 0
<1>1. <<>> \in Seq(Int) /\ Len(<<>>) = 0
  BY EmptySeq
<1> QED BY <1>1 DEF Unused, Adcs, Places, CYCLES

LEMMA EdgeFacts ==
  ASSUME Types, Clocked
  PROVE  /\ dclk_cntr \in Nat /\ dclk_cntr <= CYCLES /\ CYCLES = 24 /\ adc.edges \in Nat
         /\ Converting => Edges \in Nat /\ Edges <= CYCLES /\ dclk_cntr > 0
<1>1. dclk_cntr \in Nat /\ dclk_cntr <= CYCLES /\ CYCLES = 24 /\ adc.edges \in Nat
  <2>1. dclk_cntr \in 0 .. CYCLES /\ adc.edges \in 0 .. CYCLES
    BY AdcFacts DEF Types
  <2>2. CYCLES = 24
    BY DEF CYCLES
  <2> QED BY <2>1, <2>2
<1> QED BY <1>1 DEF Clocked, Edges

(* Without an edge of DCLK the converter only notices the chip select.     *)
LEMMA ConverterRests ==
  ASSUME Types, Clocked, Converter, in_step, dclk' = dclk \/ dclk' = 0, adc.edges # 8
  PROVE  \/ adc' = adc
         \/ ~Selected /\ adc' = [adc EXCEPT !.edges = 0, !.word = <<>>]
<1>1. dclk \in {0, 1}
  BY DEF Types
<1> QED BY <1>1 DEF Converter

(* At a rising edge it counts, and takes a bit of the control word.        *)
LEMMA ConverterCounts ==
  ASSUME Types, Clocked, Commanded, Converter, in_step, tc_state = "DCLK_RISING_EDGE", dclk' = 1
  PROVE  /\ adc'.edges = dclk_cntr /\ adc'.pos = adc.pos /\ adc'.word \in Seq(Int)
         /\ Len(adc'.word) = IF dclk_cntr < 8 THEN dclk_cntr ELSE 8
         /\ \A k \in 1 .. Len(adc'.word) : adc'.word[k] = CONTROL_WORD[coor_select][k]
         /\ adc' \in Adcs
<1>1. /\ dclk_cntr \in Nat /\ dclk_cntr <= CYCLES /\ CYCLES = 24 /\ adc.edges \in Nat
      /\ Edges = dclk_cntr - 1 /\ dclk_cntr > 0 /\ Converting /\ dclk = 0
  BY EdgeFacts DEF Edges, Converting, Clocked
<1>2. IF dclk_cntr = 1 THEN adc.edges \in {0, CYCLES} ELSE adc.edges = dclk_cntr - 1
  BY <1>1 DEF Clocked
<1>3. adc.word \in Seq(Int) /\ adc.pos \in Places /\ Len(adc.word) \in Nat /\ adc \in Adcs
  BY AdcFacts DEF Types
<1>4. Len(adc.word) = IF adc.edges < 8 THEN adc.edges ELSE 8
  BY DEF Commanded
<1>5. dclk_cntr > 1 => \A k \in 1 .. Len(adc.word) : adc.word[k] = CONTROL_WORD[coor_select][k]
  BY <1>1 DEF Commanded
<1>6. dclk_cntr <= 8 => adc_din = CONTROL_WORD[coor_select][dclk_cntr]
  BY DEF Commanded
<1>7. adc_din \in Int
  BY DEF Types
<1> DEFINE e == IF adc.edges = CYCLES THEN 1 ELSE adc.edges + 1
           w == IF adc.edges = CYCLES THEN <<adc_din>>
                ELSE IF adc.edges < 8 THEN Append(adc.word, adc_din) ELSE adc.word
<1>8. adc' = [adc EXCEPT !.edges = e, !.word = w]
  BY <1>1 DEF Converter, Selected
<1>9. e = dclk_cntr
  BY <1>1, <1>2
<1>10. /\ w \in Seq(Int) /\ Len(w) = IF dclk_cntr < 8 THEN dclk_cntr ELSE 8
       /\ \A k \in 1 .. Len(w) : w[k] = CONTROL_WORD[coor_select][k]
  <2>1. CASE adc.edges = CYCLES
    <3>1. dclk_cntr = 1 /\ w = <<adc_din>>
      BY <1>1, <1>2, <2>1
    <3>2. <<adc_din>> \in Seq(Int) /\ Len(<<adc_din>>) = 1 /\ <<adc_din>>[1] = adc_din
      BY <1>7
    <3>3. CONTROL_WORD[coor_select][1] = adc_din
      BY <1>6, <3>1
    <3>4. w \in Seq(Int) /\ Len(w) = 1 /\ w[1] = adc_din
      BY <3>1, <3>2
    <3> HIDE DEF w
    <3>5. \A k \in 1 .. Len(w) : k = 1
      BY <3>4
    <3> QED BY <3>1, <3>3, <3>4, <3>5
  <2>2. CASE adc.edges # CYCLES /\ adc.edges < 8
    <3>1. w = Append(adc.word, adc_din) /\ adc.edges = dclk_cntr - 1 /\ dclk_cntr <= 8
      BY <1>1, <1>2, <2>2
    <3>2. /\ w \in Seq(Int) /\ Len(w) = Len(adc.word) + 1
          /\ \A k \in 1 .. Len(adc.word) : w[k] = adc.word[k]
          /\ w[Len(adc.word) + 1] = adc_din
      BY <1>3, <1>7, <3>1, AppendProperties
    <3> HIDE DEF w
    <3>3. Len(adc.word) + 1 = dclk_cntr /\ Len(w) = dclk_cntr
      BY <1>1, <1>4, <2>2, <3>1, <3>2
    <3>4. ASSUME NEW k \in 1 .. Len(w) PROVE w[k] = CONTROL_WORD[coor_select][k]
      <4>1. CASE k = dclk_cntr
        BY <1>6, <3>1, <3>2, <3>3, <4>1
      <4>2. CASE k # dclk_cntr
        <5>1. k \in 1 .. Len(adc.word) /\ dclk_cntr > 1
          BY <1>1, <1>3, <3>3, <4>2
        <5> QED BY <1>5, <3>2, <5>1
      <4> QED BY <4>1, <4>2
    <3> QED BY <1>1, <3>1, <3>2, <3>3, <3>4
  <2>3. CASE adc.edges # CYCLES /\ ~(adc.edges < 8)
    <3>1. w = adc.word /\ adc.edges = dclk_cntr - 1 /\ dclk_cntr > 8
      BY <1>1, <1>2, <2>3
    <3> HIDE DEF w
    <3>2. Len(adc.word) = 8 /\ dclk_cntr > 1 /\ ~(dclk_cntr < 8)
      BY <1>1, <1>4, <2>3, <3>1
    <3> QED BY <1>3, <1>5, <3>1, <3>2
  <2> QED BY <2>1, <2>2, <2>3
<1> HIDE DEF e, w
<1>11. adc'.edges = e /\ adc'.word = w /\ adc'.pos = adc.pos
  BY <1>3, <1>8 DEF Adcs
<1>12. adc' \in Adcs
  <2>1. e \in 0 .. CYCLES
    BY <1>1, <1>9
  <2> QED BY <1>3, <1>8, <1>10, <2>1 DEF Adcs
<1> QED BY <1>9, <1>10, <1>11, <1>12

LEMMA StepEdges ==
  ASSUME Types, Clocked, Commanded, Controller, Converter, in_step
  PROVE  Clocked' /\ Commanded' /\ adc' \in Adcs
<1>0. in_step /\ in_step'
  BY DEF Converter
<1>1. /\ dclk_cntr \in Nat /\ dclk_cntr <= CYCLES /\ CYCLES = 24 /\ adc.edges \in Nat
      /\ adc.edges <= CYCLES
      /\ Converting => Edges \in Nat /\ Edges <= CYCLES /\ dclk_cntr > 0
      /\ adc \in Adcs /\ adc.word \in Seq(Int) /\ adc.pos \in Places
  BY EdgeFacts, AdcFacts DEF Types
<1>2. /\ tc_state = "IDLE" => dclk = 0
      /\ tc_state = "DCLK_FALLING_EDGE" /\ dclk_cntr > 1 => dclk = 1
      /\ tc_state \in {"DCLK_LOW_TIME", "DCLK_RISING_EDGE"} => dclk = 0
      /\ tc_state \in {"DCLK_HIGH_TIME", "COMPLETE"} => dclk = 1
      /\ tc_state = "COMPLETE" => dclk_cntr = CYCLES /\ coor_select = "Y"
      /\ IF Converting /\ Edges > 0 THEN adc.edges = Edges ELSE adc.edges \in {0, CYCLES}
      /\ adc.edges = 0 => adc.word = <<>>
  BY DEF Clocked
<1>3. /\ Len(adc.word) = IF adc.edges < 8 THEN adc.edges ELSE 8
      /\ Converting /\ Edges > 0 =>
           \A k \in 1 .. Len(adc.word) : adc.word[k] = CONTROL_WORD[coor_select][k]
      /\ tc_state \in {"DCLK_LOW_TIME", "DCLK_RISING_EDGE"} /\ dclk_cntr <= 8 =>
           adc_din = CONTROL_WORD[coor_select][dclk_cntr]
  BY DEF Commanded
(* The converter keeps its count and its word.                             *)
<1> DEFINE same == adc'.edges = adc.edges /\ adc'.word = adc.word
<1>4. ASSUME adc' = adc PROVE same /\ adc' \in Adcs
  BY <1>1, <1>4
<1>5. ASSUME adc' = [adc EXCEPT !.edges = 0, !.word = <<>>]
      PROVE  /\ adc'.edges = 0 /\ adc'.word = <<>> /\ Len(adc'.word) = 0 /\ adc' \in Adcs
  <2>1. <<>> \in Seq(Int) /\ Len(<<>>) = 0 /\ 0 \in 0 .. CYCLES
    BY <1>1, EmptySeq
  <2> QED BY <1>1, <1>5, <2>1 DEF Adcs
<1>6. CASE /\ tc_state = "IDLE" /\ tc_state' = "IDLE" /\ penirq_n # 0
           /\ UNCHANGED <<dclk_cntr, coor_select, adc_din, dclk, coor_buf, steady>>
  <2>1. adc.edges \in {0, CYCLES}
    BY <1>2, <1>6 DEF Converting
  <2>2. adc' = adc \/ adc' = [adc EXCEPT !.edges = 0, !.word = <<>>]
    BY <1>1, <1>6, <2>1, ConverterRests
  <2>3. adc'.edges \in {0, CYCLES} /\ (adc'.edges = 0 => adc'.word = <<>>) /\ adc' \in Adcs
        /\ Len(adc'.word) = IF adc'.edges < 8 THEN adc'.edges ELSE 8
    BY <1>1, <1>2, <1>3, <1>4, <1>5, <2>1, <2>2
  <2> QED BY <1>0, <1>2, <1>6, <2>3 DEF Clocked, Commanded, Converting
<1>7. CASE /\ tc_state = "IDLE" /\ tc_state' = "DCLK_FALLING_EDGE" /\ penirq_n = 0
           /\ dclk_cntr' = 1 /\ coor_select' = "X" /\ steady' = pen
           /\ UNCHANGED <<adc_din, dclk, coor_buf>>
  <2>1. adc.edges \in {0, CYCLES} /\ Selected
    BY <1>2, <1>7 DEF Converting, Selected
  <2>2. adc' = adc
    BY <1>1, <1>7, <2>1, ConverterRests
  <2>3. same /\ adc' \in Adcs /\ Edges' = 0
    BY <1>4, <1>7, <2>2 DEF Edges
  <2> QED BY <1>0, <1>2, <1>3, <1>7, <2>1, <2>3 DEF Clocked, Commanded, Converting
<1>8. CASE /\ tc_state = "DCLK_FALLING_EDGE" /\ tc_state' = "DCLK_LOW_TIME" /\ dclk' = 0
           /\ adc_din' = IF dclk_cntr \in 1 .. 8 THEN CONTROL_WORD[coor_select][dclk_cntr] ELSE 0
           /\ UNCHANGED <<dclk_cntr, coor_select, coor_buf, steady>>
  <2>1. adc' = adc \/ adc' = [adc EXCEPT !.pos = at]
    BY <1>8 DEF Converter, Selected
  <2>2. same /\ adc' \in Adcs
    <3>1. at \in Places
      BY DEF Types, Places
    <3> QED BY <1>1, <2>1, <3>1 DEF Adcs
  <2>3. Converting /\ Converting' /\ Edges' = Edges
    BY <1>8 DEF Converting, Edges
  <2>4. dclk_cntr <= 8 => dclk_cntr \in 1 .. 8
    BY <1>1, <2>3
  <2> QED BY <1>0, <1>1, <1>2, <1>3, <1>8, <2>2, <2>3, <2>4 DEF Clocked, Commanded
<1>9. ASSUME tc_state \in {"DCLK_LOW_TIME", "DCLK_HIGH_TIME"}, dclk' = dclk
      PROVE  adc' = adc
  BY <1>9 DEF Converter, Selected, Types
<1>10. CASE /\ tc_state = "DCLK_LOW_TIME"
            /\ tc_state' \in {"DCLK_LOW_TIME", "DCLK_RISING_EDGE"}
            /\ UNCHANGED <<dclk_cntr, coor_select, adc_din, dclk, coor_buf, steady>>
  <2>1. same /\ adc' \in Adcs
    BY <1>4, <1>9, <1>10
  <2>2. Converting /\ Converting' /\ Edges' = Edges
    BY <1>10 DEF Converting, Edges
  <2> QED BY <1>0, <1>1, <1>2, <1>3, <1>10, <2>1, <2>2 DEF Clocked, Commanded
<1>11. CASE tc_state = "DCLK_RISING_EDGE" /\ RisingEdge
  <2>1. /\ tc_state' = "DCLK_HIGH_TIME" /\ dclk' = 1 /\ dclk_cntr' = dclk_cntr
        /\ coor_select' = coor_select
    BY <1>11 DEF RisingEdge
  <2>2. Converting /\ Converting' /\ Edges' = dclk_cntr /\ dclk_cntr > 0
    BY <1>1, <1>11, <2>1 DEF Converting, Edges
  <2>3. /\ adc'.edges = dclk_cntr /\ adc' \in Adcs
        /\ Len(adc'.word) = IF dclk_cntr < 8 THEN dclk_cntr ELSE 8
        /\ \A k \in 1 .. Len(adc'.word) : adc'.word[k] = CONTROL_WORD[coor_select][k]
    BY <1>11, <2>1, ConverterCounts
  <2>4. Clocked'
    BY <1>0, <1>1, <2>1, <2>2, <2>3 DEF Clocked
  <2>5. Commanded'
    BY <2>1, <2>2, <2>3 DEF Commanded
  <2> QED BY <2>3, <2>4, <2>5
<1>12. CASE /\ tc_state = "DCLK_HIGH_TIME" /\ tc_state' = "DCLK_HIGH_TIME"
            /\ UNCHANGED <<dclk_cntr, coor_select, adc_din, dclk, coor_buf, steady>>
  <2>1. same /\ adc' \in Adcs
    BY <1>4, <1>9, <1>12
  <2>2. Converting /\ Converting' /\ Edges' = Edges
    BY <1>12 DEF Converting, Edges
  <2> QED BY <1>0, <1>1, <1>2, <1>3, <1>12, <2>1, <2>2 DEF Clocked, Commanded
<1>13. CASE /\ tc_state = "DCLK_HIGH_TIME" /\ tc_state' = "DCLK_FALLING_EDGE"
            /\ dclk_cntr < CYCLES /\ dclk_cntr' = dclk_cntr + 1
            /\ UNCHANGED <<coor_select, adc_din, dclk, coor_buf, steady>>
  <2>1. same /\ adc' \in Adcs
    BY <1>4, <1>9, <1>13
  <2>2. Converting /\ Converting' /\ Edges' = Edges /\ dclk_cntr' > 0
    BY <1>1, <1>13 DEF Converting, Edges
  <2> QED BY <1>0, <1>1, <1>2, <1>3, <1>13, <2>1, <2>2 DEF Clocked, Commanded
<1>14. CASE /\ tc_state = "DCLK_HIGH_TIME" /\ tc_state' = "DCLK_FALLING_EDGE"
            /\ dclk_cntr = CYCLES /\ dclk_cntr' = 1 /\ coor_select = "X" /\ coor_select' = "Y"
            /\ UNCHANGED <<adc_din, dclk, coor_buf, steady>>
  <2>1. same /\ adc' \in Adcs
    BY <1>4, <1>9, <1>14
  <2>2. Converting /\ Edges = CYCLES /\ Edges' = 0 /\ adc.edges = CYCLES
    BY <1>1, <1>2, <1>14 DEF Converting, Edges
  <2> QED BY <1>0, <1>1, <1>2, <1>3, <1>14, <2>1, <2>2 DEF Clocked, Commanded
<1>15. CASE /\ tc_state = "DCLK_HIGH_TIME" /\ tc_state' = "COMPLETE"
            /\ dclk_cntr = CYCLES /\ coor_select = "Y"
            /\ UNCHANGED <<dclk_cntr, coor_select, adc_din, dclk, coor_buf, steady>>
  <2>1. same /\ adc' \in Adcs
    BY <1>4, <1>9, <1>15
  <2>2. Converting /\ Converting' /\ Edges' = Edges /\ dclk_cntr' > 0
    BY <1>1, <1>15 DEF Converting, Edges
  <2> QED BY <1>0, <1>1, <1>2, <1>3, <1>15, <2>1, <2>2 DEF Clocked, Commanded
<1>16. CASE /\ tc_state = "COMPLETE" /\ tc_state' = "IDLE" /\ dclk' = 0
            /\ UNCHANGED <<dclk_cntr, coor_select, adc_din, coor_buf, steady>>
  <2>1. adc.edges = CYCLES
    BY <1>1, <1>2, <1>16 DEF Converting, Edges
  <2>2. adc' = adc \/ adc' = [adc EXCEPT !.edges = 0, !.word = <<>>]
    BY <1>1, <1>16, <2>1, ConverterRests
  <2>3. adc'.edges \in {0, CYCLES} /\ (adc'.edges = 0 => adc'.word = <<>>) /\ adc' \in Adcs
        /\ Len(adc'.word) = IF adc'.edges < 8 THEN adc'.edges ELSE 8
    <3>1. CASE adc' = adc
      BY <1>1, <1>2, <1>3, <1>4, <2>1, <3>1
    <3>2. CASE adc' = [adc EXCEPT !.edges = 0, !.word = <<>>]
      BY <1>5, <3>2
    <3> QED BY <2>2, <3>1, <3>2
  <2> QED BY <1>0, <1>16, <2>3 DEF Clocked, Commanded, Converting
<1> QED BY <1>6, <1>7, <1>8, <1>10, <1>11, <1>12, <1>13, <1>14, <1>15, <1>16, ControllerCases

(* Out of step, the converter waits to be deselected.                      *)
LEMMA LostEdges ==
  ASSUME Types, Clocked, Commanded, Controller, Converter, ~in_step
  PROVE  Clocked' /\ Commanded' /\ adc' \in Adcs /\ (in_step' => ~Converting')
<1>1. /\ dclk_cntr \in Nat /\ dclk_cntr <= CYCLES /\ CYCLES = 24
      /\ Converting => dclk_cntr > 0
  BY EdgeFacts
<1>2. adc = Unused /\ adc.edges = 0 /\ adc.word = <<>> /\ adc \in Adcs
  BY DEF Clocked, Unused, Types
<1>3. adc' = Unused /\ adc' = adc
  <2>1. ASSUME adc' = [adc EXCEPT !.edges = 0, !.word = <<>>] PROVE adc' = Unused
    <3>1. adc'.edges = 0 /\ adc'.word = <<>> /\ adc'.pos = adc.pos /\ adc' \in Adcs
      BY <1>2, <2>1, UnusedAdc DEF Adcs
    <3>2. adc' = [edges |-> adc'.edges, word |-> adc'.word, pos |-> adc'.pos]
      BY <3>1 DEF Adcs
    <3>3. adc.pos = "none"
      BY <1>2 DEF Unused
    <3> QED BY <3>1, <3>2, <3>3 DEF Unused
  <2>2. adc' = adc \/ adc' = [adc EXCEPT !.edges = 0, !.word = <<>>]
    <3>1. adc.edges # 8
      BY <1>2
    <3> QED BY <3>1 DEF Converter
  <2> QED BY <1>2, <2>1, <2>2
<1>4. in_step' => tc_state' = "IDLE"
  <2>1. in_step' => tc_state \in {"IDLE", "COMPLETE"} /\ penirq_n # 0
    BY DEF Converter, Selected
  <2> QED BY <2>1, ControllerCases
<1>5. /\ Converting' => dclk_cntr' > 0
      /\ tc_state' = "IDLE" => dclk' = 0
      /\ tc_state' = "DCLK_FALLING_EDGE" /\ dclk_cntr' > 1 => dclk' = 1
      /\ tc_state' \in {"DCLK_LOW_TIME", "DCLK_RISING_EDGE"} => dclk' = 0
      /\ tc_state' \in {"DCLK_HIGH_TIME", "COMPLETE"} => dclk' = 1
      /\ tc_state' = "COMPLETE" => dclk_cntr' = CYCLES /\ coor_select' = "Y"
  BY <1>1, ControllerCases DEF Clocked, Converting, RisingEdge
<1>6. tc_state' \in {"DCLK_LOW_TIME", "DCLK_RISING_EDGE"} /\ dclk_cntr' <= 8 =>
        adc_din' = CONTROL_WORD[coor_select'][dclk_cntr']
  BY <1>1, ControllerCases DEF Commanded, Converting, RisingEdge
<1>7. Len(adc'.word) = 0 /\ adc'.edges = 0 /\ adc'.word = <<>>
  BY <1>2, <1>3, EmptySeq
<1> QED BY <1>2, <1>3, <1>4, <1>5, <1>6, <1>7 DEF Clocked, Commanded, Converting

LEMMA ControllerEdges ==
  ASSUME Types, Clocked, Commanded, Controller, Converter
  PROVE  Clocked' /\ Commanded' /\ adc' \in Adcs
BY StepEdges, LostEdges DEF Types

(* What the converter puts out while the bits of a coordinate are read.    *)
LEMMA BitShown ==
  ASSUME Types, Clocked, Commanded, in_step, tc_state = "DCLK_RISING_EDGE",
         dclk_cntr \in MSB .. MSB + LENGTH - 1
  PROVE  adc_dout = Bit(coor_select, adc.pos, dclk_cntr - MSB + 1)
<1>1. /\ dclk_cntr \in 10 .. 21 /\ Converting /\ Edges = dclk_cntr - 1 /\ Edges > 0
      /\ MSB = 10 /\ dclk_cntr - MSB + 1 = dclk_cntr - 9
  BY DEF MSB, LENGTH, Converting, Edges
<1>2. adc.edges = dclk_cntr - 1 /\ adc.edges \in 9 .. 20 /\ adc.edges - 8 = dclk_cntr - 9
  <2>1. IF Converting /\ Edges > 0 THEN adc.edges = Edges ELSE adc.edges \in {0, CYCLES}
    BY DEF Clocked
  <2> QED BY <1>1, <2>1
<1>3. adc.word = CONTROL_WORD[coor_select] /\ coor_select \in {"X", "Y"}
  <2>1. adc.word \in Seq(Int) /\ Len(adc.word) = 8 /\ coor_select \in {"X", "Y"}
    BY <1>2, AdcFacts DEF Commanded, Types
  <2>2. \A k \in 1 .. Len(adc.word) : adc.word[k] = CONTROL_WORD[coor_select][k]
    BY <1>1 DEF Commanded
  <2>3. CONTROL_WORD[coor_select] \in Seq(Int) /\ Len(CONTROL_WORD[coor_select]) = 8
    BY <2>1, ControlWords
  <2> QED BY <2>1, <2>2, <2>3, SeqEqual
<1>4. (CHOOSE axis \in {"X", "Y"} : adc.word = CONTROL_WORD[axis]) = coor_select
  <2>1. \A axis \in {"X", "Y"} : adc.word = CONTROL_WORD[axis] <=> axis = coor_select
    BY <1>3, ControlWords
  <2> QED BY <1>3, <2>1
<1> QED BY <1>1, <1>2, <1>3, <1>4 DEF adc_dout

LEMMA DoutTypes == ASSUME Types PROVE adc_dout \in Bits
<1>1. adc.pos \in Places /\ adc.edges \in 0 .. CYCLES /\ "none" \in Places
  BY AdcFacts DEF Places
<1>2. CASE adc.edges \in 9 .. 20 /\ \E axis \in {"X", "Y"} : adc.word = CONTROL_WORD[axis]
  <2> DEFINE a == CHOOSE axis \in {"X", "Y"} : adc.word = CONTROL_WORD[axis]
  <2>1. a \in {"X", "Y"}
    BY <1>2
  <2>2. adc.edges - 8 \in 0 .. LENGTH
    BY <1>2 DEF LENGTH
  <2>3. adc_dout = Bit(a, adc.pos, adc.edges - 8)
    BY <1>2 DEF adc_dout
  <2> HIDE DEF a, Places
  <2> QED BY <1>1, <2>1, <2>2, <2>3 DEF Bit, Bits
<1>3. CASE ~(adc.edges \in 9 .. 20 /\ \E axis \in {"X", "Y"} : adc.word = CONTROL_WORD[axis])
  <2>1. adc_dout = Bit("none", "none", 0) /\ 0 \in 0 .. LENGTH
    BY <1>3 DEF adc_dout, LENGTH
  <2> HIDE DEF Places
  <2> QED BY <1>1, <2>1 DEF Bit, Bits
<1> QED BY <1>2, <1>3

LEMMA ShiftedBy ==
  /\ Shifted(0) = 0 /\ Shifted(CYCLES) = LENGTH
  /\ \A n \in Nat : /\ Shifted(n) \in 0 .. LENGTH
                    /\ n \notin MSB .. MSB + LENGTH - 1 /\ n > 0 => Shifted(n) = Shifted(n - 1)
                    /\ n \in MSB .. MSB + LENGTH - 1 =>
                         Shifted(n) = Shifted(n - 1) + 1 /\ Shifted(n) = n - MSB + 1
BY DEF Shifted, MSB, LENGTH, CYCLES

(* A rising edge, with a bit of the coordinate or without.                 *)
LEMMA RisingSampled ==
  ASSUME Types, Clocked, Commanded, Sampled, tc_state = "DCLK_RISING_EDGE", RisingEdge,
         Converter, pen' = pen, at' = at
  PROVE  Sampled'
<1>1. /\ dclk_cntr \in Nat /\ dclk_cntr <= CYCLES /\ CYCLES = 24 /\ Converting
      /\ Edges = dclk_cntr - 1 /\ dclk_cntr > 0 /\ dclk = 0
  BY EdgeFacts DEF Edges, Converting, Clocked
<1>2. /\ tc_state' = "DCLK_HIGH_TIME" /\ dclk' = 1 /\ dclk_cntr' = dclk_cntr
      /\ coor_select' = coor_select /\ steady' = steady
      /\ coor_buf' = IF dclk_cntr \in MSB .. MSB + LENGTH - 1
                     THEN Append(Tail(coor_buf), adc_dout) ELSE coor_buf
  BY DEF RisingEdge
<1> SUFFICES ASSUME steady, in_step PROVE Sampled'
  <2>1. in_step' = in_step
    BY DEF Converter, Selected, Types
  <2> QED BY <1>2, <2>1 DEF Sampled
<1>3. Edges' = dclk_cntr /\ Edges' = Edges + 1 /\ Converting' /\ adc'.pos = adc.pos
  BY <1>1, <1>2, ConverterCounts DEF Edges, Converting
<1>4. /\ pen /\ \A k \in 1 .. Taken : coor_buf[2 * LENGTH - Taken + k] = Want(k)
      /\ (Edges > 8 \/ Edges = 8) => adc.pos = at
  BY <1>1 DEF Sampled
<1>5. Edges' > 8 => adc'.pos = at
  BY <1>1, <1>3, <1>4
<1> DEFINE base == IF coor_select = "Y" THEN LENGTH ELSE 0
<1>6. /\ Taken = Shifted(dclk_cntr - 1) + base /\ Taken' = Shifted(dclk_cntr) + base
      /\ base \in {0, LENGTH} /\ LENGTH = 12
  BY <1>1, <1>2, <1>3 DEF Taken, LENGTH
<1>7. \A k : Want(k)' = Want(k)
  BY DEF Want
<1>8. \A k \in 1 .. Taken' : coor_buf'[2 * LENGTH - Taken' + k] = Want(k)'
  <2>1. CASE dclk_cntr \notin MSB .. MSB + LENGTH - 1
    <3>1. Taken' = Taken /\ coor_buf' = coor_buf
      BY <1>1, <1>2, <1>6, <2>1, ShiftedBy
    <3> QED BY <1>4, <1>7, <3>1
  <2>2. CASE dclk_cntr \in MSB .. MSB + LENGTH - 1
    <3> DEFINE b == dclk_cntr - MSB + 1
    <3>1. Shifted(dclk_cntr - 1) = b - 1 /\ Shifted(dclk_cntr) = b /\ b \in 1 .. LENGTH
      <4>1. b \in 1 .. LENGTH
        BY <1>1, <2>2 DEF MSB, LENGTH
      <4>2. Shifted(dclk_cntr) = Shifted(dclk_cntr - 1) + 1 /\ Shifted(dclk_cntr) = b
        BY <1>1, <2>2, ShiftedBy
      <4>3. Shifted(dclk_cntr - 1) \in 0 .. LENGTH
        <5>1. dclk_cntr - 1 \in Nat
          BY <1>1
        <5> QED BY <5>1, ShiftedBy
      <4> HIDE DEF b
      <4> QED BY <4>1, <4>2, <4>3
    <3>2. adc_dout = Bit(coor_select, at, b)
      <4>1. adc.pos = at
        BY <1>1, <1>4, <2>2 DEF MSB, LENGTH
      <4> QED BY <2>2, <4>1, BitShown
    <3>3. /\ \A k \in 1 .. 2 * LENGTH - 1 : coor_buf'[k] = coor_buf[k + 1]
          /\ coor_buf'[2 * LENGTH] = adc_dout
      <4>1. coor_buf \in Seq(Bits) /\ Len(coor_buf) = 2 * LENGTH /\ adc_dout \in Bits
        BY DoutTypes DEF Types
      <4> HIDE DEF Bits
      <4> QED BY <1>2, <2>2, <4>1, ShiftIn
    <3> HIDE DEF b, base
    <3>4. Taken = b - 1 + base /\ Taken' = b + base /\ b \in Nat /\ base \in Nat
      BY <1>6, <3>1
    <3>5. ASSUME NEW k \in 1 .. Taken'
          PROVE  coor_buf'[2 * LENGTH - Taken' + k] = Want(k)
      <4>1. CASE k = Taken'
        <5>1. 2 * LENGTH - Taken' + k = 2 * LENGTH
          BY <1>6, <3>4, <4>1
        <5>2. Want(k) = Bit(coor_select, at, b)
          <6>1. coor_select \in {"X", "Y"}
            BY DEF Types
          <6>2. CASE coor_select = "X"
            <7>1. k = b /\ k <= LENGTH
              BY <1>6, <3>1, <3>4, <4>1, <6>2 DEF base
            <7> QED BY <6>2, <7>1 DEF Want
          <6>3. CASE coor_select = "Y"
            <7>1. k - LENGTH = b /\ ~(k <= LENGTH)
              BY <1>6, <3>1, <3>4, <4>1, <6>3 DEF base
            <7> QED BY <6>3, <7>1 DEF Want
          <6> QED BY <6>1, <6>2, <6>3
        <5> QED BY <3>2, <3>3, <5>1, <5>2
      <4>2. CASE k # Taken'
        <5>1. /\ k \in 1 .. Taken
              /\ 2 * LENGTH - Taken' + k \in 1 .. 2 * LENGTH - 1
              /\ 2 * LENGTH - Taken' + k + 1 = 2 * LENGTH - Taken + k
          BY <1>6, <3>1, <3>4, <4>2
        <5> QED BY <1>4, <3>3, <5>1
      <4> QED BY <4>1, <4>2
    <3> QED BY <1>7, <3>5
  <2> QED BY <2>1, <2>2
<1>9. pen' /\ (Converting' /\ (Edges' > 8 \/ (Edges' = 8 /\ dclk' = 0)) => adc'.pos = at')
  BY <1>2, <1>4, <1>5
<1> QED BY <1>8, <1>9 DEF Sampled

LEMMA ControllerSampled ==
  ASSUME Types, Clocked, Commanded, Sampled, Controller, Converter, pen' = pen, at' = at
  PROVE  Sampled'
<1>1. /\ dclk_cntr \in Nat /\ dclk_cntr <= CYCLES /\ CYCLES = 24 /\ adc.edges \in Nat
      /\ Converting => Edges \in Nat /\ Edges <= CYCLES /\ dclk_cntr > 0
      /\ adc \in Adcs
  BY EdgeFacts DEF Types
<1>2. \A k : Want(k)' = Want(k)
  BY DEF Want
<1>3. adc'.pos = adc.pos \/ (dclk = 1 /\ dclk' = 0 /\ adc.edges = 8 /\ adc'.pos = at)
  <2>1. \/ adc' = adc \/ adc'.pos = adc.pos
        \/ dclk = 1 /\ dclk' = 0 /\ adc.edges = 8 /\ adc'.pos = at
    BY <1>1 DEF Converter, Adcs
  <2> QED BY <2>1
<1>0. /\ tc_state \notin {"IDLE", "COMPLETE"} => in_step' = in_step
      /\ penirq_n = 0 => in_step' = in_step
  BY DEF Converter, Selected, Types
(* Nothing is shifted in, and the phase of the conversion stays.           *)
<1>4. ASSUME Converting, Converting', Edges' = Edges, Taken' = Taken, coor_buf' = coor_buf,
             steady' = steady, in_step' = in_step,
             in_step => dclk' = dclk \/ Edges # 8 \/ adc'.pos = at
      PROVE  Sampled'
  <2> SUFFICES ASSUME steady, in_step PROVE Sampled'
    BY <1>4 DEF Sampled
  <2>1. \A k \in 1 .. Taken' : coor_buf'[2 * LENGTH - Taken' + k] = Want(k)'
    BY <1>2, <1>4 DEF Sampled
  <2>2. pen' /\ at' = at
    BY DEF Sampled
  <2>3. Edges' > 8 \/ (Edges' = 8 /\ dclk' = 0) => adc'.pos = at
    BY <1>3, <1>4 DEF Sampled
  <2> QED BY <2>1, <2>2, <2>3 DEF Sampled
<1>5. CASE /\ tc_state = "IDLE" /\ tc_state' = "IDLE" /\ penirq_n # 0
           /\ UNCHANGED <<dclk_cntr, coor_select, adc_din, dclk, coor_buf, steady>>
  BY <1>5 DEF Sampled, Converting
<1>6. CASE /\ tc_state = "IDLE" /\ tc_state' = "DCLK_FALLING_EDGE" /\ penirq_n = 0
           /\ dclk_cntr' = 1 /\ coor_select' = "X" /\ steady' = pen
           /\ UNCHANGED <<adc_din, dclk, coor_buf>>
  <2>1. Edges' = 0 /\ Taken' = 0 /\ 1 .. Taken' = {}
    <3>1. Edges' = 0
      BY <1>6 DEF Edges
    <3>2. Taken' = Shifted(Edges') + 0
      BY <1>6 DEF Taken
    <3> QED BY <3>1, <3>2, ShiftedBy
  <2> QED BY <1>6, <2>1 DEF Sampled
<1>7. CASE /\ tc_state = "DCLK_FALLING_EDGE" /\ tc_state' = "DCLK_LOW_TIME" /\ dclk' = 0
           /\ adc_din' = IF dclk_cntr \in 1 .. 8 THEN CONTROL_WORD[coor_select][dclk_cntr] ELSE 0
           /\ UNCHANGED <<dclk_cntr, coor_select, coor_buf, steady>>
  <2>1. Converting /\ Converting' /\ Edges' = Edges
    BY <1>7 DEF Converting, Edges
  <2>2. Taken' = Taken
    BY <1>7, <2>1 DEF Taken
  <2>3. in_step /\ Edges = 8 => adc'.pos = at
    <3> SUFFICES ASSUME in_step, Edges = 8 PROVE adc'.pos = at
      OBVIOUS
    <3>1. dclk_cntr = 9
      BY <1>1, <1>7 DEF Edges
    <3>2. dclk = 1
      BY <1>7, <3>1 DEF Clocked
    <3>3. adc.edges = 8
      <4>1. IF Converting /\ Edges > 0 THEN adc.edges = Edges ELSE adc.edges \in {0, CYCLES}
        BY DEF Clocked
      <4> QED BY <2>1, <4>1
    <3>4. Selected
      BY <1>7 DEF Selected
    <3> QED BY <1>1, <1>7, <3>2, <3>3, <3>4 DEF Converter, Adcs
  <2> QED BY <1>0, <1>4, <1>7, <2>1, <2>2, <2>3
<1>8. CASE /\ tc_state = "DCLK_LOW_TIME"
           /\ tc_state' \in {"DCLK_LOW_TIME", "DCLK_RISING_EDGE"}
           /\ UNCHANGED <<dclk_cntr, coor_select, adc_din, dclk, coor_buf, steady>>
  <2>1. Converting /\ Converting' /\ Edges' = Edges
    BY <1>8 DEF Converting, Edges
  <2>2. Taken' = Taken
    BY <1>8, <2>1 DEF Taken
  <2> QED BY <1>0, <1>4, <1>8, <2>1, <2>2
<1>9. CASE tc_state = "DCLK_RISING_EDGE" /\ RisingEdge
  BY <1>9, RisingSampled
<1>10. CASE /\ tc_state = "DCLK_HIGH_TIME" /\ tc_state' = "DCLK_HIGH_TIME"
            /\ UNCHANGED <<dclk_cntr, coor_select, adc_din, dclk, coor_buf, steady>>
  <2>1. Converting /\ Converting' /\ Edges' = Edges
    BY <1>10 DEF Converting, Edges
  <2>2. Taken' = Taken
    BY <1>10, <2>1 DEF Taken
  <2> QED BY <1>0, <1>4, <1>10, <2>1, <2>2
<1>11. CASE /\ tc_state = "DCLK_HIGH_TIME" /\ tc_state' = "DCLK_FALLING_EDGE"
            /\ dclk_cntr < CYCLES /\ dclk_cntr' = dclk_cntr + 1
            /\ UNCHANGED <<coor_select, adc_din, dclk, coor_buf, steady>>
  <2>1. Converting /\ Converting' /\ Edges' = Edges
    BY <1>1, <1>11 DEF Converting, Edges
  <2>2. Taken' = Taken
    BY <1>11, <2>1 DEF Taken
  <2> QED BY <1>0, <1>4, <1>11, <2>1, <2>2
<1>12. CASE /\ tc_state = "DCLK_HIGH_TIME" /\ tc_state' = "DCLK_FALLING_EDGE"
            /\ dclk_cntr = CYCLES /\ dclk_cntr' = 1 /\ coor_select = "X" /\ coor_select' = "Y"
            /\ UNCHANGED <<adc_din, dclk, coor_buf, steady>>
  <2>1. Converting /\ Edges = CYCLES /\ Edges' = 0
    BY <1>1, <1>12 DEF Converting, Edges
  <2>2. Taken = LENGTH /\ Taken' = LENGTH
    <3>1. Taken = Shifted(Edges) + 0 /\ Taken' = Shifted(Edges') + LENGTH
      BY <1>12 DEF Taken
    <3>2. LENGTH + 0 = LENGTH /\ 0 + LENGTH = LENGTH
      BY DEF LENGTH
    <3> QED BY <2>1, <3>1, <3>2, ShiftedBy
  <2>3. steady /\ in_step =>
          \A k \in 1 .. Taken' : coor_buf'[2 * LENGTH - Taken' + k] = Want(k)'
    BY <1>2, <1>12, <2>1, <2>2 DEF Sampled
  <2>4. ~(Edges' > 8) /\ Edges' # 8
    BY <2>1
  <2>5. steady' = steady /\ (steady => pen') /\ in_step' = in_step
    BY <1>0, <1>12 DEF Sampled
  <2> QED BY <2>3, <2>4, <2>5 DEF Sampled
<1>13. CASE /\ tc_state = "DCLK_HIGH_TIME" /\ tc_state' = "COMPLETE"
            /\ dclk_cntr = CYCLES /\ coor_select = "Y"
            /\ UNCHANGED <<dclk_cntr, coor_select, adc_din, dclk, coor_buf, steady>>
  <2>1. Converting /\ Converting' /\ Edges' = Edges
    BY <1>13 DEF Converting, Edges
  <2>2. Taken' = Taken
    BY <1>13, <2>1 DEF Taken
  <2> QED BY <1>0, <1>4, <1>13, <2>1, <2>2
<1>14. CASE /\ tc_state = "COMPLETE" /\ tc_state' = "IDLE" /\ dclk' = 0
            /\ UNCHANGED <<dclk_cntr, coor_select, adc_din, coor_buf, steady>>
  BY <1>14 DEF Sampled, Converting
<1> QED BY <1>5, <1>6, <1>7, <1>8, <1>9, <1>10, <1>11, <1>12, <1>13, <1>14, ControllerCases

LEMMA ClockTypes ==
  ASSUME Types, Clocked, Commanded, Controller, Converter, pen' = pen, at' = at,
         pc' \in {"reset", "flag", "x", "y", "clear"}
  PROVE  Types'
<1>1. dclk_cntr \in Nat /\ dclk_cntr <= CYCLES /\ CYCLES = 24
  BY EdgeFacts
<1>2. adc' \in Adcs
  BY ControllerEdges
<1>3. coor_buf' \in Seq(Bits) /\ Len(coor_buf') = 2 * LENGTH
  <2>1. coor_buf' = coor_buf \/ coor_buf' = Append(Tail(coor_buf), adc_dout)
    BY ControllerCases DEF RisingEdge
  <2>2. coor_buf \in Seq(Bits) /\ Len(coor_buf) = 2 * LENGTH /\ adc_dout \in Bits
    BY DoutTypes DEF Types
  <2> HIDE DEF Bits
  <2> QED BY <2>1, <2>2, ShiftIn
<1>4. /\ tc_state' \in {"IDLE", "DCLK_LOW_TIME", "DCLK_RISING_EDGE", "DCLK_HIGH_TIME",
                        "DCLK_FALLING_EDGE", "COMPLETE"}
      /\ coor_select' \in {"X", "Y"} /\ dclk' \in {0, 1} /\ steady' \in BOOLEAN
  BY ControllerCases DEF Types, RisingEdge
<1>5. dclk_cntr' \in 0 .. CYCLES
  <2>1. \/ dclk_cntr' = dclk_cntr \/ dclk_cntr' = 1
        \/ dclk_cntr < CYCLES /\ dclk_cntr' = dclk_cntr + 1
    BY ControllerCases DEF RisingEdge
  <2> QED BY <1>1, <2>1
<1>6. adc_din' \in {0, 1}
  <2>1. adc_din \in {0, 1} /\ coor_select \in {"X", "Y"}
    BY DEF Types
  <2>2. dclk_cntr \in 1 .. 8 => CONTROL_WORD[coor_select][dclk_cntr] \in {0, 1}
    BY <2>1, ControlWords
  <2> QED BY <2>1, <2>2, ControllerCases DEF RisingEdge
<1>7. in_step' \in BOOLEAN
  BY Zenon DEF Converter
<1> HIDE DEF Bits, Adcs, LENGTH, CYCLES
<1> QED BY <1>2, <1>3, <1>4, <1>5, <1>6, <1>7 DEF Types

-----------------------------------------------------------------------------
(* The specification                                                       *)

LEMMA ClockStep ==
  ASSUME PointInv, NEW read, NEW write, Clock(read, write),
         pc' \in {"reset", "flag", "x", "y", "clear"}
  PROVE  /\ Types' /\ Timed' /\ Clocked' /\ Commanded' /\ Sampled'
         /\ y_buffer' = IF read = 2 THEN last_coord_y ELSE y_buffer
<1>1. Types /\ Timed /\ Clocked /\ Commanded /\ Sampled
  BY DEF PointInv
<1>2. Controller /\ Converter /\ pen' = pen /\ at' = at
      /\ y_buffer' = IF read = 2 THEN last_coord_y ELSE y_buffer
  BY DEF Clock, Registers
<1> QED BY <1>1, <1>2, ClockTypes, ControllerTimes, ControllerEdges, ControllerSampled

(* The finger moves: what is being sampled does not count any more.        *)
LEMMA FingerStep ==
  ASSUME PointInv, pen' \in BOOLEAN, at' \in Positions,
         UNCHANGED <<controller, adc, registers, program, in_step>>, ~steady', steady' \in BOOLEAN
  PROVE  PointInv'
<1>1. UNCHANGED <<tc_state, clk_cntr, acq_cntr, dclk_cntr, coor_select, adc_din, dclk, coor_buf,
                  adc, in_step, y_buffer, pc, y_raw, point_y>>
  BY DEF controller, registers, program
<1>2. Types'
  <2> HIDE DEF Bits, Adcs
  <2> QED BY <1>1 DEF PointInv, Types
<1>3. Timed'
  BY <1>1 DEF PointInv, Timed, Counting, Acquires
<1>4. Clocked' /\ Commanded'
  <2>1. Edges' = Edges /\ (Converting' <=> Converting)
    BY <1>1 DEF Edges, Converting
  <2> QED BY <1>1, <2>1 DEF PointInv, Clocked, Commanded
<1>5. Sampled' /\ Delivered'
  BY <1>1 DEF PointInv, Sampled, Delivered
<1> QED BY <1>2, <1>3, <1>4, <1>5 DEF PointInv

LEMMA ZerosSeq == /\ Zeros \in Seq(Bits) /\ Len(Zeros) = LENGTH
                  /\ Zeros \o Zeros \in Seq(Bits) /\ Len(Zeros \o Zeros) = 2 * LENGTH
<1>1. Zeros \in Seq(Bits) /\ Len(Zeros) = LENGTH
  <2>1. Bit("none", "none", 0) \in Bits /\ LENGTH \in Nat
    BY DEF Bit, Bits, Places, LENGTH
  <2>2. Zeros \in [1 .. LENGTH -> Bits]
    BY <2>1 DEF Zeros
  <2> HIDE DEF Bits, LENGTH, Zeros
  <2> QED BY <2>1, <2>2, FunctionIsSeq
<1>2. LENGTH + LENGTH = 2 * LENGTH
  BY DEF LENGTH
<1>3. Zeros \o Zeros \in Seq(Bits) /\ Len(Zeros \o Zeros) = LENGTH + LENGTH
  <2> HIDE DEF Bits, LENGTH, Zeros
  <2> QED BY <1>1, ConcatProperties
<1> QED BY <1>1, <1>2, <1>3

LEMMA PointStart == Init => PointInv
<1> SUFFICES ASSUME Init PROVE PointInv
  OBVIOUS
<1>2. coor_buf \in Seq(Bits) /\ Len(coor_buf) = 2 * LENGTH
  BY ZerosSeq DEF Init
<1>3. adc = Unused /\ adc \in Adcs /\ Len(adc.word) = 0 /\ adc.edges = 0 /\ adc.word = <<>>
  BY UnusedAdc DEF Init
<1>4. Types
  <2>1. 0 \in 0 .. CYCLES
    BY DEF CYCLES
  <2> HIDE DEF Bits, Adcs, CYCLES, LENGTH
  <2> QED BY <1>2, <1>3, <2>1 DEF Init, Types
<1>5. Timed
  BY Times DEF Init, Timed
<1>6. Clocked /\ Commanded
  BY <1>3 DEF Init, Clocked, Commanded, Converting
<1>7. Sampled /\ Delivered
  BY DEF Init, Sampled, Delivered
<1> QED BY <1>4, <1>5, <1>6, <1>7 DEF PointInv

(* The reset leaves the converter in step only between two conversions.    *)
LEMMA ResetStep ==
  ASSUME PointInv, Key0
  PROVE  PointInv'
<1>1. /\ tc_state' = "IDLE" /\ clk_cntr' = 0 /\ acq_cntr' = 0 /\ dclk_cntr' = 0
      /\ coor_select' = "Y" /\ adc_din' = 0 /\ dclk' = 0 /\ coor_buf' = Zeros \o Zeros
      /\ in_step' = (in_step /\ adc.edges \in {0, CYCLES})
      /\ adc' = IF in_step' THEN adc ELSE Unused
      /\ pc' = "reset" /\ ~steady' /\ steady' \in BOOLEAN /\ UNCHANGED <<pen, at>>
  BY DEF Key0
<1>2. coor_buf' \in Seq(Bits) /\ Len(coor_buf') = 2 * LENGTH
  BY <1>1, ZerosSeq
<1>3. /\ adc' \in Adcs /\ in_step' \in BOOLEAN
      /\ adc'.edges \in {0, CYCLES} /\ (adc'.edges = 0 => adc'.word = <<>>)
      /\ Len(adc'.word) = IF adc'.edges < 8 THEN adc'.edges ELSE 8
      /\ ~in_step' => adc' = Unused
  <2>1. CASE in_step'
    BY <1>1, <2>1 DEF PointInv, Types, Clocked, Commanded
  <2>2. CASE ~in_step'
    BY <1>1, <2>2, UnusedAdc
  <2> QED BY <1>1, <2>1, <2>2
<1>4. Types'
  <2>1. 0 \in 0 .. CYCLES
    BY DEF CYCLES
  <2> HIDE DEF Bits, Adcs, CYCLES, LENGTH
  <2> QED BY <1>1, <1>2, <1>3, <2>1 DEF PointInv, Types
<1>5. Timed'
  BY <1>1, Times DEF Timed
<1>6. Clocked' /\ Commanded'
  BY <1>1, <1>3 DEF Clocked, Commanded, Converting
<1>7. Sampled' /\ Delivered'
  BY <1>1 DEF Sampled, Delivered
<1> QED BY <1>4, <1>5, <1>6, <1>7 DEF PointInv

LEMMA PointStep == PointInv /\ [Next]_vars => PointInv'
<1> SUFFICES ASSUME PointInv, [Next]_vars PROVE PointInv'
  OBVIOUS
<1>1. Types /\ Sampled /\ Delivered
  BY DEF PointInv
<1>2. CASE Press
  <2>1. ~steady /\ steady' = steady
    BY <1>1, <1>2 DEF Press, Sampled, auxiliary
  <2>2. pen' \in BOOLEAN /\ at' \in Positions /\ ~steady' /\ steady' \in BOOLEAN
    BY <1>1, <1>2, <2>1 DEF Press, Types
  <2> QED BY <1>2, <2>2, FingerStep DEF Press, auxiliary
<1>3. CASE Lift
  BY <1>1, <1>3, FingerStep DEF Lift, Types
<1>4. CASE Slide
  <2>1. pen' \in BOOLEAN /\ at' \in Positions /\ ~steady' /\ steady' \in BOOLEAN
    BY <1>1, <1>4 DEF Slide, Types
  <2> QED BY <1>4, <2>1, FingerStep DEF Slide
<1>5. ASSUME NEW read, NEW write, Clock(read, write),
             pc' \in {"reset", "flag", "x", "y", "clear"}, Delivered'
      PROVE  PointInv'
  BY <1>5, ClockStep DEF PointInv
<1>6. CASE Pause
  <2>1. pc' = pc /\ y_raw' = y_raw /\ point_y' = point_y /\ Clock(-1, -1)
    BY <1>6 DEF Pause, program
  <2>2. y_buffer' = y_buffer
    BY <2>1 DEF Clock, Registers
  <2> QED BY <1>1, <1>5, <2>1, <2>2 DEF Delivered, Types
<1>7. CASE ResetFlag
  BY <1>5, <1>7 DEF ResetFlag, Delivered
<1>8. CASE ReadFlag
  BY <1>5, <1>8 DEF ReadFlag, Delivered
<1>9. CASE ReadX
  <2>1. pc' = "y" /\ point_y' = last_coord_y /\ y_buffer' = last_coord_y
    BY <1>9 DEF ReadX, Clock, Registers
  <2> QED BY <1>5, <1>9, <2>1 DEF ReadX, Delivered
<1>10. CASE ReadY
  <2>1. pc' = "clear" /\ point_y' = point_y /\ y_raw' = point_y
    BY <1>1, <1>10 DEF ReadY, Delivered
  <2> QED BY <1>5, <1>10, <2>1 DEF ReadY, Delivered
<1>11. CASE ClearFlag
  BY <1>5, <1>11 DEF ClearFlag, Delivered
<1>12. CASE UNCHANGED vars
  <2>1. UNCHANGED <<tc_state, clk_cntr, acq_cntr, dclk_cntr, coor_select, adc_din, dclk, coor_buf,
                    adc, pen, at, steady, in_step, y_buffer, pc, y_raw, point_y>>
    BY <1>12 DEF vars, controller, registers, program, auxiliary
  <2>2. Edges' = Edges /\ (Converting' <=> Converting)
    BY <2>1 DEF Edges, Converting
  <2>3. Taken' = Taken /\ \A k : Want(k)' = Want(k)
    BY <2>1, <2>2 DEF Taken, Want
  <2>4. Types'
    <3> HIDE DEF Bits, Adcs
    <3> QED BY <1>1, <2>1 DEF Types
  <2>5. Timed'
    BY <2>1 DEF PointInv, Timed, Counting, Acquires
  <2>6. Clocked' /\ Commanded'
    BY <2>1, <2>2 DEF PointInv, Clocked, Commanded
  <2>7. Sampled' /\ Delivered'
    BY <1>1, <2>1, <2>2, <2>3 DEF Sampled, Delivered
  <2> QED BY <2>4, <2>5, <2>6, <2>7 DEF PointInv
<1>13. CASE Key0
  BY <1>13, ResetStep
<1> QED BY <1>2, <1>3, <1>4, <1>6, <1>7, <1>8, <1>9, <1>10, <1>11, <1>12, <1>13
        DEF Next, GetButton

LEMMA PointInvHolds == Spec => []PointInv
  BY PointStart, PointStep, PTL DEF Spec

(* The counters of the controller stay within the times they measure for   *)
(* any clock divider, and converter and controller within 24 edges.        *)
THEOREM TouchTypeCorrect == Spec => []TypeOK
<1>1. PointInv => TypeOK
  <2> SUFFICES ASSUME PointInv PROVE TypeOK
    OBVIOUS
  <2>1. adc.edges \in 0 .. CYCLES /\ Len(adc.word) <= 8
    <3>1. adc.edges \in 0 .. CYCLES /\ CYCLES = 24
      BY AdcFacts DEF PointInv, CYCLES
    <3>2. Len(adc.word) = IF adc.edges < 8 THEN adc.edges ELSE 8
      BY DEF PointInv, Commanded
    <3> QED BY <3>1, <3>2
  <2> QED BY <2>1 DEF PointInv, Types, Timed, TypeOK
<1> QED BY <1>1, PointInvHolds, PTL

(* A point delivered while the finger rested is where the finger is, for   *)
(* any place and whatever conversion or release came before, once the      *)
(* converter has been deselected after a KEY(0) in mid-conversion.         *)
THEOREM PointCorrect == Spec => []PointIsPosition
<1>1. PointInv => PointIsPosition
  <2> SUFFICES ASSUME PointInv, new_point_data, steady, in_step
               PROVE  coor_buf = Coordinate("X", at) \o Coordinate("Y", at)
    BY DEF PointIsPosition
  <2>1. Types /\ Clocked /\ Sampled
    BY DEF PointInv
  <2>2. tc_state = "COMPLETE" /\ Converting /\ Edges = CYCLES /\ coor_select = "Y"
    BY <2>1 DEF new_point_data, Converting, Edges, Clocked
  <2>3. Taken = 2 * LENGTH /\ LENGTH = 12
    <3>1. Taken = Shifted(CYCLES) + LENGTH
      BY <2>2 DEF Taken
    <3> QED BY <3>1, ShiftedBy DEF LENGTH
  <2>4. \A k \in 1 .. 2 * LENGTH : coor_buf[k] = Want(k)
    <3>1. \A k \in 1 .. 2 * LENGTH : coor_buf[2 * LENGTH - 2 * LENGTH + k] = Want(k)
      BY <2>1, <2>2, <2>3 DEF Sampled
    <3>2. \A k \in 1 .. 2 * LENGTH : 2 * LENGTH - 2 * LENGTH + k = k
      BY <2>3
    <3> QED BY <3>1, <3>2
  <2> DEFINE point == Coordinate("X", at) \o Coordinate("Y", at)
  <2>5. at \in Positions /\ coor_buf \in Seq(Bits) /\ Len(coor_buf) = 2 * LENGTH
    BY <2>1 DEF Types
  <2>6. /\ Coordinate("X", at) \in Seq(Bits) /\ Len(Coordinate("X", at)) = LENGTH
        /\ Coordinate("Y", at) \in Seq(Bits) /\ Len(Coordinate("Y", at)) = LENGTH
        /\ \A k \in 1 .. LENGTH : /\ Coordinate("X", at)[k] = Bit("X", at, k)
                                  /\ Coordinate("Y", at)[k] = Bit("Y", at, k)
    BY <2>5, CoordinateSeq
  <2>7. /\ point \in Seq(Bits) /\ Len(point) = LENGTH + LENGTH
        /\ \A k \in 1 .. LENGTH + LENGTH :
             point[k] = IF k <= LENGTH THEN Coordinate("X", at)[k]
                        ELSE Coordinate("Y", at)[k - LENGTH]
    <3>1. Coordinate("X", at) \in Seq(Bits) /\ Coordinate("Y", at) \in Seq(Bits)
      BY <2>6
    <3> HIDE DEF Bits, Coordinate
    <3>2. /\ point \in Seq(Bits)
          /\ Len(point) = Len(Coordinate("X", at)) + Len(Coordinate("Y", at))
          /\ \A k \in 1 .. Len(Coordinate("X", at)) + Len(Coordinate("Y", at)) :
               point[k] = IF k <= Len(Coordinate("X", at)) THEN Coordinate("X", at)[k]
                          ELSE Coordinate("Y", at)[k - Len(Coordinate("X", at))]
      BY <3>1, ConcatProperties
    <3> QED BY <2>6, <3>2
  <2> HIDE DEF point, Bits
  <2>8. ASSUME NEW k \in 1 .. Len(coor_buf) PROVE coor_buf[k] = point[k]
    <3>1. CASE k <= LENGTH
      <4>1. k \in 1 .. LENGTH /\ k \in 1 .. LENGTH + LENGTH /\ k \in 1 .. 2 * LENGTH
        BY <2>3, <2>5, <3>1
      <4> QED BY <2>4, <2>6, <2>7, <3>1, <4>1 DEF Want
    <3>2. CASE ~(k <= LENGTH)
      <4>1. k - LENGTH \in 1 .. LENGTH /\ k \in 1 .. LENGTH + LENGTH /\ k \in 1 .. 2 * LENGTH
        BY <2>3, <2>5, <3>2
      <4> QED BY <2>4, <2>6, <2>7, <3>2, <4>1 DEF Want
    <3> QED BY <3>1, <3>2
  <2>9. coor_buf = point
    <3>1. Len(coor_buf) = Len(point)
      BY <2>3, <2>5, <2>7
    <3> QED BY <2>5, <2>7, <2>8, <3>1, SeqEqual
  <2> QED BY <2>9 DEF point
<1> QED BY <1>1, PointInvHolds, PTL

(* get_button works on the two coordinates of one point, whatever points   *)
(* come between its reads.                                                 *)
THEOREM PointRead == Spec => []OnePoint
<1>1. PointInv => OnePoint
  BY DEF PointInv, Delivered, OnePoint
<1> QED BY <1>1, PointInvHolds, PTL
=============================================================================
