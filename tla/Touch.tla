------------------------------- MODULE Touch --------------------------------
(***************************************************************************)
(* The touch screen: the controller that clocks the analog-digital         *)
(* converter bit by bit (touch_controller.vhd), its bus registers with the *)
(* synchroniser of the pen signal (avalon_touch_cntrl.vhd), and            *)
(* get_button of main.c.                                                   *)
(*                                                                         *)
(* A bit of a coordinate is named by the axis that was asked for, the      *)
(* position of the finger when the converter sampled it, and its number    *)
(* from the most significant one.                                          *)
(***************************************************************************)
EXTENDS Integers, Sequences

CONSTANTS
  SYS_CLK_EDGE_CNTR_LIMIT,   \* clock cycles per cycle of DCLK (500)
  ACQUISITION_FACTOR,        \* DCLK cycles for each of the last control bits (4)
  Positions                  \* where a finger may be

ASSUME TouchAssumption ==
  /\ SYS_CLK_EDGE_CNTR_LIMIT \in Nat /\ SYS_CLK_EDGE_CNTR_LIMIT > 5
  /\ ACQUISITION_FACTOR \in Nat \ {0}

LIMIT == SYS_CLK_EDGE_CNTR_LIMIT
LOW_TIME == (LIMIT + 1) \div 2
HIGH_TIME == LIMIT \div 2
ACQUISITION_TIME == ACQUISITION_FACTOR * LIMIT
LENGTH == 12       \* ADC_SINGLE_COORDINATE_LENGTH
CYCLES == 24       \* ADC_DCLK_CYCLES_TOTAL
MSB == 10          \* ADC_DCLK_CYCLE_NUMER_COOR_MSB_RELATIVE_PER_CONVERSION

CONTROL_WORD == [X |-> <<1, 0, 0, 1, 0, 0, 1, 1>>, Y |-> <<1, 1, 0, 1, 0, 0, 0, 0>>]

VARIABLES
  tc_state, clk_cntr, acq_cntr, dclk_cntr, coor_select, adc_din, dclk,
  coor_buf,                  \* also point_data, which always equals it
  adc,                       \* the converter
  pen, at,                   \* finger on the screen, and where
  shift_register,            \* adc_penirq_n on its way through the synchroniser
  last_coord_y, y_buffer, new_point_data_reg,
  pc, y_raw,                 \* get_button
  steady,                    \* auxiliary: one position since the conversion began
  in_step,                   \* auxiliary: the converter counts from the same edge
  point_y                    \* auxiliary: y of the point of which x was read

controller == <<tc_state, clk_cntr, acq_cntr, dclk_cntr, coor_select, adc_din,
                dclk, coor_buf>>
registers == <<last_coord_y, y_buffer, new_point_data_reg>>
program == <<pc, y_raw, point_y>>
auxiliary == <<steady, in_step>>
vars == <<controller, adc, pen, at, shift_register, registers, program, auxiliary>>

Bit(axis, pos, k) == [axis |-> axis, pos |-> pos, k |-> k]
Coordinate(axis, pos) == [k \in 1 .. LENGTH |-> Bit(axis, pos, k)]
Zeros == [k \in 1 .. LENGTH |-> Bit("none", "none", 0)]

Unused == [edges |-> 0, word |-> <<>>, pos |-> "none"]

Init ==
  /\ tc_state = "IDLE" /\ clk_cntr = 0 /\ acq_cntr = 0 /\ dclk_cntr = 0
  /\ coor_select = "Y" /\ adc_din = 0 /\ dclk = 0
  /\ coor_buf = Zeros \o Zeros
  /\ adc = Unused
  /\ pen = FALSE /\ at \in Positions
  /\ shift_register = <<0, 0, 0>>
  /\ last_coord_y = Zeros /\ y_buffer = Zeros
  /\ new_point_data_reg \in {0, 1}
  /\ pc = "reset" /\ y_raw = Zeros
  /\ steady = FALSE /\ in_step = TRUE /\ point_y = Zeros

-----------------------------------------------------------------------------
(* The finger                                                              *)

Press ==
  /\ ~pen /\ pen' = TRUE /\ at' \in Positions
  /\ UNCHANGED <<controller, adc, shift_register, registers, program, auxiliary>>

Lift ==
  /\ pen /\ pen' = FALSE /\ steady' = FALSE
  /\ UNCHANGED <<controller, adc, at, shift_register, registers, program, in_step>>

Slide ==
  /\ pen /\ at' \in Positions \ {at} /\ steady' = FALSE
  /\ UNCHANGED <<controller, adc, pen, shift_register, registers, program, in_step>>

-----------------------------------------------------------------------------
(* The controller                                                          *)

penirq_n == shift_register[3]

(* In the cycles of the last control bits the converter needs more time.   *)
Acquires == dclk_cntr \in 6 .. 8

Count ==
  /\ clk_cntr' = IF Acquires THEN clk_cntr ELSE clk_cntr + 1
  /\ acq_cntr' = IF Acquires THEN acq_cntr + 1 ELSE acq_cntr

Elapsed(time) == clk_cntr = time - 1 \/ acq_cntr = ACQUISITION_TIME - 1
Restart == clk_cntr' = 1 /\ acq_cntr' = 0

(* The pen signal is 0 when it comes out of the reset, so that the first   *)
(* conversion begins without a finger.                                     *)
IdleState ==
  /\ tc_state = "IDLE"
  /\ IF penirq_n = 0
     THEN tc_state' = "DCLK_FALLING_EDGE" /\ dclk_cntr' = 1 /\ coor_select' = "X" /\ steady' = pen
     ELSE UNCHANGED <<tc_state, dclk_cntr, coor_select, steady>>
  /\ UNCHANGED <<clk_cntr, acq_cntr, adc_din, dclk, coor_buf>>

FallingEdge ==
  /\ tc_state = "DCLK_FALLING_EDGE" /\ tc_state' = "DCLK_LOW_TIME"
  /\ Restart
  /\ adc_din' = IF dclk_cntr \in 1 .. 8 THEN CONTROL_WORD[coor_select][dclk_cntr] ELSE 0
  /\ dclk' = 0
  /\ UNCHANGED <<dclk_cntr, coor_select, coor_buf, steady>>

LowTime ==
  /\ tc_state = "DCLK_LOW_TIME"
  /\ Count
  /\ tc_state' = IF Elapsed(LOW_TIME) THEN "DCLK_RISING_EDGE" ELSE tc_state
  /\ UNCHANGED <<dclk_cntr, coor_select, adc_din, dclk, coor_buf, steady>>

(* The converter's output in the cycle of its edges-th edge.               *)
adc_dout ==
  IF adc.edges \in 9 .. 20 /\ \E axis \in {"X", "Y"} : adc.word = CONTROL_WORD[axis]
  THEN Bit(CHOOSE axis \in {"X", "Y"} : adc.word = CONTROL_WORD[axis],
           adc.pos, adc.edges - 8)
  ELSE Bit("none", "none", 0)

RisingEdgeLate ==                                            \* mutant
  /\ tc_state = "DCLK_RISING_EDGE" /\ tc_state' = "DCLK_HIGH_TIME"
  /\ Restart
  /\ dclk' = 1
  /\ coor_buf' = IF dclk_cntr \in MSB + 1 .. MSB + LENGTH
                 THEN Append(Tail(coor_buf), adc_dout) ELSE coor_buf
  /\ UNCHANGED <<dclk_cntr, coor_select, adc_din, steady>>

RisingEdge ==
  /\ tc_state = "DCLK_RISING_EDGE" /\ tc_state' = "DCLK_HIGH_TIME"
  /\ Restart
  /\ dclk' = 1
  /\ coor_buf' = IF dclk_cntr \in MSB .. MSB + LENGTH - 1
                 THEN Append(Tail(coor_buf), adc_dout) ELSE coor_buf
  /\ UNCHANGED <<dclk_cntr, coor_select, adc_din, steady>>

HighTimeCountsOn ==                                          \* mutant
  /\ tc_state = "DCLK_HIGH_TIME"
  /\ Count
  /\ IF ~Elapsed(HIGH_TIME) THEN UNCHANGED <<tc_state, dclk_cntr, coor_select>>
     ELSE IF dclk_cntr < CYCLES + 1
     THEN dclk_cntr' = dclk_cntr + 1 /\ tc_state' = "DCLK_FALLING_EDGE"
          /\ UNCHANGED coor_select
     ELSE IF coor_select = "X"
     THEN dclk_cntr' = 1 /\ tc_state' = "DCLK_FALLING_EDGE" /\ coor_select' = "Y"
     ELSE tc_state' = "COMPLETE" /\ UNCHANGED <<dclk_cntr, coor_select>>
  /\ UNCHANGED <<adc_din, dclk, coor_buf, steady>>

HighTime ==
  /\ tc_state = "DCLK_HIGH_TIME"
  /\ Count
  /\ IF ~Elapsed(HIGH_TIME) THEN UNCHANGED <<tc_state, dclk_cntr, coor_select>>
     ELSE IF dclk_cntr < CYCLES
     THEN dclk_cntr' = dclk_cntr + 1 /\ tc_state' = "DCLK_FALLING_EDGE"
          /\ UNCHANGED coor_select
     ELSE IF coor_select = "X"
     THEN dclk_cntr' = 1 /\ tc_state' = "DCLK_FALLING_EDGE" /\ coor_select' = "Y"
     ELSE tc_state' = "COMPLETE" /\ UNCHANGED <<dclk_cntr, coor_select>>
  /\ UNCHANGED <<adc_din, dclk, coor_buf, steady>>

(* A point counts only if the screen is still touched.                     *)
new_point_data == tc_state = "COMPLETE" /\ penirq_n = 0

Complete ==
  /\ tc_state = "COMPLETE" /\ tc_state' = "IDLE"
  /\ clk_cntr' = 0 /\ acq_cntr' = 0 /\ dclk' = 0
  /\ UNCHANGED <<dclk_cntr, coor_select, adc_din, coor_buf, steady>>

Controller ==
  IdleState \/ FallingEdge \/ LowTime \/ RisingEdge \/ HighTime \/ Complete

(* The converter: eight bits of control word at rising edges, the sample   *)
(* at the eighth falling edge, then the bits at falling edges; 24 edges    *)
(* for each conversion.  Without chip select it starts anew.  Out of step  *)
(* with the controller its count is not known: it sends some bits, which   *)
(* are no coordinate's, until it is deselected.                            *)
Selected == tc_state \in {"IDLE", "COMPLETE"} => penirq_n = 0

Converter ==
  /\ in_step' = (in_step \/ ~Selected)
  /\ adc' =
       IF ~Selected THEN [adc EXCEPT !.edges = 0, !.word = <<>>]
       ELSE IF in_step /\ dclk = 0 /\ dclk' = 1
       THEN [adc EXCEPT
              !.edges = IF @ = CYCLES THEN 1 ELSE @ + 1,
              !.word = IF adc.edges = CYCLES THEN <<adc_din>>
                       ELSE IF adc.edges < 8 THEN Append(@, adc_din) ELSE @]
       ELSE IF dclk = 1 /\ dclk' = 0 /\ adc.edges = 8
       THEN [adc EXCEPT !.pos = at]
       ELSE adc

Synchronise ==
  shift_register' = <<IF pen THEN 0 ELSE 1, shift_register[1], shift_register[2]>>

-----------------------------------------------------------------------------
(* The bus registers; an access is told by its address, or -1.  A read     *)
(* takes two cycles, of which the last one counts.  A new point is stored  *)
(* also in the cycle in which the flag is cleared.  Of its two registers   *)
(* last_coord_x is left out: it is loaded together with last_coord_y, and  *)
(* the x that is read from it is told by the y of its point, point_y.      *)

Registers(read, write) ==
  /\ y_buffer' = IF read = 2 THEN last_coord_y ELSE y_buffer
  /\ IF new_point_data
     THEN /\ last_coord_y' = SubSeq(coor_buf, 1, LENGTH)
          /\ new_point_data_reg' = 1
     ELSE /\ UNCHANGED last_coord_y
          /\ new_point_data_reg' = IF write = 0 THEN 0 ELSE new_point_data_reg

Clock(read, write) ==
  /\ Controller /\ Converter /\ Synchronise
  /\ Registers(read, write)
  /\ UNCHANGED <<pen, at>>

(* get_button, called again and again                                      *)

Pause == Clock(-1, -1) /\ UNCHANGED program

ResetFlag ==
  /\ pc = "reset" /\ pc' = "flag"
  /\ Clock(-1, 0)
  /\ UNCHANGED <<y_raw, point_y>>

ReadFlag ==
  /\ pc = "flag"
  /\ pc' = IF new_point_data_reg = 1 THEN "x" ELSE "flag"
  /\ Clock(0, -1)
  /\ UNCHANGED <<y_raw, point_y>>

ReadX ==
  /\ pc = "x" /\ pc' = "y"
  /\ point_y' = last_coord_y
  /\ Clock(2, -1)
  /\ UNCHANGED y_raw

ReadYDirect ==                                               \* mutant
  /\ pc = "y" /\ pc' = "clear"
  /\ y_raw' = last_coord_y
  /\ Clock(3, -1)
  /\ UNCHANGED point_y

ReadY ==
  /\ pc = "y" /\ pc' = "clear"
  /\ y_raw' = y_buffer
  /\ Clock(3, -1)
  /\ UNCHANGED point_y

ClearFlag ==
  /\ pc = "clear" /\ pc' = "flag"
  /\ Clock(-1, 0)
  /\ y_raw' = Zeros /\ point_y' = Zeros

GetButton == ResetFlag \/ ReadFlag \/ ReadX \/ ReadY \/ ClearFlag

(* KEY(0) in any cycle resets controller, synchroniser and processor, but  *)
(* neither the point in the bus registers nor the converter: the 0 in the  *)
(* synchroniser keeps it selected, and it goes on with the conversion that *)
(* it is in.                                                               *)
Key0 ==
  /\ tc_state' = "IDLE" /\ clk_cntr' = 0 /\ acq_cntr' = 0 /\ dclk_cntr' = 0
  /\ coor_select' = "Y" /\ adc_din' = 0 /\ dclk' = 0
  /\ coor_buf' = Zeros \o Zeros
  /\ shift_register' = <<0, 0, 0>>
  /\ in_step' = (in_step /\ adc.edges \in {0, CYCLES})
  /\ adc' = IF in_step' THEN adc ELSE Unused
  /\ pc' = "reset" /\ y_raw' = Zeros
  /\ steady' = FALSE /\ point_y' = Zeros
  /\ UNCHANGED <<pen, at, registers>>

Next == Press \/ Lift \/ Slide \/ Pause \/ GetButton \/ Key0

Spec == Init /\ [][Next]_vars

-----------------------------------------------------------------------------
(* Properties *)

TypeOK ==
  /\ tc_state \in {"IDLE", "DCLK_LOW_TIME", "DCLK_RISING_EDGE", "DCLK_HIGH_TIME",
                   "DCLK_FALLING_EDGE", "COMPLETE"}
  /\ clk_cntr \in 0 .. LIMIT /\ acq_cntr \in 0 .. ACQUISITION_TIME
  /\ dclk_cntr \in 0 .. CYCLES /\ coor_select \in {"X", "Y"}
  /\ Len(coor_buf) = 2 * LENGTH
  /\ adc.edges \in 0 .. CYCLES /\ Len(adc.word) <= 8
  /\ pc \in {"reset", "flag", "x", "y", "clear"}

(* A point that is delivered while the finger has rested is the position   *)
(* of the finger: both conversions got their control word and all twelve   *)
(* bits, in order, whatever conversion came before.  After a KEY(0) within *)
(* a conversion of the converter this holds again only when the converter  *)
(* has been deselected (or happens to be reset between two conversions).   *)
PointIsPosition ==
  new_point_data /\ steady /\ in_step =>
    coor_buf = Coordinate("X", at) \o Coordinate("Y", at)

(* get_button works on the two coordinates of one point, even if the next  *)
(* point arrives between its reads.                                        *)
OnePoint == pc = "clear" => y_raw = point_y
=============================================================================
