----------------------------- MODULE ScanProofs -----------------------------
(***************************************************************************)
(* Theorems about Scan, for every size of the screen and of the porches,   *)
(* every phase of the blinking longer than a cycle, and any number of      *)
(* changes.                                                                *)
(*                                                                         *)
(* The argument follows a character through the eight cycles in which it   *)
(* is fetched and the eight in which it is on the wire.                    *)
(***************************************************************************)
EXTENDS Scan, TLAPS

Step == char_pixel_cnt

(* The counters and what the cells may hold.                               *)
Types ==
  /\ clk_cnt \in 0 .. CLK_PER_HORIZONTAL_LINE - 1
  /\ hline_cnt \in 0 .. H_LINE_PER_FRAME - 1
  /\ scroll_offset \in Rows /\ position \in Columns \X Rows
  /\ cursor_state \in Modes
  /\ cursor_controller_state \in {"OFF", "ON", "BLINK_ON", "BLINK_OFF"}
  /\ blink_cnt \in 0 .. CNT_MAX - 1 /\ change_output \in BOOLEAN
  /\ settled \in 0 .. SETTLED
  /\ ram \in [Columns \X Rows -> Cells]

(* From the fourth cycle of the fetch on the cell is in the output         *)
(* register of the RAM, in the last one its pixels in that of the ROM.     *)
Fetched ==
  fetching =>
    /\ Step \in 4 .. 7 => /\ vram_data = due.cell /\ vram_data \in Cells
                          /\ change_output => due.here
    /\ Step = 7 => decoded_char = Pixels(due.cell, cur_char_height)

(* The mode takes two cycles to reach the controller, since the end of a   *)
(* phase may come first.                                                   *)
Mode == cursor_state \in {"ON", "OFF"}

ModeReached ==
  /\ Mode /\ settled >= 1 => \/ cursor_controller_state = cursor_state
                             \/ Blinks /\ blink_cnt = 0
  /\ Mode /\ settled >= 2 => cursor_controller_state = cursor_state
  /\ cursor_state = "OFF" /\ settled >= 3 => ~change_output

(* From there the mode follows the character: from the third cycle of the  *)
(* fetch to the last, and from the first cycle on the wire to the last.    *)
CursorFetched ==
  cursor_state = "ON" /\ fetching /\ Step \in 4 .. 7 /\ settled >= Step - 1
    => (change_output <=> due.here)

CursorShown ==
  den => /\ attribut_buffer.bg = Cursor \/ attribut_buffer.bg = shown.cell
         /\ shown.cell # Cursor
         /\ cursor_state = "ON" /\ settled >= Step + 7
              => (attribut_buffer.bg = Cursor <=> shown.here)
         /\ cursor_state = "OFF" /\ settled >= Step + 4
              => attribut_buffer.bg # Cursor

ScanInv == Types /\ Fetched /\ ModeReached /\ ShowsScreen /\ CursorFetched /\ CursorShown

-----------------------------------------------------------------------------
(* Arithmetic of the counters *)

(* The two halves of the cycle counter.                                    *)
LEMMA Halves ==
  ASSUME NEW c \in Nat
  PROVE  /\ c % 8 \in 0 .. 7 /\ c \div 8 \in Nat
         /\ c = 8 * (c \div 8) + (c % 8)
<1>1. c % 8 \in 0 .. 7
  OBVIOUS
<1>2. c \div 8 \in Nat
  OBVIOUS
<1>3. c = 8 * (c \div 8) + (c % 8)
  OBVIOUS
<1> QED BY <1>1, <1>2, <1>3

LEMMA NextHalves ==
  ASSUME NEW c \in Nat
  PROVE  /\ (c + 1) % 8 = IF c % 8 = 7 THEN 0 ELSE (c % 8) + 1
         /\ (c + 1) \div 8 = IF c % 8 = 7 THEN (c \div 8) + 1 ELSE c \div 8
<1>1. (c + 1) % 8 = IF c % 8 = 7 THEN 0 ELSE (c % 8) + 1
  OBVIOUS
<1>2. (c + 1) \div 8 = IF c % 8 = 7 THEN (c \div 8) + 1 ELSE c \div 8
  OBVIOUS
<1> QED BY <1>1, <1>2

LEMMA LookHalves ==
  ASSUME NEW c \in Nat, NEW h \in Nat
  PROVE  /\ ((c + 5) % 8 = 0) <=> (c % 8 = 3)
         /\ c % 8 = 3 => (c + 5 - h * 8) \div 8 = (c \div 8) + 1 - h
<1>1. ((c + 5) % 8 = 0) <=> (c % 8 = 3)
  OBVIOUS
<1>2. c % 8 = 3 => (c + 5 - h * 8) \div 8 = (c \div 8) + 1 - h
  OBVIOUS
<1> QED BY <1>1, <1>2

LEMMA RowOfLine ==
  ASSUME NEW n \in Nat, NEW h \in Nat \ {0}, NEW l \in 0 .. n * h - 1
  PROVE  l \div h \in 0 .. n - 1
<1>1. l \div h \in Nat /\ h * (l \div h) <= l
  OBVIOUS
<1>2. SUFFICES ASSUME l \div h >= n PROVE FALSE
  BY <1>1
<1> DEFINE q == l \div h
<1>3. q \in Nat /\ q >= n /\ h * q <= l
  BY <1>1, <1>2
<1> HIDE DEF q
<1>4. h * q >= h * n
  BY <1>3
<1> QED BY <1>3, <1>4

-----------------------------------------------------------------------------
(* The wires *)

(* Place of the beam: the step within a character, and the column.         *)
LEMMA Place ==
  ASSUME Types
  PROVE  /\ clk_cnt \in Nat /\ Step \in 0 .. 7 /\ column_cnt \in Nat
         /\ clk_cnt = 8 * column_cnt + Step
  BY ScanAssumption, Halves DEF Types, Step, char_pixel_cnt, column_cnt, CHAR_WIDTH

LEMMA DisplayColumns ==
  ASSUME NEW c \in Nat, NEW p \in 0 .. 7, NEW q \in Nat, c = 8 * q + p
  PROVE  c \in H_SYNC_BACK_PORCH .. CLK_PER_HORIZONTAL_LINE - HSFP_CHARS * CHAR_WIDTH - 1
         <=> q \in HSBP_CHARS .. HSBP_CHARS + COLUMN_COUNT - 1
  BY ScanAssumption
  DEF H_SYNC_BACK_PORCH, CLK_PER_HORIZONTAL_LINE, CHARS_PER_HORIZONTAL_LINE, CHAR_WIDTH

LEMMA Wires ==
  ASSUME Types
  PROVE  /\ den <=> /\ vertical_display_area
                    /\ column_cnt \in HSBP_CHARS .. HSBP_CHARS + COLUMN_COUNT - 1
         /\ fetching <=> /\ vertical_display_area
                         /\ column_cnt \in HSBP_CHARS - 1 .. HSBP_CHARS + COLUMN_COUNT - 2
  BY ScanAssumption, Place
  DEF den, fetching, H_SYNC_BACK_PORCH, CLK_PER_HORIZONTAL_LINE,
      CHARS_PER_HORIZONTAL_LINE, CHAR_WIDTH

LEMMA ReadsRow ==
  ASSUME Types, vram_rd
  PROVE  cur_column \in Columns /\ cur_char_line \in Rows
<1>1. cur_column \in Columns
  BY ScanAssumption, Place, Wires DEF vram_rd, cur_column, Columns
<1>2. line_counter \in 0 .. ROW_COUNT * CHAR_HEIGHT - 1
  <2> DEFINE n == ROW_COUNT * CHAR_HEIGHT
  <2>1. n \in Nat
    BY ScanAssumption
  <2>2. hline_cnt \in VERTICAL_BACK_PORCH .. VERTICAL_BACK_PORCH + n - 1
    <3>1. hline_cnt \in VERTICAL_BACK_PORCH .. H_LINE_PER_FRAME - VERTICAL_FRONT_PORCH - 1
      BY DEF vram_rd, fetching, vertical_display_area
    <3>2. H_LINE_PER_FRAME = VERTICAL_BACK_PORCH + n + VERTICAL_FRONT_PORCH
      BY DEF H_LINE_PER_FRAME
    <3> HIDE DEF n
    <3> QED BY <2>1, <3>1, <3>2, ScanAssumption DEF Types
  <2> HIDE DEF n
  <2>3. line_counter \in 0 .. n - 1
    BY <2>1, <2>2, ScanAssumption DEF line_counter
  <2> QED BY <2>3 DEF n
<1>3. cur_char_line \in Rows
  BY <1>2, RowOfLine, ScanAssumption DEF cur_char_line, Rows
<1> QED BY <1>1, <1>3

(* The ring of rows never leaves the RAM.                                  *)
LEMMA ScreenCell ==
  ASSUME Types, NEW column \in Columns, NEW row \in Rows
  PROVE  Screen(column, row) \in Cells
<1>1. RamRow(row) \in Rows
  BY ScanAssumption DEF Types, RamRow, Rows
<1> QED BY <1>1 DEF Types, Screen

-----------------------------------------------------------------------------
(* A cycle of the clock *)

LEMMA Lines == H_LINE_PER_FRAME \in Nat \ {0} /\ CLK_PER_HORIZONTAL_LINE \in Nat \ {0}
<1> DEFINE n == ROW_COUNT * CHAR_HEIGHT
<1>1. n \in Nat \ {0}
  BY ScanAssumption
<1>2. H_LINE_PER_FRAME = VERTICAL_BACK_PORCH + n + VERTICAL_FRONT_PORCH
  BY DEF H_LINE_PER_FRAME
<1> HIDE DEF n
<1>3. H_LINE_PER_FRAME \in Nat \ {0}
  BY <1>1, <1>2, ScanAssumption
<1>4. CLK_PER_HORIZONTAL_LINE \in Nat \ {0}
  BY ScanAssumption DEF CLK_PER_HORIZONTAL_LINE, CHARS_PER_HORIZONTAL_LINE, CHAR_WIDTH
<1> QED BY <1>3, <1>4

LEMMA ClockTypes == ASSUME Types, Clock PROVE Types'
<1>1. clk_cnt' \in 0 .. CLK_PER_HORIZONTAL_LINE - 1 /\ hline_cnt' \in 0 .. H_LINE_PER_FRAME - 1
  BY Lines DEF Types, Clock, Count
<1>2. cursor_controller_state' \in {"OFF", "ON", "BLINK_ON", "BLINK_OFF"}
  BY DEF Types, Clock, CursorController, Requested, Modes
<1>3. blink_cnt' \in 0 .. CNT_MAX - 1
  BY ScanAssumption DEF Types, Clock, CursorController, Blinks, PhaseEnds
<1>4. change_output' \in BOOLEAN
  BY DEF Types, Clock, CursorController
<1>5. settled' \in 0 .. SETTLED
  BY DEF Types, Clock, Look, SETTLED
<1> QED BY <1>1, <1>2, <1>3, <1>4, <1>5 DEF Types, Clock, command

(* The beam moves on, or begins the next line.                             *)
LEMMA ClockPlace ==
  ASSUME Types, Clock
  PROVE  \/ /\ hline_cnt' = hline_cnt
            /\ Step' = IF Step = 7 THEN 0 ELSE Step + 1
            /\ column_cnt' = IF Step = 7 THEN column_cnt + 1 ELSE column_cnt
         \/ Step' = 0 /\ column_cnt' = 0
<1>1. (clk_cnt' = clk_cnt + 1 /\ hline_cnt' = hline_cnt) \/ clk_cnt' = 0
  BY DEF Clock, Count
<1>2. CASE clk_cnt' = clk_cnt + 1 /\ hline_cnt' = hline_cnt
  BY <1>2, Place, NextHalves DEF Step, char_pixel_cnt, column_cnt, CHAR_WIDTH
<1>3. CASE clk_cnt' = 0
  BY <1>3 DEF Step, char_pixel_cnt, column_cnt, CHAR_WIDTH
<1> QED BY <1>1, <1>2, <1>3

(* The moment that a character should show is that of the RAM's read.      *)
LEMMA ClockLook ==
  ASSUME Types, Clock
  PROVE  /\ due' = IF vram_rd
                   THEN Expect(Screen(cur_column, cur_char_line), AtCursor) ELSE due
         /\ shown' = IF Step = 7 THEN due ELSE shown
         /\ settled' = IF settled < SETTLED THEN settled + 1 ELSE settled
<1>1. ((clk_cnt + 5) % CHAR_WIDTH = 0) <=> (Step = 3)
  BY Place, LookHalves DEF Step, char_pixel_cnt, CHAR_WIDTH
<1>2. Step = 3 => Column = cur_column
  <2>1. HSBP_CHARS \in Nat /\ clk_cnt \in Nat
    BY ScanAssumption, Place
  <2>2. Step = 3 => (clk_cnt + 5 - HSBP_CHARS * 8) \div 8 = (clk_cnt \div 8) + 1 - HSBP_CHARS
    BY <2>1, LookHalves DEF Step, char_pixel_cnt, CHAR_WIDTH
  <2>3. cur_column = (clk_cnt \div 8) + 1 - HSBP_CHARS
    BY <2>1, Halves DEF cur_column, column_cnt, CHAR_WIDTH
  <2> QED BY <2>2, <2>3 DEF Column, H_SYNC_BACK_PORCH, CHAR_WIDTH
<1>3. vram_rd <=> Step = 3 /\ cur_column \in Columns /\ vertical_display_area
  BY ScanAssumption, Place, Wires DEF vram_rd, Step, cur_column, Columns
<1>4. ((clk_cnt + 1) % CHAR_WIDTH = 0) <=> (Step = 7)
  BY Place, NextHalves DEF Step, char_pixel_cnt, CHAR_WIDTH
<1>5. Row = cur_char_line
  BY DEF Row, cur_char_line, line_counter
<1>6. shown' = IF Step = 7 THEN due ELSE shown
  BY <1>4 DEF Clock, Look
<1>7. settled' = IF settled < SETTLED THEN settled + 1 ELSE settled
  BY DEF Clock, Look
<1>8. due' = IF vram_rd THEN Expect(Screen(cur_column, cur_char_line), AtCursor) ELSE due
  <2>1. CASE vram_rd
    <3>1. Column = cur_column /\ Begins
      BY <1>1, <1>2, <1>3, <2>1 DEF Begins
    <3>2. due' = Expect(Screen(Column, Row), position = <<Column, Row>>)
      BY <3>1, Zenon DEF Clock, Look
    <3> QED BY <1>5, <2>1, <3>1, <3>2, Zenon DEF AtCursor
  <2>2. CASE ~vram_rd
    <3>1. ~Begins
      BY <1>1, <1>2, <1>3, <2>2 DEF Begins
    <3> QED BY <2>2, <3>1 DEF Clock, Look
  <2> QED BY <2>1, <2>2
<1> QED BY <1>6, <1>7, <1>8

(* The wires in the next cycle, unless a new line begins.                  *)
LEMMA ClockWires ==
  ASSUME Types, Clock, Step' # 0 \/ column_cnt' # 0
  PROVE  /\ den' <=> /\ vertical_display_area
                     /\ column_cnt' \in HSBP_CHARS .. HSBP_CHARS + COLUMN_COUNT - 1
         /\ fetching' <=> /\ vertical_display_area
                          /\ column_cnt' \in HSBP_CHARS - 1 .. HSBP_CHARS + COLUMN_COUNT - 2
         /\ cur_char_height' = cur_char_height
         /\ Step' = IF Step = 7 THEN 0 ELSE Step + 1
         /\ column_cnt' = IF Step = 7 THEN column_cnt + 1 ELSE column_cnt
<1>1. /\ hline_cnt' = hline_cnt
      /\ Step' = IF Step = 7 THEN 0 ELSE Step + 1
      /\ column_cnt' = IF Step = 7 THEN column_cnt + 1 ELSE column_cnt
  BY ClockPlace
<1>2. Types'
  BY ClockTypes
<1>3. /\ clk_cnt' \in Nat /\ Step' \in 0 .. 7 /\ column_cnt' \in Nat
      /\ clk_cnt' = 8 * column_cnt' + Step'
  <2>1. clk_cnt' \in Nat
    BY <1>2 DEF Types
  <2>2. Step' = clk_cnt' % 8 /\ column_cnt' = clk_cnt' \div 8
    BY DEF Step, char_pixel_cnt, column_cnt, CHAR_WIDTH
  <2> QED BY <2>1, <2>2, Halves
<1>4. vertical_display_area' = vertical_display_area /\ cur_char_height' = cur_char_height
  BY <1>1 DEF vertical_display_area, cur_char_height, line_counter
<1>5. den' <=> /\ vertical_display_area'
               /\ column_cnt' \in HSBP_CHARS .. HSBP_CHARS + COLUMN_COUNT - 1
  BY <1>3, DisplayColumns DEF den
<1>6. fetching' <=> /\ vertical_display_area'
                    /\ column_cnt' \in HSBP_CHARS - 1 .. HSBP_CHARS + COLUMN_COUNT - 2
  BY <1>3, ScanAssumption DEF fetching, CHARS_PER_HORIZONTAL_LINE
<1> QED BY <1>1, <1>4, <1>5, <1>6

LEMMA ClockFetched == ASSUME Types, Fetched, Clock PROVE Fetched'
<1> SUFFICES ASSUME fetching', Step' \in 4 .. 7
             PROVE  /\ vram_data' = due'.cell /\ vram_data' \in Cells
                    /\ change_output' => due'.here
                    /\ Step' = 7 => decoded_char' = Pixels(due'.cell, cur_char_height')
  BY DEF Fetched
<1>1. /\ Step \in 3 .. 6 /\ Step' = Step + 1 /\ fetching
      /\ cur_char_height' = cur_char_height
  BY Place, ClockWires, Wires
<1>2. CASE Step = 3
  <2>1. vram_rd
    BY <1>1, <1>2 DEF vram_rd, Step
  <2>2. /\ vram_data' = Screen(cur_column, cur_char_line)
        /\ due' = Expect(Screen(cur_column, cur_char_line), AtCursor)
    BY <2>1, ClockLook DEF Clock, Fetch
  <2>3. change_output' => AtCursor
    BY <2>1 DEF Clock, CursorController
  <2>4. vram_data' \in Cells
    BY <2>1, <2>2, ReadsRow, ScreenCell
  <2> QED BY <1>1, <1>2, <2>2, <2>3, <2>4 DEF Expect
<1>3. CASE Step \in 4 .. 6
  <2>1. ~vram_rd
    BY <1>3 DEF vram_rd, Step
  <2>2. vram_data' = vram_data /\ due' = due
    BY <2>1, ClockLook DEF Clock, Fetch
  <2>3. change_output' => change_output
    BY <2>1 DEF Clock, CursorController, Types
  <2>4. Step' = 7 => decoded_char' = Pixels(vram_data, cur_char_height)
    BY <1>1 DEF Clock, Fetch, Step
  <2> QED BY <1>1, <1>3, <2>2, <2>3, <2>4 DEF Fetched
<1> QED BY <1>1, <1>2, <1>3

(* The buffers are loaded when the character begins, and kept.             *)
LEMMA ClockBuffers ==
  ASSUME Types, Clock, den'
  PROVE  \/ /\ Step = 7 /\ Step' = 0 /\ fetching
            /\ char_pixel_buffer' = decoded_char
            /\ attribut_buffer' = Attribute(vram_data, vram_data_color_out)
            /\ shown' = due
            /\ cur_char_height' = cur_char_height
         \/ /\ Step # 7 /\ den /\ Step' = Step + 1
            /\ UNCHANGED <<char_pixel_buffer, attribut_buffer, shown>>
            /\ cur_char_height' = cur_char_height
<1>1. column_cnt' # 0
  <2>1. Types'
    BY ClockTypes
  <2>2. clk_cnt' \in Nat /\ clk_cnt' >= HSBP_CHARS * 8
    BY <2>1, ScanAssumption DEF den, H_SYNC_BACK_PORCH, CHAR_WIDTH, Types
  <2>3. column_cnt' = clk_cnt' \div 8
    BY DEF column_cnt, CHAR_WIDTH
  <2>4. clk_cnt' >= 8
    BY <2>2, ScanAssumption
  <2>5. clk_cnt' = 8 * column_cnt' + (clk_cnt' % 8) /\ clk_cnt' % 8 \in 0 .. 7
    BY <2>2, <2>3, Halves
  <2> QED BY <2>4, <2>5
<1>2. CASE Step = 7
  BY <1>1, <1>2, Place, ClockWires, Wires, ClockLook, ScanAssumption DEF Clock, Fetch, Step
<1>3. CASE Step # 7
  BY <1>1, <1>3, Place, ClockWires, Wires, ClockLook DEF Clock, Fetch, Step
<1> QED BY <1>2, <1>3

LEMMA ClockShows ==
  ASSUME Types, Fetched, ShowsScreen, Clock
  PROVE  ShowsScreen'
<1> SUFFICES ASSUME den'
             PROVE  /\ char_pixel_buffer' = Pixels(shown'.cell, cur_char_height')
                    /\ attribut_buffer'.fg = shown'.cell
                    /\ \/ attribut_buffer'.bg = shown'.cell
                       \/ attribut_buffer'.bg = Cursor /\ shown'.here
  BY DEF ShowsScreen
<1>1. CASE Step = 7 /\ fetching
  <2>1. /\ vram_data = due.cell /\ (change_output => due.here)
        /\ decoded_char = Pixels(due.cell, cur_char_height)
    BY <1>1 DEF Fetched
  <2>2. /\ char_pixel_buffer' = decoded_char
        /\ attribut_buffer' = Attribute(vram_data, vram_data_color_out)
        /\ shown' = due /\ cur_char_height' = cur_char_height
    BY <1>1, ClockBuffers, Place
  <2>3. /\ attribut_buffer'.fg = vram_data
        /\ attribut_buffer'.bg = IF change_output THEN Cursor ELSE vram_data
    BY <2>2 DEF Attribute, vram_data_color_out
  <2> QED BY <2>1, <2>2, <2>3
<1>2. CASE ~(Step = 7 /\ fetching)
  <2>1. /\ den /\ UNCHANGED <<char_pixel_buffer, attribut_buffer, shown>>
        /\ cur_char_height' = cur_char_height
    BY <1>2, ClockBuffers
  <2> QED BY <2>1 DEF ShowsScreen
<1> QED BY <1>1, <1>2

LEMMA ClockMode == ASSUME Types, ModeReached, Clock PROVE ModeReached'
<1>1. cursor_state' = cursor_state
  BY DEF Clock, command
<1>2. settled' >= 1 /\ (settled' >= 2 => settled >= 1) /\ (settled' >= 3 => settled >= 2)
  BY ClockLook DEF Types, SETTLED
<1>3. Mode => Requested = cursor_state
  BY DEF Mode, Requested
<1>4. Mode => \/ cursor_controller_state' = cursor_state
              \/ Blinks' /\ blink_cnt' = 0
  BY <1>3 DEF Clock, CursorController, Blinks, PhaseEnds
<1>5. Mode /\ settled >= 1 => cursor_controller_state' = cursor_state
  <2> SUFFICES ASSUME Mode, settled >= 1 PROVE ~PhaseEnds
    BY <1>3 DEF Clock, CursorController
  <2>1. \/ cursor_controller_state = cursor_state
        \/ Blinks /\ blink_cnt = 0
    BY DEF ModeReached
  <2> QED BY <2>1, ScanAssumption DEF Mode, PhaseEnds, Blinks
<1>6. cursor_state = "OFF" /\ settled >= 2 => ~change_output'
  <2> SUFFICES ASSUME cursor_state = "OFF", settled >= 2 PROVE ~change_output'
    OBVIOUS
  <2>1. cursor_controller_state = "OFF"
    BY DEF ModeReached, Mode
  <2> QED BY <2>1 DEF Clock, CursorController
<1> QED BY <1>1, <1>2, <1>4, <1>5, <1>6 DEF ModeReached, Mode

LEMMA ClockCursorFetched ==
  ASSUME Types, ModeReached, CursorFetched, Clock
  PROVE  CursorFetched'
<1> SUFFICES ASSUME cursor_state = "ON", fetching', Step' \in 4 .. 7, settled' >= Step' - 1
             PROVE  change_output' <=> due'.here
  BY DEF CursorFetched, Clock, command
<1>1. Step \in 3 .. 6 /\ Step' = Step + 1 /\ fetching
  BY Place, ClockWires, Wires
<1>2. settled >= Step - 1
  BY <1>1, ClockLook DEF Types, SETTLED
<1>3. cursor_controller_state = "ON"
  BY <1>1, <1>2 DEF ModeReached, Mode, Types
<1>4. CASE Step = 3
  <2>1. vram_rd
    BY <1>1, <1>4 DEF vram_rd, Step
  <2>2. due' = Expect(Screen(cur_column, cur_char_line), AtCursor)
    BY <2>1, ClockLook
  <2>3. change_output' <=> AtCursor
    BY <1>3, <2>1 DEF Clock, CursorController
  <2> QED BY <2>2, <2>3 DEF Expect
<1>5. CASE Step \in 4 .. 6
  <2>1. ~vram_rd
    BY <1>5 DEF vram_rd, Step
  <2>2. due' = due
    BY <2>1, ClockLook
  <2>3. change_output' <=> change_output
    BY <1>3, <2>1 DEF Clock, CursorController
  <2> QED BY <1>1, <1>2, <1>5, <2>2, <2>3 DEF CursorFetched
<1> QED BY <1>1, <1>4, <1>5

LEMMA ClockCursorShown ==
  ASSUME Types, Fetched, ModeReached, CursorFetched, CursorShown, Clock
  PROVE  CursorShown'
<1> SUFFICES ASSUME den'
             PROVE  /\ \/ attribut_buffer'.bg = Cursor
                       \/ attribut_buffer'.bg = shown'.cell
                    /\ shown'.cell # Cursor
                    /\ cursor_state' = "ON" /\ settled' >= Step' + 7
                         => (attribut_buffer'.bg = Cursor <=> shown'.here)
                    /\ cursor_state' = "OFF" /\ settled' >= Step' + 4
                         => attribut_buffer'.bg # Cursor
  BY DEF CursorShown
<1>1. cursor_state' = cursor_state
  BY DEF Clock, command
<1>2. CASE Step = 7 /\ fetching
  <2>1. /\ vram_data = due.cell /\ vram_data \in Cells
    BY <1>2 DEF Fetched
  <2>2. /\ attribut_buffer' = Attribute(vram_data, vram_data_color_out)
        /\ shown' = due /\ Step' = 0
    BY <1>2, ClockBuffers, Place
  <2>3. shown'.cell # Cursor /\ vram_data # Cursor
    BY <2>1, <2>2, ScanAssumption
  <2>4. attribut_buffer'.bg = IF change_output THEN Cursor ELSE vram_data
    BY <2>2 DEF Attribute, vram_data_color_out
  <2>5. settled' >= Step' + 7 => settled >= 6
    BY <2>2, ClockLook DEF Types, SETTLED
  <2>6. settled' >= Step' + 4 => settled >= 3
    BY <2>2, ClockLook DEF Types, SETTLED
  <2>7. cursor_state = "ON" /\ settled >= 6 => (change_output <=> due.here)
    BY <1>2 DEF CursorFetched
  <2>8. cursor_state = "OFF" /\ settled >= 3 => ~change_output
    BY DEF ModeReached
  <2>9. CASE change_output
    BY <1>1, <2>2, <2>3, <2>4, <2>5, <2>6, <2>7, <2>8, <2>9
  <2>10. CASE ~change_output
    BY <1>1, <2>1, <2>2, <2>3, <2>4, <2>5, <2>7, <2>10
  <2> QED BY <2>9, <2>10
<1>3. CASE ~(Step = 7 /\ fetching)
  <2>1. /\ den /\ Step' = Step + 1
        /\ UNCHANGED <<char_pixel_buffer, attribut_buffer, shown>>
    BY <1>3, ClockBuffers
  <2>2. /\ settled' >= Step' + 7 => settled >= Step + 7
        /\ settled' >= Step' + 4 => settled >= Step + 4
    BY <2>1, Place, ClockLook DEF Types, SETTLED
  <2> QED BY <1>1, <2>1, <2>2 DEF CursorShown
<1> QED BY <1>2, <1>3

-----------------------------------------------------------------------------
(* The command side *)

LEMMA OtherSteps ==
  ASSUME ScanInv, WriteRam \/ Scroll \/ MoveCursor \/ SetCfg
  PROVE  ScanInv'
<1>1. Types'
  <2>1. CASE WriteRam
    BY <2>1, ScanAssumption DEF ScanInv, Types, WriteRam, display, cursor
  <2>2. CASE Scroll
    BY <2>2, ScanAssumption DEF ScanInv, Types, Scroll, display, cursor, Rows
  <2>3. CASE MoveCursor
    BY <2>3 DEF ScanInv, Types, MoveCursor, display, cursor
  <2>4. CASE SetCfg
    BY <2>4 DEF ScanInv, Types, SetCfg, display, cursor, SETTLED
  <2> QED BY <2>1, <2>2, <2>3, <2>4
<1>2. /\ UNCHANGED <<display, cursor, due, shown>>
      /\ (cursor_state' = cursor_state /\ settled' = settled) \/ settled' = 0
  BY DEF WriteRam, Scroll, MoveCursor, SetCfg
<1>3. /\ den' = den /\ fetching' = fetching /\ Step' = Step /\ Blinks' = Blinks
      /\ cur_char_height' = cur_char_height
  BY <1>2 DEF display, cursor, den, fetching, vertical_display_area, column_cnt, Step,
    char_pixel_cnt, cur_char_height, line_counter, Blinks
<1>4. Fetched' /\ ShowsScreen'
  BY <1>2, <1>3 DEF ScanInv, Fetched, ShowsScreen, display, cursor
<1>5. ModeReached'
  BY <1>2, <1>3 DEF ScanInv, ModeReached, Mode, display, cursor
<1>6. CursorFetched' /\ CursorShown'
  <2>1. CASE cursor_state' = cursor_state /\ settled' = settled
    BY <1>2, <1>3, <2>1 DEF ScanInv, CursorFetched, CursorShown, display, cursor
  <2>2. CASE settled' = 0
    <3>1. Step \in 0 .. 7
      BY Place DEF ScanInv
    <3> QED BY <1>2, <1>3, <2>2, <3>1 DEF ScanInv, CursorFetched, CursorShown, display, cursor
  <2> QED BY <1>2, <2>1, <2>2
<1> QED BY <1>1, <1>4, <1>5, <1>6 DEF ScanInv

(* After a reset nothing is on the wire until a line has begun.            *)
LEMMA Key0Inv == ASSUME Types, Key0 PROVE ScanInv'
<1>1. Types'
  BY ScanAssumption, Lines DEF Types, Key0, Rows, Columns, Modes, SETTLED
<1>2. Step' = 0 /\ ~den'
  BY ScanAssumption
  DEF Key0, Step, char_pixel_cnt, CHAR_WIDTH, den, H_SYNC_BACK_PORCH
<1>3. Fetched' /\ ShowsScreen' /\ CursorShown'
  BY <1>2 DEF Fetched, ShowsScreen, CursorShown
<1>4. ModeReached' /\ CursorFetched'
  BY DEF Key0, ModeReached, Mode, CursorFetched
<1> QED BY <1>1, <1>3, <1>4 DEF ScanInv

LEMMA ScanInit == Init => ScanInv
<1> SUFFICES ASSUME Init PROVE ScanInv
  OBVIOUS
<1>1. Types
  <2>1. ram \in [Columns \X Rows -> Cells]
    BY ScanAssumption DEF Init
  <2>2. CLK_PER_HORIZONTAL_LINE \in Nat \ {0} /\ H_LINE_PER_FRAME \in Nat \ {0}
    BY Lines
  <2> QED BY <2>1, <2>2, ScanAssumption DEF Init, Types, Rows, Columns, Modes, SETTLED
<1>2. Step = 0 /\ ~den
  BY ScanAssumption
  DEF Init, Step, char_pixel_cnt, CHAR_WIDTH, den, H_SYNC_BACK_PORCH
<1>3. Fetched /\ ShowsScreen /\ CursorShown
  BY <1>2 DEF Fetched, ShowsScreen, CursorShown
<1>4. ModeReached /\ CursorFetched
  BY DEF Init, ModeReached, Mode, CursorFetched
<1> QED BY <1>1, <1>3, <1>4 DEF ScanInv

LEMMA ScanStep == ScanInv /\ [Next]_vars => ScanInv'
<1> SUFFICES ASSUME ScanInv, [Next]_vars PROVE ScanInv'
  OBVIOUS
<1>1. CASE Clock
  BY <1>1, ClockTypes, ClockFetched, ClockShows, ClockMode, ClockCursorFetched,
     ClockCursorShown DEF ScanInv
<1>2. CASE WriteRam \/ Scroll \/ MoveCursor \/ SetCfg
  BY <1>2, OtherSteps
<1>3. CASE Key0
  BY <1>3, Key0Inv DEF ScanInv
<1>4. CASE UNCHANGED vars
  <2>1. UNCHANGED <<command, display, cursor, due, shown, settled>>
    BY <1>4 DEF vars
  <2>2. /\ den' = den /\ fetching' = fetching /\ Step' = Step /\ Blinks' = Blinks
        /\ cur_char_height' = cur_char_height
    BY <2>1 DEF display, cursor, den, fetching, vertical_display_area, column_cnt, Step,
      char_pixel_cnt, cur_char_height, line_counter, Blinks
  <2>3. Types'
    BY <2>1 DEF ScanInv, Types, command, display, cursor
  <2> QED BY <2>1, <2>2, <2>3 DEF ScanInv, Fetched, ShowsScreen, ModeReached, Mode,
      CursorFetched, CursorShown, command, display, cursor
<1> QED BY <1>1, <1>2, <1>3, <1>4 DEF Next

LEMMA ScanInvHolds == Spec => []ScanInv
  BY ScanInit, ScanStep, PTL DEF Spec

-----------------------------------------------------------------------------
(* Theorems *)

(* No counter leaves its range, and the RAM is read inside the screen,     *)
(* whatever the ring of rows and the cursor do.                            *)
THEOREM ScanTypeCorrect == Spec => []TypeOK
<1>1. ScanInv => TypeOK
  BY ReadsRow DEF ScanInv, Types, TypeOK
<1> QED BY <1>1, ScanInvHolds, PTL

(* For every size of screen and porches, each character on the wire is one *)
(* cell of one moment.                                                     *)
THEOREM ScreenShown == Spec => []ShowsScreen
<1>1. ScanInv => ShowsScreen
  BY DEF ScanInv
<1> QED BY <1>1, ScanInvHolds, PTL

(* For every size and every phase longer than a cycle, a cursor that was   *)
(* set to ON fourteen cycles ago is seen exactly where its cell is shown,  *)
(* and one that was set to OFF nowhere.  Nothing is said of BLINK.         *)
THEOREM CursorSettles == Spec => []SettledCursor
<1>1. ScanInv => SettledCursor
  <2> SUFFICES ASSUME ScanInv, den, settled = SETTLED
               PROVE  /\ cursor_state = "ON" => (attribut_buffer.bg = Cursor <=> shown.here)
                      /\ cursor_state = "OFF" => attribut_buffer.bg # Cursor
    BY DEF SettledCursor
  <2>1. Step \in 0 .. 7
    BY Place DEF ScanInv
  <2> QED BY <2>1 DEF ScanInv, CursorShown, SETTLED
<1> QED BY <1>1, ScanInvHolds, PTL
=============================================================================
