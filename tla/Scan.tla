-------------------------------- MODULE Scan --------------------------------
(***************************************************************************)
(* The scan-out of the text display, clock cycle by clock cycle: the       *)
(* display controller (display_controller.vhd) that fetches each character *)
(* while the one before it is on the wire, the cursor controller, the read *)
(* port of the video RAM and the font ROM (wired in                        *)
(* textmode_controller_1c.vhd).  The command side (module TextMode) may    *)
(* change the screen, the cursor and its mode between any two cycles.      *)
(*                                                                         *)
(* A cell of the screen is a name that stands for its character and both   *)
(* of its colours; a row of pixels is the name of its character and its    *)
(* line.  Cursor is the colour of the cursor.                              *)
(***************************************************************************)
EXTENDS Integers

CONSTANTS
  COLUMN_COUNT, ROW_COUNT,   \* 100, 30
  CHAR_HEIGHT,               \* lines of pixels of a character (16)
  HSBP_CHARS, HSFP_CHARS,    \* horizontal porches, in characters (27, 5)
  VERTICAL_BACK_PORCH, VERTICAL_FRONT_PORCH,        \* in lines (35, 10)
  CNT_MAX,                   \* cycles of a phase of the blinking cursor
  Cells,                     \* what a cell of the screen can hold
  Contents,                  \* contents of the screen to start with
  New,                       \* a cell that is written later
  MaxChanges                 \* bound: steps of the command side

Columns == 0 .. COLUMN_COUNT - 1
Rows == 0 .. ROW_COUNT - 1
Modes == {"OFF", "ON", "BLINK"}
Nul == "nul"
Cursor == "cursor"

ASSUME ScanAssumption ==
  /\ COLUMN_COUNT \in Nat \ {0} /\ ROW_COUNT \in Nat \ {0}
  /\ CHAR_HEIGHT \in Nat \ {0}
  /\ HSBP_CHARS \in Nat \ {0} /\ HSFP_CHARS \in Nat \ {0}
  /\ VERTICAL_BACK_PORCH \in Nat /\ VERTICAL_FRONT_PORCH \in Nat
  /\ CNT_MAX \in Nat \ {0, 1} /\ MaxChanges \in Nat
  /\ Contents \subseteq [Columns \X Rows -> Cells]
  /\ New \in Cells /\ Cursor \notin Cells

CHAR_WIDTH == 8
H_SYNC_BACK_PORCH == HSBP_CHARS * CHAR_WIDTH
CHARS_PER_HORIZONTAL_LINE == HSBP_CHARS + COLUMN_COUNT + HSFP_CHARS
CLK_PER_HORIZONTAL_LINE == CHARS_PER_HORIZONTAL_LINE * CHAR_WIDTH
H_LINE_PER_FRAME == VERTICAL_BACK_PORCH + ROW_COUNT * CHAR_HEIGHT + VERTICAL_FRONT_PORCH

VARIABLES
  ram, scroll_offset, position, cursor_state,    \* the command side
  changes,
  clk_cnt, hline_cnt,
  vram_data,                 \* output register of the video RAM
  decoded_char,              \* output register of the font ROM
  char_pixel_buffer, attribut_buffer,
  cursor_controller_state, blink_cnt, change_output,
  due, shown,                \* auxiliary: what the next and this character should show
  settled                    \* auxiliary: cycles since the mode of the cursor changed

command == <<ram, scroll_offset, position, cursor_state, changes>>
display == <<clk_cnt, hline_cnt, vram_data, decoded_char, char_pixel_buffer, attribut_buffer>>
cursor == <<cursor_controller_state, blink_cnt, change_output>>
vars == <<command, display, cursor, due, shown, settled>>

Pixels(cell, line) == [char |-> cell, line |-> line]
Attribute(fg, bg) == [fg |-> fg, bg |-> bg]
Expect(cell, here) == [cell |-> cell, here |-> here]

(* The mode is settled when it has not changed since two cycles before the *)
(* character on the wire was fetched: 2 + 5 + 7 cycles.                    *)
SETTLED == 14

Init ==
  /\ clk_cnt = 0 /\ hline_cnt = 0
  /\ char_pixel_buffer = Pixels(Nul, 0) /\ attribut_buffer = Attribute(Nul, Nul)
  /\ cursor_controller_state = "OFF" /\ blink_cnt = 0
  /\ position = <<0, 0>> /\ cursor_state = "BLINK" /\ scroll_offset = 0
  /\ due = Expect(Nul, FALSE) /\ shown = Expect(Nul, FALSE) /\ settled = 0
  /\ ram \in Contents
  /\ vram_data = Nul /\ decoded_char = Pixels(Nul, 0)
  /\ change_output \in BOOLEAN
  /\ changes = 0

-----------------------------------------------------------------------------
(* The wires within a cycle                                                *)

char_pixel_cnt == clk_cnt % CHAR_WIDTH
column_cnt == clk_cnt \div CHAR_WIDTH

vertical_display_area ==
  hline_cnt \in VERTICAL_BACK_PORCH .. H_LINE_PER_FRAME - VERTICAL_FRONT_PORCH - 1

line_counter == hline_cnt - VERTICAL_BACK_PORCH
cur_char_line == line_counter \div CHAR_HEIGHT
cur_char_height == line_counter % CHAR_HEIGHT
cur_column == column_cnt - HSBP_CHARS + 1

fetching ==
  /\ vertical_display_area
  /\ column_cnt \in HSBP_CHARS - 1 .. CHARS_PER_HORIZONTAL_LINE - HSFP_CHARS - 2

vram_rd == fetching /\ char_pixel_cnt = 3

(* The RAM is a ring of rows.                                              *)
RamRow(row) ==
  IF row + scroll_offset > ROW_COUNT - 1
  THEN row + scroll_offset - ROW_COUNT ELSE row + scroll_offset

Screen(column, row) == ram[<<column, RamRow(row)>>]

den ==
  /\ vertical_display_area
  /\ clk_cnt \in H_SYNC_BACK_PORCH ..
                   CLK_PER_HORIZONTAL_LINE - HSFP_CHARS * CHAR_WIDTH - 1

vram_data_color_out == IF change_output THEN Cursor ELSE vram_data

-----------------------------------------------------------------------------
(* One cycle of the clock.                                                 *)

CountLong ==                                                 \* mutant
  IF clk_cnt = CLK_PER_HORIZONTAL_LINE - 1
  THEN /\ clk_cnt' = 0
       /\ hline_cnt' = IF hline_cnt = H_LINE_PER_FRAME THEN 0 ELSE hline_cnt + 1
  ELSE clk_cnt' = clk_cnt + 1 /\ UNCHANGED hline_cnt

Count ==
  IF clk_cnt = CLK_PER_HORIZONTAL_LINE - 1
  THEN /\ clk_cnt' = 0
       /\ hline_cnt' = IF hline_cnt = H_LINE_PER_FRAME - 1 THEN 0 ELSE hline_cnt + 1
  ELSE clk_cnt' = clk_cnt + 1 /\ UNCHANGED hline_cnt

FetchEarly ==                                                \* mutant
  /\ vram_data' = IF vram_rd THEN Screen(cur_column, cur_char_line) ELSE vram_data
  /\ decoded_char' = IF fetching /\ char_pixel_cnt = 3
                     THEN Pixels(vram_data, cur_char_height) ELSE decoded_char
  /\ IF fetching /\ char_pixel_cnt = 7
     THEN /\ char_pixel_buffer' = decoded_char
          /\ attribut_buffer' = Attribute(vram_data, vram_data_color_out)
     ELSE UNCHANGED <<char_pixel_buffer, attribut_buffer>>

Fetch ==
  /\ vram_data' = IF vram_rd THEN Screen(cur_column, cur_char_line) ELSE vram_data
  /\ decoded_char' = IF fetching /\ char_pixel_cnt = 6
                     THEN Pixels(vram_data, cur_char_height) ELSE Pixels(Nul, 0)
  /\ IF fetching /\ char_pixel_cnt = 7
     THEN /\ char_pixel_buffer' = decoded_char
          /\ attribut_buffer' = Attribute(vram_data, vram_data_color_out)
     ELSE UNCHANGED <<char_pixel_buffer, attribut_buffer>>

Requested ==
  CASE cursor_state = "ON" -> "ON"
    [] cursor_state = "OFF" -> "OFF"
    [] OTHER -> IF cursor_controller_state = "BLINK_OFF" THEN "BLINK_OFF" ELSE "BLINK_ON"

Blinks == cursor_controller_state \in {"BLINK_ON", "BLINK_OFF"}
PhaseEnds == Blinks /\ blink_cnt = CNT_MAX - 1

AtCursor == position = <<cur_column, cur_char_line>>

CursorControllerStays ==                                     \* mutant
  /\ cursor_controller_state' =
       IF ~PhaseEnds THEN Requested
       ELSE IF cursor_controller_state = "BLINK_ON" THEN "BLINK_OFF" ELSE "BLINK_ON"
  /\ blink_cnt' = IF Blinks /\ ~PhaseEnds THEN blink_cnt + 1 ELSE 0
  /\ change_output' =
       IF vram_rd /\ cursor_controller_state \in {"ON", "BLINK_ON"} THEN AtCursor
       ELSE change_output

CursorControllerNoPhase ==                                   \* mutant
  /\ cursor_controller_state' = Requested
  /\ blink_cnt' = IF Blinks /\ ~PhaseEnds THEN blink_cnt + 1 ELSE 0
  /\ change_output' =
       /\ cursor_controller_state \in {"ON", "BLINK_ON"}
       /\ IF vram_rd THEN AtCursor ELSE change_output

(* The end of a phase wins over the mode that is requested.                *)
CursorController ==
  /\ cursor_controller_state' =
       IF ~PhaseEnds THEN Requested
       ELSE IF cursor_controller_state = "BLINK_ON" THEN "BLINK_OFF" ELSE "BLINK_ON"
  /\ blink_cnt' = IF Blinks /\ ~PhaseEnds THEN blink_cnt + 1 ELSE 0
  /\ change_output' =
       /\ cursor_controller_state \in {"ON", "BLINK_ON"}
       /\ IF vram_rd THEN AtCursor ELSE change_output

(* What the screen holds five cycles before the first pixel of a           *)
(* character.                                                              *)
Column == (clk_cnt + 5 - H_SYNC_BACK_PORCH) \div CHAR_WIDTH
Row == (hline_cnt - VERTICAL_BACK_PORCH) \div CHAR_HEIGHT

Begins ==
  (clk_cnt + 5) % CHAR_WIDTH = 0 /\ Column \in Columns /\ vertical_display_area

Look ==
  /\ due' = IF Begins THEN Expect(Screen(Column, Row), position = <<Column, Row>>) ELSE due
  /\ shown' = IF (clk_cnt + 1) % CHAR_WIDTH = 0 THEN due ELSE shown
  /\ settled' = IF settled < SETTLED THEN settled + 1 ELSE settled

Clock ==
  /\ Count /\ Fetch /\ CursorController /\ Look
  /\ UNCHANGED command

-----------------------------------------------------------------------------
(* The command side.                                                       *)

Change == changes < MaxChanges /\ changes' = changes + 1

WriteRam ==
  /\ Change
  /\ \E p \in Columns \X Rows : ram' = [ram EXCEPT ![p] = New]
  /\ UNCHANGED <<scroll_offset, position, cursor_state, display, cursor, due, shown, settled>>

Scroll ==
  /\ Change
  /\ scroll_offset' = IF scroll_offset = ROW_COUNT - 1 THEN 0 ELSE scroll_offset + 1
  /\ UNCHANGED <<ram, position, cursor_state, display, cursor, due, shown, settled>>

MoveCursor ==
  /\ Change
  /\ position' \in Columns \X Rows
  /\ UNCHANGED <<ram, scroll_offset, cursor_state, display, cursor, due, shown, settled>>

SetCfg ==
  /\ Change
  /\ cursor_state' \in Modes /\ settled' = 0
  /\ UNCHANGED <<ram, scroll_offset, position, display, cursor, due, shown>>

(* KEY(0) in any cycle; the RAM, the outputs of the memories and           *)
(* change_output have no reset.                                            *)
Key0 ==
  /\ Change
  /\ clk_cnt' = 0 /\ hline_cnt' = 0
  /\ char_pixel_buffer' = Pixels(Nul, 0) /\ attribut_buffer' = Attribute(Nul, Nul)
  /\ cursor_controller_state' = "OFF" /\ blink_cnt' = 0
  /\ position' = <<0, 0>> /\ cursor_state' = "BLINK" /\ scroll_offset' = 0
  /\ due' = Expect(Nul, FALSE) /\ shown' = Expect(Nul, FALSE) /\ settled' = 0
  /\ UNCHANGED <<ram, vram_data, decoded_char, change_output>>

Next == Clock \/ WriteRam \/ Scroll \/ MoveCursor \/ SetCfg \/ Key0

Spec == Init /\ [][Next]_vars

(* The clock runs.                                                         *)
FairSpec == Spec /\ WF_vars(Clock)
-----------------------------------------------------------------------------
(* Properties *)

TypeOK ==
  /\ clk_cnt \in 0 .. CLK_PER_HORIZONTAL_LINE - 1
  /\ hline_cnt \in 0 .. H_LINE_PER_FRAME - 1
  /\ scroll_offset \in Rows /\ position \in Columns \X Rows
  /\ cursor_state \in Modes
  /\ cursor_controller_state \in {"OFF", "ON", "BLINK_ON", "BLINK_OFF"}
  /\ blink_cnt \in 0 .. CNT_MAX - 1 /\ change_output \in BOOLEAN
  /\ vram_rd => cur_column \in Columns /\ cur_char_line \in Rows

(* The pixels on the wire are those of the cell at their place of the      *)
(* screen: the line of the glyph, the foreground and the background all    *)
(* come from this one cell as it was at one moment, whatever the command   *)
(* side writes, scrolls or moves meanwhile.  Only the background may       *)
(* differ, and only where the cursor is.                                   *)
ShowsScreen ==
  den => /\ char_pixel_buffer = Pixels(shown.cell, cur_char_height)
         /\ attribut_buffer.fg = shown.cell
         /\ \/ attribut_buffer.bg = shown.cell
            \/ attribut_buffer.bg = Cursor /\ shown.here

(* With its mode settled, a cursor that is on is seen wherever its cell is *)
(* shown, and a cursor that is off is not seen, whatever phase of the      *)
(* blinking the change of the mode has met.                                *)
SettledCursor ==
  (den /\ settled = SETTLED) =>
    /\ cursor_state = "ON" => (attribut_buffer.bg = Cursor <=> shown.here)
    /\ cursor_state = "OFF" => attribut_buffer.bg # Cursor

(* A cursor that is left to blink in its place is seen again and again,    *)
(* and its cell is seen without it again and again.                        *)
LeftToBlink ==
  <>[](cursor_state = "BLINK") /\ \E p \in Columns \X Rows : <>[](position = p)

CursorBlinks ==
  LeftToBlink =>
    /\ []<>(den /\ shown.here /\ attribut_buffer.bg = Cursor)
    /\ []<>(den /\ shown.here /\ attribut_buffer.bg # Cursor)
=============================================================================
