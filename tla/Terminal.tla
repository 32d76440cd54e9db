------------------------------ MODULE Terminal ------------------------------
(***************************************************************************)
(* What a program may expect of the text display: a screen of cells and a  *)
(* cursor, changed by one command at a time.  A command is a record of an  *)
(* instruction and its data (textmode_controller_pkg.vhd).                 *)
(***************************************************************************)
EXTENDS Integers

CONSTANTS COLUMN_COUNT, ROW_COUNT

ASSUME TerminalAssumption ==
  COLUMN_COUNT \in Nat \ {0, 1} /\ ROW_COUNT \in Nat \ {0, 1}

Columns == 0 .. COLUMN_COUNT - 1
Rows == 0 .. ROW_COUNT - 1

(* A terminal t: t.cell[<<x, y>>] is a Cell; t.x, t.y the cursor;          *)
(* t.rolls whether the screen moves up at its end.                         *)

(* Characters are names; a carriage return does what a line feed does.     *)
Nul == "nul"
LineFeed == "LF"
Backspace == "BS"

Cell(color, char) == [color |-> color, char |-> char]
Blank(color) == Cell(color, Nul)

Fill(t, S, c) == [t EXCEPT !.cell = [p \in DOMAIN @ |-> IF p \in S THEN c ELSE @[p]]]

ClearRow(t, color) == Fill(t, Columns \X {t.y}, Blank(color))

RollUp(t) ==
  [t EXCEPT !.cell = [p \in DOMAIN @ |->
                        @[<<p[1], IF p[2] = ROW_COUNT - 1 THEN 0 ELSE p[2] + 1>>]]]

NewLine(t, color) ==
  LET down == [t EXCEPT !.x = 0, !.y = IF t.y < ROW_COUNT - 1 THEN t.y + 1 ELSE t.y]
  IN IF ~t.rolls THEN [t EXCEPT !.x = 0, !.y = (t.y + 1) % ROW_COUNT]
     ELSE IF t.y < ROW_COUNT - 1 THEN ClearRow(down, color)
     ELSE ClearRow(RollUp(down), color)

Advance(t, color) ==
  IF t.x = COLUMN_COUNT - 1 THEN NewLine(t, color) ELSE [t EXCEPT !.x = t.x + 1]

Delete(t, color) ==
  LET back == IF t.x > 0 THEN [t EXCEPT !.x = t.x - 1]
              ELSE IF t.y > 0 THEN [t EXCEPT !.x = COLUMN_COUNT - 1, !.y = t.y - 1]
              ELSE t
  IN Fill(back, {<<back.x, back.y>>}, Blank(color))

(* What clearing the screen does is told only for a cursor at home.        *)
Apply(t, c) ==
  CASE c.op = "CLEAR_SCREEN" -> [Fill(t, Columns \X Rows, c.data) EXCEPT !.x = 0, !.y = 0]
    [] c.op = "NEW_LINE" \/ (c.op = "SET_CHAR" /\ c.data.char = LineFeed) ->
         NewLine(t, c.data.color)
    [] c.op = "DELETE" \/ (c.op = "SET_CHAR" /\ c.data.char = Backspace) ->
         Delete(t, c.data.color)
    [] c.op = "SET_CHAR" /\ c.data.char \notin {LineFeed, Backspace} ->
         Advance(Fill(t, {<<t.x, t.y>>}, c.data), c.data.color)
    [] c.op = "MOVE_CURSOR_NEXT" -> Advance(t, c.data.color)
    [] c.op = "SET_CURSOR_POSITION" -> [t EXCEPT !.x = c.data.x, !.y = c.data.y]
    [] c.op = "CFG" -> [t EXCEPT !.rolls = (c.data.auto_scroll = 0)]
    [] OTHER -> t
=============================================================================
