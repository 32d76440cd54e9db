--------------------------- MODULE TextModeProofs ---------------------------
(***************************************************************************)
(* The text display, for a screen of any size and any colours and          *)
(* configurations.  A command that is under way is told by what it still   *)
(* has to do: the terminal that the program may expect is the screen as it *)
(* is shown now, after the rest of the command.  So is a page of main.c:   *)
(* the calls that are left of it say how much of it the terminal shows.    *)
(***************************************************************************)
EXTENDS TextMode, SequenceTheorems, TLAPS

-----------------------------------------------------------------------------
(* The invariant                                                           *)

Places == Columns \X Rows
Colored == {0, 3, 10} \cup Colors
Chars == {Nul, LineFeed, Backspace, " ", "?", "a", "T", "menu", "demo", "r", "d", "e"}
Cells == [color : Colored, char : Chars]
Points == [x : Columns, y : Rows]

States == {"IDLE", "CLEAR_SCREEN", "SET_CHAR", "DELETE", "DELETE_NEXT",
           "SET_CURSOR_POSITION", "NEW_LINE", "CLEAR_LINE", "SET_CFG",
           "MOVE_CURSOR_NEXT", "NOP"}

(* Instructions whose data is a cell, and the states that use it.          *)
CellOps == {"CLEAR_SCREEN", "NOP", "NEW_LINE", "DELETE", "MOVE_CURSOR_NEXT", "SET_CHAR"}
CellStates == CellOps \cup {"DELETE_NEXT", "CLEAR_LINE"}

WellFormed ==
  [op : CellOps, data : Cells]
  \cup [op : {"SET_CURSOR_POSITION"}, data : Points]
  \cup [op : {"CFG"}, data : Configs \cup {MainConfig}]

Calls ==
  [fn : {"init", "set_colors", "clear"}]
  \cup [fn : {"print"}, txt : Seq(Chars)]
  \cup [fn : {"move"}, x : Columns, y : Rows]
  \cup [fn : {"clear_line"}, line : Rows]

FsmTypes ==
  /\ state \in States
  /\ x_cursor \in Columns /\ y_cursor \in Rows /\ sig_scroll_offset \in Rows
  /\ ram \in [Places -> Cells]
  /\ state \in CellStates => instr_data_buffer \in Cells
  /\ state = "SET_CURSOR_POSITION" => instr_data_buffer \in Points

ProgramTypes ==
  /\ pc \in {"call", "poll", "write"}
  /\ pc = "call" <=> todo = <<>>
  /\ pc = "write" => state = "IDLE"
  /\ todo \in Seq(WellFormed) /\ script \in Seq(Calls) /\ color_config \in Colored

(* The screen is cleared from its first place on, and only as long as it   *)
(* has not scrolled.                                                       *)
Unscrolled == sig_scroll_offset = 0 /\ ~MayScroll

Home == [x |-> 0, y |-> 0]

Homing ==
  \/ state = "IDLE" /\ x_cursor = 0 /\ y_cursor = 0
  \/ state = "SET_CURSOR_POSITION" /\ instr_data_buffer = Home

ClearsHome ==
  /\ state = "CLEAR_SCREEN" => sig_scroll_offset = 0
  /\ \A k \in 1 .. Len(todo) : todo[k].op = "CLEAR_SCREEN" =>
       /\ Unscrolled
       /\ \/ k = 1 /\ Homing
          \/ k = 2 /\ todo[1] = Command("SET_CURSOR_POSITION", Home)
  /\ \A k \in 1 .. Len(script) : script[k].fn = "clear" =>
       /\ Unscrolled
       /\ \A j \in 1 .. k - 1 : script[j].fn \in {"init", "set_colors"}
       /\ \A j \in 1 .. Len(todo) : todo[j].op = "CFG"

(* The terminal with the given screen, cursor and mode.                    *)
Term(cell, x, y, rolls) == [cell |-> cell, x |-> x, y |-> y, rolls |-> rolls]

Rolls == cfg_register.auto_scroll = 0
Now == Term(Screen, x_cursor, y_cursor, Rolls)
Here == <<x_cursor, y_cursor>>
Color == instr_data_buffer.color

(* The places that are still to be cleared.                                *)
RestOfLine == { p \in Places : p[2] = y_cursor /\ p[1] >= x_cursor }
RestOfScreen == RestOfLine \cup { p \in Places : p[2] > y_cursor }

(* What the commands so far should show, from what is shown now.           *)
Finishes ==
  /\ state \in {"IDLE", "NOP"} => term = Now
  /\ state = "SET_CHAR" => term = Advance(Fill(Now, {Here}, instr_data_buffer), Color)
  /\ state = "MOVE_CURSOR_NEXT" => term = Advance(Now, Color)
  /\ state = "NEW_LINE" => term = NewLine(Now, Color)
  /\ state = "CLEAR_LINE" => term = [Fill(Now, RestOfLine, Blank(Color)) EXCEPT !.x = 0]
  /\ state = "CLEAR_SCREEN" =>
       term = [Fill(Now, RestOfScreen, instr_data_buffer) EXCEPT !.x = 0, !.y = 0]
  /\ state = "DELETE" => term = Delete(Now, Color)
  /\ state = "DELETE_NEXT" => term = Fill(Now, {Here}, Blank(Color))
  /\ state = "SET_CURSOR_POSITION" =>
       term = [Now EXCEPT !.x = instr_data_buffer.x, !.y = instr_data_buffer.y]
  /\ state = "SET_CFG" => term = [Now EXCEPT !.rolls = (instr_data_buffer.auto_scroll = 0)]

TerminalInv == FsmTypes /\ ProgramTypes /\ ClearsHome /\ Finishes

-----------------------------------------------------------------------------
(* Places and terminals                                                    *)

LEMMA Sizes ==
  /\ COLUMN_COUNT \in Nat /\ COLUMN_COUNT > 1 /\ ROW_COUNT \in Nat /\ ROW_COUNT > 1
  /\ 0 \in Columns /\ 0 \in Rows /\ COLUMN_COUNT - 1 \in Columns /\ ROW_COUNT - 1 \in Rows
BY TerminalAssumption DEF Columns, Rows

LEMMA PlaceOf ==
  /\ \A x \in Columns, y \in Rows : <<x, y>> \in Places
  /\ \A p \in Places : p[1] \in Columns /\ p[2] \in Rows /\ p = <<p[1], p[2]>>
BY DEF Places

(* The row of the screen that is one further in the ring.                  *)
Below(y) == IF y = ROW_COUNT - 1 THEN 0 ELSE y + 1

LEMMA BelowRow == \A y \in Rows : Below(y) \in Rows /\ (y + 1) % ROW_COUNT = Below(y)
BY Sizes DEF Below, Rows

Row(y) == Columns \X {y}

(* A screen after the places S are filled, and after it has rolled up.     *)
Filled(cell, S, c) == [p \in Places |-> IF p \in S THEN c ELSE cell[p]]
Rolled(cell) == [p \in Places |-> cell[<<p[1], Below(p[2])>>]]

(* The changes of a terminal, by name.                                     *)
Across(t, u) == [t EXCEPT !.x = u]
At(t, u, v) == [t EXCEPT !.x = u, !.y = v]
Showing(t, cell) == [t EXCEPT !.cell = cell]
Mode(t, r) == [t EXCEPT !.rolls = r]

LEMMA FieldsOf ==
  ASSUME NEW C, NEW X, NEW Y, NEW R
  PROVE  /\ Term(C, X, Y, R).cell = C /\ Term(C, X, Y, R).x = X
         /\ Term(C, X, Y, R).y = Y /\ Term(C, X, Y, R).rolls = R
BY DEF Term

LEMMA ChangeTerm ==
  ASSUME NEW C, NEW X, NEW Y, NEW R, NEW u, NEW v
  PROVE  /\ Across(Term(C, X, Y, R), u) = Term(C, u, Y, R)
         /\ At(Term(C, X, Y, R), u, v) = Term(C, u, v, R)
         /\ Mode(Term(C, X, Y, R), u) = Term(C, X, Y, u)
         /\ Showing(Term(C, X, Y, R), u) = Term(u, X, Y, R)
<1>1. [Term(C, X, Y, R) EXCEPT !.x = u] = Term(C, u, Y, R)
  BY SMTT(20) DEF Term
<1>2. [Term(C, u, Y, R) EXCEPT !.y = v] = Term(C, u, v, R)
  BY SMTT(20) DEF Term
<1>3. [Term(C, X, Y, R) EXCEPT !.rolls = u] = Term(C, X, Y, u)
  BY SMTT(20) DEF Term
<1>4. [Term(C, X, Y, R) EXCEPT !.cell = u] = Term(u, X, Y, R)
  BY SMTT(20) DEF Term
<1> DEFINE t == Term(C, X, Y, R)
<1>5. [t EXCEPT !.x = u, !.y = v] = [[t EXCEPT !.x = u] EXCEPT !.y = v]
  <2> HIDE DEF t
  <2> QED OBVIOUS
<1> QED BY <1>1, <1>2, <1>3, <1>4, <1>5 DEF Across, At, Mode, Showing

LEMMA FillTerm ==
  ASSUME NEW C, DOMAIN C = Places, NEW X, NEW Y, NEW R, NEW S, NEW c
  PROVE  Fill(Term(C, X, Y, R), S, c) = Term(Filled(C, S, c), X, Y, R)
<1>1. \A t : Fill(t, S, c) =
        Showing(t, [p \in DOMAIN t.cell |-> IF p \in S THEN c ELSE t.cell[p]])
  BY DEF Fill, Showing
<1> DEFINE t == Term(C, X, Y, R)
<1>2. t.cell = C
  BY FieldsOf
<1>3. Showing(t, Filled(C, S, c)) = Term(Filled(C, S, c), X, Y, R)
  BY ChangeTerm
<1> HIDE DEF t
<1>4. [p \in DOMAIN t.cell |-> IF p \in S THEN c ELSE t.cell[p]] = Filled(C, S, c)
  BY <1>2 DEF Filled
<1>5. Fill(t, S, c) = Showing(t, Filled(C, S, c))
  BY <1>1, <1>4
<1> QED BY <1>3, <1>5 DEF t

LEMMA RollTerm ==
  ASSUME NEW C, DOMAIN C = Places, NEW X, NEW Y, NEW R
  PROVE  RollUp(Term(C, X, Y, R)) = Term(Rolled(C), X, Y, R)
<1>1. \A t : RollUp(t) =
        Showing(t, [p \in DOMAIN t.cell |-> t.cell[<<p[1], Below(p[2])>>]])
  BY DEF RollUp, Showing, Below
<1> DEFINE t == Term(C, X, Y, R)
<1>2. t.cell = C
  BY FieldsOf
<1>3. Showing(t, Rolled(C)) = Term(Rolled(C), X, Y, R)
  BY ChangeTerm
<1> HIDE DEF t
<1>4. [p \in DOMAIN t.cell |-> t.cell[<<p[1], Below(p[2])>>]] = Rolled(C)
  BY <1>2 DEF Rolled
<1>5. RollUp(t) = Showing(t, Rolled(C))
  BY <1>1, <1>4
<1> QED BY <1>3, <1>5 DEF t

LEMMA ScreenDomain ==
  ASSUME NEW C, NEW S, NEW c
  PROVE  DOMAIN Filled(C, S, c) = Places /\ DOMAIN Rolled(C) = Places
BY DEF Filled, Rolled

LEMMA ClearRowTerm ==
  ASSUME NEW C, DOMAIN C = Places, NEW X, NEW Y, NEW R, NEW color
  PROVE  ClearRow(Term(C, X, Y, R), color) =
           Term(Filled(C, Row(Y), Blank(color)), X, Y, R)
BY FillTerm, FieldsOf DEF ClearRow, Row

(* A truth value as a condition.                                           *)
Is(rolls) == rolls

LEMMA NewLineTerm ==
  ASSUME NEW C, DOMAIN C = Places, NEW X, NEW Y \in Rows, NEW R, NEW color
  PROVE  /\ ~Is(R) => NewLine(Term(C, X, Y, R), color) = Term(C, 0, Below(Y), R)
         /\ Is(R) /\ Y # ROW_COUNT - 1 =>
              NewLine(Term(C, X, Y, R), color) =
                Term(Filled(C, Row(Y + 1), Blank(color)), 0, Y + 1, R)
         /\ Is(R) /\ Y = ROW_COUNT - 1 =>
              NewLine(Term(C, X, Y, R), color) =
                Term(Filled(Rolled(C), Row(Y), Blank(color)), 0, Y, R)
<1>1. \A t : NewLine(t, color) =
        IF ~t.rolls THEN At(t, 0, (t.y + 1) % ROW_COUNT)
        ELSE IF t.y < ROW_COUNT - 1
        THEN ClearRow(At(t, 0, IF t.y < ROW_COUNT - 1 THEN t.y + 1 ELSE t.y), color)
        ELSE ClearRow(RollUp(At(t, 0, IF t.y < ROW_COUNT - 1 THEN t.y + 1 ELSE t.y)), color)
  BY DEF NewLine, At
<1> DEFINE t == Term(C, X, Y, R)
<1>2. t.cell = C /\ t.x = X /\ t.y = Y /\ t.rolls = R
  BY FieldsOf
<1>3. \A u, v : At(t, u, v) = Term(C, u, v, R)
  BY ChangeTerm
<1>4. Y < ROW_COUNT - 1 <=> Y # ROW_COUNT - 1
  BY Sizes DEF Rows
<1> HIDE DEF t
<1>5. CASE ~Is(R)
  BY <1>1, <1>2, <1>3, <1>5, BelowRow DEF t, Is
<1>6. CASE Is(R) /\ Y # ROW_COUNT - 1
  <2>1. NewLine(t, color) = ClearRow(At(t, 0, Y + 1), color)
    BY <1>1, <1>2, <1>4, <1>6 DEF Is
  <2>2. At(t, 0, Y + 1) = Term(C, 0, Y + 1, R)
    BY <1>3
  <2>3. ClearRow(Term(C, 0, Y + 1, R), color) =
          Term(Filled(C, Row(Y + 1), Blank(color)), 0, Y + 1, R)
    BY ClearRowTerm
  <2> QED BY <1>6, <2>1, <2>2, <2>3 DEF t
<1>7. CASE Is(R) /\ Y = ROW_COUNT - 1
  <2>1. NewLine(t, color) = ClearRow(RollUp(At(t, 0, Y)), color)
    BY <1>1, <1>2, <1>4, <1>7 DEF Is
  <2>2. RollUp(At(t, 0, Y)) = Term(Rolled(C), 0, Y, R)
    BY <1>3, RollTerm
  <2>3. ClearRow(Term(Rolled(C), 0, Y, R), color) =
          Term(Filled(Rolled(C), Row(Y), Blank(color)), 0, Y, R)
    BY ClearRowTerm, ScreenDomain
  <2> QED BY <1>7, <2>1, <2>2, <2>3 DEF t
<1> QED BY <1>5, <1>6, <1>7

(* A new line is the same from wherever in the row.                        *)
LEMMA NewLineAnywhere ==
  ASSUME NEW C, DOMAIN C = Places, NEW X, NEW Z, NEW Y \in Rows, NEW R, NEW color
  PROVE  NewLine(Term(C, X, Y, R), color) = NewLine(Term(C, Z, Y, R), color)
<1>1. CASE ~Is(R)
  <2>1. NewLine(Term(C, X, Y, R), color) = Term(C, 0, Below(Y), R)
    BY <1>1, NewLineTerm
  <2>2. NewLine(Term(C, Z, Y, R), color) = Term(C, 0, Below(Y), R)
    BY <1>1, NewLineTerm
  <2> QED BY <2>1, <2>2
<1>2. CASE Is(R) /\ Y # ROW_COUNT - 1
  BY <1>2, NewLineTerm
<1>3. CASE Is(R) /\ Y = ROW_COUNT - 1
  BY <1>3, NewLineTerm
<1> QED BY <1>1, <1>2, <1>3

LEMMA AdvanceTerm ==
  ASSUME NEW C, DOMAIN C = Places, NEW X, NEW Y, NEW R, NEW color
  PROVE  Advance(Term(C, X, Y, R), color) =
           IF X = COLUMN_COUNT - 1 THEN NewLine(Term(C, X, Y, R), color)
           ELSE Term(C, X + 1, Y, R)
<1>1. \A t : Advance(t, color) =
        IF t.x = COLUMN_COUNT - 1 THEN NewLine(t, color) ELSE Across(t, t.x + 1)
  BY DEF Advance, Across
<1> DEFINE t == Term(C, X, Y, R)
<1>2. t.x = X
  BY FieldsOf
<1>4. Across(t, X + 1) = Term(C, X + 1, Y, R)
  BY ChangeTerm
<1> HIDE DEF t
<1>3. Advance(t, color) =
        IF X = COLUMN_COUNT - 1 THEN NewLine(t, color) ELSE Term(C, X + 1, Y, R)
  BY <1>1, <1>2, <1>4
<1> QED BY <1>3 DEF t

LEMMA DeleteTerm ==
  ASSUME NEW C, DOMAIN C = Places, NEW X, NEW Y, NEW R, NEW color
  PROVE  Delete(Term(C, X, Y, R), color) =
           IF X > 0 THEN Fill(Term(C, X - 1, Y, R), {<<X - 1, Y>>}, Blank(color))
           ELSE IF Y > 0
           THEN Fill(Term(C, COLUMN_COUNT - 1, Y - 1, R), {<<COLUMN_COUNT - 1, Y - 1>>},
                     Blank(color))
           ELSE Fill(Term(C, X, Y, R), {<<X, Y>>}, Blank(color))
<1> DEFINE back(t) == IF t.x > 0 THEN Across(t, t.x - 1)
                      ELSE IF t.y > 0 THEN At(t, COLUMN_COUNT - 1, t.y - 1)
                      ELSE t
<1>1. \A t : Delete(t, color) = Fill(back(t), {<<back(t).x, back(t).y>>}, Blank(color))
  BY DEF Delete, Across, At
<1>2. back(Term(C, X, Y, R)) =
        IF X > 0 THEN Term(C, X - 1, Y, R)
        ELSE IF Y > 0 THEN Term(C, COLUMN_COUNT - 1, Y - 1, R) ELSE Term(C, X, Y, R)
  <2> DEFINE t == Term(C, X, Y, R)
  <2>1. t.x = X /\ t.y = Y
    BY FieldsOf
  <2>2. /\ Across(t, X - 1) = Term(C, X - 1, Y, R)
        /\ At(t, COLUMN_COUNT - 1, Y - 1) = Term(C, COLUMN_COUNT - 1, Y - 1, R)
    BY ChangeTerm
  <2> HIDE DEF t
  <2>3. back(t) = IF X > 0 THEN Term(C, X - 1, Y, R)
                  ELSE IF Y > 0 THEN Term(C, COLUMN_COUNT - 1, Y - 1, R) ELSE t
    BY <2>1, <2>2
  <2> QED BY <2>3 DEF t
<1> HIDE DEF back
<1> QED BY <1>1, <1>2, FieldsOf

(* Filling in two steps, and what is left to be cleared.                   *)
LEMMA FilledTwice ==
  ASSUME NEW C, NEW S, NEW T, NEW c
  PROVE  Filled(Filled(C, S, c), T, c) = Filled(C, S \cup T, c)
BY DEF Filled

LEMMA FilledSame ==
  ASSUME NEW C, NEW S, NEW T, NEW c, \A p \in Places : p \in S <=> p \in T
  PROVE  Filled(C, S, c) = Filled(C, T, c)
BY DEF Filled

LEMMA FilledAll ==
  ASSUME NEW C, NEW D, NEW S, NEW c, Places \subseteq S
  PROVE  Filled(C, S, c) = Filled(D, Places, c)
BY DEF Filled

-----------------------------------------------------------------------------
(* The ring of rows                                                        *)

LEMMA RingRow ==
  ASSUME sig_scroll_offset \in Rows, NEW y \in Rows
  PROVE  /\ RamRow(y) \in Rows
         /\ \A z \in Rows : RamRow(z) = RamRow(y) => z = y
BY Sizes DEF RamRow, Rows

LEMMA ShownCell ==
  /\ DOMAIN Screen = Places
  /\ \A p \in Places : Screen[p] = ram[<<p[1], RamRow(p[2])>>]
BY DEF Screen, Places

LEMMA SameScreen == ASSUME UNCHANGED <<ram, sig_scroll_offset>> PROVE Screen' = Screen
BY DEF Screen, RamRow

LEMMA Written ==
  ASSUME FsmTypes, NEW c \in Cells, WriteRam(c), sig_scroll_offset' = sig_scroll_offset
  PROVE  /\ ram' \in [Places -> Cells]
         /\ Screen' = Filled(Screen, {Here}, c)
<1>1. /\ ram \in [Places -> Cells] /\ x_cursor \in Columns /\ y_cursor \in Rows
      /\ sig_scroll_offset \in Rows
  BY DEF FsmTypes
<1>2. <<x_cursor, RamRow(y_cursor)>> \in Places
  BY <1>1, RingRow, PlaceOf
<1>3. ram' = [ram EXCEPT ![<<x_cursor, RamRow(y_cursor)>>] = c]
  BY DEF WriteRam
<1>4. ram' \in [Places -> Cells]
  BY <1>1, <1>2, <1>3
<1>5. ASSUME NEW p \in Places
      PROVE  ram'[<<p[1], RamRow(p[2])>>] =
               IF p \in {Here} THEN c ELSE ram[<<p[1], RamRow(p[2])>>]
  <2>1. p[1] \in Columns /\ p[2] \in Rows /\ p = <<p[1], p[2]>>
    BY PlaceOf
  <2>2. RamRow(p[2]) \in Rows /\ <<p[1], RamRow(p[2])>> \in Places
    BY <1>1, <2>1, RingRow, PlaceOf
  <2>3. <<p[1], RamRow(p[2])>> = <<x_cursor, RamRow(y_cursor)>> <=> p = Here
    <3>1. RamRow(p[2]) = RamRow(y_cursor) => p[2] = y_cursor
      BY <1>1, <2>1, RingRow
    <3> HIDE DEF RamRow
    <3>2. p = Here <=> p[1] = x_cursor /\ p[2] = y_cursor
      BY <2>1 DEF Here
    <3> QED BY <3>1, <3>2
  <2> QED BY <1>1, <1>2, <1>3, <2>2, <2>3
<1>6. Screen' = [p \in Places |-> ram'[<<p[1], RamRow(p[2])>>]]
  BY DEF Screen, RamRow, Places
<1>7. \A p \in Places : Screen[p] = ram[<<p[1], RamRow(p[2])>>]
  BY ShownCell
<1> QED BY <1>4, <1>5, <1>6, <1>7 DEF Filled

LEMMA Scrolled ==
  ASSUME FsmTypes, ram' = ram,
         sig_scroll_offset' =
           IF sig_scroll_offset = ROW_COUNT - 1 THEN 0 ELSE sig_scroll_offset + 1
  PROVE  Screen' = Rolled(Screen)
<1>1. sig_scroll_offset \in Rows
  BY DEF FsmTypes
<1>2. ASSUME NEW y \in Rows PROVE RamRow(y)' = RamRow(Below(y))
  BY <1>1, Sizes DEF RamRow, Below, Rows
<1>3. Screen' = [p \in Places |-> ram[<<p[1], RamRow(p[2])'>>]]
  BY DEF Screen, RamRow, Places
<1>4. ASSUME NEW p \in Places
      PROVE  ram[<<p[1], RamRow(p[2])'>>] = Screen[<<p[1], Below(p[2])>>]
  <2>1. p[1] \in Columns /\ p[2] \in Rows
    BY PlaceOf
  <2>2. <<p[1], Below(p[2])>> \in Places
    BY <2>1, BelowRow, PlaceOf
  <2>3. Screen[<<p[1], Below(p[2])>>] = ram[<<p[1], RamRow(Below(p[2]))>>]
    BY <2>2, ShownCell
  <2> QED BY <1>2, <2>1, <2>3
<1> QED BY <1>3, <1>4 DEF Rolled

-----------------------------------------------------------------------------
(* The state machine                                                       *)

Work ==
  \/ ClearScreen \/ SetChar \/ MoveCursorNext \/ DeleteBack \/ DeleteNext
  \/ SetCursorPosition \/ NewLineState \/ ClearLine \/ SetCfg \/ Nop

LEMMA ClockIs ==
  /\ Clock(FALSE) => (state = "IDLE" /\ UNCHANGED fsm) \/ Work
  /\ Clock(TRUE) =>
       \/ /\ state = "IDLE"
          /\ textmode_controller_state' = StateOf(Head(todo))
          /\ instr_data_buffer' = Head(todo).data
          /\ UNCHANGED <<x_cursor, y_cursor, sig_scroll_offset, cfg_register, ram>>
       \/ Work
  /\ Work => state # "IDLE"
<1>1. Clock(FALSE) => Idle(FALSE) \/ Work
  BY Zenon DEF Clock, Work
<1>2. Clock(TRUE) => Idle(TRUE) \/ Work
  BY Zenon DEF Clock, Work
<1>3. Idle(FALSE) => state = "IDLE" /\ UNCHANGED fsm
  BY DEF Idle, fsm, state
<1>4. Idle(TRUE) =>
        /\ state = "IDLE"
        /\ textmode_controller_state' = StateOf(Head(todo))
        /\ instr_data_buffer' = Head(todo).data
        /\ UNCHANGED <<x_cursor, y_cursor, sig_scroll_offset, cfg_register, ram>>
  BY DEF Idle, Goto
<1>5. Work => state # "IDLE"
  BY DEF Work, ClearScreen, SetChar, MoveCursorNext, DeleteBack, DeleteNext,
         SetCursorPosition, NewLineState, ClearLine, SetCfg, Nop
<1> QED BY <1>1, <1>2, <1>3, <1>4, <1>5

LEMMA CellTypes ==
  /\ \A c \in Cells : c.color \in Colored
  /\ \A color \in Colored : Blank(color) \in Cells
  /\ \A color \in Colored, ch \in Chars : Cell(color, ch) \in Cells
  /\ Junk \in Cells
<1>1. \A c \in Cells : c.color \in Colored
  BY DEF Cells
<1>2. \A color \in Colored, ch \in Chars : Cell(color, ch) \in Cells
  BY DEF Cells, Cell
<1>3. Nul \in Chars /\ "?" \in Chars
  BY DEF Chars
<1>4. 0 \in Colored
  BY DEF Colored
<1> QED BY <1>1, <1>2, <1>3, <1>4 DEF Blank, Junk

LEMMA NextColumnType == ASSUME x_cursor \in Columns PROVE NextColumn \in Columns
BY Sizes DEF NextColumn, Columns

LEMMA WorkTypes ==
  ASSUME FsmTypes, Work
  PROVE  FsmTypes'
<1> USE DEF Goto, Cursor, state
<1>1. /\ x_cursor \in Columns /\ y_cursor \in Rows /\ sig_scroll_offset \in Rows
      /\ ram \in [Places -> Cells] /\ NextColumn \in Columns
  BY NextColumnType DEF FsmTypes
<1>2. y_cursor < ROW_COUNT - 1 => y_cursor + 1 \in Rows
  BY <1>1, Sizes DEF Rows
<1>3. CASE ClearScreen
  <2>1. instr_data_buffer \in Cells
    BY <1>3 DEF ClearScreen, FsmTypes, CellStates, CellOps
  <2>2. WriteRam(instr_data_buffer) /\ UNCHANGED <<cfg_register, instr_data_buffer>>
    BY <1>3 DEF ClearScreen
  <2>3. ram' \in [Places -> Cells]
    <3>1. <<x_cursor, RamRow(y_cursor)>> \in Places
      BY <1>1, RingRow, PlaceOf
    <3> HIDE DEF state
    <3> QED BY <1>1, <2>1, <2>2, <3>1 DEF WriteRam
  <2>4. x_cursor' \in Columns /\ y_cursor' \in Rows /\ sig_scroll_offset' \in Rows
    BY <1>1, <1>3, Sizes DEF ClearScreen, Rows
  <2>5. textmode_controller_state' \in {"IDLE", "CLEAR_SCREEN"}
    BY <1>3 DEF ClearScreen
  <2> QED BY <2>1, <2>2, <2>3, <2>4, <2>5 DEF FsmTypes, States, CellStates, CellOps
<1>4. CASE SetChar
  <2>1. instr_data_buffer \in Cells
    BY <1>4 DEF SetChar, FsmTypes, CellStates, CellOps
  <2>2. /\ WriteRam(instr_data_buffer)
        /\ UNCHANGED <<x_cursor, y_cursor, sig_scroll_offset, cfg_register, instr_data_buffer>>
    BY <1>4 DEF SetChar
  <2>3. ram' \in [Places -> Cells]
    BY <2>1, <2>2, Written
  <2>4. textmode_controller_state' \in {"SET_CHAR", "MOVE_CURSOR_NEXT"}
    BY <1>4 DEF SetChar
  <2> QED BY <1>1, <2>1, <2>2, <2>3, <2>4 DEF FsmTypes, States, CellStates, CellOps
<1>5. CASE MoveCursorNext
  <2>1. instr_data_buffer \in Cells
    BY <1>5 DEF MoveCursorNext, FsmTypes, CellStates, CellOps
  <2> QED BY <1>1, <1>5, <2>1 DEF MoveCursorNext, FsmTypes, States, CellStates, CellOps
<1>6. CASE DeleteBack
  <2>1. instr_data_buffer \in Cells
    BY <1>6 DEF DeleteBack, FsmTypes, CellStates, CellOps
  <2>2. x_cursor' \in Columns /\ y_cursor' \in Rows
    BY <1>1, <1>6, Sizes DEF DeleteBack, Columns, Rows
  <2> QED BY <1>1, <1>6, <2>1, <2>2 DEF DeleteBack, FsmTypes, States, CellStates, CellOps
<1>7. CASE DeleteNext \/ ClearLine
  <2>1. instr_data_buffer \in Cells
    BY <1>7 DEF DeleteNext, ClearLine, FsmTypes, CellStates, CellOps
  <2>2. /\ WriteRam(Blank(instr_data_buffer.color))
        /\ UNCHANGED <<y_cursor, sig_scroll_offset, cfg_register, instr_data_buffer>>
    BY <1>7 DEF DeleteNext, ClearLine
  <2>3. ram' \in [Places -> Cells]
    BY <2>1, <2>2, CellTypes, Written
  <2>4. /\ textmode_controller_state' \in {"IDLE", "CLEAR_LINE"}
        /\ x_cursor' \in Columns
    BY <1>1, <1>7 DEF DeleteNext, ClearLine
  <2> QED BY <1>1, <2>1, <2>2, <2>3, <2>4 DEF FsmTypes, States, CellStates, CellOps
<1>8. CASE SetCursorPosition
  <2>1. instr_data_buffer \in Points
    BY <1>8 DEF SetCursorPosition, FsmTypes
  <2>2. x_cursor' \in Columns /\ y_cursor' \in Rows
    BY <1>8, <2>1 DEF SetCursorPosition, Points
  <2> QED BY <1>1, <1>8, <2>2 DEF SetCursorPosition, FsmTypes, States, CellStates, CellOps
<1>9. CASE NewLineState
  <2>1. instr_data_buffer \in Cells
    BY <1>9 DEF NewLineState, FsmTypes, CellStates, CellOps
  <2>2. x_cursor' \in Columns /\ y_cursor' \in Rows /\ sig_scroll_offset' \in Rows
    BY <1>1, <1>9, Sizes DEF NewLineState, Rows
  <2>3. /\ textmode_controller_state' \in {"CLEAR_LINE", "IDLE"}
        /\ UNCHANGED <<instr_data_buffer, ram>>
    BY <1>9 DEF NewLineState
  <2> QED BY <1>1, <2>1, <2>2, <2>3 DEF FsmTypes, States, CellStates, CellOps
<1>10. CASE SetCfg \/ Nop
  BY <1>1, <1>10 DEF SetCfg, Nop, FsmTypes, States, CellStates, CellOps
<1> QED BY <1>3, <1>4, <1>5, <1>6, <1>7, <1>8, <1>9, <1>10 DEF Work

-----------------------------------------------------------------------------
(* What is left of a command                                               *)

LEMMA NowNext ==
  ASSUME cfg_register' = cfg_register
  PROVE  Now' = Term(Screen', x_cursor', y_cursor', Rolls)
BY DEF Now, Rolls

LEMMA Remaining ==
  ASSUME FsmTypes
  PROVE  /\ x_cursor' = x_cursor + 1 /\ y_cursor' = y_cursor /\ x_cursor # COLUMN_COUNT - 1 =>
              \A p \in Places : p \in RestOfLine <=> p \in {Here} \cup RestOfLine'
         /\ x_cursor = COLUMN_COUNT - 1 => \A p \in Places : p \in RestOfLine <=> p \in {Here}
         /\ x_cursor = 0 => \A p \in Places : p \in RestOfLine <=> p \in Row(y_cursor)
<1>1. x_cursor \in Int /\ y_cursor \in Int
  BY DEF FsmTypes, Columns, Rows
<1>2. ASSUME NEW p \in Places
      PROVE  /\ p[1] \in Int /\ p[2] \in Int /\ p[1] >= 0 /\ p[1] <= COLUMN_COUNT - 1
             /\ p = Here <=> p[1] = x_cursor /\ p[2] = y_cursor
             /\ p \in Row(y_cursor) <=> p[2] = y_cursor
             /\ p \in RestOfLine <=> p[2] = y_cursor /\ p[1] >= x_cursor
             /\ p \in RestOfLine' <=> p[2] = y_cursor' /\ p[1] >= x_cursor'
  <2>1. p[1] \in Columns /\ p[2] \in Rows /\ p = <<p[1], p[2]>>
    BY PlaceOf
  <2>2. p \in RestOfLine <=> p[2] = y_cursor /\ p[1] >= x_cursor
    BY DEF RestOfLine
  <2>3. p \in RestOfLine' <=> p[2] = y_cursor' /\ p[1] >= x_cursor'
    BY DEF RestOfLine, Places, Columns, Rows
  <2>4. p = Here <=> p[1] = x_cursor /\ p[2] = y_cursor
    BY <2>1 DEF Here
  <2>5. p \in Row(y_cursor) <=> p[2] = y_cursor
    BY <2>1 DEF Row
  <2> QED BY <2>1, <2>2, <2>3, <2>4, <2>5, Sizes DEF Columns, Rows
<1>3. CASE x_cursor' = x_cursor + 1 /\ y_cursor' = y_cursor /\ x_cursor # COLUMN_COUNT - 1
  <2>1. \A p \in Places : p \in RestOfLine <=> p \in {Here} \cup RestOfLine'
    BY <1>1, <1>2, <1>3
  <2> QED BY <1>1, <1>2, <2>1, Sizes
<1> QED BY <1>1, <1>2, <1>3, Sizes

LEMMA RemainingNext ==
  FsmTypes' /\ x_cursor' = 0 => \A p \in Places : p \in RestOfLine' <=> p \in Row(y_cursor')
<1>1. FsmTypes /\ x_cursor = 0 => \A p \in Places : p \in RestOfLine <=> p \in Row(y_cursor)
  BY Remaining
<1>2. (FsmTypes /\ x_cursor = 0 =>
         \A p \in Places : p \in RestOfLine <=> p \in Row(y_cursor))'
  BY <1>1, PTL
<1>3. Places' = Places /\ Row(y_cursor)' = Row(y_cursor')
  BY DEF Places, Columns, Rows, Row
<1> QED BY <1>2, <1>3

LEMMA RemainingScreen ==
  ASSUME FsmTypes
  PROVE  /\ x_cursor = COLUMN_COUNT - 1 /\ y_cursor = ROW_COUNT - 1 =>
              \A p \in Places : p \in RestOfScreen <=> p \in {Here}
         /\ \/ /\ x_cursor # COLUMN_COUNT - 1
               /\ x_cursor' = x_cursor + 1 /\ y_cursor' = y_cursor
            \/ /\ x_cursor = COLUMN_COUNT - 1 /\ y_cursor # ROW_COUNT - 1
               /\ x_cursor' = 0 /\ y_cursor' = y_cursor + 1
            => \A p \in Places : p \in RestOfScreen <=> p \in {Here} \cup RestOfScreen'
<1>1. x_cursor \in Int /\ y_cursor \in Int /\ COLUMN_COUNT \in Int /\ ROW_COUNT \in Int
  BY Sizes DEF FsmTypes, Columns, Rows
<1>2. ASSUME NEW p \in Places
      PROVE  /\ p[1] \in Int /\ p[2] \in Int
             /\ p[1] >= 0 /\ p[1] <= COLUMN_COUNT - 1 /\ p[2] <= ROW_COUNT - 1
             /\ p = Here <=> p[1] = x_cursor /\ p[2] = y_cursor
             /\ p \in RestOfScreen <=>
                  (p[2] = y_cursor /\ p[1] >= x_cursor) \/ p[2] > y_cursor
             /\ p \in RestOfScreen' <=>
                  (p[2] = y_cursor' /\ p[1] >= x_cursor') \/ p[2] > y_cursor'
  <2>1. p[1] \in Columns /\ p[2] \in Rows /\ p = <<p[1], p[2]>>
    BY PlaceOf
  <2>2. p \in RestOfScreen <=> (p[2] = y_cursor /\ p[1] >= x_cursor) \/ p[2] > y_cursor
    BY DEF RestOfScreen, RestOfLine
  <2>3. p \in RestOfScreen' <=>
          (p[2] = y_cursor' /\ p[1] >= x_cursor') \/ p[2] > y_cursor'
    BY DEF RestOfScreen, RestOfLine, Places, Columns, Rows
  <2>4. p = Here <=> p[1] = x_cursor /\ p[2] = y_cursor
    BY <2>1 DEF Here
  <2>5. p[1] \in 0 .. COLUMN_COUNT - 1 /\ p[2] \in 0 .. ROW_COUNT - 1
    BY <2>1 DEF Columns, Rows
  <2> QED BY <1>1, <2>2, <2>3, <2>4, <2>5
<1>3. ASSUME x_cursor # COLUMN_COUNT - 1, x_cursor' = x_cursor + 1, y_cursor' = y_cursor,
             NEW p \in Places
      PROVE  p \in RestOfScreen <=> p = Here \/ p \in RestOfScreen'
  BY <1>1, <1>2, <1>3
<1>4. ASSUME x_cursor = COLUMN_COUNT - 1, x_cursor' = 0, y_cursor' = y_cursor + 1,
             NEW p \in Places
      PROVE  p \in RestOfScreen <=> p = Here \/ p \in RestOfScreen'
  BY <1>1, <1>2, <1>4
<1>5. ASSUME x_cursor = COLUMN_COUNT - 1, y_cursor = ROW_COUNT - 1, NEW p \in Places
      PROVE  p \in RestOfScreen <=> p = Here
  BY <1>1, <1>2, <1>5
<1> QED BY <1>3, <1>4, <1>5

LEMMA WorkFinishes ==
  ASSUME FsmTypes, ClearsHome, Finishes, Work, term' = term
  PROVE  Finishes'
<1> DEFINE c == instr_data_buffer
           S == Screen
           X == x_cursor
           Y == y_cursor
           R == Rolls
<1>1. DOMAIN S = Places /\ X \in Columns /\ Y \in Rows
  BY ShownCell DEF FsmTypes
<1>2. Now = Term(S, X, Y, R)
  BY DEF Now
<1>3. state \in CellStates => c \in Cells /\ Blank(Color) \in Cells
  BY CellTypes DEF FsmTypes, Color
<1> HIDE DEF S, R
<1>4. \A T, b : Fill(Now, T, b) = Term(Filled(S, T, b), X, Y, R)
  BY <1>1, <1>2, FillTerm
<1>15. FsmTypes'
  BY WorkTypes
<1>5. CASE SetChar
  <2>1. /\ state = "SET_CHAR" /\ WriteRam(c) /\ c \in Cells
        /\ UNCHANGED <<x_cursor, y_cursor, sig_scroll_offset, cfg_register, instr_data_buffer>>
    BY <1>3, <1>5 DEF SetChar, CellStates, CellOps
  <2>2. Screen' = Filled(S, {Here}, c)
    BY <2>1, Written DEF S
  <2>3. Now' = Term(Filled(S, {Here}, c), X, Y, R)
    BY <2>1, <2>2, NowNext DEF R
  <2>4. term' = Advance(Now', Color')
    BY <1>4, <2>1, <2>3 DEF Finishes, Color
  <2>5. Fill(Now', {Here}, c) = Now'
    <3>1. Fill(Now', {Here}, c) = Term(Filled(Filled(S, {Here}, c), {Here}, c), X, Y, R)
      BY <2>3, FillTerm, ScreenDomain
    <3>2. Filled(Filled(S, {Here}, c), {Here}, c) = Filled(S, {Here}, c)
      BY FilledTwice, FilledSame
    <3> QED BY <2>3, <3>1, <3>2
  <2>6. Here' = Here
    BY <2>1 DEF Here
  <2>7. state' \in {"SET_CHAR", "MOVE_CURSOR_NEXT"}
    BY <1>5, <2>1 DEF SetChar, Goto, state
  <2> HIDE DEF c
  <2> QED BY <2>1, <2>4, <2>5, <2>6, <2>7 DEF Finishes, c
<1>6. CASE MoveCursorNext
  <2>1. /\ state = "MOVE_CURSOR_NEXT" /\ c' = c
        /\ UNCHANGED <<y_cursor, sig_scroll_offset, cfg_register, ram>>
        /\ x_cursor' = NextColumn
        /\ state' = IF X = COLUMN_COUNT - 1 THEN "NEW_LINE" ELSE "IDLE"
    BY <1>6 DEF MoveCursorNext, Goto, Cursor, state
  <2>2. Now' = Term(S, NextColumn, Y, R)
    BY <2>1, NowNext, SameScreen DEF S, R
  <2>3. term = Advance(Term(S, X, Y, R), Color)
    BY <1>2, <2>1 DEF Finishes
  <2>4. CASE X = COLUMN_COUNT - 1
    <3>1. term = NewLine(Term(S, X, Y, R), Color)
      BY <1>1, <2>3, <2>4, AdvanceTerm
    <3>2. NewLine(Term(S, X, Y, R), Color) = NewLine(Term(S, 0, Y, R), Color)
      BY <1>1, NewLineAnywhere
    <3>3. Now' = Term(S, 0, Y, R) /\ Color' = Color /\ state' = "NEW_LINE"
      BY <2>1, <2>2, <2>4 DEF NextColumn, Color
    <3> QED BY <3>1, <3>2, <3>3 DEF Finishes
  <2>5. CASE X # COLUMN_COUNT - 1
    <3>1. term = Term(S, X + 1, Y, R)
      BY <1>1, <2>3, <2>5, AdvanceTerm
    <3>2. Now' = Term(S, X + 1, Y, R) /\ state' = "IDLE"
      BY <2>1, <2>2, <2>5 DEF NextColumn
    <3> QED BY <3>1, <3>2 DEF Finishes
  <2> QED BY <2>4, <2>5
<1>7. CASE DeleteBack
  <2>1. /\ state = "DELETE" /\ state' = "DELETE_NEXT" /\ c' = c
        /\ UNCHANGED <<sig_scroll_offset, cfg_register, ram>>
    BY <1>7 DEF DeleteBack, Goto, state
  <2>2. Now' = Term(S, x_cursor', y_cursor', R)
    BY <2>1, NowNext, SameScreen DEF S, R
  <2>3. term = Delete(Term(S, X, Y, R), Color)
    BY <1>2, <2>1 DEF Finishes
  <2>4. term = Fill(Now', {<<x_cursor', y_cursor'>>}, Blank(Color))
    <3>1. Delete(Term(S, X, Y, R), Color) =
            IF X > 0 THEN Fill(Term(S, X - 1, Y, R), {<<X - 1, Y>>}, Blank(Color))
            ELSE IF Y > 0
            THEN Fill(Term(S, COLUMN_COUNT - 1, Y - 1, R), {<<COLUMN_COUNT - 1, Y - 1>>},
                      Blank(Color))
            ELSE Fill(Term(S, X, Y, R), {<<X, Y>>}, Blank(Color))
      BY <1>1, DeleteTerm, ZenonT(30)
    <3>2. IF X > 0 THEN x_cursor' = X - 1 /\ y_cursor' = Y
          ELSE IF Y > 0 THEN x_cursor' = COLUMN_COUNT - 1 /\ y_cursor' = Y - 1
          ELSE x_cursor' = X /\ y_cursor' = Y
      BY <1>7 DEF DeleteBack, Cursor
    <3> QED BY <2>2, <2>3, <3>1, <3>2
  <2>5. Here' = <<x_cursor', y_cursor'>> /\ Color' = Color
    BY <2>1 DEF Here, Color
  <2> QED BY <2>1, <2>4, <2>5 DEF Finishes
<1>8. CASE DeleteNext
  <2>1. /\ state = "DELETE_NEXT" /\ state' = "IDLE" /\ WriteRam(Blank(Color))
        /\ Blank(Color) \in Cells
        /\ UNCHANGED <<x_cursor, y_cursor, sig_scroll_offset, cfg_register, instr_data_buffer>>
    BY <1>3, <1>8 DEF DeleteNext, CellStates, CellOps, Goto, state, Color
  <2>2. Screen' = Filled(S, {Here}, Blank(Color))
    BY <2>1, Written DEF S
  <2>3. Now' = Term(Filled(S, {Here}, Blank(Color)), X, Y, R)
    BY <2>1, <2>2, NowNext DEF R
  <2> QED BY <1>4, <2>1, <2>3 DEF Finishes
<1>9. CASE SetCursorPosition
  <2>1. /\ state = "SET_CURSOR_POSITION" /\ state' = "IDLE"
        /\ x_cursor' = c.x /\ y_cursor' = c.y
        /\ UNCHANGED <<sig_scroll_offset, cfg_register, ram>>
    BY <1>9 DEF SetCursorPosition, Goto, Cursor, state
  <2>2. Now' = Term(S, c.x, c.y, R)
    BY <2>1, NowNext, SameScreen DEF S, R
  <2>3. term = At(Now, c.x, c.y)
    BY <2>1 DEF Finishes, At
  <2>4. At(Term(S, X, Y, R), c.x, c.y) = Term(S, c.x, c.y, R)
    BY ChangeTerm
  <2> QED BY <1>2, <2>1, <2>2, <2>3, <2>4 DEF Finishes
<1>10. CASE SetCfg
  <2> DEFINE r == instr_data_buffer.auto_scroll = 0
  <2>1. /\ state = "SET_CFG" /\ state' = "IDLE"
        /\ UNCHANGED <<x_cursor, y_cursor, sig_scroll_offset, ram>>
    BY <1>10 DEF SetCfg, Goto, state
  <2>2. Rolls' = r
    BY <1>10 DEF SetCfg, Rolls
  <2>3. term = Mode(Now, r)
    BY <2>1 DEF Finishes, Mode
  <2> HIDE DEF r
  <2>4. Now' = Term(S, X, Y, r)
    BY <2>1, <2>2, SameScreen DEF Now, S
  <2>5. Mode(Term(S, X, Y, R), r) = Term(S, X, Y, r)
    BY ChangeTerm
  <2> QED BY <1>2, <2>1, <2>3, <2>4, <2>5 DEF Finishes
<1>11. CASE Nop
  <2>1. /\ state = "NOP" /\ state' = "IDLE"
        /\ UNCHANGED <<x_cursor, y_cursor, sig_scroll_offset, cfg_register, ram>>
    BY <1>11 DEF Nop, Goto, state
  <2>2. Now' = Term(S, X, Y, R)
    BY <2>1, NowNext, SameScreen DEF S, R
  <2> QED BY <1>2, <2>1, <2>2 DEF Finishes
<1>12. CASE NewLineState
  <2>1. /\ state = "NEW_LINE" /\ x_cursor' = 0 /\ Color' = Color
        /\ UNCHANGED <<cfg_register, ram>>
    BY <1>12 DEF NewLineState, Color, state
  <2>2. term = NewLine(Term(S, X, Y, R), Color)
    BY <1>2, <2>1 DEF Finishes
  <2>3. Y < ROW_COUNT - 1 <=> Y # ROW_COUNT - 1
    BY <1>1, Sizes DEF Rows
  <2>4. CASE ~Is(R)
    <3>1. cfg_register.auto_scroll # 0
      BY <2>4 DEF R, Rolls, Is
    <3>2. /\ state' = "IDLE" /\ y_cursor' = Below(Y)
          /\ sig_scroll_offset' = sig_scroll_offset
      BY <1>12, <2>3, <3>1 DEF NewLineState, Goto, Below, state
    <3>3. Now' = Term(S, 0, Below(Y), R)
      BY <2>1, <3>2, NowNext, SameScreen DEF S, R
    <3>4. term = Term(S, 0, Below(Y), R)
      BY <1>1, <2>2, <2>4, NewLineTerm
    <3> QED BY <3>2, <3>3, <3>4 DEF Finishes
  <2>5. CASE Is(R)
    <3>1. cfg_register.auto_scroll = 0
      BY <2>5 DEF R, Rolls, Is
    <3>2. state' = "CLEAR_LINE"
      BY <1>12, <3>1 DEF NewLineState, Goto, state
    <3>3. PICK D : /\ DOMAIN D = Places /\ Screen' = D
                   /\ term = Term(Filled(D, Row(y_cursor'), Blank(Color)), 0, y_cursor', R)
      <4>1. CASE Y # ROW_COUNT - 1
        <5>1. y_cursor' = Y + 1 /\ sig_scroll_offset' = sig_scroll_offset
          BY <1>12, <2>3, <4>1 DEF NewLineState
        <5>2. Screen' = S
          BY <2>1, <5>1, SameScreen DEF S
        <5>3. term = Term(Filled(S, Row(Y + 1), Blank(Color)), 0, Y + 1, R)
          BY <1>1, <2>2, <2>5, <4>1, NewLineTerm
        <5> QED BY <1>1, <5>1, <5>2, <5>3
      <4>2. CASE Y = ROW_COUNT - 1
        <5>1. /\ y_cursor' = Y
              /\ sig_scroll_offset' = IF sig_scroll_offset = ROW_COUNT - 1 THEN 0
                                      ELSE sig_scroll_offset + 1
          BY <1>12, <2>3, <3>1, <4>2 DEF NewLineState
        <5>2. Screen' = Rolled(S)
          BY <2>1, <5>1, Scrolled DEF S
        <5>3. term = Term(Filled(Rolled(S), Row(Y), Blank(Color)), 0, Y, R)
          BY <1>1, <2>2, <2>5, <4>2, NewLineTerm
        <5> QED BY <5>1, <5>2, <5>3, ScreenDomain
      <4> QED BY <4>1, <4>2
    <3>4. Now' = Term(D, 0, y_cursor', R)
      BY <2>1, <3>3, NowNext DEF R
    <3>5. \A p \in Places : p \in RestOfLine' <=> p \in Row(y_cursor')
      BY <1>15, <2>1, RemainingNext
    <3>6. Fill(Now', RestOfLine', Blank(Color)) =
            Term(Filled(D, Row(y_cursor'), Blank(Color)), 0, y_cursor', R)
      <4>1. Fill(Now', RestOfLine', Blank(Color)) =
              Term(Filled(D, RestOfLine', Blank(Color)), 0, y_cursor', R)
        BY <3>3, <3>4, FillTerm
      <4>2. Filled(D, RestOfLine', Blank(Color)) = Filled(D, Row(y_cursor'), Blank(Color))
        BY <3>5, FilledSame
      <4> QED BY <4>1, <4>2
    <3>7. Across(Fill(Now', RestOfLine', Blank(Color)), 0) = term
      BY <3>3, <3>6, ChangeTerm
    <3> QED BY <2>1, <3>2, <3>7 DEF Finishes, Across
  <2> QED BY <2>4, <2>5
<1>13. CASE ClearLine
  <2>1. /\ state = "CLEAR_LINE" /\ WriteRam(Blank(Color)) /\ Color' = Color
        /\ x_cursor' = NextColumn /\ y_cursor' = Y
        /\ state' = IF X = COLUMN_COUNT - 1 THEN "IDLE" ELSE "CLEAR_LINE"
        /\ UNCHANGED <<sig_scroll_offset, cfg_register>>
        /\ Blank(Color) \in Cells
    BY <1>3, <1>13 DEF ClearLine, Goto, Cursor, state, Color, CellStates
  <2> DEFINE b == Blank(Color)
             D == Filled(S, {Here}, b)
  <2>2. Screen' = D
    BY <2>1, Written DEF S
  <2>3. Now' = Term(D, NextColumn, Y, R)
    BY <2>1, <2>2, NowNext DEF R
  <2>4. term = Term(Filled(S, RestOfLine, b), 0, Y, R)
    <3>1. term = Across(Fill(Now, RestOfLine, b), 0)
      BY <2>1 DEF Finishes, Across
    <3> QED BY <1>4, <3>1, ChangeTerm
  <2>5. CASE X = COLUMN_COUNT - 1
    <3>1. \A p \in Places : p \in RestOfLine <=> p \in {Here}
      BY <2>5, Remaining
    <3>2. Filled(S, RestOfLine, b) = D
      BY <3>1, FilledSame
    <3>3. NextColumn = 0 /\ state' = "IDLE"
      BY <2>1, <2>5 DEF NextColumn
    <3> HIDE DEF D, b
    <3> QED BY <2>3, <2>4, <3>2, <3>3 DEF Finishes
  <2>6. CASE X # COLUMN_COUNT - 1
    <3>1. \A p \in Places : p \in RestOfLine <=> p \in {Here} \cup RestOfLine'
      BY <2>1, <2>6, Remaining DEF NextColumn
    <3>2. Filled(S, RestOfLine, b) = Filled(D, RestOfLine', b)
      <4>1. Filled(S, RestOfLine, b) = Filled(S, {Here} \cup RestOfLine', b)
        BY <3>1, FilledSame
      <4>2. Filled(D, RestOfLine', b) = Filled(S, {Here} \cup RestOfLine', b)
        BY FilledTwice
      <4> QED BY <4>1, <4>2
    <3>3. Fill(Now', RestOfLine', b) = Term(Filled(D, RestOfLine', b), NextColumn, Y, R)
      BY <2>3, FillTerm, ScreenDomain
    <3>4. Across(Fill(Now', RestOfLine', b), 0) = Term(Filled(S, RestOfLine, b), 0, Y, R)
      BY <3>2, <3>3, ChangeTerm
    <3>5. term = Across(Fill(Now', RestOfLine', b), 0)
      BY <2>4, <3>4
    <3> QED BY <2>1, <2>6, <3>5 DEF Finishes, Across
  <2> QED BY <2>5, <2>6
<1>14. CASE ClearScreen
  <2>1. /\ state = "CLEAR_SCREEN" /\ WriteRam(c) /\ c' = c /\ c \in Cells
        /\ x_cursor' = NextColumn
        /\ y_cursor' = IF X # COLUMN_COUNT - 1 THEN Y
                       ELSE IF Y = ROW_COUNT - 1 THEN 0 ELSE Y + 1
        /\ state' = IF X = COLUMN_COUNT - 1 /\ Y = ROW_COUNT - 1 THEN "IDLE"
                    ELSE "CLEAR_SCREEN"
        /\ cfg_register' = cfg_register
    BY <1>3, <1>14 DEF ClearScreen, Goto, Cursor, state, CellStates, CellOps
  <2>2. sig_scroll_offset' = sig_scroll_offset
    BY <1>14, <2>1 DEF ClearScreen, ClearsHome
  <2> DEFINE D == Filled(S, {Here}, c)
  <2>3. Screen' = D
    BY <2>1, <2>2, Written DEF S
  <2>4. Now' = Term(D, x_cursor', y_cursor', R)
    BY <2>1, <2>3, NowNext DEF R
  <2>5. term = Term(Filled(S, RestOfScreen, c), 0, 0, R)
    <3>1. term = At(Fill(Now, RestOfScreen, c), 0, 0)
      BY <2>1 DEF Finishes, At
    <3> QED BY <1>4, <3>1, ChangeTerm
  <2>6. CASE X = COLUMN_COUNT - 1 /\ Y = ROW_COUNT - 1
    <3>1. \A p \in Places : p \in RestOfScreen <=> p \in {Here}
      BY <2>6, RemainingScreen
    <3>2. Filled(S, RestOfScreen, c) = D
      BY <3>1, FilledSame
    <3>3. x_cursor' = 0 /\ y_cursor' = 0 /\ state' = "IDLE"
      BY <2>1, <2>6 DEF NextColumn
    <3> HIDE DEF D, c
    <3> QED BY <2>4, <2>5, <3>2, <3>3 DEF Finishes
  <2>7. CASE ~(X = COLUMN_COUNT - 1 /\ Y = ROW_COUNT - 1)
    <3>1. \A p \in Places : p \in RestOfScreen <=> p \in {Here} \cup RestOfScreen'
      BY <2>1, <2>7, RemainingScreen DEF NextColumn
    <3>2. Filled(S, RestOfScreen, c) = Filled(D, RestOfScreen', c)
      <4>1. Filled(S, RestOfScreen, c) = Filled(S, {Here} \cup RestOfScreen', c)
        BY <3>1, FilledSame
      <4>2. Filled(D, RestOfScreen', c) = Filled(S, {Here} \cup RestOfScreen', c)
        BY FilledTwice
      <4> QED BY <4>1, <4>2
    <3>3. Fill(Now', RestOfScreen', c) =
            Term(Filled(D, RestOfScreen', c), x_cursor', y_cursor', R)
      BY <2>4, FillTerm, ScreenDomain
    <3>4. At(Fill(Now', RestOfScreen', c), 0, 0) = Term(Filled(S, RestOfScreen, c), 0, 0, R)
      BY <3>2, <3>3, ChangeTerm
    <3>5. term = At(Fill(Now', RestOfScreen', c), 0, 0)
      BY <2>5, <3>4
    <3> HIDE DEF c
    <3> QED BY <2>1, <2>7, <3>5 DEF Finishes, At, c
  <2> QED BY <2>6, <2>7
<1> QED BY <1>5, <1>6, <1>7, <1>8, <1>9, <1>10, <1>11, <1>12, <1>13, <1>14 DEF Work

LEMMA UnscrolledKept == Unscrolled /\ Work => Unscrolled'
<1> SUFFICES ASSUME Unscrolled, Work PROVE Unscrolled'
  OBVIOUS
<1> QED
  BY DEF Unscrolled, MayScroll, Work, ClearScreen, SetChar, MoveCursorNext, DeleteBack,
         DeleteNext, SetCursorPosition, NewLineState, ClearLine, SetCfg, Nop, Goto, state

LEMMA WorkKeepsClears ==
  ASSUME ClearsHome, Work, UNCHANGED <<todo, script>>
  PROVE  ClearsHome'
<1>1. state # "IDLE"
  BY ClockIs
<1>2. state' = "CLEAR_SCREEN" => sig_scroll_offset' = 0
  BY DEF ClearsHome, Work, ClearScreen, SetChar, MoveCursorNext, DeleteBack,
         DeleteNext, SetCursorPosition, NewLineState, ClearLine, SetCfg, Nop, Goto, state
<1>3. Homing => Homing'
  BY <1>1 DEF Homing, Home, Work, ClearScreen, SetChar, MoveCursorNext, DeleteBack,
         DeleteNext, SetCursorPosition, NewLineState, ClearLine, SetCfg, Nop, Goto, Cursor,
         state
<1>4. Unscrolled => Unscrolled'
  BY UnscrolledKept
<1> QED BY <1>2, <1>3, <1>4 DEF ClearsHome

(* Cycles in which no command is written.                                  *)
LEMMA CycleStep ==
  ASSUME TerminalInv, Clock(FALSE), UNCHANGED <<todo, script, color_config, term>>,
         pc' = pc \/ (pc = "poll" /\ pc' = "write" /\ ~busy)
  PROVE  TerminalInv'
<1>1. ProgramTypes'
  <2>1. state = "IDLE" => state' = "IDLE"
    BY ClockIs DEF fsm, state
  <2> QED BY <2>1 DEF TerminalInv, ProgramTypes, busy
<1>2. CASE state = "IDLE" /\ UNCHANGED fsm
  <2>1. FsmTypes' /\ ClearsHome'
    BY <1>2 DEF TerminalInv, FsmTypes, ClearsHome, Unscrolled, MayScroll, Homing, fsm, state
  <2>2. Finishes'
    <3>1. Now' = Now
      <4>1. Screen' = Screen
        BY <1>2, SameScreen DEF fsm
      <4> QED BY <1>2, <4>1 DEF Now, Rolls, fsm
    <3> QED BY <1>2, <3>1 DEF TerminalInv, Finishes, fsm, state
  <2> QED BY <1>1, <2>1, <2>2 DEF TerminalInv
<1>3. CASE Work
  BY <1>1, <1>3, WorkTypes, WorkKeepsClears, WorkFinishes DEF TerminalInv
<1> QED BY <1>2, <1>3, ClockIs

-----------------------------------------------------------------------------
(* A command is written                                                    *)

LEMMA StateIs ==
  ASSUME NEW c \in WellFormed
  PROVE  /\ c.op \in CellOps => c.data \in Cells
         /\ c.op = "SET_CURSOR_POSITION" => c.data \in Points
         /\ c.op \in CellOps \cup {"SET_CURSOR_POSITION", "CFG"}
         /\ StateOf(c) =
              IF c.op = "SET_CHAR" /\ c.data.char = LineFeed THEN "NEW_LINE"
              ELSE IF c.op = "SET_CHAR" /\ c.data.char = Backspace THEN "DELETE"
              ELSE IF c.op = "CFG" THEN "SET_CFG" ELSE c.op
<1>1. /\ c.op \in CellOps => c.data \in Cells
      /\ c.op = "SET_CURSOR_POSITION" => c.data \in Points
      /\ c.op \in CellOps \cup {"SET_CURSOR_POSITION", "CFG"}
  BY DEF WellFormed, CellOps
<1>2. LineFeed # Backspace
  BY DEF LineFeed, Backspace
<1> QED BY <1>1, <1>2 DEF StateOf

LEMMA ApplyIs ==
  ASSUME NEW t, NEW c
  PROVE  /\ c.op = "CLEAR_SCREEN" => Apply(t, c) = At(Fill(t, Places, c.data), 0, 0)
         /\ c.op = "NEW_LINE" \/ (c.op = "SET_CHAR" /\ c.data.char = LineFeed) =>
              Apply(t, c) = NewLine(t, c.data.color)
         /\ c.op = "DELETE" \/ (c.op = "SET_CHAR" /\ c.data.char = Backspace) =>
              Apply(t, c) = Delete(t, c.data.color)
         /\ c.op = "SET_CHAR" /\ c.data.char # LineFeed /\ c.data.char # Backspace =>
              Apply(t, c) = Advance(Fill(t, {<<t.x, t.y>>}, c.data), c.data.color)
         /\ c.op = "MOVE_CURSOR_NEXT" => Apply(t, c) = Advance(t, c.data.color)
         /\ c.op = "SET_CURSOR_POSITION" => Apply(t, c) = At(t, c.data.x, c.data.y)
         /\ c.op = "CFG" => Apply(t, c) = [t EXCEPT !.rolls = (c.data.auto_scroll = 0)]
         /\ c.op = "NOP" => Apply(t, c) = t
<1>1. LineFeed # Backspace
  BY DEF LineFeed, Backspace
<1> QED BY <1>1, Zenon DEF Apply, At, Places

LEMMA WriteStep ==
  ASSUME TerminalInv, Write
  PROVE  TerminalInv'
<1> DEFINE c == Head(todo)
<1>1. /\ FsmTypes /\ ProgramTypes /\ ClearsHome /\ Finishes
      /\ pc = "write" /\ state = "IDLE" /\ todo # <<>> /\ todo \in Seq(WellFormed)
  BY DEF TerminalInv, Write, ProgramTypes
<1>2. /\ c \in WellFormed /\ Tail(todo) \in Seq(WellFormed) /\ c = todo[1]
      /\ Len(todo) \in Nat /\ Len(todo) >= 1 /\ Len(Tail(todo)) = Len(todo) - 1
      /\ \A k \in 1 .. Len(Tail(todo)) : Tail(todo)[k] = todo[k + 1]
  BY <1>1, HeadTailProperties
<1>3. /\ state' = StateOf(c) /\ instr_data_buffer' = c.data
      /\ UNCHANGED <<x_cursor, y_cursor, sig_scroll_offset, cfg_register, ram>>
      /\ UNCHANGED <<script, color_config>>
      /\ todo' = Tail(todo) /\ term' = Apply(term, c)
      /\ pc' = IF Tail(todo) = <<>> THEN "call" ELSE "poll"
  BY <1>1, ClockIs DEF Write, state
<1> HIDE DEF c
<1>4. /\ c.op \in CellOps => c.data \in Cells
      /\ c.op = "SET_CURSOR_POSITION" => c.data \in Points
      /\ c.op \in CellOps \cup {"SET_CURSOR_POSITION", "CFG"}
      /\ state' = IF c.op = "SET_CHAR" /\ c.data.char = LineFeed THEN "NEW_LINE"
                  ELSE IF c.op = "SET_CHAR" /\ c.data.char = Backspace THEN "DELETE"
                  ELSE IF c.op = "CFG" THEN "SET_CFG" ELSE c.op
  BY <1>2, <1>3, StateIs
<1>5. FsmTypes'
  <2>1. /\ state' \in States
        /\ state' \in CellStates => c.op \in CellOps
        /\ state' = "SET_CURSOR_POSITION" => c.op = "SET_CURSOR_POSITION"
    BY <1>4 DEF States, CellStates, CellOps
  <2>2. /\ x_cursor \in Columns /\ y_cursor \in Rows /\ sig_scroll_offset \in Rows
        /\ ram \in [Places -> Cells]
    BY <1>1 DEF FsmTypes
  <2>3. /\ state' \in CellStates => instr_data_buffer' \in Cells
        /\ state' = "SET_CURSOR_POSITION" => instr_data_buffer' \in Points
    BY <1>3, <1>4, <2>1
  <2> QED BY <1>3, <2>1, <2>2, <2>3 DEF FsmTypes, Places, Columns, Rows, Cells, Points
<1>6. ProgramTypes'
  BY <1>1, <1>2, <1>3 DEF ProgramTypes
<1>7. ClearsHome'
  <2>1. ASSUME state' = "CLEAR_SCREEN" PROVE sig_scroll_offset' = 0
    <3>1. todo[1].op = "CLEAR_SCREEN"
      BY <1>2, <1>4, <2>1
    <3> QED BY <1>1, <1>2, <1>3, <3>1 DEF ClearsHome, Unscrolled
  <2>2. ASSUME NEW k \in 1 .. Len(Tail(todo)), Tail(todo)[k].op = "CLEAR_SCREEN"
        PROVE  Unscrolled' /\ k = 1 /\ Homing'
    <3>1. k \in Int /\ k + 1 \in 1 .. Len(todo) /\ k + 1 # 1 /\ todo[k + 1].op = "CLEAR_SCREEN"
      BY <1>2, <2>2
    <3>2. /\ Unscrolled /\ k + 1 = 2
          /\ todo[1] = Command("SET_CURSOR_POSITION", Home)
      BY <1>1, <3>1 DEF ClearsHome
    <3>3. c.op = "SET_CURSOR_POSITION" /\ c.data = Home
      BY <1>2, <3>2 DEF Command
    <3>4. state' = "SET_CURSOR_POSITION" /\ instr_data_buffer' = Home
      BY <1>3, <1>4, <3>3
    <3>5. Homing'
      BY <3>4 DEF Homing, Home
    <3> QED BY <1>3, <3>1, <3>2, <3>4, <3>5 DEF Unscrolled, MayScroll, state
  <2>3. ASSUME NEW k \in 1 .. Len(script), script[k].fn = "clear"
        PROVE  /\ Unscrolled'
               /\ \A j \in 1 .. k - 1 : script[j].fn \in {"init", "set_colors"}
               /\ \A j \in 1 .. Len(Tail(todo)) : Tail(todo)[j].op = "CFG"
    <3>1. /\ Unscrolled
          /\ \A j \in 1 .. k - 1 : script[j].fn \in {"init", "set_colors"}
          /\ \A j \in 1 .. Len(todo) : todo[j].op = "CFG"
      BY <1>1, <2>3 DEF ClearsHome
    <3>2. \A j \in 1 .. Len(Tail(todo)) : j + 1 \in 1 .. Len(todo)
      BY <1>2
    <3>3. c.op = "CFG"
      BY <1>2, <3>1
    <3>4. state' = "SET_CFG"
      BY <1>4, <3>3
    <3>5. Unscrolled'
      BY <1>3, <3>1, <3>4 DEF Unscrolled, MayScroll, state
    <3> QED BY <1>2, <3>1, <3>2, <3>5
  <2> QED BY <1>3, <2>1, <2>2, <2>3 DEF ClearsHome
<1>8. Finishes'
  <2> DEFINE d == c.data
  <2>1. Now' = Now
    <3>1. Screen' = Screen
      BY <1>3, SameScreen
    <3> QED BY <1>3, <3>1 DEF Now, Rolls
  <2>2. term' = Apply(Now, c) /\ Color' = d.color /\ Here' = Here
    BY <1>1, <1>3 DEF Finishes, Color, Here
  <2>3. Here = <<Now.x, Now.y>>
    BY FieldsOf DEF Now, Here
  <2>4. c.op # "CFG" \/ (c.op = "CFG" /\ state' = "SET_CFG")
    BY <1>4
  <2>5. CASE c.op = "CLEAR_SCREEN"
    <3>1. state' = "CLEAR_SCREEN" /\ d \in Cells
      BY <1>4, <2>5 DEF CellOps
    <3>2. x_cursor = 0 /\ y_cursor = 0
      BY <1>1, <1>2, <2>5 DEF ClearsHome, Homing
    <3>3. term' = At(Fill(Now, Places, d), 0, 0)
      BY <2>2, <2>5, ApplyIs
    <3>4. \A p \in Places : p \in RestOfScreen' <=> p \in Places
      <4>1. \A p \in Places : p[1] \in 0 .. COLUMN_COUNT - 1 /\ p[2] \in 0 .. ROW_COUNT - 1
        BY PlaceOf DEF Columns, Rows
      <4>2. \A p \in Places : p \in RestOfScreen' <=>
              (p[2] = y_cursor' /\ p[1] >= x_cursor') \/ p[2] > y_cursor'
        BY DEF RestOfScreen, RestOfLine, Places, Columns, Rows
      <4> QED BY <1>3, <3>2, <4>1, <4>2, Sizes
    <3>5. Fill(Now, RestOfScreen', d) = Fill(Now, Places, d)
      <4>1. DOMAIN Screen = Places
        BY ShownCell
      <4>2. Fill(Now, RestOfScreen', d) =
              Term(Filled(Screen, RestOfScreen', d), x_cursor, y_cursor, Rolls)
        BY <4>1, FillTerm DEF Now
      <4>3. Fill(Now, Places, d) = Term(Filled(Screen, Places, d), x_cursor, y_cursor, Rolls)
        BY <4>1, FillTerm DEF Now
      <4>4. Filled(Screen, RestOfScreen', d) = Filled(Screen, Places, d)
        BY <3>4, FilledSame
      <4> QED BY <4>2, <4>3, <4>4
    <3>6. term' = At(Fill(Now', RestOfScreen', instr_data_buffer'), 0, 0)
      BY <1>3, <2>1, <3>3, <3>5
    <3> QED BY <3>1, <3>6 DEF Finishes, At
  <2>6. CASE c.op = "NEW_LINE" \/ (c.op = "SET_CHAR" /\ d.char = LineFeed)
    <3>1. term' = NewLine(Now, d.color)
      BY <2>2, <2>6, ApplyIs
    <3>2. state' = "NEW_LINE"
      BY <1>4, <2>6
    <3> QED BY <2>1, <2>2, <3>1, <3>2 DEF Finishes
  <2>7. CASE c.op = "DELETE" \/ (c.op = "SET_CHAR" /\ d.char = Backspace)
    <3>1. term' = Delete(Now, d.color)
      BY <2>2, <2>7, ApplyIs
    <3>2. state' = "DELETE"
      BY <1>4, <2>7 DEF LineFeed, Backspace
    <3> QED BY <2>1, <2>2, <3>1, <3>2 DEF Finishes
  <2>8. CASE c.op = "SET_CHAR" /\ d.char # LineFeed /\ d.char # Backspace
    <3>1. term' = Advance(Fill(Now, {Here}, d), d.color)
      BY <2>2, <2>3, <2>8, ApplyIs
    <3>2. state' = "SET_CHAR"
      BY <1>4, <2>8
    <3> QED BY <1>3, <2>1, <2>2, <3>1, <3>2 DEF Finishes
  <2>9. CASE c.op = "MOVE_CURSOR_NEXT"
    <3>1. term' = Advance(Now, d.color)
      BY <2>2, <2>9, ApplyIs
    <3>2. state' = "MOVE_CURSOR_NEXT"
      BY <1>4, <2>9
    <3> QED BY <2>1, <2>2, <3>1, <3>2 DEF Finishes
  <2>10. CASE c.op = "SET_CURSOR_POSITION"
    <3>1. term' = At(Now, d.x, d.y)
      BY <2>2, <2>10, ApplyIs
    <3>2. state' = "SET_CURSOR_POSITION"
      BY <1>4, <2>10
    <3>3. term' = At(Now', instr_data_buffer'.x, instr_data_buffer'.y)
      BY <1>3, <2>1, <3>1
    <3> QED BY <3>2, <3>3 DEF Finishes, At
  <2>11. CASE c.op = "CFG"
    <3>1. term' = [Now EXCEPT !.rolls = (d.auto_scroll = 0)]
      BY <2>2, <2>11, ApplyIs
    <3>2. state' = "SET_CFG"
      BY <1>4, <2>11
    <3>3. term' = [Now' EXCEPT !.rolls = (instr_data_buffer'.auto_scroll = 0)]
      BY <1>3, <2>1, <3>1
    <3> QED BY <3>2, <3>3 DEF Finishes
  <2>12. CASE c.op = "NOP"
    <3>1. term' = Now
      BY <2>2, <2>12, ApplyIs
    <3>2. state' = "NOP"
      BY <1>4, <2>12
    <3> QED BY <2>1, <3>1, <3>2 DEF Finishes
  <2> QED
    BY <1>4, <2>5, <2>6, <2>7, <2>8, <2>9, <2>10, <2>11, <2>12 DEF CellOps
<1> QED BY <1>5, <1>6, <1>7, <1>8 DEF TerminalInv

-----------------------------------------------------------------------------
(* The calls and commands of the program                                   *)

LEMMA FunctionIsSequence ==
  ASSUME NEW S, NEW n \in Nat, NEW f \in [1 .. n -> S]
  PROVE  f \in Seq(S) /\ Len(f) = n
BY SeqDef

LEMMA RepeatIs ==
  ASSUME NEW S, NEW n \in Nat, NEW c \in S
  PROVE  Repeat(c, n) \in Seq(S) /\ Len(Repeat(c, n)) = n
BY FunctionIsSequence DEF Repeat

LEMMA CommandIs ==
  /\ \A op \in CellOps, c \in Cells : Command(op, c) \in WellFormed
  /\ \A x \in Columns, y \in Rows :
       Command("SET_CURSOR_POSITION", [x |-> x, y |-> y]) \in WellFormed
  /\ \A config \in Configs \cup {MainConfig} : Command("CFG", config) \in WellFormed
  /\ \A op, d : Command(op, d).op = op /\ Command(op, d).data = d
<1>1. \A op, d : Command(op, d).op = op /\ Command(op, d).data = d
  BY DEF Command
<1>2. \A op \in CellOps, c \in Cells : Command(op, c) \in WellFormed
  BY DEF Command, WellFormed
<1>3. \A x \in Columns, y \in Rows : [x |-> x, y |-> y] \in Points
  BY DEF Points
<1>4. \A p \in Points : Command("SET_CURSOR_POSITION", p) \in WellFormed
  BY DEF Command, WellFormed
<1>5. \A config \in Configs \cup {MainConfig} : Command("CFG", config) \in WellFormed
  BY DEF Command, WellFormed
<1> QED BY <1>1, <1>2, <1>3, <1>4, <1>5

(* Commands that do not clear the screen.                                  *)
Quiet == {c \in WellFormed : c.op # "CLEAR_SCREEN"}

LEMMA MoveIs ==
  ASSUME NEW x \in Columns, NEW y \in Rows
  PROVE  /\ display_move_cursor(x, y) \in Seq(Quiet)
         /\ Len(display_move_cursor(x, y)) = 1
         /\ display_move_cursor(x, y)[1] = Command("SET_CURSOR_POSITION", [x |-> x, y |-> y])
<1>1. Command("SET_CURSOR_POSITION", [x |-> x, y |-> y]) \in Quiet
  BY CommandIs DEF Quiet
<1> QED BY <1>1 DEF display_move_cursor

LEMMA PrintIs ==
  ASSUME NEW txt \in Seq(Chars), color_config \in Colored
  PROVE  display_print(txt) \in Seq(Quiet)
<1> DEFINE item(k) == IF txt[k] = LineFeed THEN Command("NEW_LINE", Blank(color_config))
                      ELSE Command("SET_CHAR", Cell(color_config, txt[k]))
<1>1. ASSUME NEW k \in 1 .. Len(txt) PROVE item(k) \in Quiet
  <2>1. txt[k] \in Chars
    BY ElementOfSeq
  <2>2. Blank(color_config) \in Cells /\ Cell(color_config, txt[k]) \in Cells
    BY <2>1, CellTypes
  <2> QED BY <2>2, CommandIs DEF Quiet, CellOps
<1>2. display_print(txt) = [k \in 1 .. Len(txt) |-> item(k)]
  BY LenProperties DEF display_print
<1>3. Len(txt) \in Nat
  BY LenProperties
<1> HIDE DEF item
<1>4. [k \in 1 .. Len(txt) |-> item(k)] \in [1 .. Len(txt) -> Quiet]
  BY <1>1
<1> QED BY <1>2, <1>3, <1>4, FunctionIsSequence

LEMMA CommandsOf ==
  ASSUME NEW call \in Calls, color_config \in Colored
  PROVE  /\ Commands(call) \in Seq(WellFormed)
         /\ \A k \in 1 .. Len(Commands(call)) : Commands(call)[k].op = "CLEAR_SCREEN" =>
              /\ call.fn = "clear" /\ k = 2
              /\ Commands(call)[1] = Command("SET_CURSOR_POSITION", Home)
         /\ call.fn \in {"init", "set_colors"} =>
              \A k \in 1 .. Len(Commands(call)) : Commands(call)[k].op = "CFG"
<1>1. Quiet \subseteq WellFormed /\ \A c \in Quiet : c.op # "CLEAR_SCREEN"
  BY DEF Quiet
<1>2. ASSUME NEW s \in Seq(Quiet)
      PROVE  s \in Seq(WellFormed) /\ \A k \in 1 .. Len(s) : s[k].op # "CLEAR_SCREEN"
  BY <1>1, ElementOfSeq, SeqMonotonic
<1>3. CASE call.fn = "init"
  <2>1. Commands(call) = <<Command("CFG", MainConfig)>>
    BY <1>3 DEF Commands, display_init
  <2> QED BY <1>3, <2>1, CommandIs
<1>4. CASE call.fn = "set_colors"
  <2>1. Commands(call) = <<>>
    BY <1>4 DEF Commands
  <2> QED BY <1>4, <2>1
<1>5. CASE call.fn = "clear"
  <2> DEFINE m == Command("SET_CURSOR_POSITION", Home)
             b == Command("CLEAR_SCREEN", Blank(color_config))
  <2>1. Commands(call) = <<m>> \o <<b>>
    BY <1>5 DEF Commands, display_clear, display_move_cursor, Home
  <2>2. m \in WellFormed /\ b \in WellFormed /\ m.op = "SET_CURSOR_POSITION"
    BY CommandIs, CellTypes, Sizes DEF CellOps, Home
  <2> HIDE DEF m, b
  <2>3. /\ Commands(call) \in Seq(WellFormed) /\ Len(Commands(call)) = 2
        /\ Commands(call)[1] = m
    BY <2>1, <2>2
  <2> QED BY <1>5, <2>2, <2>3 DEF m
<1>6. CASE call.fn = "print"
  <2>1. call.txt \in Seq(Chars)
    BY <1>6 DEF Calls
  <2>2. Commands(call) = display_print(call.txt)
    BY <1>6 DEF Commands
  <2> QED BY <1>2, <1>6, <2>1, <2>2, PrintIs
<1>7. CASE call.fn = "move"
  <2>1. call.x \in Columns /\ call.y \in Rows
    BY <1>7 DEF Calls
  <2>2. Commands(call) = display_move_cursor(call.x, call.y)
    BY <1>7 DEF Commands
  <2> QED BY <1>2, <1>7, <2>1, <2>2, MoveIs
<1>8. CASE call.fn = "clear_line"
  <2>1. call.line \in Rows
    BY <1>8 DEF Calls
  <2>2. Commands(call) = display_clear_line(call.line)
    BY <1>8 DEF Commands
  <2>3. PICK ch \in Chars :
          \A y : display_clear_line(y) =
                   display_move_cursor(0, y) \o display_print(Repeat(ch, COLUMN_COUNT - 1))
    BY Zenon DEF display_clear_line, Chars
  <2>4. display_move_cursor(0, call.line) \in Seq(Quiet)
    BY <2>1, MoveIs, Sizes
  <2>5. display_print(Repeat(ch, COLUMN_COUNT - 1)) \in Seq(Quiet)
    <3>1. COLUMN_COUNT - 1 \in Nat
      BY Sizes
    <3> QED BY <3>1, RepeatIs, PrintIs
  <2>6. Commands(call) \in Seq(Quiet)
    BY <2>2, <2>3, <2>4, <2>5, ConcatProperties
  <2> QED BY <1>2, <1>8, <2>6
<1>9. call.fn \in {"init", "set_colors", "clear", "print", "move", "clear_line"}
  BY DEF Calls
<1> QED BY <1>3, <1>4, <1>5, <1>6, <1>7, <1>8, <1>9

(* Calls that do not clear the screen.                                     *)
PageCalls == {c \in Calls : c.fn # "clear"}

LEMMA PageParts ==
  ASSUME ~Free
  PROVE  /\ \A m \in {"T", "r", "d", "e"} : Message(m) \in Seq(Chars)
         /\ \A txt \in Seq(Chars) : Show(txt) \in PageCalls
         /\ \A y \in Rows : MoveTo(0, y) \in PageCalls
         /\ \A view \in {"menu", "demo"} : print_ui(view) \in Seq(PageCalls)
         /\ \A m \in {"r", "d"} : NewMessage(m) \in Seq(PageCalls)
         /\ 1 \in Rows /\ <<LineFeed>> \in Seq(Chars)
<1>1. /\ BUTTON_ROW \in Rows /\ BUTTON_LINES \in Nat /\ CLEAR_END \in Nat
      /\ 2 < CLEAR_END /\ CLEAR_END <= BUTTON_ROW /\ BUTTON_ROW \in Nat
      /\ 1 \in Rows
  BY TextModeAssumption, Sizes DEF Rows
<1>2. ASSUME NEW m \in Chars PROVE Message(m) \in Seq(Chars)
  <2>1. COLUMN_COUNT - 2 \in Nat
    BY Sizes
  <2> QED BY <2>1, RepeatIs DEF Message
<1>3. {"T", "r", "d", "e", "menu", "demo"} \subseteq Chars
  BY DEF Chars
<1>4. ASSUME NEW txt \in Seq(Chars) PROVE Show(txt) \in PageCalls
  BY DEF Show, PageCalls, Calls
<1>5. ASSUME NEW y \in Rows PROVE MoveTo(0, y) \in PageCalls
  BY Sizes DEF MoveTo, PageCalls, Calls
<1>6. ASSUME NEW view \in {"menu", "demo"} PROVE print_ui(view) \in Seq(PageCalls)
  <2>1. Repeat(view, COLUMN_COUNT) \in Seq(Chars)
    BY <1>3, RepeatIs, Sizes
  <2>2. Repeat(Show(Repeat(view, COLUMN_COUNT)), BUTTON_LINES) \in Seq(PageCalls)
    BY <1>1, <1>4, <2>1, RepeatIs
  <2>3. <<MoveTo(0, BUTTON_ROW)>> \in Seq(PageCalls)
    BY <1>1, <1>5
  <2> QED BY <2>2, <2>3, ConcatProperties DEF print_ui
<1>7. display_clear_lines(1, CLEAR_END) \in Seq(PageCalls)
  <2> DEFINE item(k) == [fn |-> "clear_line", line |-> 1 + k - 1]
  <2>1. CLEAR_END - 1 \in Nat
    BY <1>1
  <2>2. ASSUME NEW k \in 1 .. CLEAR_END - 1 PROVE item(k) \in PageCalls
    <3>1. 1 + k - 1 \in Rows
      BY <1>1, Sizes DEF Rows
    <3> QED BY <3>1 DEF PageCalls, Calls
  <2>3. display_clear_lines(1, CLEAR_END) = [k \in 1 .. CLEAR_END - 1 |-> item(k)]
    BY DEF display_clear_lines
  <2> HIDE DEF item
  <2>4. [k \in 1 .. CLEAR_END - 1 |-> item(k)] \in [1 .. CLEAR_END - 1 -> PageCalls]
    BY <2>2
  <2> QED BY <2>1, <2>3, <2>4, FunctionIsSequence
<1>8. ASSUME NEW m \in {"r", "d"} PROVE NewMessage(m) \in Seq(PageCalls)
  <2>1. Message(m) \in Seq(Chars)
    BY <1>2, <1>3
  <2>2. <<MoveTo(0, 1), Show(Message(m))>> \in Seq(PageCalls)
    BY <1>1, <1>4, <1>5, <2>1
  <2> QED BY <1>7, <2>2, ConcatProperties DEF NewMessage
<1>9. <<LineFeed>> \in Seq(Chars)
  <2>1. LineFeed \in Chars
    BY DEF Chars
  <2> QED BY <2>1
<1> QED BY <1>1, <1>2, <1>3, <1>4, <1>5, <1>6, <1>8, <1>9

LEMMA Pages ==
  ~Free => /\ Menu \in Seq(PageCalls) /\ Restore \in Seq(PageCalls)
           /\ Demo \in Seq(PageCalls) /\ Demo \o Done \in Seq(PageCalls)
<1> SUFFICES ASSUME ~Free
             PROVE  /\ Menu \in Seq(PageCalls) /\ Restore \in Seq(PageCalls)
                    /\ Demo \in Seq(PageCalls) /\ Demo \o Done \in Seq(PageCalls)
  OBVIOUS
<1>1. /\ print_ui("menu") \in Seq(PageCalls) /\ print_ui("demo") \in Seq(PageCalls)
      /\ NewMessage("r") \in Seq(PageCalls) /\ NewMessage("d") \in Seq(PageCalls)
  BY PageParts
<1>2. <<MoveTo(0, 1), Show(Message("r"))>> \in Seq(PageCalls)
  <2>1. Message("r") \in Seq(Chars) /\ 1 \in Rows
    BY PageParts
  <2>2. MoveTo(0, 1) \in PageCalls /\ Show(Message("r")) \in PageCalls
    BY <2>1, PageParts
  <2> QED BY <2>2
<1>3. Done \in Seq(PageCalls)
  <2>1. Message("e") \in Seq(Chars) /\ <<LineFeed>> \in Seq(Chars)
    BY PageParts
  <2>2. Show(<<LineFeed>>) \in PageCalls /\ Show(Message("e")) \in PageCalls
    BY <2>1, PageParts
  <2> QED BY <2>2 DEF Done
<1>4. Menu \in Seq(PageCalls)
  BY <1>1, <1>2, ConcatProperties DEF Menu
<1>5. Restore \in Seq(PageCalls) /\ Demo \in Seq(PageCalls)
  BY <1>1, ConcatProperties DEF Restore, Demo
<1> QED BY <1>3, <1>4, <1>5, ConcatProperties

(* The program of a reset: the screen is cleared after init and set_colors. *)
LEMMA BootIs ==
  ~Free => /\ Boot \o Menu \in Seq(Calls)
           /\ \A k \in 1 .. Len(Boot \o Menu) : (Boot \o Menu)[k].fn = "clear" =>
                \A j \in 1 .. k - 1 : (Boot \o Menu)[j].fn \in {"init", "set_colors"}
<1> SUFFICES ASSUME ~Free
             PROVE  /\ Boot \o Menu \in Seq(Calls)
                    /\ \A k \in 1 .. Len(Boot \o Menu) : (Boot \o Menu)[k].fn = "clear" =>
                         \A j \in 1 .. k - 1 : (Boot \o Menu)[j].fn \in {"init", "set_colors"}
  OBVIOUS
<1> DEFINE title == Show(Message("T") \o <<LineFeed>>)
<1>1. title \in PageCalls
  <2>1. Message("T") \in Seq(Chars) /\ <<LineFeed>> \in Seq(Chars)
    BY PageParts
  <2>2. Message("T") \o <<LineFeed>> \in Seq(Chars)
    BY <2>1, ConcatProperties
  <2> QED BY <2>2, PageParts
<1>2. PageCalls \subseteq Calls /\ \A c \in PageCalls : c.fn # "clear"
  BY DEF PageCalls
<1> DEFINE init == [fn |-> "init"]
           colors == [fn |-> "set_colors"]
           clear == [fn |-> "clear"]
<1>3. /\ init \in Calls /\ colors \in Calls /\ clear \in Calls
      /\ init.fn = "init" /\ colors.fn = "set_colors" /\ clear.fn = "clear"
  BY DEF Calls
<1>4. Boot = <<init, colors, clear, title>>
  BY DEF Boot
<1> HIDE DEF title, init, colors, clear
<1>5. /\ Boot \in Seq(Calls) /\ Len(Boot) = 4
      /\ Boot[1] = init /\ Boot[2] = colors /\ Boot[3] = clear /\ Boot[4] = title
  BY <1>1, <1>2, <1>3, <1>4
<1>6. /\ Menu \in Seq(PageCalls) /\ Menu \in Seq(Calls)
      /\ Len(Menu) \in Nat /\ \A k \in 1 .. Len(Menu) : Menu[k].fn # "clear"
  BY <1>2, Pages, SeqMonotonic, ElementOfSeq, LenProperties
<1>7. /\ Boot \o Menu \in Seq(Calls) /\ Len(Boot \o Menu) = 4 + Len(Menu)
      /\ \A k \in 1 .. 4 + Len(Menu) :
           (Boot \o Menu)[k] = IF k <= 4 THEN Boot[k] ELSE Menu[k - 4]
  <2>1. /\ Boot \o Menu \in Seq(Calls) /\ Len(Boot \o Menu) = Len(Boot) + Len(Menu)
        /\ \A k \in 1 .. Len(Boot) + Len(Menu) :
             (Boot \o Menu)[k] = IF k <= Len(Boot) THEN Boot[k] ELSE Menu[k - Len(Boot)]
    BY <1>5, <1>6, ConcatProperties
  <2> QED BY <1>5, <2>1
<1> DEFINE s == Boot \o Menu
<1>8. /\ s[1] = init /\ s[2] = colors /\ s[3] = clear /\ s[4] = title
      /\ \A k \in 1 .. 4 + Len(Menu) : k > 4 => s[k] = Menu[k - 4]
  BY <1>5, <1>6, <1>7
<1>9. \A k \in 1 .. 4 + Len(Menu) :
        k = 1 \/ k = 2 \/ k = 3 \/ k = 4 \/ (k > 4 /\ k - 4 \in 1 .. Len(Menu))
  BY <1>6
<1> HIDE DEF s
<1>10. ASSUME NEW k \in 1 .. 4 + Len(Menu), s[k].fn = "clear" PROVE k = 3
  BY <1>1, <1>2, <1>3, <1>6, <1>8, <1>9, <1>10
<1>11. \A j \in 1 .. 3 - 1 : s[j].fn \in {"init", "set_colors"}
  <2>1. \A j \in 1 .. 3 - 1 : j = 1 \/ j = 2
    OBVIOUS
  <2> QED BY <1>3, <1>8, <2>1
<1> QED BY <1>7, <1>10, <1>11 DEF s

-----------------------------------------------------------------------------
(* Calls, touches and resets                                               *)

LEMMA SameShown == UNCHANGED <<fsm, term>> /\ Finishes => Finishes'
<1> SUFFICES ASSUME UNCHANGED <<fsm, term>>, Finishes PROVE Finishes'
  OBVIOUS
<1>1. /\ UNCHANGED <<textmode_controller_state, x_cursor, y_cursor, sig_scroll_offset>>
      /\ UNCHANGED <<cfg_register, instr_data_buffer, ram, term>>
  BY DEF fsm
<1>2. Screen' = Screen
  BY <1>1, SameScreen
<1>3. Now' = Now /\ Here' = Here /\ Color' = Color
  BY <1>1, <1>2 DEF Now, Rolls, Here, Color
<1>4. RestOfLine' = RestOfLine
  BY <1>1 DEF RestOfLine, Places, Columns, Rows
<1>5. RestOfScreen' = RestOfScreen
  BY <1>1, <1>4 DEF RestOfScreen, Places, Columns, Rows
<1> QED BY <1>1, <1>3, <1>4, <1>5 DEF Finishes, state

LEMMA SameFsm == UNCHANGED fsm /\ FsmTypes => FsmTypes'
BY DEF FsmTypes, fsm, state

LEMMA CallStep ==
  ASSUME TerminalInv, Call
  PROVE  TerminalInv'
<1> DEFINE call == Head(script)
<1>1. /\ FsmTypes /\ ProgramTypes /\ ClearsHome /\ Finishes
      /\ pc = "call" /\ todo = <<>> /\ script # <<>> /\ script \in Seq(Calls)
      /\ color_config \in Colored
  BY DEF TerminalInv, Call, ProgramTypes
<1>2. /\ call \in Calls /\ Tail(script) \in Seq(Calls) /\ call = script[1]
      /\ Len(script) \in Nat /\ Len(script) >= 1 /\ Len(Tail(script)) = Len(script) - 1
      /\ \A k \in 1 .. Len(Tail(script)) : Tail(script)[k] = script[k + 1]
  BY <1>1, HeadTailProperties
<1>3. /\ todo' = Commands(call) /\ pc' = (IF todo' = <<>> THEN "call" ELSE "poll")
      /\ script' = Tail(script) /\ UNCHANGED <<fsm, term>>
      /\ color_config' = IF call.fn = "set_colors" THEN 10 ELSE color_config
  BY DEF Call
<1> HIDE DEF call
<1>4. /\ Commands(call) \in Seq(WellFormed)
      /\ \A k \in 1 .. Len(Commands(call)) : Commands(call)[k].op = "CLEAR_SCREEN" =>
           /\ call.fn = "clear" /\ k = 2
           /\ Commands(call)[1] = Command("SET_CURSOR_POSITION", Home)
      /\ call.fn \in {"init", "set_colors"} =>
           \A k \in 1 .. Len(Commands(call)) : Commands(call)[k].op = "CFG"
  BY <1>1, <1>2, CommandsOf
<1>5. FsmTypes' /\ Finishes'
  BY <1>1, <1>3, SameFsm, SameShown
<1>6. ProgramTypes'
  BY <1>1, <1>2, <1>3, <1>4 DEF ProgramTypes, Colored
<1>7. ClearsHome'
  <2>1. UNCHANGED <<state, x_cursor, y_cursor, sig_scroll_offset, instr_data_buffer>>
    BY <1>3 DEF fsm, state
  <2>2. Unscrolled' = Unscrolled
    BY <2>1 DEF Unscrolled, MayScroll
  <2>3. ASSUME NEW k \in 1 .. Len(Commands(call)), Commands(call)[k].op = "CLEAR_SCREEN"
        PROVE  /\ Unscrolled /\ k = 2
               /\ Commands(call)[1] = Command("SET_CURSOR_POSITION", Home)
    <3>1. 1 \in 1 .. Len(script) /\ script[1].fn = "clear"
      BY <1>2, <1>4, <2>3
    <3>2. Unscrolled
      BY <1>1, <3>1 DEF ClearsHome
    <3> QED BY <1>4, <2>3, <3>2
  <2>4. ASSUME NEW k \in 1 .. Len(Tail(script)), Tail(script)[k].fn = "clear"
        PROVE  /\ Unscrolled
               /\ \A j \in 1 .. k - 1 : Tail(script)[j].fn \in {"init", "set_colors"}
               /\ \A j \in 1 .. Len(Commands(call)) : Commands(call)[j].op = "CFG"
    <3>1. k \in Int /\ k + 1 \in 1 .. Len(script) /\ script[k + 1].fn = "clear"
      BY <1>2, <2>4
    <3>2. /\ Unscrolled
          /\ \A j \in 1 .. k + 1 - 1 : script[j].fn \in {"init", "set_colors"}
      BY <1>1, <3>1 DEF ClearsHome
    <3>3. 1 \in 1 .. k + 1 - 1
      BY <3>1
    <3>4. call.fn \in {"init", "set_colors"}
      BY <1>2, <3>2, <3>3
    <3>5. \A j \in 1 .. k - 1 : j \in 1 .. Len(Tail(script)) /\ j + 1 \in 1 .. k + 1 - 1
      BY <1>2, <3>1
    <3> QED BY <1>2, <1>4, <3>2, <3>4, <3>5
  <2> QED BY <1>1, <1>3, <2>1, <2>2, <2>3, <2>4 DEF ClearsHome
<1> QED BY <1>5, <1>6, <1>7 DEF TerminalInv

LEMMA ButtonStep ==
  ASSUME TerminalInv, Button
  PROVE  TerminalInv'
<1>1. /\ ~Free /\ pc = "call" /\ script = <<>> /\ UNCHANGED <<fsm, term, pc, todo, color_config>>
      /\ script' \in {Restore, Demo \o Done, Demo}
  BY DEF Button, Waits
<1>2. script' \in Seq(PageCalls)
  BY <1>1, Pages
<1>3. script' \in Seq(Calls) /\ \A k \in 1 .. Len(script') : script'[k].fn # "clear"
  BY <1>2, SeqMonotonic, ElementOfSeq DEF PageCalls
<1>4. FsmTypes' /\ Finishes'
  BY <1>1, SameFsm, SameShown DEF TerminalInv
<1>5. ProgramTypes'
  BY <1>1, <1>3 DEF TerminalInv, ProgramTypes
<1>6. ClearsHome'
  BY <1>1, <1>3
     DEF TerminalInv, ClearsHome, Unscrolled, MayScroll, Homing, fsm, state
<1> QED BY <1>4, <1>5, <1>6 DEF TerminalInv

LEMMA FreeCommandsAre == color_config \in Colored => FreeCommands \subseteq Quiet
<1> SUFFICES ASSUME color_config \in Colored, NEW c \in FreeCommands PROVE c \in Quiet
  OBVIOUS
<1>1. Blank(color_config) \in Cells
  BY CellTypes
<1>2. CASE c \in {Command(op, Blank(color_config)) :
                    op \in {"NOP", "NEW_LINE", "DELETE", "MOVE_CURSOR_NEXT"}}
  BY <1>1, <1>2, CommandIs DEF Quiet, CellOps
<1>3. CASE c \in {Command("SET_CHAR", Cell(color_config, ch)) :
                    ch \in {"a", LineFeed, Backspace}}
  <2>1. \A ch \in {"a", LineFeed, Backspace} : Cell(color_config, ch) \in Cells
    <3>1. {"a", LineFeed, Backspace} \subseteq Chars
      BY DEF Chars
    <3> QED BY <3>1, CellTypes
  <2> QED BY <1>3, <2>1, CommandIs DEF Quiet, CellOps
<1>4. CASE c \in {Command("SET_CURSOR_POSITION", p) : p \in Points}
  BY <1>4, CommandIs DEF Quiet, Points
<1> QED BY <1>2, <1>3, <1>4 DEF FreeCommands, Points

LEMMA FreeCallStep ==
  ASSUME TerminalInv, FreeCall
  PROVE  TerminalInv'
<1>1. /\ FsmTypes /\ ProgramTypes /\ ClearsHome /\ Finishes
      /\ pc = "call" /\ todo = <<>> /\ script = <<>> /\ UNCHANGED <<fsm, term, script>>
      /\ pc' = IF todo' = <<>> THEN "call" ELSE "poll"
      /\ color_config \in Colored
  BY DEF TerminalInv, FreeCall, Waits, ProgramTypes
<1>2. color_config' \in Colored
  BY <1>1 DEF FreeCall, Colored
<1>3. /\ todo' \in Seq(WellFormed)
      /\ \A k \in 1 .. Len(todo') : todo'[k].op = "CLEAR_SCREEN" =>
           /\ Unscrolled /\ k = 2 /\ todo'[1] = Command("SET_CURSOR_POSITION", Home)
  <2>1. CASE \E c \in FreeCommands : todo' = <<c>>
    <3>1. PICK c \in FreeCommands : todo' = <<c>>
      BY <2>1
    <3>2. c \in WellFormed /\ c.op # "CLEAR_SCREEN"
      BY <1>1, FreeCommandsAre DEF Quiet
    <3>3. Len(todo') = 1 /\ todo'[1] = c /\ todo' \in Seq(WellFormed)
      BY <3>1, <3>2
    <3> QED BY <3>2, <3>3
  <2>2. CASE \E config \in Configs : todo' = display_init(config)
    <3>1. PICK config \in Configs : todo' = <<Command("CFG", config)>>
      BY <2>2 DEF display_init
    <3>2. Command("CFG", config) \in WellFormed /\ Command("CFG", config).op # "CLEAR_SCREEN"
      BY CommandIs
    <3>3. Len(todo') = 1 /\ todo'[1] = Command("CFG", config) /\ todo' \in Seq(WellFormed)
      BY <3>1, <3>2
    <3> QED BY <3>2, <3>3
  <2>3. CASE sig_scroll_offset = 0 /\ ~MayScroll /\ todo' = display_clear
    <3> DEFINE call == [fn |-> "clear"]
    <3>1. call \in Calls /\ call.fn = "clear"
      BY DEF Calls
    <3>2. todo' = Commands(call)
      BY <2>3 DEF Commands
    <3> HIDE DEF call
    <3> QED BY <1>1, <2>3, <3>1, <3>2, CommandsOf DEF Unscrolled
  <2>4. CASE UNCHANGED todo
    BY <1>1, <2>4
  <2> QED BY <2>1, <2>2, <2>3, <2>4 DEF FreeCall
<1>4. FsmTypes' /\ Finishes'
  BY <1>1, SameFsm, SameShown
<1>5. ProgramTypes'
  BY <1>1, <1>2, <1>3 DEF ProgramTypes
<1>6. ClearsHome'
  BY <1>1, <1>3 DEF ClearsHome, Unscrolled, MayScroll, Homing, fsm, state
<1> QED BY <1>4, <1>5, <1>6 DEF TerminalInv

(* The state after a reset, whatever is in the RAM.                        *)
AfterReset ==
  /\ state = "CLEAR_SCREEN" /\ x_cursor = 0 /\ y_cursor = 0 /\ sig_scroll_offset = 0
  /\ cfg_register = ResetConfig /\ instr_data_buffer = Blank(0)
  /\ ram \in [Places -> Cells]
  /\ pc = "call" /\ todo = <<>> /\ color_config = 3
  /\ script = IF Free THEN <<>> ELSE Boot \o Menu
  /\ term = Start

LEMMA ResetHolds == AfterReset => TerminalInv
<1> SUFFICES ASSUME AfterReset PROVE TerminalInv
  OBVIOUS
<1>1. FsmTypes
  <2>1. Blank(0) \in Cells
    BY CellTypes DEF Colored
  <2> QED BY <2>1, Sizes DEF AfterReset, FsmTypes, States
<1>2. /\ script \in Seq(Calls)
      /\ \A k \in 1 .. Len(script) : script[k].fn = "clear" =>
           \A j \in 1 .. k - 1 : script[j].fn \in {"init", "set_colors"}
  <2>1. CASE Free
    BY <2>1 DEF AfterReset
  <2>2. CASE ~Free
    BY <2>2, BootIs DEF AfterReset
  <2> QED BY <2>1, <2>2
<1>3. ProgramTypes
  BY <1>2 DEF AfterReset, ProgramTypes, Colored
<1>4. ClearsHome
  BY <1>2 DEF AfterReset, ClearsHome, Unscrolled, MayScroll, state
<1>5. Finishes
  <2> DEFINE b == Blank(0)
             R == Rolls
  <2>1. R = TRUE
    BY DEF AfterReset, Rolls, ResetConfig
  <2> HIDE DEF R, b
  <2>2. Now = Term(Screen, 0, 0, R) /\ state = "CLEAR_SCREEN" /\ instr_data_buffer = b
    BY DEF AfterReset, Now, R, b
  <2>3. \A p \in Places : p \in RestOfScreen <=> p \in Places
    <3>1. \A p \in Places : p[1] \in 0 .. COLUMN_COUNT - 1 /\ p[2] \in 0 .. ROW_COUNT - 1
      BY PlaceOf DEF Columns, Rows
    <3>2. x_cursor = 0 /\ y_cursor = 0
      BY DEF AfterReset
    <3> QED BY <3>1, <3>2, Sizes DEF RestOfScreen, RestOfLine
  <2>4. Fill(Now, RestOfScreen, b) = Term(Filled(Screen, Places, b), 0, 0, R)
    <3>1. Fill(Now, RestOfScreen, b) = Term(Filled(Screen, RestOfScreen, b), 0, 0, R)
      BY <2>2, ShownCell, FillTerm
    <3>2. Filled(Screen, RestOfScreen, b) = Filled(Screen, Places, b)
      BY <2>3, FilledSame
    <3> QED BY <3>1, <3>2
  <2>5. At(Fill(Now, RestOfScreen, b), 0, 0) = Term(Filled(Screen, Places, b), 0, 0, R)
    BY <2>4, ChangeTerm
  <2>6. Filled(Screen, Places, b) = [p \in Places |-> b]
    BY DEF Filled
  <2>7. Start = Term([p \in Places |-> b], 0, 0, R)
    BY <2>1, Zenon DEF Start, Term, Places, b
  <2>8. term = At(Fill(Now, RestOfScreen, b), 0, 0)
    BY <2>5, <2>6, <2>7 DEF AfterReset
  <2> QED BY <2>2, <2>8 DEF Finishes, At
<1> QED BY <1>1, <1>3, <1>4, <1>5 DEF TerminalInv

LEMMA InitHolds == Init => TerminalInv
<1> SUFFICES ASSUME Init PROVE TerminalInv
  OBVIOUS
<1>1. ram \in [Places -> Cells]
  BY CellTypes DEF Init, Places
<1> QED BY <1>1, ResetHolds DEF Init, AfterReset, state

LEMMA Key0Step == TerminalInv /\ Key0 => TerminalInv'
<1>1. TerminalInv /\ Key0 => AfterReset'
  BY DEF TerminalInv, FsmTypes, Key0, Reset, AfterReset, state, Places, Cells, Columns, Rows,
         ResetConfig, Blank, Cell, Start, Boot, Menu
<1>2. (AfterReset => TerminalInv)'
  BY ResetHolds, PTL
<1> QED BY <1>1, <1>2

LEMMA TerminalStep == TerminalInv /\ [Next]_vars => TerminalInv'
<1> SUFFICES ASSUME TerminalInv, [Next]_vars PROVE TerminalInv'
  OBVIOUS
<1>1. CASE Poll
  BY <1>1, CycleStep DEF Poll, busy
<1>2. CASE Write
  BY <1>2, WriteStep
<1>3. CASE Pause
  BY <1>3, CycleStep DEF Pause, program
<1>4. CASE Call
  BY <1>4, CallStep
<1>5. CASE Button
  BY <1>5, ButtonStep
<1>6. CASE FreeCall
  BY <1>6, FreeCallStep
<1>7. CASE Key0
  BY <1>7, Key0Step
<1>8. CASE UNCHANGED vars
  <2>1. UNCHANGED <<fsm, term, pc, todo, script, color_config>>
    BY <1>8 DEF vars, program
  <2>2. FsmTypes' /\ Finishes'
    BY <2>1, SameFsm, SameShown DEF TerminalInv
  <2>3. ProgramTypes'
    BY <2>1 DEF TerminalInv, ProgramTypes, fsm, state
  <2>4. ClearsHome'
    BY <2>1 DEF TerminalInv, ClearsHome, Unscrolled, MayScroll, Homing, fsm, state
  <2> QED BY <2>2, <2>3, <2>4 DEF TerminalInv
<1> QED BY <1>1, <1>2, <1>3, <1>4, <1>5, <1>6, <1>7, <1>8 DEF Next

LEMMA TerminalAlways == Spec => []TerminalInv
BY InitHolds, TerminalStep, PTL DEF Spec

(* The states of the controller and of the program are those of the code:  *)
(* the cursor and the scroll offset stay on the screen, so that every      *)
(* write of a cell is inside the video RAM.                                *)
THEOREM TextTypeCorrect == Spec => []TypeOK
<1>1. TerminalInv => TypeOK
  BY DEF TerminalInv, FsmTypes, ProgramTypes, States, Places, TypeOK
<1> QED BY <1>1, TerminalAlways, PTL

(* Whenever the controller is not busy, the screen and the cursor are what *)
(* the commands written so far ask for, for every sequence of commands,    *)
(* whatever pauses lie between them, and after every reset.                *)
THEOREM TerminalShown == Spec => []ShowsTerminal
<1>1. TerminalInv => ShowsTerminal
  <2> SUFFICES ASSUME TerminalInv, ~busy PROVE ShowsTerminal
    BY DEF ShowsTerminal
  <2>1. term = Now
    BY DEF TerminalInv, Finishes, busy
  <2>2. Now.cell = Screen /\ Now.x = x_cursor /\ Now.y = y_cursor
    BY FieldsOf DEF Now
  <2> QED BY <2>1, <2>2 DEF ShowsTerminal
<1> QED BY <1>1, TerminalAlways, PTL

-----------------------------------------------------------------------------
(* The pages: what the program has still to do                             *)

Terminals == [cell : [Places -> Cells], x : Columns, y : Rows, rolls : BOOLEAN]

(* The next n places of row y from column x on.                            *)
Along(x, y, n) == { p \in Places : p[2] = y /\ x <= p[1] /\ p[1] < x + n }

(* A character that is written n times, up to the end of the row at most.  *)
Letters == Chars \ {LineFeed, Backspace}
Typing(c, n) == Repeat(Command("SET_CHAR", c), n)
Typed(t, c, n, x) == Term(Filled(t.cell, Along(t.x, t.y, n), c), x, t.y, t.rolls)

(* g is what the commands s make of the terminal t, for the commands that  *)
(* are left of a call of main.c: those that follow the first move of the   *)
(* cursor, and all.                                                        *)
Straight(t, s, g) ==
  \/ s = <<>> /\ g = t
  \/ s = display_init(MainConfig) /\ g = t /\ Is(t.rolls)
  \/ \E color \in Colored : /\ s = <<Command("CLEAR_SCREEN", Blank(color))>>
                            /\ g = At(Fill(t, Places, Blank(color)), 0, 0)
  \/ \E c \in Cells, n \in 1 .. COLUMN_COUNT :
       /\ s = Typing(c, n) /\ c.char \in Letters
       /\ \/ t.x + n < COLUMN_COUNT /\ g = Typed(t, c, n, t.x + n)
          \/ t.x + n = COLUMN_COUNT /\ g = NewLine(Typed(t, c, n, COLUMN_COUNT - 1), c.color)
  \/ \E c \in Cells, n \in 0 .. COLUMN_COUNT, color \in Colored :
       /\ s = Typing(c, n) \o <<Command("NEW_LINE", Blank(color))>> /\ c.char \in Letters
       /\ t.x + n < COLUMN_COUNT /\ g = NewLine(Typed(t, c, n, t.x + n), color)

Ends(t, s, g) ==
  \/ Straight(t, s, g)
  \/ \E p \in Points : /\ s # <<>> /\ Head(s) = Command("SET_CURSOR_POSITION", p)
                       /\ Straight(At(t, p.x, p.y), Tail(s), g)

(* What may be seen in column x of a row.                                  *)
Blanks == {Nul, " "}
LooksRight(char, x, look) ==
  IF look = "any" THEN TRUE
  ELSE IF look \in {"menu", "demo"} THEN char = look
  ELSE IF look # "blank" /\ x < COLUMN_COUNT - 2 THEN char = look
  ELSE char \in Blanks

(* The rows of a page of which the first lines of the buttons are done.    *)
ButtonRows == BUTTON_ROW .. BUTTON_ROW + BUTTON_LINES - 1
Look(y, first, second, done, view) ==
  IF y = 0 THEN "T"
  ELSE IF y \in ButtonRows THEN (IF y < BUTTON_ROW + done THEN view ELSE "any")
  ELSE IF y = 1 THEN first ELSE IF y = 2 THEN second ELSE "blank"

Frame(t, first, second, done, view) ==
  \A x \in Columns, y \in Rows :
    LooksRight(t.cell[<<x, y>>].char, x, Look(y, first, second, done, view))

Empty(t) == \A x \in Columns, y \in Rows : t.cell[<<x, y>>].char \in Blanks

Cursors(t, x, y) == t.x = x /\ t.y = y

(* A page as it is left to do: n lines of buttons, the lines from line on  *)
(* to be cleared, the message, and what comes at the end.                  *)
Views == {"menu", "demo"}
Text(view) == IF view = "menu" THEN "r" ELSE "d"
Endings(view) == IF view = "menu" THEN {<<>>} ELSE {<<>>, Done}
ButtonLine(view) == Show(Repeat(view, COLUMN_COUNT))
LastCalls(view, end) == <<Show(Message(Text(view)))>> \o end
Lines(line, rest) == display_clear_lines(line, CLEAR_END) \o rest
Left(view, n, line, end) ==
  Repeat(ButtonLine(view), n) \o Lines(line, <<MoveTo(0, 1)>> \o LastCalls(view, end))

Title == Show(Message("T") \o <<LineFeed>>)

(* The title page: what is left of Boot.                                   *)
Booting(t, s) ==
  \/ s = Boot \o Menu
  \/ s = <<[fn |-> "set_colors"], [fn |-> "clear"], Title>> \o Menu
  \/ s = <<[fn |-> "clear"], Title>> \o Menu
  \/ s = <<Title>> \o Menu /\ Empty(t) /\ Cursors(t, 0, 0)

Firsts == {"blank", "r", "d"}
Seconds == {"blank", "e"}

(* From the move to the buttons on.                                        *)
Starting(t, s, view, end, first, second, line) ==
  /\ s = <<MoveTo(0, BUTTON_ROW)>> \o Left(view, BUTTON_LINES, line, end)
  /\ Frame(t, first, second, 0, view)
  /\ line > 1 => first = "blank"
  /\ line > 2 => second = "blank"

(* Within the buttons or the lines to be cleared.                          *)
Clearing(t, s, view, end, first, second, line, n) ==
  /\ s = Left(view, n, line, end)
  /\ Frame(t, first, second, BUTTON_LINES - n, view)
  /\ line > 1 => first = "blank"
  /\ line > 2 => second = "blank"
  /\ n > 0 => Cursors(t, 0, BUTTON_ROW + BUTTON_LINES - n)

Ending(t, s, view, end) ==
  \/ s = LastCalls(view, end) /\ Frame(t, "blank", "blank", BUTTON_LINES, view) /\ Cursors(t, 0, 1)
  \/ /\ s = end /\ Frame(t, Text(view), "blank", BUTTON_LINES, view)
     /\ Cursors(t, COLUMN_COUNT - 2, 1)
  \/ /\ view = "demo" /\ s = <<Show(Message("e"))>>
     /\ Frame(t, "d", "blank", BUTTON_LINES, view) /\ Cursors(t, 0, 2)
  \/ view = "demo" /\ s = <<>> /\ Frame(t, "d", "e", BUTTON_LINES, view)

Stage(t, s) ==
  /\ Is(t.rolls)
  /\ \/ Booting(t, s)
     \/ \E view \in Views : \E end \in Endings(view) :
          \/ \E first \in Firsts, second \in Seconds, line \in 1 .. CLEAR_END :
               \/ Starting(t, s, view, end, first, second, line)
               \/ \E n \in 0 .. BUTTON_LINES : Clearing(t, s, view, end, first, second, line, n)
          \/ Ending(t, s, view, end)

PageInv == ~Free => \E g \in Terminals : Ends(term, todo, g) /\ Stage(g, script)

-----------------------------------------------------------------------------
(* Sequences                                                               *)

LEMMA RepeatNone == ASSUME NEW c PROVE Repeat(c, 0) = <<>>
<1>1. c \in {c} /\ 0 \in Nat
  OBVIOUS
<1>2. Repeat(c, 0) \in Seq({c}) /\ Len(Repeat(c, 0)) = 0
  BY <1>1, RepeatIs
<1> HIDE DEF Repeat
<1> QED BY <1>2, EmptySeq

LEMMA RepeatStep ==
  ASSUME NEW c, NEW n \in Nat, n > 0
  PROVE  /\ Repeat(c, n) # <<>> /\ Head(Repeat(c, n)) = c
         /\ Tail(Repeat(c, n)) = Repeat(c, n - 1)
<1> DEFINE s == Repeat(c, n)
           r == Repeat(c, n - 1)
<1>1. c \in {c} /\ n - 1 \in Nat
  OBVIOUS
<1>2. /\ s \in Seq({c}) /\ Len(s) = n
      /\ r \in Seq({c}) /\ Len(r) = n - 1
  BY <1>1, RepeatIs
<1>3. (\A k \in 1 .. n : s[k] = c) /\ (\A k \in 1 .. n - 1 : r[k] = c)
  BY DEF Repeat
<1> HIDE DEF s, r
<1>4. s # <<>>
  BY <1>2
<1>5. Tail(s) \in Seq({c}) /\ Len(Tail(s)) = n - 1 /\ Head(s) \in {c}
  BY <1>2, <1>4, HeadTailProperties
<1>6. \A k \in 1 .. n - 1 : Tail(s)[k] \in {c}
  BY <1>5, ElementOfSeq
<1>7. Tail(s) = r
  BY <1>2, <1>3, <1>5, <1>6, SeqEqual
<1> QED BY <1>4, <1>5, <1>7 DEF s, r

LEMMA ConcatStep ==
  ASSUME NEW S, NEW s \in Seq(S), NEW r \in Seq(S), s # <<>>
  PROVE  s \o r # <<>> /\ Head(s \o r) = Head(s) /\ Tail(s \o r) = Tail(s) \o r
<1>1. /\ s \o r \in Seq(S) /\ Len(s \o r) = Len(s) + Len(r)
      /\ \A i \in 1 .. Len(s) + Len(r) :
           (s \o r)[i] = IF i <= Len(s) THEN s[i] ELSE r[i - Len(s)]
  BY ConcatProperties
<1>2. Len(s) \in Nat /\ Len(s) > 0 /\ Len(r) \in Nat
  BY EmptySeq, LenProperties
<1>3. s \o r # <<>>
  BY <1>1, <1>2, EmptySeq
<1>4. Head(s \o r) = Head(s)
  <2>1. Head(s \o r) = (s \o r)[1] /\ Head(s) = s[1]
    BY <1>1, <1>3
  <2> QED BY <1>1, <1>2, <2>1
<1>5. /\ Tail(s) \in Seq(S) /\ Len(Tail(s)) = Len(s) - 1
      /\ \A i \in 1 .. Len(Tail(s)) : Tail(s)[i] = s[i + 1]
  BY HeadTailProperties
<1>6. /\ Tail(s \o r) \in Seq(S) /\ Len(Tail(s \o r)) = Len(s) + Len(r) - 1
      /\ \A i \in 1 .. Len(Tail(s \o r)) : Tail(s \o r)[i] = (s \o r)[i + 1]
  BY <1>1, <1>3, HeadTailProperties
<1>7. /\ Tail(s) \o r \in Seq(S) /\ Len(Tail(s) \o r) = Len(Tail(s)) + Len(r)
      /\ \A i \in 1 .. Len(Tail(s)) + Len(r) :
           (Tail(s) \o r)[i] = IF i <= Len(Tail(s)) THEN Tail(s)[i] ELSE r[i - Len(Tail(s))]
  BY <1>5, ConcatProperties
<1>8. ASSUME NEW i \in 1 .. Len(s) + Len(r) - 1
      PROVE  Tail(s \o r)[i] = (Tail(s) \o r)[i]
  <2>1. Tail(s \o r)[i] = IF i + 1 <= Len(s) THEN s[i + 1] ELSE r[i + 1 - Len(s)]
    <3>1. i + 1 \in 1 .. Len(s) + Len(r) /\ i \in 1 .. Len(Tail(s \o r))
      BY <1>2, <1>6
    <3> QED BY <1>1, <1>6, <3>1
  <2>2. (Tail(s) \o r)[i] = IF i + 1 <= Len(s) THEN s[i + 1] ELSE r[i + 1 - Len(s)]
    <3>1. i \in 1 .. Len(Tail(s)) + Len(r) /\ (i <= Len(Tail(s)) <=> i + 1 <= Len(s))
      BY <1>2, <1>5
    <3>2. i - Len(Tail(s)) = i + 1 - Len(s)
      BY <1>2, <1>5
    <3>3. i + 1 <= Len(s) => Tail(s)[i] = s[i + 1]
      BY <1>2, <1>5
    <3> QED BY <1>7, <3>1, <3>2, <3>3
  <2> QED BY <2>1, <2>2
<1>9. Tail(s \o r) = Tail(s) \o r
  <2>1. Len(Tail(s \o r)) = Len(Tail(s) \o r)
    BY <1>2, <1>5, <1>6, <1>7
  <2> QED BY <1>6, <1>7, <1>8, <2>1, SeqEqual
<1> QED BY <1>3, <1>4, <1>9

(* A sequence that begins with c and goes on with r.                       *)
Begins(s, c, r) == s # <<>> /\ Head(s) = c /\ Tail(s) = r

LEMMA RepeatConcat ==
  ASSUME NEW S, NEW c \in S, NEW n \in Nat, NEW r \in Seq(S)
  PROVE  /\ Repeat(c, 0) \o r = r
         /\ n > 0 => Begins(Repeat(c, n) \o r, c, Repeat(c, n - 1) \o r)
<1>1. Repeat(c, 0) \o r = r
  BY RepeatNone, ConcatEmptySeq
<1>2. ASSUME n > 0
      PROVE  Begins(Repeat(c, n) \o r, c, Repeat(c, n - 1) \o r)
  <2>1. /\ Repeat(c, n) \in Seq(S) /\ Repeat(c, n) # <<>> /\ Head(Repeat(c, n)) = c
        /\ Tail(Repeat(c, n)) = Repeat(c, n - 1)
    BY <1>2, RepeatIs, RepeatStep
  <2>2. /\ Repeat(c, n) \o r # <<>> /\ Head(Repeat(c, n) \o r) = Head(Repeat(c, n))
        /\ Tail(Repeat(c, n) \o r) = Tail(Repeat(c, n)) \o r
    BY <2>1, ConcatStep
  <2> QED BY <2>1, <2>2 DEF Begins
<1> QED BY <1>1, <1>2

LEMMA OneConcat ==
  ASSUME NEW S, NEW c \in S, NEW r \in Seq(S)
  PROVE  Begins(<<c>> \o r, c, r)
<1>1. <<c>> \in Seq(S) /\ <<c>> # <<>> /\ Head(<<c>>) = c /\ Tail(<<c>>) = <<>>
  OBVIOUS
<1> QED BY <1>1, ConcatStep, ConcatEmptySeq DEF Begins

-----------------------------------------------------------------------------
(* What is left of a call                                                  *)

LEMMA TerminalIs ==
  ASSUME NEW t \in Terminals
  PROVE  /\ t = Term(t.cell, t.x, t.y, t.rolls) /\ DOMAIN t.cell = Places
         /\ t.cell \in [Places -> Cells] /\ t.x \in Columns /\ t.y \in Rows
         /\ t.rolls \in BOOLEAN
BY DEF Terminals, Term

LEMMA TermIs ==
  ASSUME NEW C \in [Places -> Cells], NEW x \in Columns, NEW y \in Rows, NEW r \in BOOLEAN
  PROVE  Term(C, x, y, r) \in Terminals
BY DEF Terminals, Term

LEMMA FilledIs ==
  ASSUME NEW C \in [Places -> Cells], NEW S, NEW c \in Cells
  PROVE  Filled(C, S, c) \in [Places -> Cells]
BY DEF Filled

LEMMA FillIs ==
  ASSUME NEW t \in Terminals, NEW S, NEW c \in Cells
  PROVE  /\ Fill(t, S, c) = Term(Filled(t.cell, S, c), t.x, t.y, t.rolls)
         /\ Fill(t, S, c) \in Terminals
<1>1. /\ t = Term(t.cell, t.x, t.y, t.rolls) /\ DOMAIN t.cell = Places
      /\ t.cell \in [Places -> Cells] /\ t.x \in Columns /\ t.y \in Rows
      /\ t.rolls \in BOOLEAN
  BY TerminalIs
<1>2. Fill(Term(t.cell, t.x, t.y, t.rolls), S, c) =
        Term(Filled(t.cell, S, c), t.x, t.y, t.rolls)
  BY <1>1, FillTerm
<1> QED BY <1>1, <1>2, FilledIs, TermIs

LEMMA AtIs ==
  ASSUME NEW t \in Terminals, NEW x \in Columns, NEW y \in Rows
  PROVE  At(t, x, y) = Term(t.cell, x, y, t.rolls) /\ At(t, x, y) \in Terminals
<1>1. /\ t = Term(t.cell, t.x, t.y, t.rolls) /\ t.cell \in [Places -> Cells]
      /\ t.rolls \in BOOLEAN
  BY TerminalIs
<1>2. At(Term(t.cell, t.x, t.y, t.rolls), x, y) = Term(t.cell, x, y, t.rolls)
  BY ChangeTerm
<1> QED BY <1>1, <1>2, TermIs

(* A letter is written, and the rest of its row is left to write.          *)
LEMMA TypedOnce ==
  ASSUME NEW t \in Terminals, NEW c \in Cells, c.char \in Letters,
         t.x + 1 < COLUMN_COUNT, NEW n \in Nat, n > 0
  PROVE  LET u == Apply(t, Command("SET_CHAR", c))
         IN /\ u \in Terminals /\ u.x = t.x + 1 /\ u.rolls = t.rolls
            /\ \A z : Typed(u, c, n - 1, z) = Typed(t, c, n, z)
<1> DEFINE u == Apply(t, Command("SET_CHAR", c))
           C == t.cell
           H == {<<t.x, t.y>>}
<1>1. /\ C \in [Places -> Cells] /\ t.x \in Columns /\ t.y \in Rows /\ t.rolls \in BOOLEAN
      /\ t.x \in Int /\ COLUMN_COUNT \in Int
  BY TerminalIs, Sizes DEF Columns
<1>2. u = Advance(Fill(t, H, c), c.color)
  <2>1. /\ Command("SET_CHAR", c).op = "SET_CHAR" /\ Command("SET_CHAR", c).data = c
        /\ c.char # LineFeed /\ c.char # Backspace
    BY CommandIs DEF Letters
  <2> DEFINE d == Command("SET_CHAR", c)
  <2> HIDE DEF d
  <2>2. Apply(t, d) = Advance(Fill(t, {<<t.x, t.y>>}, d.data), d.data.color)
    <3>1. d.op = "SET_CHAR" /\ d.data.char # LineFeed /\ d.data.char # Backspace
      BY <2>1 DEF d
    <3> QED BY <3>1, ApplyIs
  <2> QED BY <2>1, <2>2 DEF d
<1>3. Fill(t, H, c) = Term(Filled(C, H, c), t.x, t.y, t.rolls)
  BY FillIs
<1>4. u = Term(Filled(C, H, c), t.x + 1, t.y, t.rolls)
  <2>1. t.x # COLUMN_COUNT - 1
    BY <1>1
  <2>2. Advance(Term(Filled(C, H, c), t.x, t.y, t.rolls), c.color) =
          IF t.x = COLUMN_COUNT - 1
          THEN NewLine(Term(Filled(C, H, c), t.x, t.y, t.rolls), c.color)
          ELSE Term(Filled(C, H, c), t.x + 1, t.y, t.rolls)
    BY ScreenDomain, AdvanceTerm
  <2> QED BY <1>2, <1>3, <2>1, <2>2
<1>5. t.x + 1 \in Columns
  BY <1>1 DEF Columns
<1>6. u \in Terminals
  BY <1>1, <1>4, <1>5, FilledIs, TermIs
<1>7. /\ u.cell = Filled(C, H, c) /\ u.x = t.x + 1 /\ u.y = t.y /\ u.rolls = t.rolls
  BY <1>4, FieldsOf
<1>8. \A p \in Places : p \in H \cup Along(t.x + 1, t.y, n - 1) <=> p \in Along(t.x, t.y, n)
  <2> SUFFICES ASSUME NEW p \in Places
               PROVE  p \in H \cup Along(t.x + 1, t.y, n - 1) <=> p \in Along(t.x, t.y, n)
    OBVIOUS
  <2>1. p[1] \in Columns /\ p[2] \in Rows /\ p = <<p[1], p[2]>>
    BY PlaceOf
  <2>2. p[1] \in Int
    BY <2>1 DEF Columns
  <2>3. p \in H <=> p[1] = t.x /\ p[2] = t.y
    BY <2>1
  <2>4. p \in Along(t.x + 1, t.y, n - 1) <=>
          p[2] = t.y /\ t.x + 1 <= p[1] /\ p[1] < t.x + 1 + (n - 1)
    BY DEF Along
  <2>5. p \in Along(t.x, t.y, n) <=> p[2] = t.y /\ t.x <= p[1] /\ p[1] < t.x + n
    BY DEF Along
  <2> HIDE DEF H
  <2> QED BY <1>1, <2>2, <2>3, <2>4, <2>5
<1>9. Filled(u.cell, Along(u.x, u.y, n - 1), c) = Filled(C, Along(t.x, t.y, n), c)
  <2>1. Filled(Filled(C, H, c), Along(t.x + 1, t.y, n - 1), c) =
          Filled(C, H \cup Along(t.x + 1, t.y, n - 1), c)
    BY FilledTwice
  <2>2. Filled(C, H \cup Along(t.x + 1, t.y, n - 1), c) = Filled(C, Along(t.x, t.y, n), c)
    BY <1>8, FilledSame
  <2> QED BY <1>7, <2>1, <2>2
<1>10. \A z : Typed(u, c, n - 1, z) = Typed(t, c, n, z)
  BY <1>7, <1>9 DEF Typed
<1> QED BY <1>6, <1>7, <1>10

LEMMA TypedNone ==
  ASSUME NEW t \in Terminals, NEW c
  PROVE  Typed(t, c, 0, t.x) = t
<1>1. /\ t = Term(t.cell, t.x, t.y, t.rolls) /\ t.cell \in [Places -> Cells] /\ t.x \in Int
  BY TerminalIs DEF Columns
<1>2. \A p \in Places : p \notin Along(t.x, t.y, 0)
  <2> SUFFICES ASSUME NEW p \in Places, p \in Along(t.x, t.y, 0) PROVE FALSE
    OBVIOUS
  <2>1. p[1] \in Int
    BY PlaceOf DEF Columns
  <2> QED BY <1>1, <2>1 DEF Along
<1>3. Filled(t.cell, Along(t.x, t.y, 0), c) = t.cell
  <2>1. Filled(t.cell, Along(t.x, t.y, 0), c) = [p \in Places |-> t.cell[p]]
    BY <1>2 DEF Filled
  <2> QED BY <1>1, <2>1
<1> QED BY <1>1, <1>3 DEF Typed

LEMMA LetterAtEnd ==
  ASSUME NEW t \in Terminals, NEW c \in Cells, c.char \in Letters, t.x + 1 = COLUMN_COUNT
  PROVE  Apply(t, Command("SET_CHAR", c)) = NewLine(Typed(t, c, 1, COLUMN_COUNT - 1), c.color)
<1> DEFINE C == t.cell
           H == {<<t.x, t.y>>}
           d == Command("SET_CHAR", c)
<1>1. /\ C \in [Places -> Cells] /\ t.x \in Columns /\ t.y \in Rows /\ t.rolls \in BOOLEAN
      /\ t.x \in Int /\ COLUMN_COUNT \in Int /\ t.x = COLUMN_COUNT - 1
  BY TerminalIs, Sizes DEF Columns
<1>2. /\ d.op = "SET_CHAR" /\ d.data = c /\ d.data.char # LineFeed /\ d.data.char # Backspace
  BY CommandIs DEF Letters
<1> HIDE DEF d
<1>3. Apply(t, d) = Advance(Fill(t, H, c), c.color)
  BY <1>2, ApplyIs
<1>4. Fill(t, H, c) = Term(Filled(C, H, c), t.x, t.y, t.rolls)
  BY FillIs
<1>5. Advance(Term(Filled(C, H, c), t.x, t.y, t.rolls), c.color) =
        IF t.x = COLUMN_COUNT - 1
        THEN NewLine(Term(Filled(C, H, c), t.x, t.y, t.rolls), c.color)
        ELSE Term(Filled(C, H, c), t.x + 1, t.y, t.rolls)
  BY ScreenDomain, AdvanceTerm
<1>6. \A p \in Places : p \in H <=> p \in Along(t.x, t.y, 1)
  <2> SUFFICES ASSUME NEW p \in Places PROVE p \in H <=> p \in Along(t.x, t.y, 1)
    OBVIOUS
  <2>1. p[1] \in Columns /\ p[2] \in Rows /\ p = <<p[1], p[2]>>
    BY PlaceOf
  <2>2. p[1] \in Int
    BY <2>1 DEF Columns
  <2>3. p \in H <=> p[1] = t.x /\ p[2] = t.y
    BY <2>1
  <2>4. p \in Along(t.x, t.y, 1) <=> p[2] = t.y /\ t.x <= p[1] /\ p[1] < t.x + 1
    BY DEF Along
  <2> HIDE DEF H
  <2> QED BY <1>1, <2>2, <2>3, <2>4
<1>7. Filled(C, H, c) = Filled(C, Along(t.x, t.y, 1), c)
  BY <1>6, FilledSame
<1> QED BY <1>1, <1>3, <1>4, <1>5, <1>7 DEF Typed, d

LEMMA CommandSequences ==
  /\ \A d \in WellFormed : /\ <<d>> \in Seq(WellFormed) /\ <<d>> # <<>>
                           /\ Head(<<d>>) = d /\ Tail(<<d>>) = <<>>
  /\ \A c \in Cells : Command("SET_CHAR", c) \in WellFormed
  /\ \A color \in Colored : /\ Command("NEW_LINE", Blank(color)) \in WellFormed
                            /\ Command("CLEAR_SCREEN", Blank(color)) \in WellFormed
  /\ Command("CFG", MainConfig) \in WellFormed
BY CommandIs, CellTypes DEF CellOps

LEMMA StraightStep ==
  ASSUME NEW t \in Terminals, NEW s, NEW g, Straight(t, s, g), s # <<>>
  PROVE  Straight(Apply(t, Head(s)), Tail(s), g)
<1>0. COLUMN_COUNT \in Nat /\ t.x \in Int
  BY TerminalIs, Sizes DEF Columns
<1>1. CASE s = display_init(MainConfig) /\ g = t /\ Is(t.rolls)
  <2> DEFINE d == Command("CFG", MainConfig)
             b == d.data.auto_scroll = 0
  <2>1. s = <<d>> /\ Head(s) = d /\ Tail(s) = <<>>
    BY <1>1 DEF display_init
  <2>2. d.op = "CFG" /\ d.data.auto_scroll = 0
    BY CommandIs DEF MainConfig
  <2> HIDE DEF d
  <2>3. Apply(t, d) = Mode(t, b)
    <3>1. Apply(t, d) = [t EXCEPT !.rolls = (d.data.auto_scroll = 0)]
      BY <2>2, ApplyIs
    <3> QED BY <3>1 DEF Mode
  <2>4. b = t.rolls
    BY <1>1, <2>2, TerminalIs DEF Is
  <2> HIDE DEF b
  <2>5. Mode(t, t.rolls) = t
    <3>1. t = Term(t.cell, t.x, t.y, t.rolls)
      BY TerminalIs
    <3>2. \A C, X, Y, R : Mode(Term(C, X, Y, R), R) = Term(C, X, Y, R)
      <4> SUFFICES ASSUME NEW C, NEW X, NEW Y, NEW R
                   PROVE  Mode(Term(C, X, Y, R), R) = Term(C, X, Y, R)
        OBVIOUS
      <4> QED BY SMTT(20) DEF Term, Mode
    <3> QED BY <3>1, <3>2
  <2> QED BY <1>1, <2>1, <2>3, <2>4, <2>5 DEF Straight
<1>2. ASSUME NEW color \in Colored, s = <<Command("CLEAR_SCREEN", Blank(color))>>,
             g = At(Fill(t, Places, Blank(color)), 0, 0)
      PROVE  Straight(Apply(t, Head(s)), Tail(s), g)
  <2> DEFINE d == Command("CLEAR_SCREEN", Blank(color))
  <2>1. s = <<d>> /\ Head(s) = d /\ Tail(s) = <<>>
    BY <1>2
  <2>2. d.op = "CLEAR_SCREEN" /\ d.data = Blank(color)
    BY CommandIs
  <2> HIDE DEF d
  <2>3. Apply(t, d) = At(Fill(t, Places, d.data), 0, 0)
    BY <2>2, ApplyIs
  <2> QED BY <1>2, <2>1, <2>2, <2>3 DEF Straight
<1>3. ASSUME NEW c \in Cells, NEW n \in 1 .. COLUMN_COUNT, s = Typing(c, n), c.char \in Letters,
             \/ t.x + n < COLUMN_COUNT /\ g = Typed(t, c, n, t.x + n)
             \/ t.x + n = COLUMN_COUNT /\ g = NewLine(Typed(t, c, n, COLUMN_COUNT - 1), c.color)
      PROVE  Straight(Apply(t, Head(s)), Tail(s), g)
  <2>1. Head(s) = Command("SET_CHAR", c) /\ Tail(s) = Typing(c, n - 1)
    BY <1>3, RepeatStep DEF Typing
  <2> DEFINE u == Apply(t, Command("SET_CHAR", c))
  <2>2. CASE n = 1 /\ t.x + n = COLUMN_COUNT
    <3>1. u = g
      BY <1>3, <1>0, <2>2, LetterAtEnd
    <3>2. Tail(s) = <<>>
      BY <2>1, <2>2, RepeatNone DEF Typing
    <3> QED BY <2>1, <3>1, <3>2 DEF Straight
  <2>3. CASE ~(n = 1 /\ t.x + n = COLUMN_COUNT)
    <3>1. t.x + 1 < COLUMN_COUNT /\ n \in Nat /\ n > 0
      BY <1>0, <1>3, <2>3
    <3>2. /\ u \in Terminals /\ u.x = t.x + 1 /\ u.rolls = t.rolls
          /\ \A z : Typed(u, c, n - 1, z) = Typed(t, c, n, z)
      BY <1>3, <3>1, TypedOnce
    <3> HIDE DEF u
    <3>3. u.x + (n - 1) = t.x + n
      BY <1>0, <3>1, <3>2
    <3>4. CASE n = 1
      <4>1. Tail(s) = <<>>
        BY <2>1, <3>4, RepeatNone DEF Typing
      <4>2. g = Typed(u, c, 0, u.x)
        BY <1>3, <1>0, <2>3, <3>2, <3>4
      <4> QED BY <2>1, <3>2, <4>1, <4>2, TypedNone DEF Straight, u
    <3>5. CASE n # 1
      <4>1. n - 1 \in 1 .. COLUMN_COUNT
        BY <1>0, <3>5
      <4>2. \/ u.x + (n - 1) < COLUMN_COUNT /\ g = Typed(u, c, n - 1, u.x + (n - 1))
            \/ /\ u.x + (n - 1) = COLUMN_COUNT
               /\ g = NewLine(Typed(u, c, n - 1, COLUMN_COUNT - 1), c.color)
        BY <1>3, <3>2, <3>3
      <4> QED BY <1>3, <2>1, <4>1, <4>2 DEF Straight, u
    <3> QED BY <3>4, <3>5
  <2> QED BY <2>2, <2>3
<1>4. ASSUME NEW c \in Cells, NEW n \in 0 .. COLUMN_COUNT, NEW color \in Colored,
             s = Typing(c, n) \o <<Command("NEW_LINE", Blank(color))>>, c.char \in Letters,
             t.x + n < COLUMN_COUNT, g = NewLine(Typed(t, c, n, t.x + n), color)
      PROVE  Straight(Apply(t, Head(s)), Tail(s), g)
  <2> DEFINE d == Command("NEW_LINE", Blank(color))
             a == Command("SET_CHAR", c)
  <2>1. /\ d \in WellFormed /\ a \in WellFormed /\ <<d>> \in Seq(WellFormed)
        /\ Head(<<d>>) = d /\ Tail(<<d>>) = <<>> /\ d.op = "NEW_LINE" /\ d.data.color = color
    <3>1. Blank(color).color = color
      BY DEF Blank, Cell
    <3> QED BY <3>1, CommandSequences, CommandIs
  <2>2. s = Repeat(a, n) \o <<d>>
    BY <1>4 DEF Typing
  <2> HIDE DEF d, a
  <2>3. CASE n = 0
    <3>1. s = <<d>>
      BY <2>1, <2>2, <2>3, RepeatConcat
    <3>2. Apply(t, d) = NewLine(t, color)
      BY <2>1, ApplyIs
    <3>3. g = NewLine(t, color)
      BY <1>0, <1>4, <2>3, TypedNone
    <3> QED BY <2>1, <3>1, <3>2, <3>3 DEF Straight
  <2>4. CASE n > 0
    <3>1. Head(s) = a /\ Tail(s) = Repeat(a, n - 1) \o <<d>>
      <4>1. Begins(Repeat(a, n) \o <<d>>, a, Repeat(a, n - 1) \o <<d>>)
        <5>1. n \in Nat /\ n > 0 /\ a \in WellFormed /\ <<d>> \in Seq(WellFormed)
          BY <1>0, <2>1, <2>4
        <5> QED BY <5>1, RepeatConcat
      <4> QED BY <2>2, <4>1 DEF Begins
    <3>2. t.x + 1 < COLUMN_COUNT /\ n \in Nat
      BY <1>0, <1>4, <2>4
    <3> DEFINE u == Apply(t, a)
    <3>3. /\ u \in Terminals /\ u.x = t.x + 1 /\ u.rolls = t.rolls
          /\ \A z : Typed(u, c, n - 1, z) = Typed(t, c, n, z)
      BY <1>4, <2>4, <3>2, TypedOnce DEF a
    <3> HIDE DEF u
    <3>4. n - 1 \in 0 .. COLUMN_COUNT /\ u.x + (n - 1) = t.x + n
      BY <1>0, <2>4, <3>2, <3>3
    <3>5. g = NewLine(Typed(u, c, n - 1, u.x + (n - 1)), color)
      BY <1>4, <3>3, <3>4
    <3>6. Tail(s) = Typing(c, n - 1) \o <<Command("NEW_LINE", Blank(color))>>
      BY <3>1 DEF a, d, Typing
    <3>7. Straight(u, Tail(s), g)
      BY <1>4, <3>3, <3>4, <3>5, <3>6 DEF Straight
    <3> QED BY <3>1, <3>7 DEF u
  <2> QED BY <2>3, <2>4
<1> QED BY <1>1, <1>2, <1>3, <1>4 DEF Straight

LEMMA EndsStep ==
  ASSUME NEW t \in Terminals, NEW s, NEW g, Ends(t, s, g), s # <<>>
  PROVE  Ends(Apply(t, Head(s)), Tail(s), g)
<1>1. CASE Straight(t, s, g)
  BY <1>1, StraightStep DEF Ends
<1>2. ASSUME NEW p \in Points, Head(s) = Command("SET_CURSOR_POSITION", p),
             Straight(At(t, p.x, p.y), Tail(s), g)
      PROVE  Ends(Apply(t, Head(s)), Tail(s), g)
  <2> DEFINE d == Command("SET_CURSOR_POSITION", p)
  <2>1. d.op = "SET_CURSOR_POSITION" /\ d.data = p
    BY CommandIs
  <2> HIDE DEF d
  <2>2. Apply(t, d) = At(t, p.x, p.y)
    <3>1. Apply(t, d) = At(t, d.data.x, d.data.y)
      BY <2>1, ApplyIs
    <3> QED BY <2>1, <3>1
  <2> QED BY <1>2, <2>2 DEF Ends, d
<1> QED BY <1>1, <1>2 DEF Ends

LEMMA EndsNone ==
  ASSUME NEW t, NEW g, Ends(t, <<>>, g)
  PROVE  g = t
<1>1. Straight(t, <<>>, g)
  BY DEF Ends
<1>2. display_init(MainConfig) # <<>>
  BY DEF display_init
<1>3. \A c \in Cells, n \in 1 .. COLUMN_COUNT : Typing(c, n) # <<>>
  BY RepeatStep DEF Typing
<1>4. \A c \in Cells, n \in 0 .. COLUMN_COUNT, color \in Colored :
        Typing(c, n) \o <<Command("NEW_LINE", Blank(color))>> # <<>>
  <2> SUFFICES ASSUME NEW c \in Cells, NEW n \in 0 .. COLUMN_COUNT, NEW color \in Colored
               PROVE  Typing(c, n) \o <<Command("NEW_LINE", Blank(color))>> # <<>>
    OBVIOUS
  <2> DEFINE d == Command("NEW_LINE", Blank(color))
             a == Command("SET_CHAR", c)
  <2>1. d \in WellFormed /\ a \in WellFormed /\ <<d>> \in Seq(WellFormed) /\ <<d>> # <<>>
    BY CommandSequences
  <2> HIDE DEF d, a
  <2>2. n \in Nat
    BY Sizes
  <2>3. Repeat(a, n) \o <<d>> # <<>>
    <3>1. CASE n = 0
      BY <2>1, <3>1, RepeatConcat
    <3>2. CASE n > 0
      BY <2>1, <2>2, <3>2, RepeatConcat DEF Begins
    <3> QED BY <2>2, <3>1, <3>2
  <2> QED BY <2>3 DEF Typing, a, d
<1> QED BY <1>1, <1>2, <1>3, <1>4 DEF Straight


-----------------------------------------------------------------------------
(* What a call shows                                                       *)

LEMMA LettersOf ==
  /\ \A ch \in Letters : ch \in Chars /\ ch # LineFeed /\ ch # Backspace
  /\ \A ch \in {"T", "r", "d", "e", "menu", "demo"} : ch \in Letters
  /\ \E ch \in Letters : /\ ch \in Blanks
                         /\ \A l : display_clear_line(l) =
                              display_move_cursor(0, l)
                                \o display_print(Repeat(ch, COLUMN_COUNT - 1))
  /\ Nul \in Blanks
<1>1. \A ch \in Letters : ch \in Chars /\ ch # LineFeed /\ ch # Backspace
  BY Zenon DEF Letters
<1>2. \A ch \in {"T", "r", "d", "e", "menu", "demo"} : ch \in Letters
  BY Zenon DEF Letters, Chars, LineFeed, Backspace
<1>3. " " \in Letters /\ " " \in Blanks /\ Nul \in Blanks
  BY Zenon DEF Letters, Chars, LineFeed, Backspace, Blanks
<1>4. \A l : display_clear_line(l) =
        display_move_cursor(0, l) \o display_print(Repeat(" ", COLUMN_COUNT - 1))
  BY Zenon DEF display_clear_line
<1> QED BY Zenon, <1>1, <1>2, <1>3, <1>4

LEMMA PrintLetters ==
  ASSUME NEW ch \in Letters, NEW n \in Nat, color_config \in Colored
  PROVE  /\ display_print(Repeat(ch, n)) = Typing(Cell(color_config, ch), n)
         /\ display_print(Repeat(ch, n) \o <<LineFeed>>) =
              Typing(Cell(color_config, ch), n) \o <<Command("NEW_LINE", Blank(color_config))>>
<1> DEFINE a == Command("SET_CHAR", Cell(color_config, ch))
           d == Command("NEW_LINE", Blank(color_config))
           s == Repeat(ch, n)
<1>1. ch \in Chars /\ ch # LineFeed
  BY LettersOf
<1>2. s \in Seq(Chars) /\ Len(s) = n /\ DOMAIN s = 1 .. n /\ \A k \in 1 .. n : s[k] = ch
  BY <1>1, RepeatIs DEF Repeat
<1>3. display_print(s) = Repeat(a, n)
  <2>1. \A k \in 1 .. n : (IF s[k] = LineFeed THEN d
                           ELSE Command("SET_CHAR", Cell(color_config, s[k]))) = a
    BY <1>1, <1>2
  <2>2. display_print(s) =
          [k \in 1 .. n |-> IF s[k] = LineFeed THEN d
                            ELSE Command("SET_CHAR", Cell(color_config, s[k]))]
    BY <1>2 DEF display_print
  <2> HIDE DEF s, a, d
  <2>3. display_print(s) = [k \in 1 .. n |-> a]
    BY <2>1, <2>2
  <2> QED BY <2>3 DEF Repeat
<1>4. a \in WellFormed /\ d \in WellFormed /\ <<d>> \in Seq(WellFormed)
  BY <1>1, CellTypes, CommandSequences
<1>5. display_print(s \o <<LineFeed>>) = Repeat(a, n) \o <<d>>
  <2> DEFINE w == s \o <<LineFeed>>
             z == Repeat(a, n) \o <<d>>
  <2>1. LineFeed \in Chars /\ <<LineFeed>> \in Seq(Chars) /\ Len(<<LineFeed>>) = 1
    BY DEF Chars
  <2>2. /\ w \in Seq(Chars) /\ Len(w) = n + 1
        /\ \A k \in 1 .. n + 1 : w[k] = IF k <= n THEN s[k] ELSE <<LineFeed>>[k - n]
    BY <1>2, <2>1, ConcatProperties
  <2>3. Repeat(a, n) \in Seq(WellFormed) /\ Len(Repeat(a, n)) = n /\ Len(<<d>>) = 1
    BY <1>4, RepeatIs
  <2>4. \A k \in 1 .. n : Repeat(a, n)[k] = a
    BY DEF Repeat
  <2>5. /\ z \in Seq(WellFormed) /\ Len(z) = n + 1
        /\ \A k \in 1 .. n + 1 : z[k] = IF k <= n THEN Repeat(a, n)[k] ELSE <<d>>[k - n]
    BY <1>4, <2>3, ConcatProperties
  <2>6. display_print(w) =
          [k \in 1 .. n + 1 |-> IF w[k] = LineFeed THEN d
                                ELSE Command("SET_CHAR", Cell(color_config, w[k]))]
    <3>1. DOMAIN w = 1 .. n + 1
      BY <2>2, LenProperties
    <3> QED BY <3>1 DEF display_print
  <2>7. ASSUME NEW k \in 1 .. n + 1
        PROVE  (IF w[k] = LineFeed THEN d
                ELSE Command("SET_CHAR", Cell(color_config, w[k]))) = z[k]
    <3>1. CASE k <= n
      <4>1. w[k] = ch /\ z[k] = a
        BY <1>2, <2>2, <2>4, <2>5, <3>1
      <4> QED BY <1>1, <4>1
    <3>2. CASE ~(k <= n)
      <4>1. k - n = 1
        BY <3>2
      <4>2. w[k] = LineFeed /\ z[k] = d
        BY <2>2, <2>5, <3>2, <4>1
      <4> QED BY <4>2
    <3> QED BY <3>1, <3>2
  <2> HIDE DEF w, z, a, d
  <2>8. z = [k \in 1 .. n + 1 |-> z[k]]
    BY <2>5, LenProperties
  <2>9. display_print(w) = z
    BY <2>6, <2>7, <2>8
  <2> QED BY <2>9 DEF w, z
<1> QED BY <1>3, <1>5 DEF Typing

LEMMA PrintLineFeed ==
  ASSUME NEW ch \in Letters, color_config \in Colored
  PROVE  display_print(<<LineFeed>>) =
           Typing(Cell(color_config, ch), 0) \o <<Command("NEW_LINE", Blank(color_config))>>
<1>1. ch \in Chars /\ LineFeed \in Chars /\ 0 \in Nat /\ <<LineFeed>> \in Seq(Chars)
  <2>1. LineFeed \in Chars
    BY DEF Chars
  <2> QED BY <2>1, LettersOf
<1>2. Repeat(ch, 0) \o <<LineFeed>> = <<LineFeed>>
  BY <1>1, RepeatConcat
<1> QED BY <1>1, <1>2, PrintLetters

(* What of t a call leaves on g: row y up to column n holds the character  *)
(* ch, and if new, the row below is empty.                                 *)
Drawn(t, g, x, y, n, ch, new) ==
  \A u \in Columns, v \in Rows :
    g.cell[<<u, v>>].char =
      IF new /\ v = y + 1 THEN Nul
      ELSE IF v = y /\ x <= u /\ u < n THEN ch ELSE t.cell[<<u, v>>].char

LEMMA TypedIs ==
  ASSUME NEW t \in Terminals, NEW c \in Cells, NEW n \in Nat, NEW z \in Columns
  PROVE  LET g == Typed(t, c, n, z)
         IN /\ g \in Terminals /\ Cursors(g, z, t.y) /\ g.rolls = t.rolls
            /\ Drawn(t, g, t.x, t.y, t.x + n, c.char, FALSE)
<1> DEFINE A == Along(t.x, t.y, n)
           g == Typed(t, c, n, z)
<1>1. t.cell \in [Places -> Cells] /\ t.x \in Columns /\ t.y \in Rows /\ t.rolls \in BOOLEAN
  BY TerminalIs
<1>2. g = Term(Filled(t.cell, A, c), z, t.y, t.rolls)
  BY DEF Typed
<1>3. g.cell = Filled(t.cell, A, c) /\ g.x = z /\ g.y = t.y /\ g.rolls = t.rolls
  BY <1>2, FieldsOf
<1>4. g \in Terminals
  BY <1>1, <1>2, FilledIs, TermIs
<1>5. ASSUME NEW u \in Columns, NEW v \in Rows
      PROVE  g.cell[<<u, v>>].char =
               IF v = t.y /\ t.x <= u /\ u < t.x + n THEN c.char ELSE t.cell[<<u, v>>].char
  <2>1. <<u, v>> \in Places
    BY PlaceOf
  <2>2. <<u, v>> \in A <=> v = t.y /\ t.x <= u /\ u < t.x + n
    BY <2>1 DEF Along
  <2>3. g.cell[<<u, v>>] = IF <<u, v>> \in A THEN c ELSE t.cell[<<u, v>>]
    BY <1>3, <2>1 DEF Filled
  <2> HIDE DEF A
  <2> QED BY <2>2, <2>3
<1> HIDE DEF g
<1>6. Drawn(t, g, t.x, t.y, t.x + n, c.char, FALSE)
  BY <1>5, Zenon DEF Drawn
<1> QED BY <1>3, <1>4, <1>6 DEF Cursors, g

LEMMA NewLineIs ==
  ASSUME NEW t \in Terminals, Is(t.rolls), t.y < ROW_COUNT - 1, NEW color \in Colored
  PROVE  LET g == NewLine(t, color)
         IN /\ g \in Terminals /\ Cursors(g, 0, t.y + 1) /\ Is(g.rolls)
            /\ \A u \in Columns, v \in Rows :
                 g.cell[<<u, v>>].char =
                   IF v = t.y + 1 THEN Nul ELSE t.cell[<<u, v>>].char
<1> DEFINE g == NewLine(t, color)
           R == Row(t.y + 1)
<1>1. /\ t = Term(t.cell, t.x, t.y, t.rolls) /\ DOMAIN t.cell = Places
      /\ t.cell \in [Places -> Cells] /\ t.x \in Columns /\ t.y \in Rows
      /\ t.rolls \in BOOLEAN
  BY TerminalIs
<1>2. NewLine(Term(t.cell, t.x, t.y, t.rolls), color) =
        Term(Filled(t.cell, R, Blank(color)), 0, t.y + 1, t.rolls)
  <2>1. t.y # ROW_COUNT - 1
    BY <1>1, Sizes DEF Rows
  <2> QED BY <1>1, <2>1, NewLineTerm
<1>3. g = Term(Filled(t.cell, R, Blank(color)), 0, t.y + 1, t.rolls)
  BY <1>1, <1>2
<1> HIDE DEF g
<1>4. /\ g.cell = Filled(t.cell, R, Blank(color)) /\ g.x = 0 /\ g.y = t.y + 1
      /\ g.rolls = t.rolls
  BY <1>3, FieldsOf
<1>5. t.y + 1 \in Rows /\ 0 \in Columns /\ Blank(color) \in Cells
  BY <1>1, Sizes, CellTypes DEF Rows
<1>6. g \in Terminals
  BY <1>1, <1>3, <1>5, FilledIs, TermIs
<1>7. ASSUME NEW u \in Columns, NEW v \in Rows
      PROVE  g.cell[<<u, v>>].char = IF v = t.y + 1 THEN Nul ELSE t.cell[<<u, v>>].char
  <2>1. <<u, v>> \in Places
    BY PlaceOf
  <2>2. <<u, v>> \in R <=> v = t.y + 1
    BY DEF Row
  <2>3. g.cell[<<u, v>>] = IF <<u, v>> \in R THEN Blank(color) ELSE t.cell[<<u, v>>]
    BY <1>4, <2>1 DEF Filled
  <2>4. Blank(color).char = Nul
    BY DEF Blank, Cell
  <2> HIDE DEF R
  <2> QED BY <2>2, <2>3, <2>4
<1>8. Is(g.rolls)
  BY <1>4
<1> QED BY <1>4, <1>6, <1>7, <1>8 DEF Cursors, g

(* A terminal at the end of a row is left by the next character.           *)
LEMMA TypedThenNewLine ==
  ASSUME NEW t \in Terminals, Is(t.rolls), t.y < ROW_COUNT - 1, NEW c \in Cells,
         NEW n \in Nat, NEW z \in Columns, NEW color \in Colored
  PROVE  LET g == NewLine(Typed(t, c, n, z), color)
         IN /\ g \in Terminals /\ Cursors(g, 0, t.y + 1) /\ Is(g.rolls)
            /\ Drawn(t, g, t.x, t.y, t.x + n, c.char, TRUE)
<1> DEFINE u == Typed(t, c, n, z)
           g == NewLine(u, color)
<1>1. /\ u \in Terminals /\ Cursors(u, z, t.y) /\ u.rolls = t.rolls
      /\ Drawn(t, u, t.x, t.y, t.x + n, c.char, FALSE)
  BY TypedIs
<1> HIDE DEF u
<1>2. u.y = t.y /\ Is(u.rolls)
  BY <1>1 DEF Cursors
<1>3. /\ g \in Terminals /\ Cursors(g, 0, u.y + 1) /\ Is(g.rolls)
      /\ \A i \in Columns, v \in Rows :
           g.cell[<<i, v>>].char = IF v = u.y + 1 THEN Nul ELSE u.cell[<<i, v>>].char
  BY <1>1, <1>2, NewLineIs
<1> HIDE DEF g
<1> DEFINE y == t.y
           e == t.x + n
           x == t.x
<1>4. \A i \in Columns, v \in Rows :
        u.cell[<<i, v>>].char =
          IF v = y /\ x <= i /\ i < e THEN c.char ELSE t.cell[<<i, v>>].char
  BY <1>1, Zenon DEF Drawn
<1>5. \A i \in Columns, v \in Rows :
        g.cell[<<i, v>>].char = IF v = y + 1 THEN Nul
                                ELSE IF v = y /\ x <= i /\ i < e THEN c.char
                                ELSE t.cell[<<i, v>>].char
  <2> SUFFICES ASSUME NEW i \in Columns, NEW v \in Rows
               PROVE  g.cell[<<i, v>>].char = IF v = y + 1 THEN Nul
                                              ELSE IF v = y /\ x <= i /\ i < e THEN c.char
                                              ELSE t.cell[<<i, v>>].char
    BY Zenon
  <2>1. g.cell[<<i, v>>].char = IF v = y + 1 THEN Nul ELSE u.cell[<<i, v>>].char
    BY <1>2, <1>3
  <2>2. u.cell[<<i, v>>].char =
          IF v = y /\ x <= i /\ i < e THEN c.char ELSE t.cell[<<i, v>>].char
    BY <1>4
  <2> QED BY Zenon, <2>1, <2>2
<1>6. Drawn(t, g, x, y, e, c.char, TRUE)
  <2> HIDE DEF y, e, x
  <2> QED BY <1>5, Zenon DEF Drawn
<1> QED BY <1>2, <1>3, <1>6 DEF u, g


LEMMA CallIs ==
  /\ \A txt : Commands(Show(txt)) = display_print(txt)
  /\ \A x, y : Commands(MoveTo(x, y)) = display_move_cursor(x, y)
  /\ \A l : Commands([fn |-> "clear_line", line |-> l]) = display_clear_line(l)
  /\ Commands([fn |-> "init"]) = display_init(MainConfig)
  /\ Commands([fn |-> "set_colors"]) = <<>>
  /\ Commands([fn |-> "clear"]) = display_clear
<1>1. \A txt : Commands(Show(txt)) = display_print(txt)
  BY DEF Commands, Show
<1>2. \A x, y : Commands(MoveTo(x, y)) = display_move_cursor(x, y)
  BY DEF Commands, MoveTo
<1>3. \A l : Commands([fn |-> "clear_line", line |-> l]) = display_clear_line(l)
  BY DEF Commands
<1>4. /\ Commands([fn |-> "init"]) = display_init(MainConfig)
      /\ Commands([fn |-> "set_colors"]) = <<>>
      /\ Commands([fn |-> "clear"]) = display_clear
  BY DEF Commands
<1> QED BY <1>1, <1>2, <1>3, <1>4

(* The terminal that a call leaves.                                        *)
Leaves(t, call, g) == g \in Terminals /\ Ends(t, Commands(call), g) /\ Is(g.rolls)

LEMMA ShowRow ==
  ASSUME NEW t \in Terminals, Is(t.rolls), NEW y \in Rows, Cursors(t, 0, y),
         y < ROW_COUNT - 1, NEW ch \in Letters, color_config \in Colored
  PROVE  \E g : /\ Leaves(t, Show(Repeat(ch, COLUMN_COUNT)), g) /\ Cursors(g, 0, y + 1)
                /\ Drawn(t, g, 0, y, COLUMN_COUNT, ch, TRUE)
<1> DEFINE c == Cell(color_config, ch)
           s == display_print(Repeat(ch, COLUMN_COUNT))
           g == NewLine(Typed(t, c, COLUMN_COUNT, COLUMN_COUNT - 1), c.color)
<1>1. c \in Cells /\ c.char = ch /\ c.char \in Letters /\ c.color \in Colored
  <2>1. c.char = ch
    BY DEF Cell
  <2> QED BY <2>1, LettersOf, CellTypes
<1> HIDE DEF c
<1>2. t.x = 0 /\ t.y = y /\ COLUMN_COUNT \in Nat /\ COLUMN_COUNT \in 1 .. COLUMN_COUNT
  BY Sizes DEF Cursors
<1>3. s = Typing(c, COLUMN_COUNT)
  BY <1>2, PrintLetters DEF c
<1>4. /\ g \in Terminals /\ Cursors(g, 0, t.y + 1) /\ Is(g.rolls)
      /\ Drawn(t, g, t.x, t.y, t.x + COLUMN_COUNT, c.char, TRUE)
  BY <1>1, <1>2, Sizes, TypedThenNewLine
<1>5. t.x + COLUMN_COUNT = COLUMN_COUNT
  BY <1>2
<1> HIDE DEF g, s
<1>6. Straight(t, s, g)
  BY <1>1, <1>2, <1>3, <1>5 DEF Straight, g
<1>7. Leaves(t, Show(Repeat(ch, COLUMN_COUNT)), g)
  BY <1>4, <1>6, CallIs DEF Leaves, Ends, s
<1>8. Cursors(g, 0, y + 1) /\ Drawn(t, g, 0, y, COLUMN_COUNT, ch, TRUE)
  BY Zenon, <1>1, <1>2, <1>4, <1>5
<1> QED BY <1>7, <1>8

LEMMA LettersShown ==
  ASSUME NEW t \in Terminals, Is(t.rolls), NEW y \in Rows, Cursors(t, 0, y),
         NEW n \in Nat, n < COLUMN_COUNT, NEW ch \in Letters, color_config \in Colored
  PROVE  \E g \in Terminals :
           /\ Straight(t, display_print(Repeat(ch, n)), g) /\ Is(g.rolls)
           /\ Cursors(g, n, y) /\ Drawn(t, g, 0, y, n, ch, FALSE)
<1> DEFINE c == Cell(color_config, ch)
           s == display_print(Repeat(ch, n))
           g == Typed(t, c, n, n)
<1>1. c \in Cells /\ c.char = ch /\ c.char \in Letters /\ c.color \in Colored
  <2>1. c.char = ch
    BY DEF Cell
  <2> QED BY <2>1, LettersOf, CellTypes
<1> HIDE DEF c
<1>2. t.x = 0 /\ t.y = y /\ n \in Columns /\ t.x + n = n /\ COLUMN_COUNT \in Nat
  BY Sizes DEF Cursors, Columns
<1>3. s = Typing(c, n)
  BY <1>2, PrintLetters DEF c
<1>4. /\ g \in Terminals /\ Cursors(g, n, t.y) /\ g.rolls = t.rolls
      /\ Drawn(t, g, t.x, t.y, t.x + n, c.char, FALSE)
  BY <1>1, <1>2, TypedIs
<1>5. Straight(t, s, g)
  <2>1. CASE n = 0
    <3>1. s = <<>>
      BY <1>3, <2>1, RepeatNone DEF Typing
    <3>2. g = t
      BY <1>2, <2>1, TypedNone
    <3> QED BY <3>1, <3>2 DEF Straight
  <2>2. CASE n # 0
    <3>1. n \in 1 .. COLUMN_COUNT /\ t.x + n < COLUMN_COUNT
      BY <1>2, <2>2
    <3>2. g = Typed(t, c, n, t.x + n)
      BY <1>2
    <3> HIDE DEF g, s
    <3> QED BY <1>1, <1>3, <3>1, <3>2 DEF Straight
  <2> QED BY <2>1, <2>2
<1> HIDE DEF g, s
<1>6. Is(g.rolls)
  BY <1>4
<1>7. Cursors(g, n, y) /\ Drawn(t, g, 0, y, n, ch, FALSE)
  BY Zenon, <1>1, <1>2, <1>4
<1> QED BY <1>4, <1>5, <1>6, <1>7 DEF s

LEMMA ShowMessage ==
  ASSUME NEW t \in Terminals, Is(t.rolls), NEW y \in Rows, Cursors(t, 0, y),
         NEW ch \in Letters, color_config \in Colored
  PROVE  \E g : /\ Leaves(t, Show(Message(ch)), g) /\ Cursors(g, COLUMN_COUNT - 2, y)
                /\ Drawn(t, g, 0, y, COLUMN_COUNT - 2, ch, FALSE)
<1>1. COLUMN_COUNT - 2 \in Nat /\ COLUMN_COUNT - 2 < COLUMN_COUNT
  BY Sizes
<1> DEFINE n == COLUMN_COUNT - 2
<1> HIDE DEF n
<1>2. n \in Nat /\ n < COLUMN_COUNT
  BY <1>1 DEF n
<1>3. PICK g \in Terminals :
        /\ Straight(t, display_print(Repeat(ch, n)), g) /\ Is(g.rolls)
        /\ Cursors(g, n, y) /\ Drawn(t, g, 0, y, n, ch, FALSE)
  BY <1>2, LettersShown
<1>4. Leaves(t, Show(Message(ch)), g)
  BY <1>3, CallIs DEF Leaves, Ends, Message, n
<1> QED BY <1>3, <1>4 DEF n

(* A title ends with a line feed, as does a message that goes on below.    *)
LEMMA FeedShown ==
  ASSUME NEW t \in Terminals, Is(t.rolls), NEW y \in Rows, NEW x \in Columns, Cursors(t, x, y),
         y < ROW_COUNT - 1, NEW n \in Nat, x + n < COLUMN_COUNT, NEW ch \in Letters,
         color_config \in Colored, NEW s,
         s = Typing(Cell(color_config, ch), n) \o <<Command("NEW_LINE", Blank(color_config))>>
  PROVE  \E g : /\ g \in Terminals /\ Straight(t, s, g) /\ Is(g.rolls) /\ Cursors(g, 0, y + 1)
                /\ Drawn(t, g, x, y, x + n, ch, TRUE)
<1> DEFINE c == Cell(color_config, ch)
           g == NewLine(Typed(t, c, n, x + n), color_config)
<1>1. c \in Cells /\ c.char = ch /\ c.char \in Letters
  <2>1. c.char = ch
    BY DEF Cell
  <2> QED BY <2>1, LettersOf, CellTypes
<1> HIDE DEF c
<1>2. t.x = x /\ t.y = y /\ COLUMN_COUNT \in Nat /\ x + n \in Columns /\ n \in 0 .. COLUMN_COUNT
  BY Sizes DEF Cursors, Columns
<1>3. /\ g \in Terminals /\ Cursors(g, 0, t.y + 1) /\ Is(g.rolls)
      /\ Drawn(t, g, t.x, t.y, t.x + n, c.char, TRUE)
  BY <1>1, <1>2, TypedThenNewLine
<1>4. g = NewLine(Typed(t, c, n, t.x + n), color_config) /\ t.x + n < COLUMN_COUNT
  BY <1>2
<1>5. s = Typing(c, n) \o <<Command("NEW_LINE", Blank(color_config))>>
  BY DEF c
<1> HIDE DEF g
<1>6. Straight(t, s, g)
  BY <1>1, <1>2, <1>4, <1>5 DEF Straight
<1>7. Cursors(g, 0, y + 1) /\ Drawn(t, g, x, y, x + n, ch, TRUE)
  BY Zenon, <1>1, <1>2, <1>3
<1> QED BY <1>3, <1>6, <1>7

LEMMA ShowLine ==
  ASSUME NEW t \in Terminals, Is(t.rolls), NEW y \in Rows, Cursors(t, 0, y), y < ROW_COUNT - 1,
         NEW ch \in Letters, color_config \in Colored
  PROVE  \E g : /\ Leaves(t, Show(Message(ch) \o <<LineFeed>>), g) /\ Cursors(g, 0, y + 1)
                /\ Drawn(t, g, 0, y, COLUMN_COUNT - 2, ch, TRUE)
<1> DEFINE n == COLUMN_COUNT - 2
           s == display_print(Repeat(ch, n) \o <<LineFeed>>)
<1>1. n \in Nat /\ 0 + n < COLUMN_COUNT /\ 0 + n = n /\ 0 \in Columns
  BY Sizes
<1> HIDE DEF n
<1>2. s = Typing(Cell(color_config, ch), n) \o <<Command("NEW_LINE", Blank(color_config))>>
  BY <1>1, PrintLetters
<1> HIDE DEF s
<1>3. PICK g : /\ g \in Terminals /\ Straight(t, s, g) /\ Is(g.rolls) /\ Cursors(g, 0, y + 1)
               /\ Drawn(t, g, 0, y, 0 + n, ch, TRUE)
  BY <1>1, <1>2, FeedShown
<1>4. Drawn(t, g, 0, y, n, ch, TRUE)
  BY Zenon, <1>1, <1>3
<1>5. Leaves(t, Show(Message(ch) \o <<LineFeed>>), g)
  BY <1>3, CallIs DEF Leaves, Ends, Message, n, s
<1> QED BY <1>3, <1>4, <1>5 DEF n

LEMMA ShowFeed ==
  ASSUME NEW t \in Terminals, Is(t.rolls), NEW y \in Rows, NEW x \in Columns, Cursors(t, x, y),
         y < ROW_COUNT - 1, NEW ch \in Letters, color_config \in Colored
  PROVE  \E g : /\ Leaves(t, Show(<<LineFeed>>), g) /\ Cursors(g, 0, y + 1)
                /\ Drawn(t, g, x, y, x, ch, TRUE)
<1> DEFINE s == display_print(<<LineFeed>>)
<1>1. 0 \in Nat /\ x + 0 < COLUMN_COUNT /\ x + 0 = x
  BY Sizes DEF Columns
<1>2. s = Typing(Cell(color_config, ch), 0) \o <<Command("NEW_LINE", Blank(color_config))>>
  BY PrintLineFeed
<1> HIDE DEF s
<1>3. PICK g : /\ g \in Terminals /\ Straight(t, s, g) /\ Is(g.rolls) /\ Cursors(g, 0, y + 1)
               /\ Drawn(t, g, x, y, x + 0, ch, TRUE)
  BY <1>1, <1>2, FeedShown
<1>4. Drawn(t, g, x, y, x, ch, TRUE)
  BY Zenon, <1>1, <1>3
<1>5. Leaves(t, Show(<<LineFeed>>), g)
  BY <1>3, CallIs DEF Leaves, Ends, s
<1> QED BY <1>3, <1>4, <1>5

LEMMA AfterMove ==
  ASSUME NEW t \in Terminals, NEW x \in Columns, NEW y \in Rows, NEW r \in Seq(WellFormed),
         NEW g, Straight(At(t, x, y), r, g)
  PROVE  Ends(t, display_move_cursor(x, y) \o r, g)
<1> DEFINE p == [x |-> x, y |-> y]
           m == Command("SET_CURSOR_POSITION", p)
           s == display_move_cursor(x, y) \o r
<1>1. p \in Points /\ p.x = x /\ p.y = y
  BY DEF Points
<1>2. m \in WellFormed
  BY CommandIs
<1>3. s = <<m>> \o r
  BY DEF display_move_cursor
<1> HIDE DEF m, p, s
<1>4. s # <<>> /\ Head(s) = m /\ Tail(s) = r
  BY <1>2, <1>3, OneConcat DEF Begins
<1>5. Straight(At(t, p.x, p.y), Tail(s), g)
  BY <1>1, <1>4
<1> QED BY <1>1, <1>4, <1>5 DEF Ends, m, s

LEMMA MoveShown ==
  ASSUME NEW t \in Terminals, Is(t.rolls), NEW x \in Columns, NEW y \in Rows
  PROVE  Leaves(t, MoveTo(x, y), At(t, x, y)) /\ Cursors(At(t, x, y), x, y)
         /\ At(t, x, y).cell = t.cell
<1> DEFINE g == At(t, x, y)
           s == display_move_cursor(x, y)
<1>1. g = Term(t.cell, x, y, t.rolls) /\ g \in Terminals
  BY AtIs
<1> HIDE DEF g
<1>2. g.cell = t.cell /\ g.x = x /\ g.y = y /\ g.rolls = t.rolls
  BY <1>1, FieldsOf
<1>3. Straight(g, <<>>, g) /\ <<>> \in Seq(WellFormed)
  BY DEF Straight
<1>4. Ends(t, s \o <<>>, g)
  BY <1>3, AfterMove DEF g
<1>5. s \o <<>> = s
  <2>1. s \in Seq(Quiet)
    BY MoveIs
  <2> QED BY <2>1, ConcatEmptySeq
<1> HIDE DEF s
<1>6. Ends(t, s, g)
  BY <1>4, <1>5
<1>7. Leaves(t, MoveTo(x, y), g)
  BY <1>1, <1>2, <1>6, CallIs DEF Leaves, s
<1> QED BY <1>2, <1>7 DEF Cursors, g

LEMMA ClearLineShown ==
  ASSUME NEW t \in Terminals, Is(t.rolls), NEW y \in Rows, color_config \in Colored
  PROVE  \E ch \in Blanks : \E g :
           /\ Leaves(t, [fn |-> "clear_line", line |-> y], g)
           /\ Drawn(t, g, 0, y, COLUMN_COUNT - 1, ch, FALSE)
<1> DEFINE n == COLUMN_COUNT - 1
           u == At(t, 0, y)
<1>1. PICK ch \in Letters :
        ch \in Blanks /\ \A l : display_clear_line(l) =
                           display_move_cursor(0, l) \o display_print(Repeat(ch, n))
  BY LettersOf
<1>2. n \in Nat /\ n < COLUMN_COUNT /\ 0 \in Columns
  BY Sizes
<1> HIDE DEF n
<1> DEFINE r == display_print(Repeat(ch, n))
<1>3. r \in Seq(WellFormed)
  <2>1. ch \in Chars
    BY LettersOf
  <2>2. Repeat(ch, n) \in Seq(Chars)
    BY <1>2, <2>1, RepeatIs
  <2>3. r \in Seq(Quiet)
    BY <2>2, PrintIs
  <2>4. Quiet \subseteq WellFormed
    BY DEF Quiet
  <2> HIDE DEF r
  <2> QED BY <2>3, <2>4, SeqMonotonic
<1>4. u = Term(t.cell, 0, y, t.rolls) /\ u \in Terminals
  BY <1>2, AtIs
<1> HIDE DEF u
<1>5. u.cell = t.cell /\ u.x = 0 /\ u.y = y /\ u.rolls = t.rolls
  BY <1>4, FieldsOf
<1>6. Is(u.rolls) /\ Cursors(u, 0, y)
  BY <1>5 DEF Cursors
<1>7. PICK g \in Terminals : /\ Straight(u, r, g) /\ Is(g.rolls)
                             /\ Cursors(g, n, y) /\ Drawn(u, g, 0, y, n, ch, FALSE)
  BY <1>2, <1>4, <1>6, LettersShown
<1> HIDE DEF r
<1>8. Ends(t, display_move_cursor(0, y) \o r, g)
  BY <1>2, <1>3, <1>7, AfterMove DEF u
<1>9. Commands([fn |-> "clear_line", line |-> y]) = display_move_cursor(0, y) \o r
  <2>1. Commands([fn |-> "clear_line", line |-> y]) = display_clear_line(y)
    BY CallIs
  <2> QED BY <1>1, <2>1 DEF r
<1>10. Leaves(t, [fn |-> "clear_line", line |-> y], g)
  BY <1>7, <1>8, <1>9, Zenon DEF Leaves
<1>11. Drawn(t, g, 0, y, n, ch, FALSE)
  BY <1>5, <1>7, Zenon DEF Drawn
<1> QED BY <1>1, <1>10, <1>11 DEF n

LEMMA StartShown ==
  ASSUME NEW t \in Terminals, Is(t.rolls)
  PROVE  Leaves(t, [fn |-> "init"], t) /\ Leaves(t, [fn |-> "set_colors"], t)
BY CallIs DEF Leaves, Ends, Straight

LEMMA ClearShown ==
  ASSUME NEW t \in Terminals, Is(t.rolls), color_config \in Colored
  PROVE  \E g : Leaves(t, [fn |-> "clear"], g) /\ Empty(g) /\ Cursors(g, 0, 0)
<1> DEFINE b == Blank(color_config)
           d == Command("CLEAR_SCREEN", b)
           u == At(t, 0, 0)
           w == Fill(u, Places, b)
           g == At(w, 0, 0)
<1>1. 0 \in Columns /\ 0 \in Rows /\ b \in Cells /\ b.char = Nul
  <2>1. b.char = Nul
    BY DEF Blank, Cell
  <2> QED BY <2>1, Sizes, CellTypes
<1>2. u = Term(t.cell, 0, 0, t.rolls) /\ u \in Terminals
  BY <1>1, AtIs
<1>3. u.rolls = t.rolls
  BY <1>2, FieldsOf
<1> HIDE DEF u, b
<1>4. w = Term(Filled(u.cell, Places, b), u.x, u.y, u.rolls) /\ w \in Terminals
  BY <1>1, <1>2, FillIs
<1>5. w.cell = Filled(u.cell, Places, b) /\ w.rolls = u.rolls
  BY <1>4, FieldsOf
<1> HIDE DEF w
<1>6. g = Term(w.cell, 0, 0, w.rolls) /\ g \in Terminals
  BY <1>1, <1>4, AtIs
<1> HIDE DEF g
<1>7. g.cell = w.cell /\ g.x = 0 /\ g.y = 0 /\ g.rolls = w.rolls
  BY <1>6, FieldsOf
<1>8. Empty(g)
  <2> SUFFICES ASSUME NEW i \in Columns, NEW j \in Rows
               PROVE  g.cell[<<i, j>>].char \in Blanks
    BY Zenon DEF Empty
  <2>1. <<i, j>> \in Places
    BY PlaceOf
  <2>2. g.cell[<<i, j>>] = b
    BY <1>5, <1>7, <2>1 DEF Filled
  <2> QED BY <1>1, <2>2, LettersOf
<1>9. Straight(u, <<d>>, g)
  BY DEF Straight, g, w, b
<1>10. <<d>> \in Seq(WellFormed)
  BY CommandSequences DEF b
<1> HIDE DEF d
<1>11. Ends(t, display_move_cursor(0, 0) \o <<d>>, g)
  BY <1>1, <1>9, <1>10, AfterMove DEF u
<1>12. Commands([fn |-> "clear"]) = display_move_cursor(0, 0) \o <<d>>
  BY CallIs DEF display_clear, d, b
<1>13. Is(g.rolls)
  BY <1>3, <1>5, <1>7
<1> QED BY <1>6, <1>7, <1>8, <1>11, <1>12, <1>13 DEF Leaves, Cursors

-----------------------------------------------------------------------------
(* What a call leaves of a page                                            *)

Texts == {"T", "r", "d", "e"}

LEMMA Looks ==
  /\ \A char, x : LooksRight(char, x, "any")
  /\ \A char \in Blanks : \A x : LooksRight(char, x, "blank")
  /\ \A view \in Views : \A x : LooksRight(view, x, view)
  /\ \A m \in Texts : \A x : x < COLUMN_COUNT - 2 => LooksRight(m, x, m)
  /\ \A char, x : \A a \in Texts \cup {"blank"}, b \in Texts \cup {"blank"} :
       ~(x < COLUMN_COUNT - 2) /\ LooksRight(char, x, a) => LooksRight(char, x, b)
<1>1. \A char, x : LooksRight(char, x, "any")
  BY Zenon DEF LooksRight
<1>2. \A char \in Blanks : \A x : LooksRight(char, x, "blank")
  BY Zenon DEF LooksRight
<1>3. \A view \in Views : \A x : LooksRight(view, x, view)
  BY Zenon DEF LooksRight, Views
<1>4. \A m \in Texts : \A x : x < COLUMN_COUNT - 2 => LooksRight(m, x, m)
  BY Zenon DEF LooksRight, Texts
<1>5. ASSUME NEW char, NEW x, NEW a \in Texts \cup {"blank"}, ~(x < COLUMN_COUNT - 2)
      PROVE  LooksRight(char, x, a) <=> char \in Blanks
  <2>1. a # "any" /\ a \notin {"menu", "demo"}
    BY Zenon DEF Texts
  <2> QED BY Zenon, <1>5, <2>1 DEF LooksRight
<1>6. \A char, x : \A a \in Texts \cup {"blank"}, b \in Texts \cup {"blank"} :
        ~(x < COLUMN_COUNT - 2) /\ LooksRight(char, x, a) => LooksRight(char, x, b)
  BY Zenon, <1>5
<1> QED BY <1>1, <1>2, <1>3, <1>4, <1>6

(* A page after a row of it, and perhaps the one below, is drawn.          *)
LEMMA FrameDrawn ==
  ASSUME NEW t, NEW g, NEW x, NEW y, NEW n, NEW ch, NEW new \in BOOLEAN,
         Drawn(t, g, x, y, n, ch, new), NEW view,
         NEW first, NEW second, NEW done, Frame(t, first, second, done, view),
         NEW first2, NEW second2, NEW done2,
         \A v \in Rows : v # y /\ ~(Is(new) /\ v = y + 1) =>
           Look(v, first, second, done, view) = Look(v, first2, second2, done2, view),
         Is(new) => Look(y + 1, first2, second2, done2, view) \in {"blank", "any"},
         \A u \in Columns : x <= u /\ u < n => LooksRight(ch, u, Look(y, first2, second2, done2, view)),
         \A u \in Columns : ~(x <= u /\ u < n) =>
           \A char : LooksRight(char, u, Look(y, first, second, done, view)) =>
                     LooksRight(char, u, Look(y, first2, second2, done2, view))
  PROVE  Frame(g, first2, second2, done2, view)
<1> DEFINE a(v) == Look(v, first, second, done, view)
           b(v) == Look(v, first2, second2, done2, view)
           was(u, v) == t.cell[<<u, v>>].char
           is(u, v) == g.cell[<<u, v>>].char
<1> SUFFICES ASSUME NEW u \in Columns, NEW v \in Rows PROVE LooksRight(is(u, v), u, b(v))
  BY Zenon DEF Frame
<1>1. LooksRight(was(u, v), u, a(v))
  BY Zenon DEF Frame
<1>2. is(u, v) = IF new /\ v = y + 1 THEN Nul
                 ELSE IF v = y /\ x <= u /\ u < n THEN ch ELSE was(u, v)
  BY Zenon DEF Drawn
<1>3. /\ v # y /\ ~(Is(new) /\ v = y + 1) => a(v) = b(v)
      /\ Is(new) => b(y + 1) \in {"blank", "any"}
      /\ x <= u /\ u < n => LooksRight(ch, u, b(y))
      /\ ~(x <= u /\ u < n) => (LooksRight(was(u, v), u, a(y)) => LooksRight(was(u, v), u, b(y)))
  BY Zenon
<1> HIDE DEF a, b, was, is
<1>4. CASE Is(new) /\ v = y + 1
  <2>1. is(u, v) = Nul /\ Nul \in Blanks
    BY Zenon, <1>2, <1>4, LettersOf DEF Is
  <2>2. b(v) = "blank" \/ b(v) = "any"
    BY Zenon, <1>3, <1>4
  <2> QED BY Zenon, <2>1, <2>2, Looks
<1>5. CASE ~(Is(new) /\ v = y + 1) /\ v = y
  <2>1. is(u, v) = IF x <= u /\ u < n THEN ch ELSE was(u, v)
    BY Zenon, <1>2, <1>5 DEF Is
  <2> QED BY Zenon, <1>1, <1>3, <1>5, <2>1
<1>6. CASE ~(Is(new) /\ v = y + 1) /\ v # y
  <2>1. is(u, v) = was(u, v)
    BY Zenon, <1>2, <1>6 DEF Is
  <2> QED BY Zenon, <1>1, <1>3, <1>6, <2>1
<1> QED BY Zenon, <1>4, <1>5, <1>6

(* The rows of a page.                                                     *)
LEMMA PageRows ==
  ASSUME ~Free
  PROVE  /\ CLEAR_END \in Nat /\ BUTTON_ROW \in Nat /\ BUTTON_LINES \in Nat
         /\ ROW_COUNT \in Nat /\ COLUMN_COUNT \in Nat /\ COLUMN_COUNT > 1
         /\ 2 < CLEAR_END /\ CLEAR_END <= BUTTON_ROW /\ 0 < BUTTON_LINES
         /\ BUTTON_ROW + BUTTON_LINES < ROW_COUNT
BY TextModeAssumption, Sizes

LEMMA RowButtons ==
  ASSUME ~Free, NEW t, NEW g, NEW n \in 1 .. BUTTON_LINES, NEW view \in Views,
         NEW first, NEW second, Frame(t, first, second, BUTTON_LINES - n, view),
         Drawn(t, g, 0, BUTTON_ROW + BUTTON_LINES - n, COLUMN_COUNT, view, TRUE)
  PROVE  Frame(g, first, second, BUTTON_LINES - (n - 1), view)
<1> DEFINE y == BUTTON_ROW + BUTTON_LINES - n
           done == BUTTON_LINES - n
           done2 == BUTTON_LINES - (n - 1)
           new == TRUE
<1>1. \A v \in Rows : v # y /\ ~(Is(new) /\ v = y + 1) =>
        Look(v, first, second, done, view) = Look(v, first, second, done2, view)
  BY PageRows DEF Look, ButtonRows, Rows, Is
<1>2. Is(new) => Look(y + 1, first, second, done2, view) \in {"blank", "any"}
  BY PageRows DEF Look, ButtonRows
<1>3. Look(y, first, second, done2, view) = view
  BY PageRows DEF Look, ButtonRows
<1>4. \A u \in Columns : 0 <= u /\ u < COLUMN_COUNT
  BY PageRows DEF Columns
<1>5. new \in BOOLEAN
  OBVIOUS
<1> HIDE DEF y, done, done2, new
<1>6. \A u \in Columns : LooksRight(view, u, Look(y, first, second, done2, view))
  BY Zenon, <1>3, Looks
<1>7. Frame(t, first, second, done, view) /\ Drawn(t, g, 0, y, COLUMN_COUNT, view, new)
  BY Zenon DEF y, done, new
<1>8. /\ \A u \in Columns : 0 <= u /\ u < COLUMN_COUNT =>
           LooksRight(view, u, Look(y, first, second, done2, view))
      /\ \A u \in Columns : ~(0 <= u /\ u < COLUMN_COUNT) =>
           \A char : LooksRight(char, u, Look(y, first, second, done, view)) =>
                     LooksRight(char, u, Look(y, first, second, done2, view))
  BY Zenon, <1>4, <1>6
<1>9. Frame(g, first, second, done2, view)
  BY <1>1, <1>2, <1>5, <1>7, <1>8, FrameDrawn
<1> QED BY <1>9 DEF done2

LEMMA RowCleared ==
  ASSUME ~Free, NEW t, NEW g, NEW line \in 1 .. CLEAR_END - 1, NEW view \in Views,
         NEW first \in Firsts, NEW second \in Seconds, NEW done,
         Frame(t, first, second, done, view), NEW ch \in Blanks,
         line > 1 => first = "blank", line > 2 => second = "blank",
         Drawn(t, g, 0, line, COLUMN_COUNT - 1, ch, FALSE)
  PROVE  Frame(g, "blank", IF line = 1 THEN second ELSE "blank", done, view)
<1> DEFINE new == FALSE
           n == COLUMN_COUNT - 1
           second2 == IF line = 1 THEN second ELSE "blank"
           first2 == "blank"
<1>1. /\ CLEAR_END \in Nat /\ BUTTON_ROW \in Nat /\ BUTTON_LINES \in Nat
      /\ CLEAR_END <= BUTTON_ROW
  BY PageRows
<1>2. /\ line \notin ButtonRows /\ line # 0
  BY <1>1 DEF ButtonRows
<1>3. \A v \in Rows : v # line /\ ~(Is(new) /\ v = line + 1) =>
        Look(v, first, second, done, view) = Look(v, first2, second2, done, view)
  <2> SUFFICES ASSUME NEW v \in Rows, v # line
               PROVE  Look(v, first, second, done, view) = Look(v, first2, second2, done, view)
    OBVIOUS
  <2>1. v = 1 => first = "blank"
    BY <1>1
  <2>2. v = 2 => second = second2
    BY <1>1
  <2> QED BY <2>1, <2>2 DEF Look
<1>4. Look(line, first2, second2, done, view) = "blank"
  BY <1>2 DEF Look
<1>5. Look(line, first, second, done, view) \in Texts \cup {"blank"}
  BY <1>2 DEF Look, Texts, Firsts, Seconds
<1>6. ~Is(new) /\ new \in BOOLEAN
  BY Zenon DEF Is
<1>7. \A u \in Columns : u < COLUMN_COUNT - 2 => 0 <= u /\ u < n
  BY PageRows DEF Columns
<1> HIDE DEF new, n, second2, first2
<1>8. \A u \in Columns : 0 <= u /\ u < n =>
        LooksRight(ch, u, Look(line, first2, second2, done, view))
  BY Zenon, <1>4, Looks
<1>9. \A u \in Columns : ~(0 <= u /\ u < n) =>
        \A char : LooksRight(char, u, Look(line, first, second, done, view)) =>
                  LooksRight(char, u, Look(line, first2, second2, done, view))
  <2>1. "blank" \in Texts \cup {"blank"}
    OBVIOUS
  <2> QED BY Zenon, <1>4, <1>5, <1>7, <2>1, Looks
<1>10. Drawn(t, g, 0, line, n, ch, new)
  BY Zenon DEF n, new
<1>11. Is(new) => Look(line + 1, first2, second2, done, view) \in {"blank", "any"}
  BY Zenon, <1>6
<1>12. Frame(g, first2, second2, done, view)
  BY <1>3, <1>6, <1>8, <1>9, <1>10, <1>11, FrameDrawn
<1> QED BY Zenon, <1>12 DEF first2, second2

LEMMA RowOfMessage ==
  ASSUME ~Free, NEW t, NEW g, NEW view \in Views, NEW y \in {1, 2}, NEW m \in Texts,
         NEW first, y = 2 => first \in Texts, NEW done,
         Frame(t, IF y = 1 THEN "blank" ELSE first, "blank", done, view),
         Drawn(t, g, 0, y, COLUMN_COUNT - 2, m, FALSE)
  PROVE  Frame(g, IF y = 1 THEN m ELSE first, IF y = 1 THEN "blank" ELSE m, done, view)
<1> DEFINE new == FALSE
           n == COLUMN_COUNT - 2
           first1 == IF y = 1 THEN "blank" ELSE first
           second1 == "blank"
           first2 == IF y = 1 THEN m ELSE first
           second2 == IF y = 1 THEN "blank" ELSE m
<1>1. /\ CLEAR_END \in Nat /\ BUTTON_ROW \in Nat /\ BUTTON_LINES \in Nat
      /\ 2 < CLEAR_END /\ CLEAR_END <= BUTTON_ROW
  BY PageRows
<1>2. y \notin ButtonRows /\ y # 0 /\ 1 \notin ButtonRows /\ 2 \notin ButtonRows
  BY <1>1 DEF ButtonRows
<1>3. \A v \in Rows : v # y /\ ~(Is(new) /\ v = y + 1) =>
        Look(v, first1, second1, done, view) = Look(v, first2, second2, done, view)
  BY DEF Look
<1>4. Look(y, first2, second2, done, view) = m
  BY <1>2 DEF Look
<1>5. Look(y, first1, second1, done, view) = "blank"
  BY <1>2 DEF Look
<1>6. ~Is(new) /\ new \in BOOLEAN
  BY Zenon DEF Is
<1>7. \A u \in Columns : 0 <= u
  BY PageRows DEF Columns
<1>8. Drawn(t, g, 0, y, n, m, new) /\ Frame(t, first1, second1, done, view)
  BY Zenon DEF n, new, first1, second1
<1>9. \A u \in Columns : 0 <= u /\ u < n =>
        LooksRight(m, u, Look(y, first2, second2, done, view))
  BY Zenon, <1>4, Looks DEF n
<1>10. \A u \in Columns : ~(0 <= u /\ u < n) =>
         \A char : LooksRight(char, u, Look(y, first1, second1, done, view)) =>
                   LooksRight(char, u, Look(y, first2, second2, done, view))
  <2>1. "blank" \in Texts \cup {"blank"} /\ m \in Texts \cup {"blank"}
    BY Zenon
  <2> QED BY Zenon, <1>4, <1>5, <1>7, <2>1, Looks DEF n
<1> HIDE DEF new, n, first1, second1, first2, second2
<1>11. Is(new) => Look(y + 1, first2, second2, done, view) \in {"blank", "any"}
  BY Zenon, <1>6
<1>12. Frame(g, first2, second2, done, view)
  BY <1>3, <1>6, <1>8, <1>9, <1>10, <1>11, FrameDrawn
<1> QED BY Zenon, <1>12 DEF first2, second2

LEMMA RowOfFeed ==
  ASSUME ~Free, NEW t, NEW g, NEW view \in Views, NEW x, NEW ch, NEW first, NEW done,
         Frame(t, first, "blank", done, view), Drawn(t, g, x, 1, x, ch, TRUE), x \in Int
  PROVE  Frame(g, first, "blank", done, view)
<1> DEFINE new == TRUE
           second == "blank"
<1>1. /\ CLEAR_END \in Nat /\ BUTTON_ROW \in Nat /\ BUTTON_LINES \in Nat
      /\ 2 < CLEAR_END /\ CLEAR_END <= BUTTON_ROW
  BY PageRows
<1>2. Look(1 + 1, first, second, done, view) = "blank"
  BY <1>1 DEF Look, ButtonRows
<1>3. \A u \in Columns : ~(x <= u /\ u < x)
  BY DEF Columns
<1>4. Is(new) /\ new \in BOOLEAN
  BY Zenon DEF Is
<1> HIDE DEF second, new
<1>5. Drawn(t, g, x, 1, x, ch, new) /\ Frame(t, first, second, done, view)
  BY Zenon DEF new, second
<1>6. Is(new) => Look(1 + 1, first, second, done, view) \in {"blank", "any"}
  BY <1>2
<1>7. \A u \in Columns : x <= u /\ u < x =>
        LooksRight(ch, u, Look(1, first, second, done, view))
  BY Zenon, <1>3
<1>8. Frame(g, first, second, done, view)
  BY <1>4, <1>5, <1>6, <1>7, FrameDrawn
<1> QED BY <1>8 DEF second

(* The title on a screen that was cleared.                                 *)
LEMMA TitleDrawn ==
  ASSUME ~Free, NEW t, NEW g, NEW view \in Views, Empty(t),
         Drawn(t, g, 0, 0, COLUMN_COUNT - 2, "T", TRUE)
  PROVE  Frame(g, "blank", "blank", 0, view)
<1> DEFINE n == COLUMN_COUNT - 2
           look(v) == Look(v, "blank", "blank", 0, view)
<1> SUFFICES ASSUME NEW u \in Columns, NEW v \in Rows
             PROVE  LooksRight(g.cell[<<u, v>>].char, u, look(v))
  BY Zenon DEF Frame
<1>1. /\ CLEAR_END \in Nat /\ BUTTON_ROW \in Nat /\ BUTTON_LINES \in Nat
      /\ 2 < CLEAR_END /\ CLEAR_END <= BUTTON_ROW
  BY PageRows
<1>2. look(0) = "T" /\ (v # 0 => look(v) \in {"any", "blank"})
  BY <1>1 DEF Look, ButtonRows, Rows
<1>3. t.cell[<<u, v>>].char \in Blanks
  BY Zenon DEF Empty
<1>4. g.cell[<<u, v>>].char = IF v = 0 + 1 THEN Nul
                              ELSE IF v = 0 /\ 0 <= u /\ u < n THEN "T" ELSE t.cell[<<u, v>>].char
  BY Zenon DEF Drawn
<1>5. 0 <= u /\ (v = 0 => v # 0 + 1)
  BY DEF Columns
<1>6. "blank" \in Texts \cup {"blank"} /\ "T" \in Texts \cup {"blank"} /\ "T" \in Texts
  BY Zenon DEF Texts
<1> HIDE DEF look
<1>7. CASE v = 0 /\ u < n
  <2>1. g.cell[<<u, v>>].char = "T"
    BY Zenon, <1>4, <1>5, <1>7
  <2> QED BY Zenon, <1>2, <1>6, <1>7, <2>1, Looks
<1>8. CASE v = 0 /\ ~(u < n)
  <2>1. g.cell[<<u, v>>].char \in Blanks
    BY Zenon, <1>3, <1>4, <1>5, <1>8
  <2>2. LooksRight(g.cell[<<u, v>>].char, u, "blank")
    BY Zenon, <2>1, Looks
  <2> QED BY Zenon, <1>2, <1>6, <1>8, <2>2, Looks
<1>9. CASE v # 0
  <2>1. g.cell[<<u, v>>].char \in Blanks
    BY Zenon, <1>3, <1>4, <1>9, LettersOf
  <2>2. look(v) = "any" \/ look(v) = "blank"
    BY <1>2, <1>9
  <2> QED BY Zenon, <2>1, <2>2, Looks
<1> QED BY <1>7, <1>8, <1>9

-----------------------------------------------------------------------------
(* The calls of a page, one after the other                                *)

LEMMA ThreeConcat ==
  ASSUME NEW S, NEW a \in S, NEW b \in S, NEW c \in S, NEW r \in Seq(S)
  PROVE  /\ Begins(<<a, b, c>> \o r, a, <<b, c>> \o r)
         /\ Begins(<<b, c>> \o r, b, <<c>> \o r)
<1>1. /\ <<a, b, c>> \in Seq(S) /\ <<a, b, c>> # <<>> /\ Head(<<a, b, c>>) = a
      /\ Tail(<<a, b, c>>) = <<b, c>>
  OBVIOUS
<1>2. /\ <<b, c>> \in Seq(S) /\ <<b, c>> # <<>> /\ Head(<<b, c>>) = b
      /\ Tail(<<b, c>>) = <<c>>
  OBVIOUS
<1> DEFINE s == <<a, b, c>>
           u == <<b, c>>
<1> HIDE DEF s, u
<1>3. s \o r # <<>> /\ Head(s \o r) = Head(s) /\ Tail(s \o r) = Tail(s) \o r
  BY <1>1, ConcatStep DEF s
<1>4. u \o r # <<>> /\ Head(u \o r) = Head(u) /\ Tail(u \o r) = Tail(u) \o r
  BY <1>2, ConcatStep DEF u
<1> QED BY <1>1, <1>2, <1>3, <1>4 DEF Begins, s, u

LineCall(l) == [fn |-> "clear_line", line |-> l]

LEMMA ClearLinesIs ==
  ASSUME ~Free, NEW line \in 1 .. CLEAR_END
  PROVE  /\ display_clear_lines(line, CLEAR_END) \in Seq(PageCalls)
         /\ line = CLEAR_END => display_clear_lines(line, CLEAR_END) = <<>>
         /\ line < CLEAR_END =>
              Begins(display_clear_lines(line, CLEAR_END), LineCall(line),
                     display_clear_lines(line + 1, CLEAR_END))
<1> DEFINE d(l) == display_clear_lines(l, CLEAR_END)
<1>1. CLEAR_END \in Nat /\ CLEAR_END <= ROW_COUNT /\ ROW_COUNT \in Nat
  BY PageRows
<1>2. \A l \in 1 .. CLEAR_END - 1 : LineCall(l) \in PageCalls
  BY <1>1 DEF LineCall, PageCalls, Calls, Rows
<1>3. ASSUME NEW l \in 1 .. CLEAR_END
      PROVE  /\ d(l) \in Seq(PageCalls) /\ Len(d(l)) = CLEAR_END - l
             /\ \A k \in 1 .. CLEAR_END - l : d(l)[k] = LineCall(l + k - 1)
  <2>1. CLEAR_END - l \in Nat /\ l \in Int
    BY <1>1
  <2>2. d(l) = [k \in 1 .. CLEAR_END - l |-> LineCall(l + k - 1)]
    BY DEF display_clear_lines, LineCall
  <2>3. ASSUME NEW k \in 1 .. CLEAR_END - l PROVE LineCall(l + k - 1) \in PageCalls
    <3>1. l + k - 1 \in 1 .. CLEAR_END - 1
      BY <1>1, <2>1
    <3> QED BY <1>2, <3>1
  <2> HIDE DEF d
  <2>4. d(l) \in [1 .. CLEAR_END - l -> PageCalls]
    BY <2>2, <2>3
  <2>5. d(l) \in Seq(PageCalls) /\ Len(d(l)) = CLEAR_END - l
    BY <2>1, <2>4, FunctionIsSequence
  <2> QED BY <2>2, <2>5
<1> HIDE DEF d
<1>4. ASSUME line = CLEAR_END PROVE d(line) = <<>>
  BY <1>1, <1>3, <1>4, EmptySeq
<1>5. ASSUME line < CLEAR_END PROVE Begins(d(line), LineCall(line), d(line + 1))
  <2>1. line + 1 \in 1 .. CLEAR_END /\ line \in Int
    BY <1>1, <1>5
  <2> DEFINE s == d(line)
             r == d(line + 1)
  <2>2. /\ s \in Seq(PageCalls) /\ Len(s) = CLEAR_END - line
        /\ \A k \in 1 .. CLEAR_END - line : s[k] = LineCall(line + k - 1)
    BY <1>3
  <2>3. /\ r \in Seq(PageCalls) /\ Len(r) = CLEAR_END - (line + 1)
        /\ \A k \in 1 .. CLEAR_END - (line + 1) : r[k] = LineCall(line + 1 + k - 1)
    BY <1>3, <2>1
  <2> HIDE DEF s, r
  <2>4. s # <<>> /\ Head(s) = s[1]
    BY <1>1, <1>5, <2>1, <2>2
  <2>5. s[1] = LineCall(line)
    <3>1. 1 \in 1 .. CLEAR_END - line /\ line + 1 - 1 = line
      BY <1>1, <1>5, <2>1
    <3> QED BY <2>2, <3>1
  <2>6. /\ Tail(s) \in Seq(PageCalls) /\ Len(Tail(s)) = CLEAR_END - line - 1
        /\ \A k \in 1 .. Len(Tail(s)) : Tail(s)[k] = s[k + 1]
    BY <2>2, <2>4, HeadTailProperties
  <2>7. Len(Tail(s)) = Len(r)
    BY <1>1, <2>1, <2>3, <2>6
  <2>8. ASSUME NEW k \in 1 .. Len(Tail(s)) PROVE Tail(s)[k] = r[k]
    <3>1. /\ k + 1 \in 1 .. CLEAR_END - line /\ k \in 1 .. CLEAR_END - (line + 1)
          /\ line + (k + 1) - 1 = line + 1 + k - 1
      BY <1>1, <2>1, <2>6
    <3> QED BY <2>2, <2>3, <2>6, <3>1
  <2>9. Tail(s) = r
    BY <2>3, <2>6, <2>7, <2>8, SeqEqual
  <2> QED BY <2>4, <2>5, <2>9 DEF Begins, s, r
<1> QED BY <1>3, <1>4, <1>5 DEF d

LEMMA BeginsConcat ==
  ASSUME NEW S, NEW s \in Seq(S), NEW r \in Seq(S), NEW c, NEW u, Begins(s, c, u)
  PROVE  Begins(s \o r, c, u \o r)
BY ConcatStep DEF Begins

(* The parts of a page.                                                    *)
LEMMA PartTypes ==
  ASSUME ~Free
  PROVE  /\ \A view \in Views : ButtonLine(view) \in PageCalls
         /\ MoveTo(0, BUTTON_ROW) \in PageCalls /\ MoveTo(0, 1) \in PageCalls
         /\ \A m \in Texts : Show(Message(m)) \in PageCalls
         /\ Title \in PageCalls
         /\ Show(<<LineFeed>>) \in PageCalls /\ Done \in Seq(PageCalls)
         /\ \A view \in Views : \A end \in Endings(view) :
              end \in Seq(PageCalls) /\ LastCalls(view, end) \in Seq(PageCalls)
<1>1. /\ \A m \in Texts : Message(m) \in Seq(Chars)
      /\ \A txt \in Seq(Chars) : Show(txt) \in PageCalls
      /\ \A y \in Rows : MoveTo(0, y) \in PageCalls
      /\ 1 \in Rows /\ <<LineFeed>> \in Seq(Chars)
  BY PageParts DEF Texts
<1>2. \A view \in Views : ButtonLine(view) \in PageCalls
  <2> SUFFICES ASSUME NEW view \in Views PROVE ButtonLine(view) \in PageCalls
    OBVIOUS
  <2>1. view \in Letters
    BY LettersOf DEF Views
  <2>2. view \in Chars
    BY <2>1, LettersOf
  <2>3. Repeat(view, COLUMN_COUNT) \in Seq(Chars)
    BY <2>2, RepeatIs, Sizes
  <2> QED BY <1>1, <2>3 DEF ButtonLine
<1>3. MoveTo(0, BUTTON_ROW) \in PageCalls /\ MoveTo(0, 1) \in PageCalls
  <2>1. BUTTON_ROW \in Rows
    BY PageRows DEF Rows
  <2> QED BY <1>1, <2>1
<1>4. \A m \in Texts : Show(Message(m)) \in PageCalls
  BY <1>1
<1>5. Show(<<LineFeed>>) \in PageCalls
  BY <1>1
<1>6. Title \in PageCalls
  <2>1. Message("T") \in Seq(Chars)
    BY <1>1 DEF Texts
  <2>2. Message("T") \o <<LineFeed>> \in Seq(Chars)
    BY <1>1, <2>1, ConcatProperties
  <2> QED BY <1>1, <2>2 DEF Title
<1>7. Done \in Seq(PageCalls)
  <2>1. Show(Message("e")) \in PageCalls
    BY <1>4 DEF Texts
  <2> QED BY <1>5, <2>1 DEF Done
<1>8. ASSUME NEW view \in Views, NEW end \in Endings(view)
      PROVE  end \in Seq(PageCalls) /\ LastCalls(view, end) \in Seq(PageCalls)
  <2>1. end = <<>> \/ end = Done
    BY DEF Endings
  <2>2. end \in Seq(PageCalls)
    <3>1. <<>> \in Seq(PageCalls)
      OBVIOUS
    <3> QED BY Zenon, <1>7, <2>1, <3>1
  <2>3. Text(view) \in Texts
    BY DEF Text, Texts
  <2>4. <<Show(Message(Text(view)))>> \in Seq(PageCalls)
    BY <1>4, <2>3
  <2> QED BY <2>2, <2>4, ConcatProperties DEF LastCalls
<1> QED BY <1>2, <1>3, <1>4, <1>5, <1>6, <1>7, <1>8

LEMMA LeftIs ==
  ASSUME ~Free, NEW view \in Views, NEW end \in Endings(view),
         NEW line \in 1 .. CLEAR_END, NEW n \in 0 .. BUTTON_LINES
  PROVE  /\ Left(view, n, line, end) \in Seq(PageCalls)
         /\ n > 0 => Begins(Left(view, n, line, end), ButtonLine(view),
                            Left(view, n - 1, line, end))
         /\ n = 0 /\ line < CLEAR_END =>
              Begins(Left(view, n, line, end), LineCall(line), Left(view, n, line + 1, end))
         /\ n = 0 /\ line = CLEAR_END =>
              Begins(Left(view, n, line, end), MoveTo(0, 1), LastCalls(view, end))
         /\ Begins(<<MoveTo(0, BUTTON_ROW)>> \o Left(view, n, line, end), MoveTo(0, BUTTON_ROW),
                   Left(view, n, line, end))
<1> DEFINE m == <<MoveTo(0, 1)>> \o LastCalls(view, end)
           d(l) == display_clear_lines(l, CLEAR_END)
           b == ButtonLine(view)
<1>1. BUTTON_LINES \in Nat /\ CLEAR_END \in Nat /\ n \in Nat
  BY PageRows
<1>2. /\ b \in PageCalls /\ MoveTo(0, 1) \in PageCalls /\ MoveTo(0, BUTTON_ROW) \in PageCalls
      /\ LastCalls(view, end) \in Seq(PageCalls)
  BY PartTypes
<1>3. <<MoveTo(0, 1)>> \in Seq(PageCalls)
  BY <1>2
<1>4. m \in Seq(PageCalls)
  BY <1>2, <1>3, ConcatProperties
<1>5. Begins(m, MoveTo(0, 1), LastCalls(view, end))
  BY <1>2, OneConcat
<1>6. \A l \in 1 .. CLEAR_END : d(l) \in Seq(PageCalls)
  BY ClearLinesIs
<1> HIDE DEF m, d, b
<1>7. \A l \in 1 .. CLEAR_END : Lines(l, m) = d(l) \o m /\ d(l) \o m \in Seq(PageCalls)
  BY <1>4, <1>6, ConcatProperties DEF Lines, d
<1>8. \A i : Left(view, i, line, end) = Repeat(b, i) \o Lines(line, m)
  BY DEF Left, b, m
<1>9. Lines(line, m) \in Seq(PageCalls)
  BY <1>7
<1>10. Left(view, n, line, end) \in Seq(PageCalls)
  <2>1. Repeat(b, n) \in Seq(PageCalls)
    BY <1>1, <1>2, RepeatIs
  <2> QED BY <1>8, <1>9, <2>1, ConcatProperties
<1>11. ASSUME n > 0
       PROVE  Begins(Left(view, n, line, end), b, Left(view, n - 1, line, end))
  <2>1. Begins(Repeat(b, n) \o Lines(line, m), b, Repeat(b, n - 1) \o Lines(line, m))
    BY <1>1, <1>2, <1>9, <1>11, RepeatConcat
  <2>2. /\ Left(view, n, line, end) = Repeat(b, n) \o Lines(line, m)
        /\ Left(view, n - 1, line, end) = Repeat(b, n - 1) \o Lines(line, m)
    BY <1>8
  <2> QED BY <2>1, <2>2
<1>12. ASSUME NEW l \in 1 .. CLEAR_END
       PROVE  Left(view, 0, l, end) = d(l) \o m
  <2>1. Lines(l, m) \in Seq(PageCalls) /\ Lines(l, m) = d(l) \o m
    BY <1>7
  <2>2. Left(view, 0, l, end) = Repeat(b, 0) \o Lines(l, m)
    BY DEF Left, b, m
  <2>3. Repeat(b, 0) \o Lines(l, m) = Lines(l, m)
    BY <1>2, <2>1, RepeatConcat
  <2> QED BY <2>1, <2>2, <2>3
<1>13. ASSUME n = 0, line < CLEAR_END
       PROVE  Begins(Left(view, n, line, end), LineCall(line), Left(view, n, line + 1, end))
  <2>1. line + 1 \in 1 .. CLEAR_END
    BY <1>1, <1>13
  <2>2. Begins(d(line), LineCall(line), d(line + 1))
    BY <1>13, ClearLinesIs DEF d
  <2>3. d(line) \in Seq(PageCalls) /\ m \in Seq(PageCalls)
    BY <1>4, <1>6
  <2>4. Begins(d(line) \o m, LineCall(line), d(line + 1) \o m)
    BY <2>2, <2>3, BeginsConcat
  <2> QED BY <1>12, <1>13, <2>1, <2>4
<1>14. ASSUME n = 0, line = CLEAR_END
       PROVE  Begins(Left(view, n, line, end), MoveTo(0, 1), LastCalls(view, end))
  <2>1. d(line) = <<>>
    BY <1>14, ClearLinesIs DEF d
  <2>2. <<>> \o m = m
    BY <1>4, ConcatEmptySeq
  <2> QED BY <1>5, <1>12, <1>14, <2>1, <2>2
<1>15. Begins(<<MoveTo(0, BUTTON_ROW)>> \o Left(view, n, line, end), MoveTo(0, BUTTON_ROW),
              Left(view, n, line, end))
  BY <1>2, <1>10, OneConcat
<1> QED BY <1>10, <1>11, <1>13, <1>14, <1>15 DEF b

LEMMA TwoConcat == ASSUME NEW S, NEW p \in S, NEW q \in S PROVE <<p>> \o <<q>> = <<p, q>>
<1>1. /\ <<p>> \in Seq(S) /\ Len(<<p>>) = 1 /\ <<p>>[1] = p
      /\ <<q>> \in Seq(S) /\ Len(<<q>>) = 1 /\ <<q>>[1] = q
  OBVIOUS
<1>2. <<p, q>> \in Seq(S) /\ Len(<<p, q>>) = 2 /\ <<p, q>>[1] = p /\ <<p, q>>[2] = q
  OBVIOUS
<1> DEFINE a == <<p>>
           b == <<q>>
           c == <<p, q>>
<1> HIDE DEF a, b, c
<1>3. /\ a \in Seq(S) /\ Len(a) = 1 /\ a[1] = p /\ b \in Seq(S) /\ Len(b) = 1 /\ b[1] = q
      /\ c \in Seq(S) /\ Len(c) = 2 /\ c[1] = p /\ c[2] = q
  BY <1>1, <1>2 DEF a, b, c
<1>4. /\ a \o b \in Seq(S) /\ Len(a \o b) = 2
      /\ \A i \in 1 .. 2 : (a \o b)[i] = IF i <= 1 THEN a[i] ELSE b[i - 1]
  BY <1>3, ConcatProperties
<1>5. \A i \in 1 .. 2 : (a \o b)[i] = c[i]
  BY <1>3, <1>4
<1>6. a \o b = c
  BY <1>3, <1>4, <1>5, SeqEqual
<1> QED BY <1>6 DEF a, b, c

(* The pages of main.c, in the order in which they are left to do.         *)
LEMMA PagesAre ==
  ASSUME ~Free
  PROVE  LET page(view, line, end) ==
               <<MoveTo(0, BUTTON_ROW)>> \o Left(view, BUTTON_LINES, line, end)
         IN /\ Menu = page("menu", CLEAR_END, <<>>) /\ Restore = page("menu", 1, <<>>)
            /\ Demo = page("demo", 1, <<>>) /\ Demo \o Done = page("demo", 1, Done)
<1> DEFINE page(view, line, end) ==
             <<MoveTo(0, BUTTON_ROW)>> \o Left(view, BUTTON_LINES, line, end)
           m == <<MoveTo(0, BUTTON_ROW)>>
           b(view) == Repeat(ButtonLine(view), BUTTON_LINES)
           d(l) == display_clear_lines(l, CLEAR_END)
           one == <<MoveTo(0, 1)>>
           say(view) == <<Show(Message(Text(view)))>>
           x(view) == <<MoveTo(0, 1), Show(Message(Text(view)))>>
           S == Seq(PageCalls)
<1>1. BUTTON_LINES \in Nat /\ CLEAR_END \in 1 .. CLEAR_END /\ 1 \in 1 .. CLEAR_END
  BY PageRows
<1>2. "menu" \in Views /\ "demo" \in Views /\ Text("menu") = "r" /\ Text("demo") = "d"
  BY DEF Views, Text
<1>3. \A view \in Views : Text(view) \in Texts
  BY DEF Text, Texts
<1>4. /\ \A view \in Views : ButtonLine(view) \in PageCalls
      /\ MoveTo(0, BUTTON_ROW) \in PageCalls /\ MoveTo(0, 1) \in PageCalls
      /\ \A a \in Texts : Show(Message(a)) \in PageCalls
      /\ Done \in S
  BY PartTypes
<1>5. /\ m \in S /\ one \in S
      /\ \A view \in Views : b(view) \in S /\ say(view) \in S /\ x(view) \in S
  <2>1. m \in S /\ one \in S
    BY <1>4
  <2>2. ASSUME NEW view \in Views PROVE b(view) \in S /\ say(view) \in S /\ x(view) \in S
    <3>1. b(view) \in S
      BY <1>1, <1>4, RepeatIs
    <3>2. Show(Message(Text(view))) \in PageCalls
      BY <1>3, <1>4
    <3> QED BY <1>4, <3>1, <3>2
  <2> QED BY <2>1, <2>2
<1>6. d(1) \in S /\ d(CLEAR_END) \in S /\ d(CLEAR_END) = <<>>
  BY <1>1, ClearLinesIs
<1>7. \A view \in Views : one \o say(view) = x(view)
  <2> SUFFICES ASSUME NEW view \in Views PROVE one \o say(view) = x(view)
    BY Zenon
  <2> DEFINE p == MoveTo(0, 1)
             q == Show(Message(Text(view)))
  <2>0. p \in PageCalls /\ q \in PageCalls
    BY <1>3, <1>4
  <2> HIDE DEF p, q
  <2>1. <<p>> \o <<q>> = <<p, q>>
    BY <2>0, TwoConcat
  <2> QED BY <2>1 DEF p, q
<1>8. /\ print_ui("menu") = m \o b("menu") /\ print_ui("demo") = m \o b("demo")
      /\ NewMessage("r") = d(1) \o x("menu") /\ NewMessage("d") = d(1) \o x("demo")
      /\ Menu = print_ui("menu") \o x("menu")
      /\ Restore = print_ui("menu") \o NewMessage("r")
      /\ Demo = print_ui("demo") \o NewMessage("d")
  BY <1>2 DEF print_ui, NewMessage, Menu, Restore, Demo, ButtonLine
<1>9. \A view, l, end : page(view, l, end) = m \o (b(view) \o (d(l) \o (one \o (say(view) \o end))))
  BY DEF Left, Lines, LastCalls
<1> HIDE DEF page, m, b, d, one, say, x, S
<1>10. \A s \in S, r \in S, u \in S : (s \o r) \o u = s \o (r \o u)
  BY ConcatAssociative DEF S
<1>11. \A s \in S, r \in S : s \o r \in S
  BY ConcatProperties DEF S
<1>12. \A s \in S : s \o <<>> = s /\ <<>> \o s = s
  BY ConcatEmptySeq DEF S
<1>13. Menu = page("menu", CLEAR_END, <<>>)
  <2>1. Menu = (m \o b("menu")) \o x("menu")
    BY <1>8
  <2>2. (m \o b("menu")) \o x("menu") = m \o (b("menu") \o x("menu"))
    <3>1. m \in S /\ b("menu") \in S /\ x("menu") \in S
      BY <1>2, <1>5
    <3> QED BY <3>1, ConcatAssociative DEF S
  <2>3. d(CLEAR_END) \o (one \o (say("menu") \o <<>>)) = x("menu")
    <3>1. say("menu") \o <<>> = say("menu") /\ one \o say("menu") = x("menu")
      BY Zenon, <1>2, <1>5, <1>7, <1>12
    <3>2. <<>> \o x("menu") = x("menu")
      BY Zenon, <1>2, <1>5, <1>12
    <3> QED BY <1>6, <3>1, <3>2
  <2> QED BY <1>9, <2>1, <2>2, <2>3
<1>14. ASSUME NEW view \in Views
       PROVE  (m \o b(view)) \o (d(1) \o x(view)) = page(view, 1, <<>>)
  <2>1. d(1) \o x(view) \in S
    BY Zenon, <1>5, <1>6, <1>11
  <2>2. (m \o b(view)) \o (d(1) \o x(view)) = m \o (b(view) \o (d(1) \o x(view)))
    BY Zenon, <1>5, <1>10, <2>1
  <2>3. one \o (say(view) \o <<>>) = x(view)
    <3>1. say(view) \o <<>> = say(view) /\ one \o say(view) = x(view)
      BY Zenon, <1>5, <1>7, <1>12
    <3> QED BY <3>1
  <2> QED BY <1>9, <2>2, <2>3
<1>15. Restore = page("menu", 1, <<>>) /\ Demo = page("demo", 1, <<>>)
  BY <1>2, <1>8, <1>14
<1>16. Demo \o Done = page("demo", 1, Done)
  <2> DEFINE v == "demo"
             cat(s, r) == s \o r
  <2>1. v \in Views
    BY <1>2
  <2>2. Demo = cat(cat(m, b(v)), cat(d(1), x(v)))
    BY <1>8
  <2> HIDE DEF v
  <2>3. /\ m \in S /\ b(v) \in S /\ d(1) \in S /\ x(v) \in S /\ one \in S /\ say(v) \in S
        /\ Done \in S
    BY Zenon, <1>4, <1>5, <1>6, <2>1 DEF S
  <2>4. \A s \in S, r \in S, u \in S : cat(cat(s, r), u) = cat(s, cat(r, u))
    BY ConcatAssociative DEF S
  <2>5. \A s \in S, r \in S : cat(s, r) \in S
    BY <1>11
  <2>6. cat(one, say(v)) = x(v)
    BY <1>7, <2>1
  <2>7. page(v, 1, Done) = cat(m, cat(b(v), cat(d(1), cat(one, cat(say(v), Done)))))
    BY <1>9
  <2>8. Demo \o Done = cat(Demo, Done)
    OBVIOUS
  <2> HIDE DEF cat
  <2>9. /\ cat(m, b(v)) \in S /\ cat(d(1), x(v)) \in S /\ cat(x(v), Done) \in S
        /\ cat(d(1), cat(x(v), Done)) \in S
    BY Zenon, <2>3, <2>5
  <2>10. cat(Demo, Done) = cat(cat(m, b(v)), cat(cat(d(1), x(v)), Done))
    BY <2>2, <2>3, <2>4, <2>9
  <2>11. cat(cat(d(1), x(v)), Done) = cat(d(1), cat(x(v), Done))
    BY <2>3, <2>4
  <2>12. cat(cat(m, b(v)), cat(d(1), cat(x(v), Done))) =
           cat(m, cat(b(v), cat(d(1), cat(x(v), Done))))
    BY <2>3, <2>4, <2>9
  <2>13. cat(x(v), Done) = cat(one, cat(say(v), Done))
    BY <2>3, <2>4, <2>6
  <2>14. Demo \o Done = page(v, 1, Done)
    BY <2>7, <2>8, <2>10, <2>11, <2>12, <2>13
  <2> QED BY <2>14 DEF v
<1> QED BY <1>13, <1>15, <1>16 DEF page

LEMMA BootBegins ==
  ASSUME ~Free
  PROVE  /\ Begins(Boot \o Menu, [fn |-> "init"],
                   <<[fn |-> "set_colors"], [fn |-> "clear"], Title>> \o Menu)
         /\ Begins(<<[fn |-> "set_colors"], [fn |-> "clear"], Title>> \o Menu,
                   [fn |-> "set_colors"], <<[fn |-> "clear"], Title>> \o Menu)
         /\ Begins(<<[fn |-> "clear"], Title>> \o Menu, [fn |-> "clear"], <<Title>> \o Menu)
         /\ Begins(<<Title>> \o Menu, Title, Menu)
<1> DEFINE i == [fn |-> "init"]
           c == [fn |-> "set_colors"]
           e == [fn |-> "clear"]
<1>1. PageCalls \subseteq Calls /\ i \in Calls /\ c \in Calls /\ e \in Calls
  BY DEF PageCalls, Calls
<1>2. Title \in Calls /\ Menu \in Seq(Calls)
  <2>1. Title \in PageCalls /\ Menu \in Seq(PageCalls)
    BY PartTypes, Pages
  <2> QED BY <1>1, <2>1, SeqMonotonic
<1>3. Boot = <<i, c, e, Title>>
  BY DEF Boot, Title
<1> HIDE DEF i, c, e
<1>4. Boot \in Seq(Calls) /\ Begins(Boot, i, <<c, e, Title>>)
  BY <1>1, <1>2, <1>3 DEF Begins
<1>5. Begins(Boot \o Menu, i, <<c, e, Title>> \o Menu)
  BY <1>2, <1>4, BeginsConcat
<1>6. /\ Begins(<<c, e, Title>> \o Menu, c, <<e, Title>> \o Menu)
      /\ Begins(<<e, Title>> \o Menu, e, <<Title>> \o Menu)
  BY <1>1, <1>2, ThreeConcat
<1>7. Begins(<<Title>> \o Menu, Title, Menu)
  BY <1>2, OneConcat
<1> QED BY <1>5, <1>6, <1>7 DEF i, c, e

LEMMA LastBegins ==
  ASSUME ~Free, NEW view \in Views, NEW end \in Endings(view)
  PROVE  /\ Begins(LastCalls(view, end), Show(Message(Text(view))), end)
         /\ end # <<>> => view = "demo" /\ Begins(end, Show(<<LineFeed>>), <<Show(Message("e"))>>)
         /\ Begins(<<Show(Message("e"))>>, Show(Message("e")), <<>>)
<1>1. /\ end \in Seq(PageCalls) /\ \A m \in Texts : Show(Message(m)) \in PageCalls
      /\ Show(<<LineFeed>>) \in PageCalls
  BY PartTypes
<1>2. Text(view) \in Texts
  BY DEF Text, Texts
<1>3. Begins(LastCalls(view, end), Show(Message(Text(view))), end)
  BY <1>1, <1>2, OneConcat DEF LastCalls
<1>4. end # <<>> => view = "demo" /\ end = Done
  BY DEF Endings, Views
<1> DEFINE f == Show(<<LineFeed>>)
           l == Show(Message("e"))
<1>5. Done = <<f, l>>
  BY DEF Done
<1> HIDE DEF f, l
<1>6. Begins(Done, f, <<l>>) /\ Begins(<<l>>, l, <<>>)
  BY <1>5 DEF Begins
<1> QED BY <1>3, <1>4, <1>6 DEF f, l

-----------------------------------------------------------------------------
(* The next call takes a page from one stage to the next                   *)

GoesOn(t, s) == \E g : Leaves(t, Head(s), g) /\ Stage(g, Tail(s))

LEMMA FrameSame ==
  ASSUME NEW t, NEW g, g.cell = t.cell, NEW first, NEW second, NEW done, NEW view,
         Frame(t, first, second, done, view)
  PROVE  Frame(g, first, second, done, view)
BY Zenon DEF Frame

LEMMA BootingStep ==
  ASSUME ~Free, color_config \in Colored, NEW t \in Terminals, Is(t.rolls), NEW s, Booting(t, s)
  PROVE  GoesOn(t, s)
<1>1. CASE s = Boot \o Menu
  <2>1. /\ Head(s) = [fn |-> "init"]
        /\ Tail(s) = <<[fn |-> "set_colors"], [fn |-> "clear"], Title>> \o Menu
    BY <1>1, BootBegins DEF Begins
  <2>2. Leaves(t, Head(s), t)
    BY <2>1, StartShown
  <2>3. Stage(t, Tail(s))
    BY Zenon, <2>1 DEF Stage, Booting
  <2> QED BY <2>2, <2>3 DEF GoesOn
<1>2. CASE s = <<[fn |-> "set_colors"], [fn |-> "clear"], Title>> \o Menu
  <2>1. Head(s) = [fn |-> "set_colors"] /\ Tail(s) = <<[fn |-> "clear"], Title>> \o Menu
    BY <1>2, BootBegins DEF Begins
  <2>2. Leaves(t, Head(s), t)
    BY <2>1, StartShown
  <2>3. Stage(t, Tail(s))
    BY Zenon, <2>1 DEF Stage, Booting
  <2> QED BY <2>2, <2>3 DEF GoesOn
<1>3. CASE s = <<[fn |-> "clear"], Title>> \o Menu
  <2>1. Head(s) = [fn |-> "clear"] /\ Tail(s) = <<Title>> \o Menu
    BY <1>3, BootBegins DEF Begins
  <2>2. PICK g : Leaves(t, [fn |-> "clear"], g) /\ Empty(g) /\ Cursors(g, 0, 0)
    BY ClearShown
  <2>3. Is(g.rolls)
    BY <2>2 DEF Leaves
  <2>4. Stage(g, Tail(s))
    BY Zenon, <2>1, <2>2, <2>3 DEF Stage, Booting
  <2> QED BY <2>1, <2>2, <2>4 DEF GoesOn
<1>4. CASE s = <<Title>> \o Menu /\ Empty(t) /\ Cursors(t, 0, 0)
  <2>1. Head(s) = Title /\ Tail(s) = Menu
    BY <1>4, BootBegins DEF Begins
  <2>2. "T" \in Letters /\ 0 \in Rows /\ 0 < ROW_COUNT - 1
    BY LettersOf, Sizes
  <2>3. PICK g : /\ Leaves(t, Title, g) /\ Cursors(g, 0, 0 + 1)
                 /\ Drawn(t, g, 0, 0, COLUMN_COUNT - 2, "T", TRUE)
    <3> DEFINE m == "T"
    <3>1. m \in Letters
      BY <2>2
    <3> HIDE DEF m
    <3>2. \E g : /\ Leaves(t, Show(Message(m) \o <<LineFeed>>), g) /\ Cursors(g, 0, 0 + 1)
                 /\ Drawn(t, g, 0, 0, COLUMN_COUNT - 2, m, TRUE)
      BY <1>4, <2>2, <3>1, ShowLine
    <3> QED BY <3>2 DEF m, Title
  <2>4. Is(g.rolls)
    BY <2>3 DEF Leaves
  <2>5. "menu" \in Views /\ <<>> \in Endings("menu") /\ "blank" \in Firsts /\ "blank" \in Seconds
    BY DEF Views, Endings, Firsts, Seconds
  <2>6. Frame(g, "blank", "blank", 0, "menu")
    BY Zenon, <1>4, <2>3, <2>5, TitleDrawn
  <2>7. CLEAR_END \in 1 .. CLEAR_END
    BY PageRows
  <2>8. Starting(g, Menu, "menu", <<>>, "blank", "blank", CLEAR_END)
    <3>1. Menu = <<MoveTo(0, BUTTON_ROW)>> \o Left("menu", BUTTON_LINES, CLEAR_END, <<>>)
      BY PagesAre
    <3> QED BY Zenon, <2>6, <3>1 DEF Starting
  <2>9. Stage(g, Menu)
    BY Zenon, <2>4, <2>5, <2>7, <2>8 DEF Stage
  <2> QED BY <2>1, <2>3, <2>9 DEF GoesOn
<1> QED BY Zenon, <1>1, <1>2, <1>3, <1>4 DEF Booting

LEMMA StartingStep ==
  ASSUME ~Free, NEW t \in Terminals, Is(t.rolls), NEW s, NEW view \in Views,
         NEW end \in Endings(view), NEW first \in Firsts, NEW second \in Seconds,
         NEW line \in 1 .. CLEAR_END, Starting(t, s, view, end, first, second, line)
  PROVE  GoesOn(t, s)
<1> DEFINE g == At(t, 0, BUTTON_ROW)
           n == BUTTON_LINES
<1>1. n \in 0 .. BUTTON_LINES /\ n - n = 0 /\ BUTTON_ROW + BUTTON_LINES - n = BUTTON_ROW
  BY PageRows
<1>2. s = <<MoveTo(0, BUTTON_ROW)>> \o Left(view, n, line, end)
  BY DEF Starting
<1>3. Head(s) = MoveTo(0, BUTTON_ROW) /\ Tail(s) = Left(view, n, line, end)
  BY <1>1, <1>2, LeftIs DEF Begins
<1>4. Leaves(t, MoveTo(0, BUTTON_ROW), g) /\ Cursors(g, 0, BUTTON_ROW) /\ g.cell = t.cell
  <2>1. 0 \in Columns /\ BUTTON_ROW \in Rows
    BY PageRows, Sizes DEF Rows
  <2> QED BY <2>1, MoveShown
<1>5. Frame(t, first, second, 0, view)
  BY DEF Starting
<1> HIDE DEF g
<1>6. Frame(g, first, second, BUTTON_LINES - n, view)
  BY <1>1, <1>4, <1>5, FrameSame
<1>7. (line > 1 => first = "blank") /\ (line > 2 => second = "blank")
  BY DEF Starting
<1>8. Cursors(g, 0, BUTTON_ROW + BUTTON_LINES - n)
  BY <1>1, <1>4
<1> HIDE DEF n
<1>9. Clearing(g, Tail(s), view, end, first, second, line, n)
  BY Zenon, <1>3, <1>6, <1>7, <1>8 DEF Clearing
<1>10. Is(g.rolls)
  BY <1>4 DEF Leaves
<1>11. Stage(g, Tail(s))
  BY Zenon, <1>1, <1>9, <1>10 DEF Stage
<1> QED BY <1>3, <1>4, <1>11 DEF GoesOn

LEMMA ButtonsStep ==
  ASSUME ~Free, color_config \in Colored, NEW t \in Terminals, Is(t.rolls), NEW s,
         NEW view \in Views, NEW end \in Endings(view), NEW first \in Firsts,
         NEW second \in Seconds, NEW line \in 1 .. CLEAR_END, NEW n \in 0 .. BUTTON_LINES,
         n > 0, Clearing(t, s, view, end, first, second, line, n)
  PROVE  GoesOn(t, s)
<1> DEFINE y == BUTTON_ROW + BUTTON_LINES - n
           k == n - 1
<1>1. /\ y \in Rows /\ y < ROW_COUNT - 1 /\ k \in 0 .. BUTTON_LINES /\ n \in 1 .. BUTTON_LINES
      /\ y + 1 = BUTTON_ROW + BUTTON_LINES - k
  BY PageRows DEF Rows
<1>2. s = Left(view, n, line, end)
  BY DEF Clearing
<1>3. Head(s) = ButtonLine(view) /\ Tail(s) = Left(view, k, line, end)
  BY <1>2, LeftIs DEF Begins
<1>4. Frame(t, first, second, BUTTON_LINES - n, view) /\ Cursors(t, 0, y)
  BY DEF Clearing
<1>5. view \in Letters
  BY LettersOf DEF Views
<1> HIDE DEF y, k
<1>6. PICK g : /\ Leaves(t, ButtonLine(view), g) /\ Cursors(g, 0, y + 1)
               /\ Drawn(t, g, 0, y, COLUMN_COUNT, view, TRUE)
  BY <1>1, <1>4, <1>5, ShowRow DEF ButtonLine
<1>7. Frame(g, first, second, BUTTON_LINES - k, view)
  <2>1. Drawn(t, g, 0, BUTTON_ROW + BUTTON_LINES - n, COLUMN_COUNT, view, TRUE)
    BY Zenon, <1>6 DEF y
  <2> QED BY Zenon, <1>1, <1>4, <2>1, RowButtons DEF k
<1>8. (line > 1 => first = "blank") /\ (line > 2 => second = "blank")
  BY DEF Clearing
<1>9. Cursors(g, 0, BUTTON_ROW + BUTTON_LINES - k)
  BY <1>1, <1>6
<1>10. Clearing(g, Tail(s), view, end, first, second, line, k)
  BY Zenon, <1>3, <1>7, <1>8, <1>9 DEF Clearing
<1>11. Is(g.rolls)
  BY <1>6 DEF Leaves
<1>12. Stage(g, Tail(s))
  BY Zenon, <1>1, <1>10, <1>11 DEF Stage
<1> QED BY <1>3, <1>6, <1>12 DEF GoesOn

LEMMA LinesStep ==
  ASSUME ~Free, color_config \in Colored, NEW t \in Terminals, Is(t.rolls), NEW s,
         NEW view \in Views, NEW end \in Endings(view), NEW first \in Firsts,
         NEW second \in Seconds, NEW line \in 1 .. CLEAR_END, line < CLEAR_END,
         Clearing(t, s, view, end, first, second, line, 0)
  PROVE  GoesOn(t, s)
<1> DEFINE second2 == IF line = 1 THEN second ELSE "blank"
           first2 == "blank"
           next == line + 1
<1>1. /\ next \in 1 .. CLEAR_END /\ line \in 1 .. CLEAR_END - 1 /\ line \in Rows
      /\ 0 \in 0 .. BUTTON_LINES /\ ~(0 > 0)
  BY PageRows DEF Rows
<1>2. s = Left(view, 0, line, end)
  BY DEF Clearing
<1>3. Head(s) = LineCall(line) /\ Tail(s) = Left(view, 0, next, end)
  BY <1>1, <1>2, LeftIs DEF Begins
<1>4. /\ Frame(t, first, second, BUTTON_LINES - 0, view)
      /\ line > 1 => first = "blank"
      /\ line > 2 => second = "blank"
  BY DEF Clearing
<1>5. PICK ch \in Blanks : \E g :
        Leaves(t, LineCall(line), g) /\ Drawn(t, g, 0, line, COLUMN_COUNT - 1, ch, FALSE)
  BY <1>1, ClearLineShown DEF LineCall
<1>6. PICK g : Leaves(t, LineCall(line), g) /\ Drawn(t, g, 0, line, COLUMN_COUNT - 1, ch, FALSE)
  BY <1>5
<1>7. Frame(g, first2, second2, BUTTON_LINES - 0, view)
  BY Zenon, <1>1, <1>4, <1>6, RowCleared
<1>8. next > 2 => second2 = "blank"
  BY <1>1
<1>9. first2 \in Firsts /\ second2 \in Seconds
  BY DEF Firsts, Seconds
<1>10. next > 1 => first2 = "blank"
  OBVIOUS
<1> HIDE DEF first2, second2, next
<1>11. Clearing(g, Tail(s), view, end, first2, second2, next, 0)
  BY Zenon, <1>1, <1>3, <1>7, <1>8, <1>10 DEF Clearing
<1>12. Is(g.rolls)
  BY <1>6 DEF Leaves
<1>13. Stage(g, Tail(s))
  BY Zenon, <1>1, <1>9, <1>11, <1>12 DEF Stage
<1> QED BY <1>3, <1>6, <1>13 DEF GoesOn

LEMMA MessageStep ==
  ASSUME ~Free, NEW t \in Terminals, Is(t.rolls), NEW s, NEW view \in Views,
         NEW end \in Endings(view), NEW first \in Firsts, NEW second \in Seconds,
         Clearing(t, s, view, end, first, second, CLEAR_END, 0)
  PROVE  GoesOn(t, s)
<1> DEFINE g == At(t, 0, 1)
<1>1. /\ CLEAR_END \in 1 .. CLEAR_END /\ 0 \in 0 .. BUTTON_LINES /\ CLEAR_END > 1
      /\ CLEAR_END > 2 /\ BUTTON_LINES - 0 = BUTTON_LINES /\ 0 \in Columns /\ 1 \in Rows
  BY PageRows, Sizes DEF Rows
<1>2. s = Left(view, 0, CLEAR_END, end)
  BY DEF Clearing
<1>3. Head(s) = MoveTo(0, 1) /\ Tail(s) = LastCalls(view, end)
  BY <1>1, <1>2, LeftIs DEF Begins
<1>4. first = "blank" /\ second = "blank"
  BY <1>1 DEF Clearing
<1>5. Frame(t, "blank", "blank", BUTTON_LINES, view)
  BY <1>1, <1>4 DEF Clearing
<1>6. Leaves(t, MoveTo(0, 1), g) /\ Cursors(g, 0, 1) /\ g.cell = t.cell
  BY <1>1, MoveShown
<1> HIDE DEF g
<1>7. Frame(g, "blank", "blank", BUTTON_LINES, view)
  BY <1>5, <1>6, FrameSame
<1>8. Ending(g, Tail(s), view, end)
  BY Zenon, <1>3, <1>6, <1>7 DEF Ending
<1>9. Is(g.rolls)
  BY <1>6 DEF Leaves
<1>10. Stage(g, Tail(s))
  BY Zenon, <1>8, <1>9 DEF Stage
<1> QED BY <1>3, <1>6, <1>10 DEF GoesOn

LEMMA EndingStep ==
  ASSUME ~Free, color_config \in Colored, NEW t \in Terminals, Is(t.rolls), NEW s, s # <<>>,
         NEW view \in Views, NEW end \in Endings(view), Ending(t, s, view, end)
  PROVE  GoesOn(t, s)
<1> DEFINE full == BUTTON_LINES
           width == COLUMN_COUNT - 2
<1>1. /\ 1 \in Rows /\ 2 \in Rows /\ 1 < ROW_COUNT - 1 /\ width \in Columns /\ width \in Int
      /\ 1 + 1 = 2
  <2>1. ROW_COUNT \in Nat /\ ROW_COUNT > 4 /\ COLUMN_COUNT \in Nat /\ COLUMN_COUNT > 1
    BY PageRows
  <2> QED BY <2>1 DEF Rows, Columns
<1>2. Text(view) \in Texts /\ "e" \in Texts /\ "d" \in Texts /\ "T" \in Letters
  BY LettersOf DEF Text, Texts
<1>3. \A m \in Texts : m \in Letters
  BY LettersOf DEF Texts
<1> HIDE DEF full, width
<1>4. CASE /\ s = LastCalls(view, end) /\ Frame(t, "blank", "blank", full, view)
           /\ Cursors(t, 0, 1)
  <2> DEFINE m == Text(view)
             y == 1
             first == "blank"
  <2>1. Head(s) = Show(Message(m)) /\ Tail(s) = end
    BY <1>4, LastBegins DEF Begins
  <2>2. m \in Texts /\ m \in Letters /\ y \in Rows /\ y \in {1, 2} /\ Cursors(t, 0, y)
    BY <1>1, <1>2, <1>3, <1>4
  <2>3. (IF y = 1 THEN "blank" ELSE first) = "blank" /\ (IF y = 1 THEN m ELSE first) = m
        /\ (IF y = 1 THEN "blank" ELSE m) = "blank" /\ (y = 2 => first \in Texts)
    OBVIOUS
  <2> HIDE DEF m, y
  <2>4. PICK g : /\ Leaves(t, Show(Message(m)), g) /\ Cursors(g, width, y)
                 /\ Drawn(t, g, 0, y, width, m, FALSE)
    BY <2>2, ShowMessage DEF width
  <2>5. Frame(t, IF y = 1 THEN "blank" ELSE first, "blank", full, view)
    BY <1>4, <2>3
  <2>6. Frame(g, IF y = 1 THEN m ELSE first, IF y = 1 THEN "blank" ELSE m, full, view)
    <3>1. Drawn(t, g, 0, y, COLUMN_COUNT - 2, m, FALSE)
      BY Zenon, <2>4 DEF width
    <3> HIDE DEF first
    <3> QED BY Zenon, <2>2, <2>3, <2>5, <3>1, RowOfMessage
  <2>7. Frame(g, m, "blank", full, view)
    BY <2>3, <2>6
  <2>8. Ending(g, Tail(s), view, end)
    <3>1. y = 1
      BY DEF y
    <3> QED BY Zenon, <2>1, <2>4, <2>7, <3>1 DEF Ending, m, full, width
  <2>9. Is(g.rolls)
    BY <2>4 DEF Leaves
  <2>10. Stage(g, Tail(s))
    BY Zenon, <2>8, <2>9 DEF Stage
  <2> QED BY <2>1, <2>4, <2>10 DEF GoesOn
<1>5. CASE s = end /\ Frame(t, Text(view), "blank", full, view) /\ Cursors(t, width, 1)
  <2>1. view = "demo" /\ Head(s) = Show(<<LineFeed>>) /\ Tail(s) = <<Show(Message("e"))>>
    BY <1>5, LastBegins DEF Begins
  <2>2. Text(view) = "d"
    BY <2>1 DEF Text
  <2> DEFINE ch == "T"
  <2>3. ch \in Letters
    BY <1>2
  <2> HIDE DEF ch
  <2>4. PICK g : /\ Leaves(t, Show(<<LineFeed>>), g) /\ Cursors(g, 0, 1 + 1)
                 /\ Drawn(t, g, width, 1, width, ch, TRUE)
    BY <1>1, <1>5, <2>3, ShowFeed
  <2> DEFINE first == "d"
  <2>5. Frame(t, first, "blank", full, view)
    BY <1>5, <2>2
  <2> HIDE DEF first
  <2>6. Frame(g, first, "blank", full, view)
    BY Zenon, <1>1, <2>4, <2>5, RowOfFeed
  <2>7. Ending(g, Tail(s), view, end)
    <3>1. Cursors(g, 0, 2)
      BY <1>1, <2>4
    <3> QED BY Zenon, <2>1, <2>6, <3>1 DEF Ending, first, full
  <2>8. Is(g.rolls)
    BY <2>4 DEF Leaves
  <2>9. Stage(g, Tail(s))
    BY Zenon, <2>7, <2>8 DEF Stage
  <2> QED BY <2>1, <2>4, <2>9 DEF GoesOn
<1>6. CASE /\ view = "demo" /\ s = <<Show(Message("e"))>>
           /\ Frame(t, "d", "blank", full, view) /\ Cursors(t, 0, 2)
  <2> DEFINE m == "e"
             y == 2
             first == "d"
  <2>1. Head(s) = Show(Message(m)) /\ Tail(s) = <<>>
    BY <1>6, LastBegins DEF Begins
  <2>2. m \in Texts /\ m \in Letters /\ y \in Rows /\ y \in {1, 2} /\ Cursors(t, 0, y)
    BY <1>1, <1>2, <1>3, <1>6
  <2>3. (IF y = 1 THEN "blank" ELSE first) = first /\ (IF y = 1 THEN m ELSE first) = first
        /\ (IF y = 1 THEN "blank" ELSE m) = m /\ (y = 2 => first \in Texts)
    BY <1>2
  <2> HIDE DEF m, y
  <2>4. PICK g : /\ Leaves(t, Show(Message(m)), g) /\ Cursors(g, width, y)
                 /\ Drawn(t, g, 0, y, width, m, FALSE)
    BY <2>2, ShowMessage DEF width
  <2>5. Frame(t, IF y = 1 THEN "blank" ELSE first, "blank", full, view)
    BY <1>6, <2>3
  <2>6. Frame(g, IF y = 1 THEN m ELSE first, IF y = 1 THEN "blank" ELSE m, full, view)
    <3>1. Drawn(t, g, 0, y, COLUMN_COUNT - 2, m, FALSE)
      BY Zenon, <2>4 DEF width
    <3> HIDE DEF first
    <3> QED BY Zenon, <2>2, <2>3, <2>5, <3>1, RowOfMessage
  <2>7. Frame(g, first, m, full, view)
    BY <2>3, <2>6
  <2>8. Ending(g, Tail(s), view, end)
    BY Zenon, <1>6, <2>1, <2>7 DEF Ending, m, first, full
  <2>9. Is(g.rolls)
    BY <2>4 DEF Leaves
  <2>10. Stage(g, Tail(s))
    BY Zenon, <2>8, <2>9 DEF Stage
  <2> QED BY <2>1, <2>4, <2>10 DEF GoesOn
<1> QED BY Zenon, <1>4, <1>5, <1>6 DEF Ending, full, width

LEMMA StageStep ==
  ASSUME ~Free, color_config \in Colored, NEW t \in Terminals, NEW s, s # <<>>, Stage(t, s)
  PROVE  GoesOn(t, s)
<1>1. Is(t.rolls)
  BY Zenon DEF Stage
<1>2. CASE Booting(t, s)
  BY <1>1, <1>2, BootingStep
<1>3. CASE ~Booting(t, s)
  <2>1. PICK view \in Views : \E end \in Endings(view) :
          \/ \E first \in Firsts, second \in Seconds, line \in 1 .. CLEAR_END :
               \/ Starting(t, s, view, end, first, second, line)
               \/ \E n \in 0 .. BUTTON_LINES : Clearing(t, s, view, end, first, second, line, n)
          \/ Ending(t, s, view, end)
    BY Zenon, <1>3 DEF Stage
  <2>2. PICK end \in Endings(view) :
          \/ \E first \in Firsts, second \in Seconds, line \in 1 .. CLEAR_END :
               \/ Starting(t, s, view, end, first, second, line)
               \/ \E n \in 0 .. BUTTON_LINES : Clearing(t, s, view, end, first, second, line, n)
          \/ Ending(t, s, view, end)
    BY Zenon, <2>1
  <2>3. CASE Ending(t, s, view, end)
    BY <1>1, <2>3, EndingStep
  <2>4. CASE ~Ending(t, s, view, end)
    <3>1. PICK first \in Firsts, second \in Seconds, line \in 1 .. CLEAR_END :
            \/ Starting(t, s, view, end, first, second, line)
            \/ \E n \in 0 .. BUTTON_LINES : Clearing(t, s, view, end, first, second, line, n)
      BY Zenon, <2>2, <2>4
    <3>2. CASE Starting(t, s, view, end, first, second, line)
      BY <1>1, <3>2, StartingStep
    <3>3. ASSUME NEW n \in 0 .. BUTTON_LINES, Clearing(t, s, view, end, first, second, line, n)
          PROVE  GoesOn(t, s)
      <4>1. CASE n > 0
        BY <1>1, <3>3, <4>1, ButtonsStep
      <4>2. CASE ~(n > 0)
        <5>1. n = 0 /\ (line < CLEAR_END \/ line = CLEAR_END)
          BY <4>2, PageRows
        <5>2. Clearing(t, s, view, end, first, second, line, 0)
          BY <3>3, <5>1
        <5>3. CASE line < CLEAR_END
          BY <1>1, <5>2, <5>3, LinesStep
        <5>4. CASE line = CLEAR_END
          <6>1. Clearing(t, s, view, end, first, second, CLEAR_END, 0)
            BY <5>2, <5>4
          <6> QED BY <1>1, <6>1, MessageStep
        <5> QED BY <5>1, <5>3, <5>4
      <4> QED BY <4>1, <4>2
    <3> QED BY Zenon, <3>1, <3>2, <3>3
  <2> QED BY <2>3, <2>4
<1> QED BY <1>2, <1>3

-----------------------------------------------------------------------------
(* Every step keeps the page                                               *)

(* A page that is complete may be left for any other.                      *)
LEMMA StageDone ==
  ASSUME ~Free, NEW t, Stage(t, <<>>)
  PROVE  \E view \in Views, second \in Seconds :
           /\ Frame(t, Text(view), second, BUTTON_LINES, view)
           /\ view = "menu" => second = "blank"
<1>1. ~Booting(t, <<>>)
  <2>1. \A s, c, r : Begins(s, c, r) => s # <<>>
    BY DEF Begins
  <2> QED BY Zenon, <2>1, BootBegins DEF Booting
<1>2. PICK view \in Views : \E end \in Endings(view) :
        \/ \E first \in Firsts, second \in Seconds, line \in 1 .. CLEAR_END :
             \/ Starting(t, <<>>, view, end, first, second, line)
             \/ \E n \in 0 .. BUTTON_LINES : Clearing(t, <<>>, view, end, first, second, line, n)
        \/ Ending(t, <<>>, view, end)
  BY Zenon, <1>1 DEF Stage
<1>3. PICK end \in Endings(view) :
        \/ \E first \in Firsts, second \in Seconds, line \in 1 .. CLEAR_END :
             \/ Starting(t, <<>>, view, end, first, second, line)
             \/ \E n \in 0 .. BUTTON_LINES : Clearing(t, <<>>, view, end, first, second, line, n)
        \/ Ending(t, <<>>, view, end)
  BY Zenon, <1>2
<1>4. ASSUME NEW line \in 1 .. CLEAR_END, NEW n \in 0 .. BUTTON_LINES
      PROVE  /\ Left(view, n, line, end) # <<>>
             /\ <<MoveTo(0, BUTTON_ROW)>> \o Left(view, n, line, end) # <<>>
  <2>1. n > 0 \/ (n = 0 /\ line < CLEAR_END) \/ (n = 0 /\ line = CLEAR_END)
    BY PageRows
  <2> QED BY <2>1, LeftIs DEF Begins
<1>5. BUTTON_LINES \in 0 .. BUTTON_LINES
  BY PageRows
<1>6. Ending(t, <<>>, view, end)
  <2>1. \A first, second : \A line \in 1 .. CLEAR_END :
          ~Starting(t, <<>>, view, end, first, second, line)
    BY <1>4, <1>5 DEF Starting
  <2>2. \A first, second : \A line \in 1 .. CLEAR_END, n \in 0 .. BUTTON_LINES :
          ~Clearing(t, <<>>, view, end, first, second, line, n)
    BY <1>4 DEF Clearing
  <2> QED BY Zenon, <1>3, <2>1, <2>2
<1>7. LastCalls(view, end) # <<>> /\ <<Show(Message("e"))>> # <<>>
  BY LastBegins DEF Begins
<1>8. \/ Frame(t, Text(view), "blank", BUTTON_LINES, view)
      \/ view = "demo" /\ Frame(t, "d", "e", BUTTON_LINES, view)
  BY Zenon, <1>6, <1>7 DEF Ending
<1>9. "blank" \in Seconds /\ "e" \in Seconds /\ Text("demo") = "d" /\ "demo" # "menu"
  BY DEF Seconds, Text
<1>10. CASE Frame(t, Text(view), "blank", BUTTON_LINES, view)
  BY Zenon, <1>9, <1>10
<1>11. CASE view = "demo" /\ Frame(t, "d", "e", BUTTON_LINES, view)
  <2>1. Frame(t, Text(view), "e", BUTTON_LINES, view) /\ view # "menu"
    BY <1>9, <1>11
  <2> QED BY Zenon, <1>9, <2>1
<1> QED BY <1>8, <1>10, <1>11

LEMMA NextPage ==
  ASSUME ~Free, NEW t, Is(t.rolls), Stage(t, <<>>)
  PROVE  Stage(t, Restore) /\ Stage(t, Demo) /\ Stage(t, Demo \o Done)
<1>1. PICK old \in Views, second \in Seconds :
        Frame(t, Text(old), second, BUTTON_LINES, old)
  BY StageDone
<1> DEFINE first == Text(old)
<1>2. first \in Firsts
  BY DEF Text, Firsts
<1> HIDE DEF first
<1>3. ASSUME NEW view
      PROVE  Frame(t, first, second, 0, view)
  <2> SUFFICES ASSUME NEW u \in Columns, NEW v \in Rows
               PROVE  LooksRight(t.cell[<<u, v>>].char, u, Look(v, first, second, 0, view))
    BY Zenon DEF Frame
  <2>1. LooksRight(t.cell[<<u, v>>].char, u, Look(v, first, second, BUTTON_LINES, old))
    BY Zenon, <1>1 DEF Frame, first
  <2>2. \/ Look(v, first, second, 0, view) = "any"
        \/ Look(v, first, second, 0, view) = Look(v, first, second, BUTTON_LINES, old)
    BY PageRows DEF Look, ButtonRows, Rows
  <2> QED BY Zenon, <2>1, <2>2, Looks
<1>4. 1 \in 1 .. CLEAR_END /\ ~(1 > 1) /\ ~(1 > 2)
  BY PageRows
<1>5. ASSUME NEW view \in Views, NEW end \in Endings(view), NEW s,
             s = <<MoveTo(0, BUTTON_ROW)>> \o Left(view, BUTTON_LINES, 1, end)
      PROVE  Stage(t, s)
  <2>1. Starting(t, s, view, end, first, second, 1)
    BY Zenon, <1>3, <1>4, <1>5 DEF Starting
  <2> QED BY Zenon, <1>2, <1>4, <2>1 DEF Stage
<1>6. /\ "menu" \in Views /\ "demo" \in Views /\ <<>> \in Endings("menu")
      /\ <<>> \in Endings("demo") /\ Done \in Endings("demo")
  BY DEF Views, Endings
<1>7. /\ Restore = <<MoveTo(0, BUTTON_ROW)>> \o Left("menu", BUTTON_LINES, 1, <<>>)
      /\ Demo = <<MoveTo(0, BUTTON_ROW)>> \o Left("demo", BUTTON_LINES, 1, <<>>)
      /\ Demo \o Done = <<MoveTo(0, BUTTON_ROW)>> \o Left("demo", BUTTON_LINES, 1, Done)
  BY PagesAre
<1> QED BY Zenon, <1>5, <1>6, <1>7

LEMMA ResetPages == AfterReset => PageInv
<1> SUFFICES ASSUME AfterReset, ~Free
             PROVE  \E g \in Terminals : Ends(term, todo, g) /\ Stage(g, script)
  BY DEF PageInv
<1>1. term = Start /\ todo = <<>> /\ script = Boot \o Menu
  BY DEF AfterReset
<1>2. Start \in Terminals
  <2>1. Blank(0) \in Cells
    BY CellTypes DEF Colored
  <2>2. [p \in Columns \X Rows |-> Blank(0)] \in [Places -> Cells]
    BY <2>1 DEF Places
  <2> QED BY <2>2, Sizes DEF Start, Terminals
<1>3. Is(Start.rolls)
  BY DEF Start, Is
<1>4. Ends(Start, <<>>, Start)
  BY DEF Ends, Straight
<1>5. Stage(Start, Boot \o Menu)
  BY Zenon, <1>3 DEF Stage, Booting
<1> QED BY <1>1, <1>2, <1>4, <1>5

LEMMA PageInit == Init => PageInv
<1>1. Init => AfterReset
  BY CellTypes DEF Init, AfterReset, Places, state
<1> QED BY <1>1, ResetPages

LEMMA WritePage ==
  ASSUME TerminalInv, PageInv, Write, ~Free
  PROVE  \E g \in Terminals : Ends(term', todo', g) /\ Stage(g, script')
<1>1. /\ state = "IDLE" /\ todo # <<>>
      /\ term' = Apply(term, Head(todo)) /\ todo' = Tail(todo) /\ script' = script
  BY DEF TerminalInv, ProgramTypes, Write
<1>2. term \in Terminals
  <2>1. term = Now /\ x_cursor \in Columns /\ y_cursor \in Rows /\ sig_scroll_offset \in Rows
        /\ ram \in [Places -> Cells]
    BY <1>1 DEF TerminalInv, Finishes, FsmTypes
  <2>2. Screen \in [Places -> Cells]
    <3>1. \A p \in Places : ram[<<p[1], RamRow(p[2])>>] \in Cells
      BY <2>1, PlaceOf, RingRow
    <3>2. Screen = [p \in Places |-> ram[<<p[1], RamRow(p[2])>>]]
      BY DEF Screen, Places
    <3> QED BY <3>1, <3>2
  <2>3. Rolls \in BOOLEAN
    BY Zenon DEF Rolls
  <2> QED BY <2>1, <2>2, <2>3, TermIs DEF Now
<1>3. PICK g \in Terminals : Ends(term, todo, g) /\ Stage(g, script)
  BY DEF PageInv
<1>4. Ends(Apply(term, Head(todo)), Tail(todo), g)
  BY <1>1, <1>2, <1>3, EndsStep
<1> QED BY <1>1, <1>3, <1>4

(* Between two calls the terminal is as the calls so far leave it.         *)
LEMMA BetweenCalls ==
  ASSUME TerminalInv, PageInv, ~Free, pc = "call"
  PROVE  todo = <<>> /\ term \in Terminals /\ Stage(term, script)
<1>1. todo = <<>>
  BY DEF TerminalInv, ProgramTypes
<1>2. PICK g \in Terminals : Ends(term, todo, g) /\ Stage(g, script)
  BY DEF PageInv
<1>3. g = term
  BY <1>1, <1>2, EndsNone
<1> QED BY <1>1, <1>2, <1>3

LEMMA CallPage ==
  ASSUME TerminalInv, PageInv, Call, ~Free
  PROVE  \E g \in Terminals : Ends(term', todo', g) /\ Stage(g, script')
<1>1. /\ pc = "call" /\ script # <<>> /\ todo' = Commands(Head(script))
      /\ script' = Tail(script) /\ term' = term
  BY DEF Call
<1>2. color_config \in Colored
  BY DEF TerminalInv, ProgramTypes
<1>3. term \in Terminals /\ Stage(term, script)
  BY <1>1, BetweenCalls
<1>4. PICK g : Leaves(term, Head(script), g) /\ Stage(g, Tail(script))
  BY <1>1, <1>2, <1>3, StageStep DEF GoesOn
<1>5. g \in Terminals /\ Ends(term, Commands(Head(script)), g)
  BY <1>4 DEF Leaves
<1> QED BY <1>1, <1>4, <1>5

LEMMA ButtonPage ==
  ASSUME TerminalInv, PageInv, Button
  PROVE  \E g \in Terminals : Ends(term', todo', g) /\ Stage(g, script')
<1>1. /\ ~Free /\ pc = "call" /\ script = <<>> /\ term' = term /\ todo' = todo
      /\ script' \in {Restore, Demo \o Done, Demo}
  BY DEF Button, Waits
<1>2. term \in Terminals /\ Stage(term, script) /\ todo = <<>>
  BY <1>1, BetweenCalls
<1>3. Is(term.rolls)
  BY Zenon, <1>2 DEF Stage
<1>4. Stage(term, script')
  <2>1. Stage(term, Restore) /\ Stage(term, Demo) /\ Stage(term, Demo \o Done)
    BY <1>1, <1>2, <1>3, NextPage
  <2>2. script' = Restore \/ script' = Demo \/ script' = Demo \o Done
    BY Zenon, <1>1
  <2> QED BY <2>1, <2>2
<1>5. Ends(term, todo, term)
  BY <1>2 DEF Ends, Straight
<1> QED BY <1>1, <1>2, <1>4, <1>5

LEMMA PageStep == TerminalInv /\ PageInv /\ [Next]_vars => PageInv'
<1> SUFFICES ASSUME TerminalInv, PageInv, [Next]_vars PROVE PageInv'
  OBVIOUS
<1>1. PageInv' <=> (~Free => \E g \in Terminals : Ends(term', todo', g) /\ Stage(g, script'))
  BY Zenon DEF PageInv
<1>2. ASSUME UNCHANGED <<term, todo, script>> PROVE PageInv'
  <2>1. ~Free => \E g \in Terminals : Ends(term, todo, g) /\ Stage(g, script)
    BY DEF PageInv
  <2> QED BY <1>1, <1>2, <2>1
<1>3. CASE Poll
  BY <1>2, <1>3 DEF Poll
<1>4. CASE Write
  BY <1>1, <1>4, WritePage
<1>5. CASE Pause
  BY <1>2, <1>5 DEF Pause, program
<1>6. CASE Call
  BY <1>1, <1>6, CallPage
<1>7. CASE Button
  BY <1>1, <1>7, ButtonPage
<1>8. CASE FreeCall
  BY <1>8 DEF FreeCall, PageInv
<1>9. CASE Key0
  <2>1. AfterReset'
    BY <1>9 DEF TerminalInv, FsmTypes, Key0, Reset, AfterReset, state, Places, Cells, Columns,
               Rows, ResetConfig, Blank, Cell, Start, Boot, Menu
  <2>2. (AfterReset => PageInv)'
    BY ResetPages, PTL
  <2> QED BY <2>1, <2>2
<1>10. CASE UNCHANGED vars
  BY <1>2, <1>10 DEF vars, program
<1> QED BY <1>3, <1>4, <1>5, <1>6, <1>7, <1>8, <1>9, <1>10 DEF Next

LEMMA PageAlways == Spec => [](TerminalInv /\ PageInv)
<1>1. Init => TerminalInv /\ PageInv
  BY InitHolds, PageInit
<1>2. (TerminalInv /\ PageInv) /\ [Next]_vars => (TerminalInv /\ PageInv)'
  BY TerminalStep, PageStep
<1> QED BY <1>1, <1>2, PTL DEF Spec

Seen(char) == IF char \in Blanks THEN "blank" ELSE char

LEMMA SeenIs ==
  /\ \A char, x : \A m \in Texts :
       LooksRight(char, x, m) => Seen(char) = IF x < COLUMN_COUNT - 2 THEN m ELSE "blank"
  /\ \A char, x : LooksRight(char, x, "blank") => Seen(char) = "blank"
  /\ \A char, x : \A view \in Views :
       LooksRight(char, x, view) => Seen(char) = view /\ char = view
<1>1. ASSUME NEW char, NEW x, NEW m \in Texts, LooksRight(char, x, m)
      PROVE  Seen(char) = IF x < COLUMN_COUNT - 2 THEN m ELSE "blank"
  <2>1. m # "any" /\ m \notin {"menu", "demo"} /\ m # "blank" /\ m \notin Blanks
    BY Zenon DEF Texts, Blanks, Nul
  <2>2. IF x < COLUMN_COUNT - 2 THEN char = m ELSE char \in Blanks
    BY Zenon, <1>1, <2>1 DEF LooksRight
  <2> QED BY Zenon, <2>1, <2>2 DEF Seen
<1>2. ASSUME NEW char, NEW x, LooksRight(char, x, "blank") PROVE Seen(char) = "blank"
  BY Zenon, <1>2 DEF LooksRight, Seen
<1>3. ASSUME NEW char, NEW x, NEW view \in Views, LooksRight(char, x, view)
      PROVE  Seen(char) = view /\ char = view
  <2>1. view # "any" /\ view \in {"menu", "demo"} /\ view \notin Blanks
    BY Zenon DEF Views, Blanks, Nul
  <2>2. char = view
    BY Zenon, <1>3, <2>1 DEF LooksRight
  <2> QED BY Zenon, <2>1, <2>2 DEF Seen
<1> QED BY Zenon, <1>1, <1>2, <1>3

(* What is seen of a page that is complete.                                *)
LEMMA CompleteIs ==
  ASSUME TerminalInv, PageInv, ~Free, Waits, ~busy, NEW x \in Columns, NEW y \in Rows
  PROVE  Shown(x, y) \in
           LET text == x < COLUMN_COUNT - 2
               buttons == y \in BUTTON_ROW .. BUTTON_ROW + BUTTON_LINES - 1
               view == IF AtMenu THEN "menu" ELSE "demo"
           IN IF y = 0 THEN {IF text THEN "T" ELSE "blank"}
              ELSE IF buttons THEN {view}
              ELSE IF y = 1 /\ text THEN {IF AtMenu THEN "r" ELSE "d"}
              ELSE IF y = 2 /\ text /\ ~AtMenu THEN {"blank", "e"}
              ELSE {"blank"}
<1> DEFINE text == x < COLUMN_COUNT - 2
           char == term.cell[<<x, y>>].char
<1>1. pc = "call" /\ script = <<>> /\ state = "IDLE"
  BY DEF Waits, busy
<1>2. Screen = term.cell
  <2>1. term = Now
    BY <1>1 DEF TerminalInv, Finishes
  <2> QED BY <2>1, FieldsOf DEF Now
<1>3. Stage(term, <<>>)
  BY <1>1, BetweenCalls
<1>4. PICK view \in Views, second \in Seconds :
        /\ Frame(term, Text(view), second, BUTTON_LINES, view)
        /\ view = "menu" => second = "blank"
  BY <1>3, StageDone
<1>5. LooksRight(char, x, Look(y, Text(view), second, BUTTON_LINES, view))
  BY Zenon, <1>4 DEF Frame
<1>6. AtMenu <=> view = "menu"
  <2>1. 0 \in Columns /\ BUTTON_ROW \in Rows
    BY PageRows, Sizes DEF Rows
  <2>2. Look(BUTTON_ROW, Text(view), second, BUTTON_LINES, view) = view
    BY PageRows DEF Look, ButtonRows
  <2>3. LooksRight(term.cell[<<0, BUTTON_ROW>>].char, 0, view)
    BY Zenon, <1>4, <2>1, <2>2 DEF Frame
  <2>4. term.cell[<<0, BUTTON_ROW>>].char = view
    BY Zenon, <2>3, SeenIs
  <2> QED BY <2>4 DEF AtMenu
<1>7. view = IF AtMenu THEN "menu" ELSE "demo"
  BY <1>6 DEF Views
<1>8. Shown(x, y) = Seen(char)
  BY Zenon, <1>2 DEF Shown, Seen, Blanks
<1> HIDE DEF char, text
<1>9. CASE y = 0
  <2>1. "T" \in Texts /\ Look(y, Text(view), second, BUTTON_LINES, view) = "T"
    BY <1>9 DEF Texts, Look
  <2>2. Seen(char) = IF text THEN "T" ELSE "blank"
    BY Zenon, <1>5, <2>1, SeenIs DEF text
  <2> QED BY <1>8, <1>9, <2>2 DEF text
<1>10. CASE y # 0 /\ y \in ButtonRows
  <2>1. Look(y, Text(view), second, BUTTON_LINES, view) = view
    BY <1>10, PageRows DEF Look, ButtonRows, Rows
  <2>2. Seen(char) = view
    BY Zenon, <1>5, <2>1, SeenIs
  <2> QED BY <1>7, <1>8, <1>10, <2>2 DEF ButtonRows
<1>11. CASE y # 0 /\ y \notin ButtonRows /\ y = 1
  <2>1. /\ Text(view) \in Texts /\ Text(view) = IF AtMenu THEN "r" ELSE "d"
    BY <1>6 DEF Text, Texts
  <2>2. Look(y, Text(view), second, BUTTON_LINES, view) = Text(view)
    BY <1>11 DEF Look
  <2>3. Seen(char) = IF text THEN Text(view) ELSE "blank"
    BY Zenon, <1>5, <2>1, <2>2, SeenIs DEF text
  <2> QED BY <1>8, <1>11, <2>1, <2>3 DEF ButtonRows, text
<1>12. CASE y # 0 /\ y \notin ButtonRows /\ y = 2
  <2>1. Look(y, Text(view), second, BUTTON_LINES, view) = second
    BY <1>12 DEF Look
  <2>2. second = "blank" \/ second = "e"
    BY DEF Seconds
  <2>3. "e" \in Texts
    BY DEF Texts
  <2>4. ASSUME second = "blank" PROVE Seen(char) = "blank"
    <3>1. LooksRight(char, x, "blank")
      BY <1>5, <2>1, <2>4
    <3> QED BY Zenon, <3>1, SeenIs
  <2>5. second = "e" => Seen(char) = IF text THEN "e" ELSE "blank"
    BY Zenon, <1>5, <2>1, <2>3, SeenIs DEF text
  <2> QED BY <1>4, <1>6, <1>8, <1>12, <2>2, <2>4, <2>5 DEF ButtonRows, text
<1>13. CASE y # 0 /\ y \notin ButtonRows /\ y # 1 /\ y # 2
  <2>1. Look(y, Text(view), second, BUTTON_LINES, view) = "blank"
    BY <1>13 DEF Look
  <2>2. Seen(char) = "blank"
    BY Zenon, <1>5, <2>1, SeenIs
  <2> QED BY <1>8, <1>13, <2>2 DEF ButtonRows
<1> QED BY <1>9, <1>10, <1>11, <1>12, <1>13

(* When the program of main.c waits for a touch, and the controller has    *)
(* done all its commands, the page on the screen is complete: the title,   *)
(* the buttons and the messages of this page, and nothing of another, for  *)
(* a screen of any size, whatever pages came before and wherever a reset   *)
(* cut them short.                                                         *)
THEOREM PagesComplete == Spec => []PageComplete
<1>1. TerminalInv /\ PageInv => PageComplete
  <2> SUFFICES ASSUME TerminalInv, PageInv, ~Free, Waits, ~busy
               PROVE  \A x \in Columns, y \in Rows :
                        Shown(x, y) \in
                          LET text == x < COLUMN_COUNT - 2
                              buttons == y \in BUTTON_ROW .. BUTTON_ROW + BUTTON_LINES - 1
                              view == IF AtMenu THEN "menu" ELSE "demo"
                          IN IF y = 0 THEN {IF text THEN "T" ELSE "blank"}
                             ELSE IF buttons THEN {view}
                             ELSE IF y = 1 /\ text THEN {IF AtMenu THEN "r" ELSE "d"}
                             ELSE IF y = 2 /\ text /\ ~AtMenu THEN {"blank", "e"}
                             ELSE {"blank"}
    BY DEF PageComplete
  <2> QED BY CompleteIs
<1> QED BY <1>1, PageAlways, PTL
=============================================================================
