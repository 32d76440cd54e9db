------------------------------ MODULE TextMode ------------------------------
(***************************************************************************)
(* The text display: the command state machine of the textmode controller  *)
(* (textmode_controller_fsm.vhd) with its video RAM, clock cycle by clock  *)
(* cycle, behind its bus register, and the program that drives it:         *)
(* display.c and the pages that main.c builds with it.                     *)
(*                                                                         *)
(* The video RAM is a ring of rows: scrolling moves the row that is shown  *)
(* first.  term is an auxiliary variable, the terminal as the commands     *)
(* that the program has written so far should have left it.                *)
(***************************************************************************)
EXTENDS Terminal, Sequences

CONSTANTS
  Free,            \* the program makes any display calls, not those of main.c
  Colors,          \* values of color_config that Free programs use
  Configs,         \* data of the CFG commands that Free programs write
  CLEAR_END,       \* rows 1 .. CLEAR_END - 1 hold messages (5)
  BUTTON_ROW,      \* first row of the buttons (23)
  BUTTON_LINES     \* rows of the buttons (5)

ASSUME TextModeAssumption ==
  /\ Free \in BOOLEAN
  /\ {CLEAR_END, BUTTON_ROW, BUTTON_LINES} \subseteq Nat
  /\ 2 < CLEAR_END /\ CLEAR_END <= BUTTON_ROW
  /\ ~Free => 0 < BUTTON_LINES /\ BUTTON_ROW + BUTTON_LINES < ROW_COUNT

VARIABLES
  textmode_controller_state,
  x_cursor, y_cursor, sig_scroll_offset,
  cfg_register,              \* cursor_mode, auto_scroll, auto_inc_cursor
  instr_data_buffer,
  ram,
  pc, todo, script, color_config,
  term                       \* auxiliary, see above

state == textmode_controller_state
fsm == <<textmode_controller_state, x_cursor, y_cursor, sig_scroll_offset,
         cfg_register, instr_data_buffer, ram>>
program == <<pc, todo, script, color_config, term>>
vars == <<fsm, program>>

-----------------------------------------------------------------------------
(* Commands.  MainConfig is 0x00033300: both flags are zero.               *)

Command(op, data) == [op |-> op, data |-> data]
MainConfig == [cursor |-> 3, auto_scroll |-> 0, auto_inc |-> 0]
ResetConfig == [cursor |-> 3, auto_scroll |-> 0, auto_inc |-> 0]

(* display.c: a call is a sequence of commands.                            *)

display_init(config) == <<Command("CFG", config)>>

display_move_cursor(x, y) == <<Command("SET_CURSOR_POSITION", [x |-> x, y |-> y])>>

display_clear ==
  display_move_cursor(0, 0) \o <<Command("CLEAR_SCREEN", Blank(color_config))>>

display_print(txt) ==
  [k \in DOMAIN txt |->
     IF txt[k] = LineFeed THEN Command("NEW_LINE", Blank(color_config))
     ELSE Command("SET_CHAR", Cell(color_config, txt[k]))]

Repeat(c, n) == [k \in 1 .. n |-> c]

display_clear_line(line) ==
  display_move_cursor(0, line) \o display_print(Repeat(" ", COLUMN_COUNT - 1))

(* main.c: a page is a sequence of calls; letters stand for texts.  The    *)
(* messages are shorter than a row, a line of the buttons is a full row.   *)

Show(txt) == [fn |-> "print", txt |-> txt]
MoveTo(x, y) == [fn |-> "move", x |-> x, y |-> y]
display_clear_lines_short(start, end) ==                     \* mutant
  [k \in 1 .. end - 1 - start |-> [fn |-> "clear_line", line |-> start + k - 1]]

display_clear_lines(start, end) ==
  [k \in 1 .. end - start |-> [fn |-> "clear_line", line |-> start + k - 1]]

Message(m) == Repeat(m, COLUMN_COUNT - 2)

print_ui(view) ==
  <<MoveTo(0, BUTTON_ROW)>> \o Repeat(Show(Repeat(view, COLUMN_COUNT)), BUTTON_LINES)

NewMessage(m) ==
  display_clear_lines(1, CLEAR_END) \o <<MoveTo(0, 1), Show(Message(m))>>

Boot ==
  <<[fn |-> "init"], [fn |-> "set_colors"], [fn |-> "clear"],
    Show(Message("T") \o <<LineFeed>>)>>

Menu == print_ui("menu") \o <<MoveTo(0, 1), Show(Message("r"))>>
Restore == print_ui("menu") \o NewMessage("r")
Demo == print_ui("demo") \o NewMessage("d")
Done == <<Show(<<LineFeed>>), Show(Message("e"))>>

Commands(call) ==
  CASE call.fn = "init" -> display_init(MainConfig)
    [] call.fn = "set_colors" -> <<>>
    [] call.fn = "clear" -> display_clear
    [] call.fn = "print" -> display_print(call.txt)
    [] call.fn = "move" -> display_move_cursor(call.x, call.y)
    [] call.fn = "clear_line" -> display_clear_line(call.line)

-----------------------------------------------------------------------------
Junk == Cell(0, "?")

Reset ==
  /\ textmode_controller_state' = "CLEAR_SCREEN"
  /\ x_cursor' = 0 /\ y_cursor' = 0 /\ sig_scroll_offset' = 0
  /\ cfg_register' = ResetConfig
  /\ instr_data_buffer' = Blank(0)
  /\ UNCHANGED ram

Start == [cell |-> [p \in Columns \X Rows |-> Blank(0)], x |-> 0, y |-> 0, rolls |-> TRUE]

Init ==
  /\ textmode_controller_state = "CLEAR_SCREEN"
  /\ x_cursor = 0 /\ y_cursor = 0 /\ sig_scroll_offset = 0
  /\ cfg_register = ResetConfig
  /\ instr_data_buffer = Blank(0)
  /\ ram = [p \in Columns \X Rows |-> Junk]
  /\ pc = "call" /\ todo = <<>> /\ color_config = 3
  /\ script = IF Free THEN <<>> ELSE Boot \o Menu
  /\ term = Start

-----------------------------------------------------------------------------
(* The state machine.  A command is accepted in the state IDLE; busy says  *)
(* whether it is in another.                                               *)

busy == state # "IDLE"

(* The row of the RAM that holds row y of the screen.                      *)
RamRow(y) ==
  IF y + sig_scroll_offset > ROW_COUNT - 1
  THEN y + sig_scroll_offset - ROW_COUNT ELSE y + sig_scroll_offset

WriteRamFlat(c) == ram' = [ram EXCEPT ![<<x_cursor, y_cursor>>] = c]    \* mutant
WriteRam(c) == ram' = [ram EXCEPT ![<<x_cursor, RamRow(y_cursor)>>] = c]

Goto(s) == textmode_controller_state' = s
Cursor(x, y) == x_cursor' = x /\ y_cursor' = y

StateOf(c) ==
  CASE c.op = "SET_CHAR" /\ c.data.char = LineFeed -> "NEW_LINE"
    [] c.op = "SET_CHAR" /\ c.data.char = Backspace -> "DELETE"
    [] c.op = "CFG" -> "SET_CFG"
    [] OTHER -> c.op

Idle(wr) ==
  /\ state = "IDLE"
  /\ IF wr THEN Goto(StateOf(Head(todo))) /\ instr_data_buffer' = Head(todo).data
           ELSE UNCHANGED <<textmode_controller_state, instr_data_buffer>>
  /\ UNCHANGED <<x_cursor, y_cursor, sig_scroll_offset, cfg_register, ram>>

NextColumn == IF x_cursor = COLUMN_COUNT - 1 THEN 0 ELSE x_cursor + 1

ClearScreen ==
  /\ state = "CLEAR_SCREEN"
  /\ WriteRam(instr_data_buffer)
  /\ sig_scroll_offset' = 0
  /\ Cursor(NextColumn,
            IF x_cursor # COLUMN_COUNT - 1 THEN y_cursor
            ELSE IF y_cursor = ROW_COUNT - 1 THEN 0 ELSE y_cursor + 1)
  /\ Goto(IF x_cursor = COLUMN_COUNT - 1 /\ y_cursor = ROW_COUNT - 1
          THEN "IDLE" ELSE state)
  /\ UNCHANGED <<cfg_register, instr_data_buffer>>

SetChar ==
  /\ state = "SET_CHAR"
  /\ WriteRam(instr_data_buffer)
  /\ Goto(IF cfg_register.auto_inc = 0 THEN "MOVE_CURSOR_NEXT" ELSE state)
  /\ UNCHANGED <<x_cursor, y_cursor, sig_scroll_offset, cfg_register, instr_data_buffer>>

MoveCursorNext ==
  /\ state = "MOVE_CURSOR_NEXT"
  /\ Cursor(NextColumn, y_cursor)
  /\ Goto(IF x_cursor = COLUMN_COUNT - 1 THEN "NEW_LINE" ELSE "IDLE")
  /\ UNCHANGED <<sig_scroll_offset, cfg_register, instr_data_buffer, ram>>

DeleteBack ==
  /\ state = "DELETE" /\ Goto("DELETE_NEXT")
  /\ IF x_cursor > 0 THEN Cursor(x_cursor - 1, y_cursor)
     ELSE IF y_cursor > 0 THEN Cursor(COLUMN_COUNT - 1, y_cursor - 1)
     ELSE UNCHANGED <<x_cursor, y_cursor>>
  /\ UNCHANGED <<sig_scroll_offset, cfg_register, instr_data_buffer, ram>>

DeleteNext ==
  /\ state = "DELETE_NEXT" /\ Goto("IDLE")
  /\ WriteRam(Blank(instr_data_buffer.color))
  /\ UNCHANGED <<x_cursor, y_cursor, sig_scroll_offset, cfg_register, instr_data_buffer>>

SetCursorPosition ==
  /\ state = "SET_CURSOR_POSITION" /\ Goto("IDLE")
  /\ Cursor(instr_data_buffer.x, instr_data_buffer.y)
  /\ UNCHANGED <<sig_scroll_offset, cfg_register, instr_data_buffer, ram>>

NewLineNoRing ==                                             \* mutant
  /\ state = "NEW_LINE"
  /\ x_cursor' = 0
  /\ y_cursor' = IF y_cursor < ROW_COUNT - 1 THEN y_cursor + 1
                 ELSE IF cfg_register.auto_scroll = 0 THEN y_cursor ELSE 0
  /\ sig_scroll_offset' =
       IF cfg_register.auto_scroll = 0 /\ y_cursor = ROW_COUNT - 1
       THEN sig_scroll_offset + 1 ELSE sig_scroll_offset
  /\ Goto(IF cfg_register.auto_scroll = 0 THEN "CLEAR_LINE" ELSE "IDLE")
  /\ UNCHANGED <<cfg_register, instr_data_buffer, ram>>

NewLineState ==
  /\ state = "NEW_LINE"
  /\ x_cursor' = 0
  /\ y_cursor' = IF y_cursor < ROW_COUNT - 1 THEN y_cursor + 1
                 ELSE IF cfg_register.auto_scroll = 0 THEN y_cursor ELSE 0
  /\ sig_scroll_offset' =
       IF cfg_register.auto_scroll = 0 /\ y_cursor = ROW_COUNT - 1
       THEN (IF sig_scroll_offset = ROW_COUNT - 1 THEN 0 ELSE sig_scroll_offset + 1)
       ELSE sig_scroll_offset
  /\ Goto(IF cfg_register.auto_scroll = 0 THEN "CLEAR_LINE" ELSE "IDLE")
  /\ UNCHANGED <<cfg_register, instr_data_buffer, ram>>

ClearLineForgetsEnd ==                                       \* mutant
  /\ state = "CLEAR_LINE"
  /\ WriteRam(Blank(instr_data_buffer.color))
  /\ Cursor(NextColumn, y_cursor)
  /\ UNCHANGED <<textmode_controller_state, sig_scroll_offset, cfg_register, instr_data_buffer>>

ClearLine ==
  /\ state = "CLEAR_LINE"
  /\ WriteRam(Blank(instr_data_buffer.color))
  /\ Cursor(NextColumn, y_cursor)
  /\ Goto(IF x_cursor = COLUMN_COUNT - 1 THEN "IDLE" ELSE state)
  /\ UNCHANGED <<sig_scroll_offset, cfg_register, instr_data_buffer>>

SetCfg ==
  /\ state = "SET_CFG" /\ Goto("IDLE")
  /\ cfg_register' = instr_data_buffer
  /\ UNCHANGED <<x_cursor, y_cursor, sig_scroll_offset, instr_data_buffer, ram>>

Nop ==
  /\ state = "NOP" /\ Goto("IDLE")
  /\ UNCHANGED <<x_cursor, y_cursor, sig_scroll_offset, cfg_register, instr_data_buffer, ram>>

Clock(wr) ==
  \/ Idle(wr) \/ ClearScreen \/ SetChar \/ MoveCursorNext \/ DeleteBack \/ DeleteNext
  \/ SetCursorPosition \/ NewLineState \/ ClearLine \/ SetCfg \/ Nop

-----------------------------------------------------------------------------
(* The program.  Each command is written after a poll that found the       *)
(* controller not busy.                                                    *)

Poll ==
  /\ pc = "poll"
  /\ pc' = IF busy THEN "poll" ELSE "write"
  /\ Clock(FALSE)
  /\ UNCHANGED <<todo, script, color_config, term>>

Write ==
  /\ pc = "write"
  /\ Clock(TRUE)
  /\ term' = Apply(term, Head(todo))
  /\ todo' = Tail(todo)
  /\ pc' = IF Tail(todo) = <<>> THEN "call" ELSE "poll"
  /\ UNCHANGED <<script, color_config>>

(* Cycles of the clock in which the program does something else.           *)
Pause == Clock(FALSE) /\ UNCHANGED program

(* The program goes on to its next display call.                           *)
Call ==
  /\ pc = "call" /\ script # <<>>
  /\ todo' = Commands(Head(script))
  /\ pc' = IF todo' = <<>> THEN "call" ELSE "poll"
  /\ script' = Tail(script)
  /\ color_config' = IF Head(script).fn = "set_colors" THEN 10 ELSE color_config
  /\ UNCHANGED <<fsm, term>>

(* main: a button was touched.  A page is left for the menu when it is     *)
(* through, at a touch on back, and record without its last message.       *)
AtMenu == term.cell[<<0, BUTTON_ROW>>].char = "menu"
Waits == pc = "call" /\ script = <<>>

Button ==
  /\ ~Free /\ Waits
  /\ IF AtMenu THEN script' \in {Restore, Demo \o Done, Demo}
               ELSE script' = Restore
  /\ UNCHANGED <<fsm, pc, todo, color_config, term>>

FreeCommands ==
  {Command(op, Blank(color_config)) :
     op \in {"NOP", "NEW_LINE", "DELETE", "MOVE_CURSOR_NEXT"}}
  \cup {Command("SET_CHAR", Cell(color_config, ch)) : ch \in {"a", LineFeed, Backspace}}
  \cup {Command("SET_CURSOR_POSITION", p) : p \in [x : Columns, y : Rows]}

(* The screen is cleared only as long as it has not scrolled, and no       *)
(* command is under way that may scroll it, as in main.c: the first write  *)
(* of ClearScreen would still use the old offset.                          *)
MayScroll == state \in {"SET_CHAR", "MOVE_CURSOR_NEXT", "NEW_LINE"}

FreeCall ==
  /\ Free /\ Waits
  /\ \/ \E c \in FreeCommands : todo' = <<c>> /\ UNCHANGED color_config
     \/ \E config \in Configs : todo' = display_init(config) /\ UNCHANGED color_config
     \/ /\ sig_scroll_offset = 0 /\ ~MayScroll
        /\ todo' = display_clear /\ UNCHANGED color_config
     \/ color_config' \in Colors /\ UNCHANGED todo
  /\ pc' = IF todo' = <<>> THEN "call" ELSE "poll"
  /\ UNCHANGED <<fsm, script, term>>

(* KEY(0) resets the controller and the processor, not the RAM.            *)
Key0 ==
  /\ Reset
  /\ pc' = "call" /\ todo' = <<>> /\ color_config' = 3
  /\ script' = IF Free THEN <<>> ELSE Boot \o Menu
  /\ term' = Start

Next == Poll \/ Write \/ Pause \/ Call \/ Button \/ FreeCall \/ Key0

Spec == Init /\ [][Next]_vars

(* The clock runs, and the program does not stop in a display call.        *)
FairSpec == Spec /\ WF_vars(Pause) /\ WF_vars(Poll \/ Write) /\ WF_vars(Call)

-----------------------------------------------------------------------------
(* Properties *)

TypeOK ==
  /\ state \in {"IDLE", "CLEAR_SCREEN", "SET_CHAR", "DELETE", "DELETE_NEXT",
                "SET_CURSOR_POSITION", "NEW_LINE", "CLEAR_LINE", "SET_CFG",
                "MOVE_CURSOR_NEXT", "NOP"}
  /\ x_cursor \in Columns /\ y_cursor \in Rows /\ sig_scroll_offset \in Rows
  /\ DOMAIN ram = Columns \X Rows
  /\ pc \in {"call", "poll", "write"}

(* What the controller shows: the rows in the order of the ring.           *)
Screen == [p \in Columns \X Rows |-> ram[<<p[1], RamRow(p[2])>>]]

(* Whenever the controller is not busy, the screen shows what the commands *)
(* written so far should show, and the cursor is where they have moved it. *)
(* No command is lost, done twice or done on the wrong row of the ring.    *)
ShowsTerminal ==
  ~busy => Screen = term.cell /\ <<x_cursor, y_cursor>> = <<term.x, term.y>>

(* The pages of main.c.  When a page is complete nothing of another page   *)
(* is left on it: the title stays, the rows of the messages hold those of  *)
(* this page only, and the buttons are those of this page.                 *)
Shown(x, y) == IF Screen[<<x, y>>].char \in {Nul, " "} THEN "blank" ELSE Screen[<<x, y>>].char

PageComplete ==
  (~Free /\ Waits /\ ~busy) =>
    \A x \in Columns, y \in Rows :
      LET text == x < COLUMN_COUNT - 2
          buttons == y \in BUTTON_ROW .. BUTTON_ROW + BUTTON_LINES - 1
          view == IF AtMenu THEN "menu" ELSE "demo"
      IN Shown(x, y) \in
           IF y = 0 THEN {IF text THEN "T" ELSE "blank"}
           ELSE IF buttons THEN {view}
           ELSE IF y = 1 /\ text THEN {IF AtMenu THEN "r" ELSE "d"}
           ELSE IF y = 2 /\ text /\ ~AtMenu THEN {"blank", "e"}
           ELSE {"blank"}

(* A display call returns.                                                 *)
CallsReturn == pc = "poll" ~> pc = "call"
=============================================================================
