------------------------------- MODULE Console -------------------------------
(***************************************************************************)
(* Output to a window of the kernel (window.c): straight to the screen,    *)
(* where the window is a rectangle.  output_char and clear_window run with *)
(* interrupts disabled, so that each is one step.                          *)
(***************************************************************************)
EXTENDS Integers, Sequences

CONSTANTS
  SCREEN_WIDTH, SCREEN_HEIGHT,
  Wnd,             \* the window: x, y, width, height
  Glyphs, Blank    \* what is printed; a cell with ' ' or with 0

Cursor == "cursor"               \* the window's cursor_char

ASSUME ConsoleAssumption ==
  /\ SCREEN_WIDTH \in Nat /\ SCREEN_HEIGHT \in Nat
  /\ Wnd.x \in Nat /\ Wnd.x + Wnd.width <= SCREEN_WIDTH
  /\ Wnd.y \in Nat /\ Wnd.y + Wnd.height <= SCREEN_HEIGHT
  /\ Wnd.width \in Nat \ {0} /\ Wnd.height \in Nat \ {0}
  /\ Blank \notin Glyphs
  /\ Cursor \notin Glyphs \cup {Blank}     \* the window's text does not look like its cursor

VARIABLES screen, cursor_x, cursor_y

consoleVars == <<screen, cursor_x, cursor_y>>

Screen == (0 .. SCREEN_WIDTH - 1) \X (0 .. SCREEN_HEIGHT - 1)
Inside(c) == /\ c[1] \in Wnd.x .. Wnd.x + Wnd.width - 1
             /\ c[2] \in Wnd.y .. Wnd.y + Wnd.height - 1
Cell(x, y) == <<Wnd.x + x, Wnd.y + y>>

poke_screen(s, x, y, ch) == [s EXCEPT ![Cell(x, y)] = ch]

remove_cursor == poke_screen(screen, cursor_x, cursor_y, Blank)
show_cursor(s, x, y) == poke_screen(s, x, y, Cursor)

(* A bug: the last row is not emptied. *)
scroll_window_keeping_last(s) ==
  [c \in Screen |->
     IF ~Inside(c) \/ c[2] = Wnd.y + Wnd.height - 1 THEN s[c]
     ELSE s[<<c[1], c[2] + 1>>]]

scroll_window(s) ==
  [c \in Screen |->
     IF ~Inside(c) THEN s[c]
     ELSE IF c[2] = Wnd.y + Wnd.height - 1 THEN Blank
     ELSE s[<<c[1], c[2] + 1>>]]

clear_window ==
  /\ cursor_x' = 0 /\ cursor_y' = 0
  /\ screen' = show_cursor([c \in Screen |-> IF Inside(c) THEN Blank ELSE screen[c]], 0, 0)

(* The end of output_char, with the screen and the cursor as they are. *)
scroll_and_show(s, x, y) ==
  LET full == y = Wnd.height IN
  /\ cursor_x' = IF full THEN 0 ELSE x
  /\ cursor_y' = IF full THEN Wnd.height - 1 ELSE y
  /\ screen' = show_cursor(IF full THEN scroll_window(s) ELSE s, cursor_x', cursor_y')

(* output_char: '\n' and 13; '\b'; any other character. *)
output_newline == scroll_and_show(remove_cursor, 0, cursor_y + 1)

output_backspace ==
  IF cursor_x # 0 THEN scroll_and_show(remove_cursor, cursor_x - 1, cursor_y)
  ELSE IF cursor_y # 0 THEN scroll_and_show(remove_cursor, Wnd.width - 1, cursor_y - 1)
  ELSE scroll_and_show(remove_cursor, cursor_x, cursor_y)

output_glyph(ch) ==
  LET s == poke_screen(remove_cursor, cursor_x, cursor_y, ch) IN
  IF cursor_x + 1 = Wnd.width THEN scroll_and_show(s, 0, cursor_y + 1)
  ELSE scroll_and_show(s, cursor_x + 1, cursor_y)

(* The screen is blank when the window is cleared for the first time. *)
ConsoleInit ==
  /\ cursor_x = 0 /\ cursor_y = 0
  /\ screen = show_cursor([c \in Screen |-> Blank], 0, 0)

ConsoleNext == \/ \E ch \in Glyphs : output_glyph(ch)
               \/ output_newline
               \/ output_backspace
               \/ clear_window

ConsoleSpec == ConsoleInit /\ [][ConsoleNext]_consoleVars

-----------------------------------------------------------------------------
(* Properties *)

(* The cursor is shown where it is and nowhere else, and the screen beside *)
(* the window is left alone.                                               *)
OneCursorIsShown ==
  /\ \A c \in Screen : screen[c] = Cursor <=> c = Cell(cursor_x, cursor_y)
  /\ \A c \in Screen : ~Inside(c) => screen[c] = Blank

(* What a program sees of the window. *)
ConsoleTerminal == INSTANCE Terminal WITH
  Columns <- Wnd.width, Rows <- Wnd.height,
  column <- cursor_x, row <- cursor_y,
  page <- [r \in 0 .. Wnd.height - 1 |-> [c \in 0 .. Wnd.width - 1 |->
             IF c = cursor_x /\ r = cursor_y THEN Blank ELSE screen[Cell(c, r)]]]

(* The window behaves as a terminal does, across the ends of lines, the    *)
(* corners and scrolling, and shows one cursor.                            *)
ConsoleIsATerminal == ConsoleTerminal!TerminalSpec /\ []OneCursorIsShown

=============================================================================
