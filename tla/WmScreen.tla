------------------------------ MODULE WmScreen ------------------------------
(***************************************************************************)
(* What the window manager shows (wm.c): windows with a buffer and a frame *)
(* each, drawn one over the other from window_tail->next to window_tail,   *)
(* which is on top, and cut off at the edges of the screen.  Wm has the    *)
(* messages and the focus; here each message is handled in one step, but   *)
(* for a string that is printed, one step per character.                   *)
(*                                                                         *)
(* wm_print gets a '\b' only in a string of its own, as from the shell.    *)
(***************************************************************************)
EXTENDS Integers, Sequences, SequencesExt

CONSTANTS
  ScreenWidth, ScreenHeight,     \* 80 and 25
  NewWindows,      \* the windows that programs make: x, y, width, height
  Terminals,       \* those among them that are only printed to and cleared
  Strings,         \* what is printed, sequences of characters
  Empty,           \* the character 0
  Reach            \* windows are moved by at most so many cells from 0

VARIABLES
  wnds,            \* the circular list from window_tail->next on
  screen_buffer,
  printing         \* the window that wm_print_impl prints to, and the rest
                   \* of the string

wmScreenVars == <<wnds, screen_buffer, printing>>

NL == "newline"
BS == "backspace"

ASSUME WmScreenAssumption ==
  /\ NewWindows \in Seq([x : Int, y : Int, width : Nat \ {0}, height : Nat \ {0}])
  /\ NewWindows # <<>> /\ 1 \in Terminals
  /\ \A str \in Strings :
       /\ Len(str) \in Nat \ {0} /\ str = [k \in 1 .. Len(str) |-> str[k]]
       /\ (\E k \in DOMAIN str : str[k] = BS) => Len(str) = 1
  /\ Empty # "cursor"

Cells == (0 .. ScreenWidth - 1) \X (0 .. ScreenHeight - 1)
BlankScreen == [c \in Cells |-> Empty]

Nothing == [id |-> 0, str |-> <<>>]

WmScreenInit == wnds = <<>> /\ screen_buffer = BlankScreen /\ printing = Nothing

-----------------------------------------------------------------------------
(* Drawing.  An image is a function from places, also beyond the screen,   *)
(* to characters; poke_screen_buffer keeps what is on the screen.          *)
poke_screen_buffer(s, image) ==
  [c \in Cells |-> IF c \in DOMAIN image THEN image[c] ELSE s[c]]

ColumnsOf(w) == w.x .. w.x + w.width - 1
LinesOf(w) == w.y .. w.y + w.height - 1
LeftOf(w) == w.x - 1
TopOf(w) == w.y - 1
RightOf(w) == w.x + w.width
BottomOf(w) == w.y + w.height

Frame(kind, is_top) == <<kind, is_top>>

(* Two images as one.  TLC's @@ is unknown to the prover.                  *)
Beside(f, g) ==
  [c \in DOMAIN f \cup DOMAIN g |-> IF c \in DOMAIN f THEN f[c] ELSE g[c]]

draw_window_frame(w, is_top) ==
  Beside(Beside(
    [c \in {LeftOf(w), RightOf(w)} \X {TopOf(w), BottomOf(w)} |-> Frame("corner", is_top)],
    [c \in ColumnsOf(w) \X {TopOf(w), BottomOf(w)} |-> Frame("horizontal", is_top)]),
    [c \in {LeftOf(w), RightOf(w)} \X LinesOf(w) |-> Frame("vertical", is_top)])

Offset(w, c) == (c[1] - w.x) + (c[2] - w.y) * w.width
CursorOffset(w) == w.cursor_x + w.cursor_y * w.width

draw_window_content(w) ==
  [c \in ColumnsOf(w) \X LinesOf(w) |->
     IF Offset(w, c) = CursorOffset(w) /\ w.cursor_char # Empty THEN w.cursor_char
     ELSE w.buffer[Offset(w, c)]]

draw_window(w, is_top) == Beside(draw_window_frame(w, is_top), draw_window_content(w))

(* draw_window_content also empties the cell that is under the cursor. *)
Drawn(w) == IF w.cursor_char = Empty THEN w
            ELSE [w EXCEPT !.buffer[CursorOffset(w)] = Empty]

(* A bug: the drawing begins with window_tail, which is then below. *)
redraw_screen_from_tail(list) ==
  /\ wnds' = [i \in DOMAIN list |-> Drawn(list[i])]
  /\ screen_buffer' =
       FoldLeftDomain(LAMBDA s, i :
           poke_screen_buffer(s, draw_window(list[Len(list) + 1 - i], i = 1)),
         BlankScreen, list)

redraw_screen(list) ==
  /\ wnds' = [i \in DOMAIN list |-> Drawn(list[i])]
  /\ screen_buffer' =
       FoldLeftDomain(LAMBDA s, i :
           poke_screen_buffer(s, draw_window(list[i], i = Len(list))),
         BlankScreen, list)

-----------------------------------------------------------------------------
(* Printing *)

(* A bug: the last row keeps what was in it. *)
scroll_wm_keeping_last(w) ==
  [w EXCEPT !.buffer = [i \in DOMAIN @ |->
     IF i < w.width * (w.height - 1) THEN @[i + w.width] ELSE @[i]]]

scroll_wm(w) ==
  [w EXCEPT !.buffer = [i \in DOMAIN @ |->
     IF i < w.width * (w.height - 1) THEN @[i + w.width] ELSE Empty]]

MoveTo(w, x, y) == [w EXCEPT !.cursor_x = x, !.cursor_y = y]
PutChar(w, ch) == [w EXCEPT !.buffer[CursorOffset(w)] = ch]

newline(w) == MoveTo(w, 0, w.cursor_y + 1)

backspace(w) ==
  LET e == PutChar(w, Empty) IN
  IF w.cursor_x > 0 THEN MoveTo(e, w.cursor_x - 1, w.cursor_y)
  ELSE IF w.cursor_y = 0 THEN MoveTo(e, 0, 0)
  ELSE MoveTo(e, w.width - 1, w.cursor_y - 1)

ordinary(w, ch) ==
  LET p == PutChar(w, ch) IN
  IF w.cursor_x + 1 = w.width THEN MoveTo(p, 0, w.cursor_y + 1)
  ELSE MoveTo(p, w.cursor_x + 1, w.cursor_y)

wm_print_char(w, ch) ==
  LET p == IF ch = NL THEN newline(w)
           ELSE IF ch = BS THEN backspace(w) ELSE ordinary(w, ch)
  IN IF p.cursor_y = p.height THEN scroll_wm(MoveTo(p, p.cursor_x, p.cursor_y - 1)) ELSE p

-----------------------------------------------------------------------------
(* The messages *)

Idle == printing = Nothing

get_window_from_id(id) == CHOOSE i \in DOMAIN wnds : wnds[i].id = id

(* The n-th window, with an empty buffer. *)
new_window(n) ==
  LET w == NewWindows[n] IN
  [x |-> w.x, y |-> w.y, width |-> w.width, height |-> w.height,
   id |-> n, cursor_x |-> 0, cursor_y |-> 0, cursor_char |-> "cursor",
   buffer |-> [k \in 0 .. w.width * w.height - 1 |-> Empty]]

wm_create_impl_drawn ==
  /\ Idle /\ Len(wnds) < Len(NewWindows)
  /\ redraw_screen(Append(wnds, new_window(Len(wnds) + 1)))
  /\ UNCHANGED printing

wm_change_focus_drawn ==
  /\ Idle /\ wnds # <<>>
  /\ redraw_screen(Append(Tail(wnds), Head(wnds)))
  /\ UNCHANGED printing

(* WM_ACTION_CLEAR, WM_ACTION_SET_CURSOR, WM_ACTION_MOVE_.. *)
Control(i, w) == Idle /\ redraw_screen([wnds EXCEPT ![i] = w]) /\ UNCHANGED printing

clear(i) == Control(i, [MoveTo(wnds[i], 0, 0) EXCEPT
                          !.buffer = [k \in DOMAIN @ |-> Empty]])

(* Pong takes the cursor away, and prints again from the upper left. *)
set_cursor(i) ==
  /\ wnds[i].id \notin Terminals
  /\ Control(i, [MoveTo(wnds[i], 0, 0) EXCEPT !.cursor_char = Empty])

move(i, dx, dy) ==
  /\ wnds[i].x + dx \in -Reach .. Reach /\ wnds[i].y + dy \in -Reach .. Reach
  /\ Control(i, [wnds[i] EXCEPT !.x = @ + dx, !.y = @ + dy])

wm_print_impl ==
  \/ /\ Idle
     /\ \E i \in DOMAIN wnds, str \in Strings :
          printing' = [id |-> wnds[i].id, str |-> str]
     /\ UNCHANGED <<wnds, screen_buffer>>
  \/ LET i == get_window_from_id(printing.id)
         w == wm_print_char(wnds[i], Head(printing.str)) IN
     /\ ~Idle
     /\ \/ /\ Len(printing.str) > 1
           /\ wnds' = [wnds EXCEPT ![i] = w]
           /\ printing' = [printing EXCEPT !.str = Tail(@)]
           /\ UNCHANGED screen_buffer
        \/ /\ Len(printing.str) = 1
           /\ redraw_screen([wnds EXCEPT ![i] = w])
           /\ printing' = Nothing

WmScreenNext ==
  \/ wm_create_impl_drawn
  \/ wm_change_focus_drawn
  \/ wm_print_impl
  \/ \E i \in DOMAIN wnds :
       \/ clear(i)
       \/ set_cursor(i)
       \/ \E d \in {-1, 1} : move(i, d, 0) \/ move(i, 0, d)

WmScreenSpec == WmScreenInit /\ [][WmScreenNext]_wmScreenVars

-----------------------------------------------------------------------------
(* Properties *)

Covers(w, c) == c[1] \in LeftOf(w) .. RightOf(w) /\ c[2] \in TopOf(w) .. BottomOf(w)
Uppermost(c) == CHOOSE i \in DOMAIN wnds :
                  Covers(wnds[i], c)
                  /\ \A j \in i + 1 .. Len(wnds) : ~Covers(wnds[j], c)

(* What a place of the screen has to show of a window that covers it. *)
Shows(w, is_top, c) ==
  LET on_side == c[1] \in {LeftOf(w), RightOf(w)}
      on_edge == c[2] \in {TopOf(w), BottomOf(w)} IN
  CASE on_side /\ on_edge  -> Frame("corner", is_top)
    [] on_side /\ ~on_edge -> Frame("vertical", is_top)
    [] ~on_side /\ on_edge -> Frame("horizontal", is_top)
    [] OTHER -> IF <<w.x + w.cursor_x, w.y + w.cursor_y>> = c /\ w.cursor_char # Empty
                THEN w.cursor_char ELSE w.buffer[Offset(w, c)]

(* When no message is being handled the screen is up to date: each place   *)
(* shows the uppermost window that covers it, the one with the focus being *)
(* above all others, and is blank where there is none.                     *)
ScreenIsCurrent ==
  Idle => \A c \in Cells :
    screen_buffer[c] =
      IF \E i \in DOMAIN wnds : Covers(wnds[i], c)
      THEN Shows(wnds[Uppermost(c)], Uppermost(c) = Len(wnds), c)
      ELSE Empty

(* The buffer of the first window, a row of cells, is a page to those who  *)
(* print to it, whatever happens to the windows and to the focus.          *)
First == CHOOSE w \in {wnds[i] : i \in DOMAIN wnds} : w.id = 1
Made == \E i \in DOMAIN wnds : wnds[i].id = 1

FirstWindow == INSTANCE Terminal WITH
  Columns <- NewWindows[1].width, Rows <- NewWindows[1].height,
  Blank <- Empty,
  Glyphs <- (UNION {{str[k] : k \in DOMAIN str} : str \in Strings}) \ {NL, BS},
  column <- IF Made THEN First.cursor_x ELSE 0,
  row <- IF Made THEN First.cursor_y ELSE 0,
  page <- [r \in 0 .. NewWindows[1].height - 1 |->
            [c \in 0 .. NewWindows[1].width - 1 |->
              IF ~Made \/ <<c, r>> = <<First.cursor_x, First.cursor_y>> THEN Empty
              ELSE First.buffer[c + r * First.width]]]

WindowIsATerminal == FirstWindow!TerminalSpec

=============================================================================
