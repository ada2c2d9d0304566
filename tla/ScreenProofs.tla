---------------------------- MODULE ScreenProofs ----------------------------
(***************************************************************************)
(* What a program prints appears in its window as on a terminal: in the    *)
(* kernel's window (Console) and in the first one of the window manager    *)
(* (WmScreen), for windows of every size.                                  *)
(***************************************************************************)
EXTENDS Console, WmScreen, FiniteSetTheorems, TLAPS

-----------------------------------------------------------------------------
(* The kernel's window *)

CursorColumns == 0 .. Wnd.width - 1
CursorRows == 0 .. Wnd.height - 1

ConsoleInv ==
  /\ screen \in [Screen -> Glyphs \cup {Blank, Cursor}]
  /\ cursor_x \in CursorColumns /\ cursor_y \in CursorRows
  /\ OneCursorIsShown

(* The screen s without a cursor, as output_char has it in between. *)
Text(s) == /\ s \in [Screen -> Glyphs \cup {Blank}]
           /\ \A c \in Screen : ~Inside(c) => s[c] = Blank

(* The window in it. *)
PageOf(s) == [r \in CursorRows |-> [c \in CursorColumns |-> s[Cell(c, r)]]]

(* The page of ConsoleTerminal. *)
Page == [r \in 0 .. Wnd.height - 1 |-> [c \in 0 .. Wnd.width - 1 |->
          IF c = cursor_x /\ r = cursor_y THEN Blank ELSE screen[Cell(c, r)]]]

(* A place in the window is one cell of the screen, and no other place is. *)
LEMMA CellsAreInside ==
  ASSUME NEW x \in CursorColumns, NEW y \in CursorRows
  PROVE  /\ Cell(x, y) \in Screen /\ Inside(Cell(x, y))
         /\ \A a \in CursorColumns, b \in CursorRows :
              Cell(a, b) = Cell(x, y) <=> (a = x /\ b = y)
<1>1. /\ Wnd.x + x \in 0 .. SCREEN_WIDTH - 1 /\ Wnd.x + x \in Wnd.x .. Wnd.x + Wnd.width - 1
      /\ Wnd.y + y \in 0 .. SCREEN_HEIGHT - 1 /\ Wnd.y + y \in Wnd.y .. Wnd.y + Wnd.height - 1
  BY ConsoleAssumption DEF CursorColumns, CursorRows
<1>2. Cell(x, y) \in Screen /\ Inside(Cell(x, y))
  BY <1>1 DEF Cell, Screen, Inside
<1>3. ASSUME NEW a \in CursorColumns, NEW b \in CursorRows
      PROVE Cell(a, b) = Cell(x, y) <=> (a = x /\ b = y)
  <2>1. (Wnd.x + a = Wnd.x + x <=> a = x) /\ (Wnd.y + b = Wnd.y + y <=> b = y)
    BY ConsoleAssumption DEF CursorColumns, CursorRows
  <2> QED BY <2>1 DEF Cell
<1> QED BY <1>2, <1>3


(* A page with ch at one place, as a whole and place by place. *)
With(p, x, y, ch) == [p EXCEPT ![y][x] = ch]
PageWith(s, x, y, ch) ==
  [r \in CursorRows |-> [c \in CursorColumns |->
     IF c = x /\ r = y THEN ch ELSE s[Cell(c, r)]]]

LEMMA PlaceByPlace ==
  ASSUME NEW s, NEW x \in CursorColumns, NEW y \in CursorRows, NEW ch
  PROVE  With(PageOf(s), x, y, ch) = PageWith(s, x, y, ch)
<1>1. [PageOf(s) EXCEPT ![y][x] = ch] =
        [r \in CursorRows |-> IF r = y THEN [PageOf(s)[y] EXCEPT ![x] = ch] ELSE PageOf(s)[r]]
  BY DEF PageOf
<1>2. [PageOf(s)[y] EXCEPT ![x] = ch] =
        [c \in CursorColumns |-> IF c = x THEN ch ELSE s[Cell(c, y)]]
  BY DEF PageOf
<1>3. ASSUME NEW r \in CursorRows
      PROVE (IF r = y THEN [PageOf(s)[y] EXCEPT ![x] = ch] ELSE PageOf(s)[r]) =
              [c \in CursorColumns |-> IF c = x /\ r = y THEN ch ELSE s[Cell(c, r)]]
  <2>1. CASE r = y
    BY <1>2, <2>1
  <2>2. CASE r # y
    BY <2>2 DEF PageOf
  <2> QED BY <2>1, <2>2
<1> QED BY <1>1, <1>3 DEF With, PageWith

LEMMA PokedText ==
  ASSUME NEW s, Text(s), NEW x \in CursorColumns, NEW y \in CursorRows,
         NEW ch \in Glyphs \cup {Blank}
  PROVE  /\ Text(poke_screen(s, x, y, ch))
         /\ PageOf(poke_screen(s, x, y, ch)) = [PageOf(s) EXCEPT ![y][x] = ch]
<1> DEFINE t == poke_screen(s, x, y, ch)
<1>1. /\ t \in [Screen -> Glyphs \cup {Blank}]
      /\ \A c \in Screen : t[c] = IF c = Cell(x, y) THEN ch ELSE s[c]
  BY CellsAreInside DEF Text, poke_screen
<1> HIDE DEF t
<1>2. Text(t)
  BY <1>1, CellsAreInside DEF Text
<1>3. ASSUME NEW r \in CursorRows, NEW c \in CursorColumns
      PROVE t[Cell(c, r)] = IF c = x /\ r = y THEN ch ELSE s[Cell(c, r)]
  <2>1. Cell(c, r) \in Screen /\ (Cell(c, r) = Cell(x, y) <=> (c = x /\ r = y))
    BY CellsAreInside
  <2> QED BY <1>1, <2>1
<1>4. PageOf(t) = [PageOf(s) EXCEPT ![y][x] = ch]
  <2>1. PageOf(t) = PageWith(s, x, y, ch)
    BY <1>3 DEF PageOf, PageWith
  <2> QED BY <2>1, PlaceByPlace DEF With
<1> QED BY <1>2, <1>4 DEF t

(* A page that has moved up by a row. *)
Scrolled(p) == [k \in CursorRows |-> IF k = Wnd.height - 1 THEN [c \in CursorColumns |-> Blank]
                                     ELSE p[k + 1]]

LEMMA ScrolledText ==
  ASSUME NEW s, Text(s)
  PROVE  /\ Text(scroll_window(s))
         /\ PageOf(scroll_window(s)) = Scrolled(PageOf(s))
<1> DEFINE t == scroll_window(s)
<1>1. ASSUME NEW c \in Screen, Inside(c), c[2] # Wnd.y + Wnd.height - 1
      PROVE <<c[1], c[2] + 1>> \in Screen
  BY <1>1, ConsoleAssumption DEF Screen, Inside
<1>2. Text(t)
  BY <1>1 DEF Text, scroll_window
<1>3. ASSUME NEW r \in CursorRows, NEW c \in CursorColumns
      PROVE t[Cell(c, r)] = IF r = Wnd.height - 1 THEN Blank ELSE PageOf(s)[r + 1][c]
  <2>1. Cell(c, r) \in Screen /\ Inside(Cell(c, r))
    BY CellsAreInside
  <2>2. /\ Cell(c, r)[1] = Wnd.x + c /\ Cell(c, r)[2] = Wnd.y + r
        /\ (Wnd.y + r = Wnd.y + Wnd.height - 1 <=> r = Wnd.height - 1)
    BY ConsoleAssumption DEF Cell, CursorRows
  <2>3. CASE r = Wnd.height - 1
    BY <2>1, <2>2, <2>3 DEF scroll_window
  <2>4. CASE r # Wnd.height - 1
    <3>1. r + 1 \in CursorRows /\ Wnd.y + r + 1 = Wnd.y + (r + 1)
      BY <2>4, ConsoleAssumption DEF CursorRows
    <3>2. t[Cell(c, r)] = s[Cell(c, r + 1)]
      BY <2>1, <2>2, <2>4, <3>1 DEF scroll_window, Cell
    <3> QED BY <2>4, <3>1, <3>2 DEF PageOf
  <2> QED BY <2>3, <2>4
<1> HIDE DEF t
<1>4. PageOf(t) = Scrolled(PageOf(s))
  <2>1. ASSUME NEW k \in CursorRows
        PROVE PageOf(t)[k] = IF k = Wnd.height - 1 THEN [c \in CursorColumns |-> Blank]
                             ELSE PageOf(s)[k + 1]
    <3>1. CASE k = Wnd.height - 1
      BY <1>3, <3>1 DEF PageOf
    <3>2. CASE k # Wnd.height - 1
      <4>1. k + 1 \in CursorRows
        BY <3>2, ConsoleAssumption DEF CursorRows
      <4>2. PageOf(t)[k] = [c \in CursorColumns |-> PageOf(s)[k + 1][c]]
        BY <1>3, <3>2 DEF PageOf
      <4> QED BY <3>2, <4>1, <4>2 DEF PageOf
    <3> QED BY <3>1, <3>2
  <2> QED BY <2>1 DEF PageOf, Scrolled
<1> QED BY <1>2, <1>4 DEF t

(* What becomes of the row y, of the screen s and of the page p. *)
NextRow(y) == IF y = Wnd.height THEN Wnd.height - 1 ELSE y
TextAt(s, y) == IF y = Wnd.height THEN scroll_window(s) ELSE s
PageAt(p, y) == IF y = Wnd.height THEN Scrolled(p) ELSE p

(* window.c:104-139 from the switch on: whatever the text, one cursor is   *)
(* shown in the end, where the terminal has it.                            *)
LEMMA ScrolledAndShown ==
  ASSUME NEW s, Text(s), NEW x \in CursorColumns, NEW y \in 0 .. Wnd.height,
         y = Wnd.height => x = 0,
         cursor_x' = x, cursor_y' = NextRow(y),
         screen' = show_cursor(TextAt(s, y), cursor_x', cursor_y')
  PROVE  /\ ConsoleInv'
         /\ Page' = With(PageAt(PageOf(s), y), cursor_x', cursor_y', Blank)
<1> DEFINE t == TextAt(s, y)
<1>1. /\ cursor_x' = x /\ cursor_y' = NextRow(y)
      /\ screen' = poke_screen(t, cursor_x', cursor_y', Cursor)
  BY DEF show_cursor
<1>2. cursor_x' \in CursorColumns /\ cursor_y' \in CursorRows
  BY <1>1, ConsoleAssumption DEF CursorRows, NextRow
<1>3. /\ Text(t)
      /\ PageOf(t) = PageAt(PageOf(s), y)
  BY ScrolledText DEF TextAt, PageAt
<1> HIDE DEF t
<1>4. /\ t \in [Screen -> Glyphs \cup {Blank, Cursor}]
      /\ t \in [Screen -> Glyphs \cup {Blank}]
      /\ \A c \in Screen : ~Inside(c) => t[c] = Blank
  BY <1>3 DEF Text
<1>5. /\ screen' \in [Screen -> Glyphs \cup {Blank, Cursor}]
      /\ \A c \in Screen : screen'[c] = IF c = Cell(cursor_x', cursor_y') THEN Cursor ELSE t[c]
  BY <1>1, <1>2, <1>4, CellsAreInside DEF poke_screen
<1>6. OneCursorIsShown'
  <2>1. Inside(Cell(cursor_x', cursor_y'))
    BY <1>2, CellsAreInside
  <2>2. \A c \in Screen : t[c] # Cursor
    BY <1>4, ConsoleAssumption
  <2>3. OneCursorIsShown' = /\ \A c \in Screen : screen'[c] = Cursor <=> c = Cell(cursor_x', cursor_y')
                            /\ \A c \in Screen : ~Inside(c) => screen'[c] = Blank
    BY DEF OneCursorIsShown, Cell, Inside, Screen
  <2> QED BY <1>4, <1>5, <2>1, <2>2, <2>3
<1>7. ConsoleInv'
  BY <1>2, <1>5, <1>6 DEF ConsoleInv, Screen, CursorColumns, CursorRows
<1>8. ASSUME NEW r \in CursorRows, NEW c \in CursorColumns
      PROVE (IF c = cursor_x' /\ r = cursor_y' THEN Blank ELSE screen'[Cell(c, r)]) =
              IF c = cursor_x' /\ r = cursor_y' THEN Blank ELSE t[Cell(c, r)]
  <2>1. Cell(c, r) \in Screen
        /\ (Cell(c, r) = Cell(cursor_x', cursor_y') <=> (c = cursor_x' /\ r = cursor_y'))
    BY <1>2, CellsAreInside
  <2> QED BY <1>5, <2>1
<1>9. Page' = PageWith(t, cursor_x', cursor_y', Blank)
  BY <1>8 DEF Page, PageWith, Cell, CursorRows, CursorColumns
<1>10. Page' = With(PageOf(t), cursor_x', cursor_y', Blank)
  BY <1>2, <1>9, PlaceByPlace
<1> QED BY <1>3, <1>7, <1>10

(* window.c:99: with the cursor off, the screen shows the page. *)
LEMMA CursorRemoved ==
  ASSUME ConsoleInv
  PROVE  Text(remove_cursor) /\ PageOf(remove_cursor) = Page
<1> DEFINE t == remove_cursor
<1>1. t = [screen EXCEPT ![Cell(cursor_x, cursor_y)] = Blank]
  BY DEF remove_cursor, poke_screen
<1>2. Cell(cursor_x, cursor_y) \in Screen
  BY CellsAreInside DEF ConsoleInv
<1> HIDE DEF t
<1>3. \A c \in Screen : t[c] = IF c = Cell(cursor_x, cursor_y) THEN Blank ELSE screen[c]
  BY <1>1, <1>2 DEF ConsoleInv
<1>4. t \in [Screen -> Glyphs \cup {Blank}]
  BY <1>1, <1>2, <1>3 DEF ConsoleInv, OneCursorIsShown
<1>5. Text(t)
  BY <1>3, <1>4 DEF Text, ConsoleInv, OneCursorIsShown
<1>6. ASSUME NEW r \in CursorRows, NEW c \in CursorColumns
      PROVE t[Cell(c, r)] =
              IF c = cursor_x /\ r = cursor_y THEN Blank ELSE screen[Cell(c, r)]
  <2>1. Cell(c, r) \in Screen
        /\ (Cell(c, r) = Cell(cursor_x, cursor_y) <=> (c = cursor_x /\ r = cursor_y))
    BY CellsAreInside DEF ConsoleInv
  <2> QED BY <1>3, <2>1
<1>7. PageOf(t) = Page
  BY <1>6 DEF PageOf, Page, CursorRows, CursorColumns
<1> QED BY <1>5, <1>7 DEF t

(* A screen that is blank but for the cursor in the corner shows an empty page. *)
LEMMA BlankConsole ==
  ASSUME cursor_x = 0, cursor_y = 0, NEW s, Text(s),
         \A c \in Screen : Inside(c) => s[c] = Blank,
         screen = show_cursor(s, 0, 0)
  PROVE  ConsoleInv /\ Page = [r \in CursorRows |-> [c \in CursorColumns |-> Blank]]
<1>1. 0 \in CursorColumns /\ 0 \in CursorRows
  BY ConsoleAssumption DEF CursorColumns, CursorRows
<1>2. /\ screen \in [Screen -> Glyphs \cup {Blank, Cursor}]
      /\ \A c \in Screen : screen[c] = IF c = Cell(0, 0) THEN Cursor ELSE Blank
      /\ Inside(Cell(0, 0))
  <2>1. s \in [Screen -> Glyphs \cup {Blank, Cursor}] /\ \A c \in Screen : s[c] = Blank
    BY DEF Text
  <2> QED BY <1>1, <2>1, CellsAreInside DEF show_cursor, poke_screen
<1>3. ConsoleInv
  BY <1>1, <1>2, ConsoleAssumption DEF ConsoleInv, OneCursorIsShown
<1>4. ASSUME NEW r \in CursorRows, NEW c \in CursorColumns
      PROVE (IF c = cursor_x /\ r = cursor_y THEN Blank ELSE screen[Cell(c, r)]) = Blank
  BY <1>1, <1>2, CellsAreInside
<1>5. Page = [r \in CursorRows |-> [c \in CursorColumns |-> Blank]]
  BY <1>4 DEF Page, CursorRows, CursorColumns
<1> QED BY <1>3, <1>5

(* To blank a place that is blank changes nothing. *)
LEMMA BlankStays ==
  ASSUME NEW s, NEW x \in CursorColumns, NEW y \in CursorRows, s[Cell(x, y)] = Blank
  PROVE  With(PageOf(s), x, y, Blank) = PageOf(s)
<1>1. With(PageOf(s), x, y, Blank) = PageWith(s, x, y, Blank)
  BY PlaceByPlace
<1>2. ASSUME NEW r \in CursorRows, NEW c \in CursorColumns
      PROVE (IF c = x /\ r = y THEN Blank ELSE s[Cell(c, r)]) = s[Cell(c, r)]
  OBVIOUS
<1> QED BY <1>1, <1>2 DEF PageWith, PageOf

(* output_char and clear_window, one step each. *)
LEMMA ConsoleStep ==
  ASSUME ConsoleInv, ConsoleNext
  PROVE  /\ ConsoleInv'
         /\ ConsoleTerminal!TerminalNext \/ UNCHANGED <<Page, cursor_x, cursor_y>>
<1> DEFINE t == remove_cursor
<1>1. /\ cursor_x \in CursorColumns /\ cursor_y \in CursorRows
      /\ cursor_x \in Nat /\ cursor_y \in Nat
      /\ cursor_x < Wnd.width /\ cursor_y < Wnd.height
      /\ 0 \in CursorColumns /\ 0 \in CursorRows /\ Wnd.height # 0
  BY ConsoleAssumption DEF ConsoleInv, CursorColumns, CursorRows
<1>2. Text(t) /\ PageOf(t) = Page
  BY CursorRemoved
<1> HIDE DEF t
<1>3. ASSUME NEW ch \in Glyphs, output_glyph(ch)
      PROVE ConsoleInv' /\ ConsoleTerminal!Type(ch)
  <2> DEFINE s == poke_screen(t, cursor_x, cursor_y, ch)
  <2>1. Text(s) /\ PageOf(s) = [Page EXCEPT ![cursor_y][cursor_x] = ch]
    BY <1>1, <1>2, PokedText
  <2>2. IF cursor_x + 1 = Wnd.width THEN scroll_and_show(s, 0, cursor_y + 1)
        ELSE scroll_and_show(s, cursor_x + 1, cursor_y)
    BY <1>3 DEF output_glyph, t
  <2> HIDE DEF s
  <2>3. CASE cursor_x + 1 = Wnd.width
    <3>1. cursor_y + 1 \in 0 .. Wnd.height /\ cursor_x = Wnd.width - 1
      BY <1>1, <2>3, ConsoleAssumption
    <3>2. /\ cursor_x' = 0 /\ cursor_y' = NextRow(cursor_y + 1)
          /\ screen' = show_cursor(TextAt(s, cursor_y + 1), cursor_x', cursor_y')
      BY <2>2, <2>3 DEF scroll_and_show, NextRow, TextAt
    <3>3. /\ ConsoleInv'
          /\ Page' = With(PageAt(PageOf(s), cursor_y + 1), cursor_x', cursor_y', Blank)
      BY <1>1, <2>1, <3>1, <3>2, ScrolledAndShown
    <3> QED
      BY <2>1, <3>1, <3>2, <3>3
      DEF ConsoleTerminal!Type, ConsoleTerminal!Goes, ConsoleTerminal!Cleared,
          ConsoleTerminal!BlankRow, NextRow, PageAt, With, Scrolled, Page,
          CursorRows, CursorColumns
  <2>4. CASE cursor_x + 1 # Wnd.width
    <3>1. /\ cursor_x + 1 \in CursorColumns /\ cursor_x # Wnd.width - 1
          /\ cursor_y \in 0 .. Wnd.height /\ cursor_y # Wnd.height
      BY <1>1, <2>4, ConsoleAssumption DEF CursorColumns
    <3>2. /\ cursor_x' = cursor_x + 1 /\ cursor_y' = NextRow(cursor_y)
          /\ screen' = show_cursor(TextAt(s, cursor_y), cursor_x', cursor_y')
      BY <2>2, <2>4, <3>1 DEF scroll_and_show, NextRow, TextAt
    <3>3. /\ ConsoleInv'
          /\ Page' = With(PageAt(PageOf(s), cursor_y), cursor_x', cursor_y', Blank)
      BY <2>1, <3>1, <3>2, ScrolledAndShown
    <3> QED
      BY <2>1, <3>1, <3>2, <3>3
      DEF ConsoleTerminal!Type, ConsoleTerminal!Goes, ConsoleTerminal!Cleared,
          ConsoleTerminal!BlankRow, NextRow, PageAt, With, Scrolled, Page,
          CursorRows, CursorColumns
  <2> QED BY <2>3, <2>4
<1>4. ASSUME output_newline PROVE ConsoleInv' /\ ConsoleTerminal!NewLine
  <2>1. cursor_y + 1 \in 0 .. Wnd.height
    BY <1>1, ConsoleAssumption
  <2>2. /\ cursor_x' = 0 /\ cursor_y' = NextRow(cursor_y + 1)
        /\ screen' = show_cursor(TextAt(t, cursor_y + 1), cursor_x', cursor_y')
    BY <1>4 DEF output_newline, t, scroll_and_show, NextRow, TextAt
  <2>3. /\ ConsoleInv'
        /\ Page' = With(PageAt(PageOf(t), cursor_y + 1), cursor_x', cursor_y', Blank)
    BY <1>1, <1>2, <2>1, <2>2, ScrolledAndShown
  <2> QED
    BY <1>2, <2>2, <2>3
    DEF ConsoleTerminal!NewLine, ConsoleTerminal!Goes, ConsoleTerminal!Cleared,
        ConsoleTerminal!BlankRow, NextRow, PageAt, With, Scrolled, Page,
        CursorRows, CursorColumns
<1>5. ASSUME output_backspace
      PROVE /\ ConsoleInv'
            /\ ConsoleTerminal!BackSpace \/ UNCHANGED <<Page, cursor_x, cursor_y>>
  <2>1. /\ cursor_y \in 0 .. Wnd.height /\ cursor_y # Wnd.height
        /\ cursor_x # 0 <=> cursor_x > 0
        /\ cursor_y # 0 <=> cursor_y > 0
    BY <1>1, ConsoleAssumption
  <2>2. CASE cursor_x # 0
    <3>1. cursor_x - 1 \in CursorColumns
      BY <1>1, <2>2, ConsoleAssumption DEF CursorColumns
    <3>2. /\ cursor_x' = cursor_x - 1 /\ cursor_y' = NextRow(cursor_y)
          /\ screen' = show_cursor(TextAt(t, cursor_y), cursor_x', cursor_y')
      BY <1>5, <2>1, <2>2 DEF output_backspace, t, scroll_and_show, NextRow, TextAt
    <3>3. /\ ConsoleInv'
          /\ Page' = With(PageAt(PageOf(t), cursor_y), cursor_x', cursor_y', Blank)
      BY <1>2, <2>1, <3>1, <3>2, ScrolledAndShown
    <3> QED
      BY <1>2, <2>1, <2>2, <3>2, <3>3
      DEF ConsoleTerminal!BackSpace, ConsoleTerminal!Goes, ConsoleTerminal!Cleared,
          ConsoleTerminal!BlankRow, NextRow, PageAt, With, Scrolled, Page,
          CursorRows, CursorColumns
  <2>3. CASE cursor_x = 0 /\ cursor_y # 0
    <3>1. /\ Wnd.width - 1 \in CursorColumns /\ cursor_y - 1 \in 0 .. Wnd.height
          /\ cursor_y - 1 # Wnd.height
      BY <1>1, <2>3, ConsoleAssumption DEF CursorColumns
    <3>2. /\ cursor_x' = Wnd.width - 1 /\ cursor_y' = NextRow(cursor_y - 1)
          /\ screen' = show_cursor(TextAt(t, cursor_y - 1), cursor_x', cursor_y')
      BY <1>5, <2>3, <3>1 DEF output_backspace, t, scroll_and_show, NextRow, TextAt
    <3>3. /\ ConsoleInv'
          /\ Page' = With(PageAt(PageOf(t), cursor_y - 1), cursor_x', cursor_y', Blank)
      BY <1>2, <3>1, <3>2, ScrolledAndShown
    <3> QED
      BY <1>2, <2>1, <2>3, <3>2, <3>3
      DEF ConsoleTerminal!BackSpace, ConsoleTerminal!Goes, ConsoleTerminal!Cleared,
          ConsoleTerminal!BlankRow, NextRow, PageAt, With, Scrolled, Page,
          CursorRows, CursorColumns
  <2>4. CASE cursor_x = 0 /\ cursor_y = 0
    <3>1. /\ cursor_x' = 0 /\ cursor_y' = NextRow(0)
          /\ screen' = show_cursor(TextAt(t, 0), cursor_x', cursor_y')
      BY <1>5, <2>4 DEF output_backspace, t, scroll_and_show, NextRow, TextAt
    <3>2. /\ ConsoleInv'
          /\ Page' = With(PageAt(PageOf(t), 0), cursor_x', cursor_y', Blank)
      BY <1>1, <1>2, <2>1, <2>4, <3>1, ScrolledAndShown
    <3>3. cursor_y' = 0 /\ Page' = With(PageOf(t), 0, 0, Blank)
      BY <1>1, <3>1, <3>2 DEF NextRow, PageAt
    <3>4. t[Cell(0, 0)] = Blank
      BY <1>1, <2>4, CellsAreInside DEF t, remove_cursor, poke_screen, ConsoleInv
    <3>5. Page' = Page
      BY <1>1, <1>2, <3>3, <3>4, BlankStays
    <3> QED BY <2>4, <3>1, <3>2, <3>3, <3>5
  <2> QED BY <2>2, <2>3, <2>4
<1>6. ASSUME clear_window PROVE ConsoleInv' /\ ConsoleTerminal!ClearPage
  <2> DEFINE s == [c \in Screen |-> IF Inside(c) THEN Blank ELSE screen[c]]
  <2>1. /\ s \in [Screen -> Glyphs \cup {Blank}]
        /\ \A c \in Screen : s[c] = Blank
    BY DEF ConsoleInv, OneCursorIsShown
  <2>2. /\ cursor_x' = 0 /\ cursor_y' = NextRow(0)
        /\ screen' = show_cursor(TextAt(s, 0), cursor_x', cursor_y')
    BY <1>1, <1>6 DEF clear_window, NextRow, TextAt
  <2> HIDE DEF s
  <2>3. Text(s)
    BY <2>1 DEF Text
  <2>4. /\ ConsoleInv'
        /\ Page' = With(PageAt(PageOf(s), 0), cursor_x', cursor_y', Blank)
    <3>1. 0 \in 0 .. Wnd.height
      BY <1>1, ConsoleAssumption
    <3> QED BY <1>1, <2>2, <2>3, <3>1, ScrolledAndShown
  <2>5. cursor_x' = 0 /\ cursor_y' = 0 /\ Page' = With(PageOf(s), 0, 0, Blank)
    BY <1>1, <2>2, <2>4 DEF NextRow, PageAt
  <2>6. PageOf(s) = [r \in CursorRows |-> [c \in CursorColumns |-> Blank]]
    BY <2>1, CellsAreInside DEF PageOf
  <2>7. Page' = PageOf(s)
    BY <1>1, <2>1, <2>5, BlankStays, CellsAreInside
  <2> QED BY <2>4, <2>5, <2>6, <2>7
          DEF ConsoleTerminal!ClearPage, ConsoleTerminal!BlankRow, Page, CursorRows, CursorColumns
<1> QED BY <1>3, <1>4, <1>5, <1>6 DEF ConsoleNext, ConsoleTerminal!TerminalNext

(* window.c: the kernel's window is a terminal with one cursor, across the *)
(* ends of lines, the corners and scrolling, for windows and screens of    *)
(* every size.                                                             *)
THEOREM ConsoleImplementsTerminal == ConsoleSpec => ConsoleIsATerminal
<1>1. ConsoleInit => ConsoleInv /\ ConsoleTerminal!TerminalInit
  <2> SUFFICES ASSUME ConsoleInit PROVE ConsoleInv /\ ConsoleTerminal!TerminalInit
    OBVIOUS
  <2> DEFINE s == [c \in Screen |-> Blank]
  <2>1. Text(s) /\ \A c \in Screen : Inside(c) => s[c] = Blank
    BY DEF Text
  <2>2. cursor_x = 0 /\ cursor_y = 0 /\ screen = show_cursor(s, 0, 0)
    BY DEF ConsoleInit
  <2> HIDE DEF s
  <2>3. ConsoleInv /\ Page = [r \in CursorRows |-> [c \in CursorColumns |-> Blank]]
    BY <2>1, <2>2, BlankConsole
  <2> QED BY <2>2, <2>3
          DEF ConsoleTerminal!TerminalInit, ConsoleTerminal!BlankRow, Page, CursorRows, CursorColumns
<1>2. ConsoleInv /\ [ConsoleNext]_consoleVars =>
        ConsoleInv' /\ [ConsoleTerminal!TerminalNext]_<<Page, cursor_x, cursor_y>>
  <2>1. ASSUME ConsoleInv, UNCHANGED consoleVars
        PROVE ConsoleInv' /\ UNCHANGED <<Page, cursor_x, cursor_y>>
    BY <2>1 DEF consoleVars, ConsoleInv, OneCursorIsShown, Page, Cell, Inside, Screen,
                CursorColumns, CursorRows
  <2> QED BY <2>1, ConsoleStep
<1>3. ConsoleInv => OneCursorIsShown
  BY DEF ConsoleInv
<1> QED BY <1>1, <1>2, <1>3, PTL
        DEF ConsoleSpec, ConsoleIsATerminal, ConsoleTerminal!TerminalSpec, Page

-----------------------------------------------------------------------------
(* The first window of the window manager *)

Fields == {"x", "y", "width", "height", "id", "cursor_x", "cursor_y", "cursor_char", "buffer"}
Shaped(w) == DOMAIN w = Fields /\ w = [f \in Fields |-> w[f]]

Width == NewWindows[1].width
Height == NewWindows[1].height
Places == 0 .. Width * Height - 1

(* The window, while it is printed to: what is behind the cursor is empty. *)
Printed(w) ==
  /\ Shaped(w) /\ w.id = 1
  /\ w.width = Width /\ w.height = Height
  /\ w.cursor_x \in 0 .. Width - 1 /\ w.cursor_y \in 0 .. Height - 1
  /\ w.cursor_char = "cursor"
  /\ DOMAIN w.buffer = Places
  /\ w.buffer = [k \in Places |-> w.buffer[k]]
  /\ \A k \in Places : k > CursorOffset(w) => w.buffer[k] = Empty

(* So is what is under the cursor, but for the moment after a '\b'. *)
Ready(w) == Printed(w) /\ w.buffer[CursorOffset(w)] = Empty

WindowPage(w) ==
  [r \in 0 .. Height - 1 |-> [c \in 0 .. Width - 1 |->
     IF c = w.cursor_x /\ r = w.cursor_y THEN Empty ELSE w.buffer[c + r * Width]]]

(* The list of windows holds the first one once. *)
IsList(list) == Len(list) \in Nat /\ list = [k \in 1 .. Len(list) |-> list[k]]
Sole(list, i) == /\ i \in 1 .. Len(list) /\ list[i].id = 1
                 /\ \A j \in 1 .. Len(list) : list[j].id = 1 => j = i

WindowsInv ==
  /\ IsList(wnds) /\ \A i \in 1 .. Len(wnds) : Shaped(wnds[i])
  /\ wnds = <<>> \/ \E i \in 1 .. Len(wnds) : Sole(wnds, i) /\ Ready(wnds[i])

(* A string in print: what is left of one of Strings. *)
PrintingInv ==
  \/ Idle
  \/ /\ printing = [id |-> printing.id, str |-> printing.str]
     /\ IsList(printing.str) /\ printing.str # <<>>
     /\ \A k \in 1 .. Len(printing.str) :
          \E str \in Strings : \E l \in DOMAIN str : str[l] = printing.str[k]
     /\ (\E k \in 1 .. Len(printing.str) : printing.str[k] = BS) => Len(printing.str) = 1
     /\ \E i \in 1 .. Len(wnds) : wnds[i].id = printing.id

LEMMA Sizes ==
  /\ NewWindows[1] \in [x : Int, y : Int, width : Nat \ {0}, height : Nat \ {0}]
  /\ Width \in Nat \ {0} /\ Height \in Nat \ {0}
  /\ Width * Height \in Nat
<1>1. 1 \in 1 .. Len(NewWindows)
  BY WmScreenAssumption
<1>2. NewWindows[1] \in [x : Int, y : Int, width : Nat \ {0}, height : Nat \ {0}]
  <2> DEFINE S == [x : Int, y : Int, width : Nat \ {0}, height : Nat \ {0}]
  <2>1. NewWindows \in Seq(S)
    BY WmScreenAssumption
  <2> HIDE DEF S
  <2>2. NewWindows[1] \in S
    BY <1>1, <2>1
  <2> QED BY <2>2 DEF S
<1>3. Width \in Nat \ {0} /\ Height \in Nat \ {0}
  BY <1>2 DEF Width, Height
<1>4. Width * Height \in Nat
  BY <1>3
<1> QED BY <1>2, <1>3, <1>4

(* A later row is behind an earlier one. *)
LEMMA RowsFollow ==
  ASSUME NEW W \in Nat \ {0}, NEW c \in 0 .. W - 1, NEW x \in 0 .. W - 1,
         NEW r \in Nat, NEW y \in Nat, r > y
  PROVE  c + r * W > x + y * W
<1> DEFINE d == r - y - 1
<1>1. d \in Nat /\ r = y + 1 + d
  OBVIOUS
<1> HIDE DEF d
<1>2. d * W \in Nat /\ y * W \in Nat
  BY <1>1
<1>3. (y + 1 + d) * W = y * W + W + d * W
  BY <1>1
<1>4. r * W = y * W + W + d * W
  BY <1>1, <1>3
<1> QED BY <1>2, <1>4

(* Rows and columns are places of a buffer, one each. *)
LEMMA OffsetsIn ==
  ASSUME NEW W \in Nat \ {0}, NEW H \in Nat \ {0},
         NEW c \in 0 .. W - 1, NEW r \in 0 .. H - 1
  PROVE  /\ c + r * W \in 0 .. W * H - 1
         /\ \A x \in 0 .. W - 1, y \in 0 .. H - 1 :
              /\ c + r * W = x + y * W <=> (c = x /\ r = y)
              /\ c + r * W > x + y * W <=> (r > y \/ (r = y /\ c > x))
<1>1. c + r * W \in 0 .. W * H - 1
  <2>1. 0 + H * W > c + r * W
    BY RowsFollow
  <2>2. H * W = W * H /\ H * W \in Nat /\ r * W \in Nat
    OBVIOUS
  <2> QED BY <2>1, <2>2
<1>2. ASSUME NEW x \in 0 .. W - 1, NEW y \in 0 .. H - 1
      PROVE /\ c + r * W = x + y * W <=> (c = x /\ r = y)
            /\ c + r * W > x + y * W <=> (r > y \/ (r = y /\ c > x))
  <2>1. r * W \in Int /\ y * W \in Int /\ r \in Nat /\ y \in Nat /\ c \in Int /\ x \in Int
    OBVIOUS
  <2>2. r > y => c + r * W > x + y * W
    BY <2>1, RowsFollow
  <2>3. y > r => x + y * W > c + r * W
    BY <2>1, RowsFollow
  <2>4. CASE r > y
    BY ONLY <2>1, <2>2, <2>4
  <2>5. CASE y > r
    BY ONLY <2>1, <2>3, <2>5
  <2>6. CASE r = y
    <3>1. r * W = y * W
      BY <2>6
    <3> QED BY ONLY <2>1, <2>6, <3>1
  <2> QED BY <2>1, <2>4, <2>5, <2>6
<1> QED BY <1>1, <1>2

LEMMA OffsetsDiffer ==
  ASSUME NEW c \in 0 .. Width - 1, NEW r \in 0 .. Height - 1
  PROVE  /\ c + r * Width \in Places
         /\ \A x \in 0 .. Width - 1, y \in 0 .. Height - 1 :
              /\ c + r * Width = x + y * Width <=> (c = x /\ r = y)
              /\ c + r * Width > x + y * Width <=> (r > y \/ (r = y /\ c > x))
<1>1. /\ Width \in Nat \ {0} /\ Height \in Nat \ {0}
      /\ c \in 0 .. Width - 1 /\ r \in 0 .. Height - 1
  BY Sizes
<1>2. /\ c + r * Width \in 0 .. Width * Height - 1
      /\ \A x \in 0 .. Width - 1, y \in 0 .. Height - 1 :
           /\ c + r * Width = x + y * Width <=> (c = x /\ r = y)
           /\ c + r * Width > x + y * Width <=> (r > y \/ (r = y /\ c > x))
  BY ONLY <1>1, OffsetsIn
<1> QED BY <1>2 DEF Places

(* What the changes of a window leave alone. *)
LEMMA MovedFields ==
  ASSUME NEW w, Shaped(w), NEW a, NEW b
  PROVE  /\ Shaped(MoveTo(w, a, b))
         /\ MoveTo(w, a, b).cursor_x = a /\ MoveTo(w, a, b).cursor_y = b
         /\ \A f \in Fields \ {"cursor_x", "cursor_y"} : MoveTo(w, a, b)[f] = w[f]
BY DEF Shaped, MoveTo, Fields

LEMMA WrittenFields ==
  ASSUME NEW w, Shaped(w), NEW k, NEW ch
  PROVE  /\ Shaped([w EXCEPT !.buffer[k] = ch])
         /\ [w EXCEPT !.buffer[k] = ch].buffer = [w.buffer EXCEPT ![k] = ch]
         /\ \A f \in Fields \ {"buffer"} : [w EXCEPT !.buffer[k] = ch][f] = w[f]
BY DEF Shaped, Fields

LEMMA DrawnShape ==
  ASSUME NEW w, Shaped(w)
  PROVE  Shaped(Drawn(w)) /\ Drawn(w).id = w.id
BY WrittenFields DEF Drawn, Fields

(* The cursor is on a place of the buffer. *)
LEMMA CursorIsInBuffer ==
  ASSUME NEW w, Printed(w)
  PROVE  CursorOffset(w) \in Places /\ CursorOffset(w) = w.cursor_x + w.cursor_y * Width
BY OffsetsDiffer DEF Printed, CursorOffset

(* wm.c:159-167: drawing empties what is under the cursor. *)
LEMMA DrawnWindow ==
  ASSUME NEW w, Printed(w)
  PROVE  /\ Ready(Drawn(w))
         /\ Drawn(w).cursor_x = w.cursor_x /\ Drawn(w).cursor_y = w.cursor_y
         /\ WindowPage(Drawn(w)) = WindowPage(w)
<1> DEFINE d == Drawn(w)
<1>1. Shaped(w) /\ w.cursor_char # Empty
  BY WmScreenAssumption DEF Printed
<1>2. d = [w EXCEPT !.buffer[CursorOffset(w)] = Empty]
  BY <1>1 DEF Drawn
<1>3. /\ Shaped(d) /\ d.buffer = [w.buffer EXCEPT ![CursorOffset(w)] = Empty]
      /\ \A f \in Fields \ {"buffer"} : d[f] = w[f]
  BY <1>1, <1>2, WrittenFields
<1> HIDE DEF d
<1>4. /\ d.id = w.id /\ d.width = w.width /\ d.height = w.height
      /\ d.cursor_x = w.cursor_x /\ d.cursor_y = w.cursor_y /\ d.cursor_char = w.cursor_char
  BY <1>3 DEF Fields
<1>5. CursorOffset(d) = CursorOffset(w)
  BY <1>4 DEF CursorOffset
<1>6. CursorOffset(w) \in Places
  BY CursorIsInBuffer
<1>7. \A k \in Places : d.buffer[k] = IF k = CursorOffset(w) THEN Empty ELSE w.buffer[k]
  BY <1>3 DEF Printed
<1>8. DOMAIN d.buffer = Places /\ d.buffer = [k \in Places |-> d.buffer[k]]
  BY <1>3 DEF Printed
<1>9. Ready(d)
  BY <1>3, <1>4, <1>5, <1>6, <1>7, <1>8 DEF Ready, Printed
<1>10. ASSUME NEW r \in 0 .. Height - 1, NEW c \in 0 .. Width - 1
       PROVE (IF c = d.cursor_x /\ r = d.cursor_y THEN Empty ELSE d.buffer[c + r * Width]) =
               IF c = w.cursor_x /\ r = w.cursor_y THEN Empty ELSE w.buffer[c + r * Width]
  <2>1. /\ c + r * Width \in Places
        /\ c + r * Width = CursorOffset(w) <=> (c = w.cursor_x /\ r = w.cursor_y)
    BY OffsetsDiffer, CursorIsInBuffer DEF Printed
  <2> QED BY <1>4, <1>7, <2>1
<1>11. WindowPage(d) = WindowPage(w)
  BY <1>10 DEF WindowPage
<1> QED BY <1>4, <1>9, <1>11 DEF d

(* The buffer of the window, without a cursor. *)
BufferPage(w) == [r \in 0 .. Height - 1 |-> [c \in 0 .. Width - 1 |-> w.buffer[c + r * Width]]]

(* What the terminal shows after Goes(p, x, y), with the cursor in its row. *)
ScrolledPage(p) == [k \in 0 .. Height - 1 |->
                     IF k = Height - 1 THEN [c \in 0 .. Width - 1 |-> Empty] ELSE p[k + 1]]
TerminalPage(p, x, y) ==
  With(IF y = Height THEN ScrolledPage(p) ELSE p, x, IF y = Height THEN Height - 1 ELSE y, Empty)

(* A window without a cursor, as wm_print_impl has it in between: a cursor *)
(* may be in the row below the last.                                       *)
Between(w) ==
  /\ Shaped(w) /\ w.id = 1
  /\ w.width = Width /\ w.height = Height
  /\ w.cursor_x \in 0 .. Width - 1 /\ w.cursor_y \in 0 .. Height
  /\ w.cursor_y = Height => w.cursor_x = 0
  /\ w.cursor_char = "cursor"
  /\ DOMAIN w.buffer = Places
  /\ w.buffer = [k \in Places |-> w.buffer[k]]
  /\ \A k \in Places : k > CursorOffset(w) => w.buffer[k] = Empty

Scrolls(w) == IF w.cursor_y = w.height THEN scroll_wm(MoveTo(w, w.cursor_x, w.cursor_y - 1)) ELSE w

LEMMA CursorOnPage ==
  ASSUME NEW w, NEW x \in 0 .. Width - 1, NEW y \in 0 .. Height - 1,
         w.cursor_x = x, w.cursor_y = y
  PROVE  WindowPage(w) = With(BufferPage(w), x, y, Empty)
<1>1. With(BufferPage(w), x, y, Empty) =
        [r \in 0 .. Height - 1 |-> IF r = y THEN [BufferPage(w)[y] EXCEPT ![x] = Empty]
                                   ELSE BufferPage(w)[r]]
  BY DEF With, BufferPage
<1>2. [BufferPage(w)[y] EXCEPT ![x] = Empty] =
        [c \in 0 .. Width - 1 |-> IF c = x THEN Empty ELSE w.buffer[c + y * Width]]
  BY DEF BufferPage
<1>3. ASSUME NEW r \in 0 .. Height - 1
      PROVE (IF r = y THEN [BufferPage(w)[y] EXCEPT ![x] = Empty] ELSE BufferPage(w)[r]) =
              [c \in 0 .. Width - 1 |->
                 IF c = w.cursor_x /\ r = w.cursor_y THEN Empty ELSE w.buffer[c + r * Width]]
  <2>1. CASE r = y
    BY <1>2, <2>1
  <2>2. CASE r # y
    BY <2>2 DEF BufferPage
  <2> QED BY <2>1, <2>2
<1> QED BY <1>1, <1>3 DEF WindowPage

(* wm.c, scroll_wm: the buffer moves up by a row. *)
LEMMA MovedUp ==
  ASSUME NEW m, Shaped(m), m.id = 1, m.width = Width, m.height = Height,
         m.cursor_x = 0, m.cursor_y = Height - 1, m.cursor_char = "cursor",
         DOMAIN m.buffer = Places
  PROVE  /\ Ready(scroll_wm(m))
         /\ scroll_wm(m).cursor_x = 0 /\ scroll_wm(m).cursor_y = Height - 1
         /\ BufferPage(scroll_wm(m)) = ScrolledPage(BufferPage(m))
<1> DEFINE v == scroll_wm(m)
           b == [i \in Places |-> IF i < Width * (Height - 1) THEN m.buffer[i + Width] ELSE Empty]
<1>1. v = [m EXCEPT !.buffer = b]
  BY DEF scroll_wm
<1> HIDE DEF v, b
<1>2. Shaped(v) /\ v.buffer = b /\ \A f \in Fields \ {"buffer"} : v[f] = m[f]
  BY <1>1 DEF Shaped, Fields
<1>3. /\ v.id = 1 /\ v.width = Width /\ v.height = Height
      /\ v.cursor_x = 0 /\ v.cursor_y = Height - 1 /\ v.cursor_char = "cursor"
  BY <1>2 DEF Fields
<1>4. 0 \in 0 .. Width - 1 /\ Height - 1 \in 0 .. Height - 1
  BY Sizes
<1>5. CursorOffset(v) = Width * (Height - 1) /\ Width * (Height - 1) \in Nat
  BY <1>3, Sizes DEF CursorOffset
<1>6. Ready(v)
  <2>1. DOMAIN b = Places /\ b = [k \in Places |-> b[k]]
    BY DEF b
  <2>2. \A k \in Places : k >= CursorOffset(v) => b[k] = Empty
    BY <1>5 DEF b, Places
  <2>3. Printed(v)
    <3>1. \A k \in Places : k > CursorOffset(v) => b[k] = Empty
      BY <1>5, <2>2 DEF Places
    <3> QED BY <1>2, <1>3, <1>4, <2>1, <3>1 DEF Printed
  <2>4. CursorOffset(v) \in Places /\ CursorOffset(v) >= CursorOffset(v)
    BY <1>5, <2>3, CursorIsInBuffer
  <2> QED BY <1>2, <2>2, <2>3, <2>4 DEF Ready
<1>7. ASSUME NEW r \in 0 .. Height - 1, NEW c \in 0 .. Width - 1
      PROVE v.buffer[c + r * Width] =
              IF r = Height - 1 THEN Empty ELSE m.buffer[c + (r + 1) * Width]
  <2>1. c + r * Width \in Places /\ c + r * Width \in Nat
    BY OffsetsDiffer, Sizes DEF Places
  <2>2. /\ 0 + (Height - 1) * Width > c + r * Width <=>
             (Height - 1 > r \/ (Height - 1 = r /\ 0 > c))
    BY <1>4, OffsetsDiffer
  <2>3. 0 + (Height - 1) * Width = Width * (Height - 1)
    BY Sizes
  <2>4. c + r * Width + Width = c + (r + 1) * Width
    BY Sizes
  <2>5. c + r * Width < Width * (Height - 1) <=> r # Height - 1
    BY <2>1, <2>2, <2>3, <1>5, Sizes
  <2> QED BY <1>2, <2>1, <2>4, <2>5 DEF b
<1>8. BufferPage(v) = ScrolledPage(BufferPage(m))
  <2>1. ASSUME NEW r \in 0 .. Height - 1
        PROVE [c \in 0 .. Width - 1 |-> v.buffer[c + r * Width]] =
                IF r = Height - 1 THEN [c \in 0 .. Width - 1 |-> Empty]
                ELSE BufferPage(m)[r + 1]
    <3>1. CASE r = Height - 1
      BY <1>7, <3>1
    <3>2. CASE r # Height - 1
      <4>1. r + 1 \in 0 .. Height - 1
        BY <3>2, Sizes
      <4>2. BufferPage(m)[r + 1] = [c \in 0 .. Width - 1 |-> m.buffer[c + (r + 1) * Width]]
        BY <4>1 DEF BufferPage
      <4> QED BY <1>7, <3>2, <4>2
    <3> QED BY <3>1, <3>2
  <2>2. BufferPage(v) = [r \in 0 .. Height - 1 |-> [c \in 0 .. Width - 1 |->
                                                     v.buffer[c + r * Width]]]
    BY DEF BufferPage
  <2>3. ScrolledPage(BufferPage(m)) =
          [r \in 0 .. Height - 1 |-> IF r = Height - 1 THEN [c \in 0 .. Width - 1 |-> Empty]
                                     ELSE BufferPage(m)[r + 1]]
    BY DEF ScrolledPage
  <2> QED BY ONLY <2>1, <2>2, <2>3
<1> QED BY <1>3, <1>6, <1>8 DEF v

(* The end of wm_print_impl's turn. *)
LEMMA ScrollsOnPage ==
  ASSUME NEW w, Between(w)
  PROVE  /\ Printed(Scrolls(w)) /\ Scrolls(w).cursor_x = w.cursor_x
         /\ (w.cursor_y = Height \/ w.buffer[CursorOffset(w)] = Empty) => Ready(Scrolls(w))
         /\ Scrolls(w).cursor_y = IF w.cursor_y = Height THEN Height - 1 ELSE w.cursor_y
         /\ WindowPage(Scrolls(w)) = TerminalPage(BufferPage(w), w.cursor_x, w.cursor_y)
<1>1. CASE w.cursor_y # Height
  <2>1. Scrolls(w) = w /\ w.cursor_y \in 0 .. Height - 1
    BY <1>1, Sizes DEF Scrolls, Between
  <2>2. Printed(w)
    BY <2>1 DEF Between, Printed
  <2>3. WindowPage(w) = With(BufferPage(w), w.cursor_x, w.cursor_y, Empty)
    BY <2>1, CursorOnPage DEF Between
  <2> QED BY <1>1, <2>1, <2>2, <2>3 DEF TerminalPage, Ready
<1>2. CASE w.cursor_y = Height
  <2> DEFINE m == MoveTo(w, w.cursor_x, w.cursor_y - 1)
  <2>1. Scrolls(w) = scroll_wm(m)
    BY <1>2 DEF Scrolls, Between
  <2>2. /\ Shaped(m) /\ m.cursor_x = 0 /\ m.cursor_y = Height - 1
        /\ \A f \in Fields \ {"cursor_x", "cursor_y"} : m[f] = w[f]
    <3>1. Shaped(w) /\ w.cursor_x = 0 /\ w.cursor_y - 1 = Height - 1
      BY <1>2 DEF Between
    <3>2. /\ Shaped(m) /\ m.cursor_x = w.cursor_x /\ m.cursor_y = w.cursor_y - 1
          /\ \A f \in Fields \ {"cursor_x", "cursor_y"} : m[f] = w[f]
      BY <3>1, MovedFields
    <3> QED BY <3>1, <3>2
  <2> HIDE DEF m
  <2>3. /\ m.id = 1 /\ m.width = Width /\ m.height = Height /\ m.cursor_char = "cursor"
        /\ m.buffer = w.buffer
    <3>1. /\ m.id = w.id /\ m.width = w.width /\ m.height = w.height
          /\ m.cursor_char = w.cursor_char /\ m.buffer = w.buffer
      BY <2>2 DEF Fields
    <3> QED BY <3>1 DEF Between
  <2>4. DOMAIN m.buffer = Places
    BY <2>3 DEF Between
  <2> DEFINE v == scroll_wm(m)
  <2>5. /\ Ready(v) /\ Printed(v) /\ v.cursor_x = 0 /\ v.cursor_y = Height - 1
        /\ BufferPage(v) = ScrolledPage(BufferPage(m))
    BY <2>2, <2>3, <2>4, MovedUp DEF Ready
  <2> HIDE DEF v
  <2>6. BufferPage(m) = BufferPage(w)
    BY <2>3 DEF BufferPage
  <2>7. WindowPage(v) = With(BufferPage(v), 0, Height - 1, Empty)
    BY <2>5, CursorOnPage DEF Printed
  <2>8. w.cursor_x = 0
    BY <1>2 DEF Between
  <2> QED BY <1>2, <2>1, <2>5, <2>6, <2>7, <2>8 DEF TerminalPage, v
<1> QED BY <1>1, <1>2

(* The cursor goes to a place, or below the last row, and what is behind   *)
(* it is empty.                                                            *)
LEMMA CursorGoes ==
  ASSUME NEW u, Shaped(u), u.id = 1, u.width = Width, u.height = Height,
         u.cursor_char = "cursor",
         DOMAIN u.buffer = Places, u.buffer = [k \in Places |-> u.buffer[k]],
         NEW a \in 0 .. Width - 1, NEW b \in 0 .. Height, b = Height => a = 0,
         \A k \in Places : k > a + b * Width => u.buffer[k] = Empty
  PROVE  LET v == Scrolls(MoveTo(u, a, b)) IN
         /\ Printed(v) /\ v.cursor_x = a /\ v.cursor_y = IF b = Height THEN Height - 1 ELSE b
         /\ (b = Height \/ u.buffer[a + b * Width] = Empty) => Ready(v)
         /\ WindowPage(v) = TerminalPage(BufferPage(u), a, b)
<1> DEFINE m == MoveTo(u, a, b)
<1>1. /\ Shaped(m) /\ m.cursor_x = a /\ m.cursor_y = b
      /\ \A f \in Fields \ {"cursor_x", "cursor_y"} : m[f] = u[f]
  BY MovedFields
<1> HIDE DEF m
<1>2. /\ m.id = u.id /\ m.width = u.width /\ m.height = u.height
      /\ m.cursor_char = u.cursor_char /\ m.buffer = u.buffer
  BY <1>1 DEF Fields
<1>3. CursorOffset(m) = a + b * Width
  BY <1>1, <1>2 DEF CursorOffset
<1>4. Between(m)
  BY <1>1, <1>2, <1>3 DEF Between
<1>5. BufferPage(m) = BufferPage(u)
  BY <1>2 DEF BufferPage
<1> QED BY <1>1, <1>2, <1>3, <1>4, <1>5, ScrollsOnPage DEF m

LEMMA ReadyPage ==
  ASSUME NEW w, Ready(w)
  PROVE  BufferPage(w) = WindowPage(w)
<1>1. ASSUME NEW r \in 0 .. Height - 1, NEW c \in 0 .. Width - 1
      PROVE (IF c = w.cursor_x /\ r = w.cursor_y THEN Empty ELSE w.buffer[c + r * Width]) =
              w.buffer[c + r * Width]
  BY CursorIsInBuffer DEF Ready
<1> QED BY <1>1 DEF BufferPage, WindowPage

LEMMA WrittenPage ==
  ASSUME NEW w, NEW u, Printed(w), NEW ch,
         u.buffer = [w.buffer EXCEPT ![CursorOffset(w)] = ch]
  PROVE  BufferPage(u) = With(BufferPage(w), w.cursor_x, w.cursor_y, ch)
<1> DEFINE x == w.cursor_x
           y == w.cursor_y
<1>1. x \in 0 .. Width - 1 /\ y \in 0 .. Height - 1
  BY DEF Printed
<1>2. CursorOffset(w) = x + y * Width
  BY CursorIsInBuffer
<1> HIDE DEF x, y
<1>3. ASSUME NEW r \in 0 .. Height - 1, NEW c \in 0 .. Width - 1
      PROVE u.buffer[c + r * Width] =
              IF c = x /\ r = y THEN ch ELSE w.buffer[c + r * Width]
  <2>1. /\ c + r * Width \in Places
        /\ c + r * Width = x + y * Width <=> (c = x /\ r = y)
    BY <1>1, OffsetsDiffer
  <2> QED BY <1>2, <2>1 DEF Printed
<1>4. With(BufferPage(w), x, y, ch) =
        [r \in 0 .. Height - 1 |-> IF r = y THEN [BufferPage(w)[y] EXCEPT ![x] = ch]
                                   ELSE BufferPage(w)[r]]
  BY DEF With, BufferPage
<1>5. [BufferPage(w)[y] EXCEPT ![x] = ch] =
        [c \in 0 .. Width - 1 |-> IF c = x THEN ch ELSE w.buffer[c + y * Width]]
  BY <1>1 DEF BufferPage
<1>6. ASSUME NEW r \in 0 .. Height - 1
      PROVE BufferPage(u)[r] =
              IF r = y THEN [BufferPage(w)[y] EXCEPT ![x] = ch] ELSE BufferPage(w)[r]
  <2>1. BufferPage(u)[r] = [c \in 0 .. Width - 1 |->
                              IF c = x /\ r = y THEN ch ELSE w.buffer[c + r * Width]]
    BY <1>3 DEF BufferPage
  <2>2. CASE r = y
    BY <1>5, <2>1, <2>2
  <2>3. CASE r # y
    BY <2>1, <2>3 DEF BufferPage
  <2> QED BY <2>2, <2>3
<1>7. BufferPage(u) = [r \in 0 .. Height - 1 |-> BufferPage(u)[r]]
  BY DEF BufferPage
<1> QED BY <1>4, <1>6, <1>7 DEF x, y

(* The window is what the terminal is after Goes(p, a, b). *)
GoesTo(v, p, a, b) == /\ v.cursor_x = a /\ v.cursor_y = IF b = Height THEN Height - 1 ELSE b
                      /\ WindowPage(v) = TerminalPage(p, a, b)

(* wm.c, wm_print_impl: '\n'. *)
LEMMA NewLinePrinted ==
  ASSUME NEW w, Ready(w)
  PROVE  /\ Ready(wm_print_char(w, NL))
         /\ GoesTo(wm_print_char(w, NL), WindowPage(w), 0, w.cursor_y + 1)
<1> DEFINE a == 0
           b == w.cursor_y + 1
<1>1. wm_print_char(w, NL) = Scrolls(MoveTo(w, a, b))
  <2>1. newline(w) = MoveTo(w, a, b)
    BY DEF newline
  <2> DEFINE v == newline(w)
  <2>2. wm_print_char(w, NL) = Scrolls(v)
    BY DEF wm_print_char, Scrolls
  <2> QED BY <2>1, <2>2
<1>2. Printed(w)
  BY DEF Ready
<1>3. /\ a \in 0 .. Width - 1 /\ b \in 0 .. Height /\ b \in Nat
      /\ b = Height \/ b \in 0 .. Height - 1
      /\ b = Height => a = 0
  BY <1>2, Sizes DEF Printed
<1>4. \A k \in Places : k >= a + b * Width => w.buffer[k] = Empty
  <2>1. /\ CursorOffset(w) = w.cursor_x + w.cursor_y * Width /\ CursorOffset(w) \in Nat
        /\ w.cursor_x \in 0 .. Width - 1 /\ w.cursor_y \in Nat
    BY <1>2, CursorIsInBuffer DEF Printed, Places
  <2>2. a + b * Width > w.cursor_x + w.cursor_y * Width
    BY <1>3, <2>1, RowsFollow, Sizes
  <2>3. a + b * Width \in Nat
    BY <1>3, Sizes
  <2>4. \A k \in Places : k >= a + b * Width => k > CursorOffset(w)
    BY ONLY <2>1, <2>2, <2>3 DEF Places
  <2> QED BY <1>2, <2>4 DEF Printed
<1> HIDE DEF a, b
<1>5. a + b * Width \in Nat /\ (b = Height \/ a + b * Width \in Places)
  <2>1. b \in 0 .. Height - 1 => a + b * Width \in Places
    BY <1>3, OffsetsDiffer
  <2>2. b * Width \in Nat /\ a \in Nat
    BY <1>3, Sizes
  <2> QED BY <1>3, <2>1, <2>2
<1>6. /\ \A k \in Places : k > a + b * Width => w.buffer[k] = Empty
      /\ b = Height \/ w.buffer[a + b * Width] = Empty
  BY <1>4, <1>5 DEF Places
<1>7. BufferPage(w) = WindowPage(w)
  BY ReadyPage
<1> DEFINE v == Scrolls(MoveTo(w, a, b))
<1>8. /\ v.cursor_x = a /\ v.cursor_y = IF b = Height THEN Height - 1 ELSE b
      /\ (b = Height \/ w.buffer[a + b * Width] = Empty) => Ready(v)
      /\ WindowPage(v) = TerminalPage(BufferPage(w), a, b)
  <2>1. /\ Shaped(w) /\ w.id = 1 /\ w.width = Width /\ w.height = Height
        /\ w.cursor_char = "cursor"
        /\ DOMAIN w.buffer = Places /\ w.buffer = [k \in Places |-> w.buffer[k]]
    BY <1>2 DEF Printed
  <2> QED BY <1>3, <1>6, <2>1, CursorGoes
<1> HIDE DEF v
<1>9. Ready(v) /\ GoesTo(v, WindowPage(w), a, b)
  BY <1>6, <1>7, <1>8 DEF GoesTo
<1> QED BY <1>1, <1>9 DEF a, b, v

(* Any other character but '\b'. *)
LEMMA OrdinaryPrinted ==
  ASSUME NEW w, Ready(w), NEW ch, ch \notin {NL, BS}
  PROVE  /\ Ready(wm_print_char(w, ch))
         /\ LET p == With(WindowPage(w), w.cursor_x, w.cursor_y, ch) IN
            IF w.cursor_x = Width - 1 THEN GoesTo(wm_print_char(w, ch), p, 0, w.cursor_y + 1)
            ELSE GoesTo(wm_print_char(w, ch), p, w.cursor_x + 1, w.cursor_y)
<1> DEFINE u == PutChar(w, ch)
           x == w.cursor_x
           y == w.cursor_y
           p == With(WindowPage(w), x, y, ch)
           a == IF x = Width - 1 THEN 0 ELSE x + 1
           b == IF x = Width - 1 THEN y + 1 ELSE y
           v == Scrolls(MoveTo(u, a, b))
<1>1. Printed(w) /\ x \in 0 .. Width - 1 /\ y \in 0 .. Height - 1
  BY DEF Ready, Printed
<1>2. /\ Shaped(u) /\ u.buffer = [w.buffer EXCEPT ![CursorOffset(w)] = ch]
      /\ \A f \in Fields \ {"buffer"} : u[f] = w[f]
  <2>1. Shaped(w)
    BY <1>1 DEF Printed
  <2>2. u = [w EXCEPT !.buffer[CursorOffset(w)] = ch]
    BY DEF PutChar
  <2> HIDE DEF u
  <2> QED BY <2>1, <2>2, WrittenFields
<1> HIDE DEF u
<1>3. /\ u.id = 1 /\ u.width = Width /\ u.height = Height /\ u.cursor_char = "cursor"
      /\ u.cursor_x = x /\ u.cursor_y = y
  <2>1. /\ u.id = w.id /\ u.width = w.width /\ u.height = w.height
        /\ u.cursor_char = w.cursor_char /\ u.cursor_x = x /\ u.cursor_y = y
    BY <1>2 DEF Fields
  <2> QED BY <1>1, <2>1 DEF Printed
<1>4. wm_print_char(w, ch) = v
  <2>1. ordinary(w, ch) = MoveTo(u, a, b)
    <3>1. w.width = Width /\ (x + 1 = w.width <=> x = Width - 1)
      BY <1>1, Sizes DEF Printed
    <3>2. ordinary(w, ch) = IF x + 1 = w.width THEN MoveTo(u, 0, w.cursor_y + 1)
                            ELSE MoveTo(u, w.cursor_x + 1, w.cursor_y)
      BY DEF ordinary, u
    <3> QED BY <3>1, <3>2
  <2>2. wm_print_char(w, ch) = Scrolls(ordinary(w, ch))
    BY DEF wm_print_char, Scrolls
  <2> QED BY <2>1, <2>2
<1>5. /\ a \in 0 .. Width - 1 /\ b \in 0 .. Height /\ (b = Height => a = 0)
      /\ b = Height \/ b \in 0 .. Height - 1
  BY <1>1, Sizes
<1>6. a + b * Width = CursorOffset(w) + 1 /\ CursorOffset(w) \in Places
  <2>1. CursorOffset(w) = x + y * Width /\ CursorOffset(w) \in Places
    BY <1>1, CursorIsInBuffer
  <2>2. (y + 1) * Width = y * Width + Width /\ y * Width \in Nat /\ Width \in Nat \ {0}
    BY <1>1, Sizes
  <2> QED BY <1>1, <2>1, <2>2
<1>7. BufferPage(u) = p
  BY <1>1, <1>2, WrittenPage, ReadyPage
<1>8. /\ DOMAIN u.buffer = Places /\ u.buffer = [k \in Places |-> u.buffer[k]]
      /\ \A k \in Places : k > CursorOffset(w) => u.buffer[k] = Empty
  <2>1. /\ DOMAIN w.buffer = Places /\ w.buffer = [k \in Places |-> w.buffer[k]]
        /\ \A k \in Places : k > CursorOffset(w) => w.buffer[k] = Empty
    BY <1>1 DEF Printed
  <2>2. \A k \in Places : k > CursorOffset(w) => k # CursorOffset(w)
    BY <1>6 DEF Places
  <2>3. /\ DOMAIN u.buffer = Places
        /\ \A k \in Places : k # CursorOffset(w) => u.buffer[k] = w.buffer[k]
    BY <1>2, <2>1
  <2>4. u.buffer = [k \in Places |-> u.buffer[k]]
    BY <1>2, <2>1
  <2> QED BY <2>1, <2>2, <2>3, <2>4
<1>9. b = Height \/ a + b * Width \in Places
  BY <1>5, OffsetsDiffer
<1> HIDE DEF p, a, b
<1>10. /\ \A k \in Places : k > a + b * Width => u.buffer[k] = Empty
       /\ b = Height \/ u.buffer[a + b * Width] = Empty
  BY <1>6, <1>8, <1>9 DEF Places
<1>11. /\ v.cursor_x = a /\ v.cursor_y = IF b = Height THEN Height - 1 ELSE b
       /\ (b = Height \/ u.buffer[a + b * Width] = Empty) => Ready(v)
       /\ WindowPage(v) = TerminalPage(BufferPage(u), a, b)
  <2>1. /\ Shaped(u) /\ u.id = 1 /\ u.width = Width /\ u.height = Height
        /\ u.cursor_char = "cursor"
        /\ DOMAIN u.buffer = Places /\ u.buffer = [k \in Places |-> u.buffer[k]]
        /\ \A k \in Places : k > a + b * Width => u.buffer[k] = Empty
    BY <1>2, <1>3, <1>8, <1>10
  <2> QED BY <1>5, <2>1, CursorGoes
<1> HIDE DEF v, p
<1>12. Ready(v) /\ GoesTo(v, p, a, b)
  BY <1>7, <1>10, <1>11 DEF GoesTo
<1> QED BY <1>4, <1>12 DEF a, b, p

(* '\b': back by one cell, but for the upper left. *)
LEMMA BackspacePrinted ==
  ASSUME NEW w, Ready(w)
  PROVE  LET v == wm_print_char(w, BS)
             x == w.cursor_x
             y == w.cursor_y IN
         /\ Printed(v)
         /\ x > 0 => GoesTo(v, WindowPage(w), x - 1, y)
         /\ x = 0 /\ y > 0 => GoesTo(v, WindowPage(w), Width - 1, y - 1)
         /\ x = 0 /\ y = 0 => v.cursor_x = 0 /\ v.cursor_y = 0 /\ WindowPage(v) = WindowPage(w)
<1> DEFINE u == PutChar(w, Empty)
           x == w.cursor_x
           y == w.cursor_y
           a == IF x > 0 THEN x - 1 ELSE IF y = 0 THEN 0 ELSE Width - 1
           b == IF x > 0 \/ y = 0 THEN y ELSE y - 1
           v == Scrolls(MoveTo(u, a, b))
<1>1. Printed(w) /\ x \in 0 .. Width - 1 /\ y \in 0 .. Height - 1
  BY DEF Ready, Printed
<1>2. /\ Shaped(u) /\ u.buffer = [w.buffer EXCEPT ![CursorOffset(w)] = Empty]
      /\ \A f \in Fields \ {"buffer"} : u[f] = w[f]
  <2>1. Shaped(w)
    BY <1>1 DEF Printed
  <2>2. u = [w EXCEPT !.buffer[CursorOffset(w)] = Empty]
    BY DEF PutChar
  <2> HIDE DEF u
  <2> QED BY <2>1, <2>2, WrittenFields
<1>3. wm_print_char(w, BS) = v
  <2>1. backspace(w) = MoveTo(u, a, b)
    <3>1. w.width = Width
      BY <1>1 DEF Printed
    <3>2. backspace(w) = IF x > 0 THEN MoveTo(u, x - 1, y)
                         ELSE IF y = 0 THEN MoveTo(u, 0, 0) ELSE MoveTo(u, w.width - 1, y - 1)
      BY DEF backspace
    <3>3. CASE x > 0
      BY <3>2, <3>3
    <3>4. CASE ~(x > 0) /\ y = 0
      BY <3>2, <3>4
    <3>5. CASE ~(x > 0) /\ y # 0
      BY <3>1, <3>2, <3>5
    <3> QED BY <3>3, <3>4, <3>5
  <2>2. wm_print_char(w, BS) = Scrolls(backspace(w))
    BY DEF wm_print_char, Scrolls, NL, BS
  <2> QED BY <2>1, <2>2
<1> HIDE DEF u
<1>4. u.buffer = w.buffer
  <2>1. /\ w.buffer = [k \in Places |-> w.buffer[k]] /\ w.buffer[CursorOffset(w)] = Empty
        /\ CursorOffset(w) \in Places
    BY <1>1, CursorIsInBuffer DEF Printed, Ready
  <2> QED BY <1>2, <2>1
<1>5. /\ u.id = 1 /\ u.width = Width /\ u.height = Height /\ u.cursor_char = "cursor"
  <2>1. /\ u.id = w.id /\ u.width = w.width /\ u.height = w.height
        /\ u.cursor_char = w.cursor_char
    BY <1>2 DEF Fields
  <2> QED BY <1>1, <2>1 DEF Printed
<1>6. a \in 0 .. Width - 1 /\ b \in 0 .. Height - 1 /\ b \in 0 .. Height /\ b # Height
  BY <1>1, Sizes
<1>7. /\ a + b * Width >= CursorOffset(w) - 1 /\ CursorOffset(w) \in Nat
      /\ a + b * Width \in Int
  <2>1. CursorOffset(w) = x + y * Width /\ CursorOffset(w) \in Nat
    BY <1>1, CursorIsInBuffer DEF Places
  <2>2. (y - 1) * Width = y * Width - Width /\ y * Width \in Nat /\ Width \in Nat \ {0}
    BY <1>1, Sizes
  <2>3. x \in Nat /\ y \in Nat
    BY <1>1
  <2>4. CASE x > 0
    <3>1. a = x - 1 /\ b = y
      BY <2>4
    <3> HIDE DEF a, b
    <3> QED BY <2>1, <2>2, <2>3, <3>1
  <2>5. CASE ~(x > 0) /\ y = 0
    <3>1. a = 0 /\ b = 0 /\ x = 0 /\ 0 * Width = 0 /\ y * Width = 0
      BY <1>1, <2>2, <2>5
    <3> HIDE DEF a, b
    <3> QED BY <2>1, <3>1
  <2>6. CASE ~(x > 0) /\ y # 0
    <3>1. a = Width - 1 /\ b = y - 1 /\ x = 0
      BY <2>3, <2>6
    <3> HIDE DEF a, b
    <3> QED BY <2>1, <2>2, <3>1
  <2> QED BY <2>4, <2>5, <2>6
<1> HIDE DEF a, b
<1>8. /\ DOMAIN u.buffer = Places /\ u.buffer = [k \in Places |-> u.buffer[k]]
      /\ \A k \in Places : k > a + b * Width => u.buffer[k] = Empty
  <2>1. /\ DOMAIN w.buffer = Places /\ w.buffer = [k \in Places |-> w.buffer[k]]
        /\ \A k \in Places : k > CursorOffset(w) => w.buffer[k] = Empty
        /\ w.buffer[CursorOffset(w)] = Empty
    BY <1>1 DEF Printed, Ready
  <2>2. \A k \in Places : k > a + b * Width => k > CursorOffset(w) \/ k = CursorOffset(w)
    BY <1>7 DEF Places
  <2> QED BY <1>4, <2>1, <2>2
<1>9. /\ Printed(v)
      /\ v.cursor_x = a /\ v.cursor_y = IF b = Height THEN Height - 1 ELSE b
      /\ WindowPage(v) = TerminalPage(BufferPage(u), a, b)
  <2>1. /\ Shaped(u) /\ u.id = 1 /\ u.width = Width /\ u.height = Height
        /\ u.cursor_char = "cursor"
        /\ DOMAIN u.buffer = Places /\ u.buffer = [k \in Places |-> u.buffer[k]]
        /\ \A k \in Places : k > a + b * Width => u.buffer[k] = Empty
    BY <1>2, <1>5, <1>8
  <2> QED BY <1>6, <2>1, CursorGoes
<1>10. BufferPage(u) = WindowPage(w)
  <2>1. BufferPage(u) = BufferPage(w)
    BY <1>4 DEF BufferPage
  <2> QED BY <2>1, ReadyPage
<1>11. v.buffer = u.buffer
  <2> DEFINE m == MoveTo(u, a, b)
  <2>1. m.cursor_y = b /\ \A f \in Fields \ {"cursor_x", "cursor_y"} : m[f] = u[f]
    BY <1>2, MovedFields
  <2> HIDE DEF m
  <2>2. m.buffer = u.buffer /\ m.height = u.height
    BY <2>1 DEF Fields
  <2>3. Scrolls(m) = m
    BY <1>5, <1>6, <2>1, <2>2 DEF Scrolls
  <2> QED BY <2>2, <2>3 DEF m
<1> HIDE DEF v
<1>12. GoesTo(v, WindowPage(w), a, b)
  BY <1>9, <1>10 DEF GoesTo
<1>13. ASSUME x = 0, y = 0 PROVE v.cursor_x = 0 /\ v.cursor_y = 0 /\ WindowPage(v) = WindowPage(w)
  <2>1. a = 0 /\ b = 0
    BY <1>13 DEF a, b
  <2>2. v.cursor_x = w.cursor_x /\ v.cursor_y = w.cursor_y /\ v.buffer = w.buffer
    BY <1>4, <1>6, <1>9, <1>11, <1>13, <2>1
  <2> QED BY <1>13, <2>2 DEF WindowPage
<1>14. x > 0 => a = x - 1 /\ b = y
  BY DEF a, b
<1>15. x = 0 /\ y > 0 => a = Width - 1 /\ b = y - 1
  BY DEF a, b
<1> QED BY <1>3, <1>9, <1>12, <1>13, <1>14, <1>15

(* What Terminal is told of a list of windows. *)
MadeIn(list) == \E i \in DOMAIN list : list[i].id = 1
FirstIn(list) == CHOOSE w \in {list[i] : i \in DOMAIN list} : w.id = 1
ColumnIn(list) == IF MadeIn(list) THEN FirstIn(list).cursor_x ELSE 0
RowIn(list) == IF MadeIn(list) THEN FirstIn(list).cursor_y ELSE 0
PageIn(list) ==
  [r \in 0 .. NewWindows[1].height - 1 |-> [c \in 0 .. NewWindows[1].width - 1 |->
     IF ~MadeIn(list) \/ <<c, r>> = <<FirstIn(list).cursor_x, FirstIn(list).cursor_y>>
     THEN Empty ELSE FirstIn(list).buffer[c + r * FirstIn(list).width]]]

EmptyPage == [r \in 0 .. Height - 1 |-> [c \in 0 .. Width - 1 |-> Empty]]

LEMMA SeenFirst ==
  ASSUME NEW list, IsList(list), NEW i, Sole(list, i), Printed(list[i])
  PROVE  /\ ColumnIn(list) = list[i].cursor_x /\ RowIn(list) = list[i].cursor_y
         /\ PageIn(list) = WindowPage(list[i])
<1>1. DOMAIN list = 1 .. Len(list)
  BY DEF IsList
<1>2. MadeIn(list)
  BY <1>1 DEF MadeIn, Sole
<1>3. FirstIn(list) = list[i]
  <2> DEFINE S == {list[j] : j \in DOMAIN list}
  <2>1. list[i] \in S /\ list[i].id = 1
    BY <1>1 DEF Sole
  <2>2. \A w \in S : w.id = 1 => w = list[i]
    BY <1>1 DEF Sole
  <2> HIDE DEF S
  <2>3. (CHOOSE w \in S : w.id = 1) = list[i]
    BY <2>1, <2>2
  <2> QED BY <2>3 DEF S, FirstIn
<1>4. list[i].width = NewWindows[1].width
  BY DEF Printed, Width
<1>5. ColumnIn(list) = list[i].cursor_x /\ RowIn(list) = list[i].cursor_y
  BY <1>2, <1>3 DEF ColumnIn, RowIn
<1>6. PageIn(list) = [r \in 0 .. NewWindows[1].height - 1 |-> [c \in 0 .. NewWindows[1].width - 1 |->
        IF <<c, r>> = <<list[i].cursor_x, list[i].cursor_y>>
        THEN Empty ELSE list[i].buffer[c + r * NewWindows[1].width]]]
  BY <1>2, <1>3, <1>4 DEF PageIn
<1>7. PageIn(list) = WindowPage(list[i])
  BY <1>6 DEF WindowPage, Width, Height
<1> QED BY <1>5, <1>7

LEMMA SeenNone ==
  ColumnIn(<<>>) = 0 /\ RowIn(<<>>) = 0 /\ PageIn(<<>>) = EmptyPage
<1>1. ~MadeIn(<<>>)
  BY DEF MadeIn
<1> QED BY <1>1 DEF ColumnIn, RowIn, PageIn, EmptyPage, Width, Height

(* redraw_screen keeps the list and shows what is in it. *)
LEMMA RedrawnList ==
  ASSUME NEW list, IsList(list), \A j \in 1 .. Len(list) : Shaped(list[j]),
         NEW i, Sole(list, i), Printed(list[i]),
         wnds' = [j \in DOMAIN list |-> Drawn(list[j])]
  PROVE  /\ WindowsInv' /\ Len(wnds') = Len(list)
         /\ \A j \in 1 .. Len(list) : wnds'[j].id = list[j].id
         /\ ColumnIn(wnds') = list[i].cursor_x /\ RowIn(wnds') = list[i].cursor_y
         /\ PageIn(wnds') = WindowPage(list[i])
<1> DEFINE L == [j \in 1 .. Len(list) |-> Drawn(list[j])]
<1>1. wnds' = L
  BY DEF IsList
<1>2. Len(list) \in Nat /\ Len(L) = Len(list)
  BY DEF IsList
<1>3. \A j \in 1 .. Len(list) : L[j] = Drawn(list[j])
  OBVIOUS
<1>4. IsList(L)
  BY <1>2 DEF IsList
<1> HIDE DEF L
<1>5. \A j \in 1 .. Len(list) : Shaped(L[j]) /\ L[j].id = list[j].id
  BY <1>3, DrawnShape
<1>6. i \in 1 .. Len(list) /\ Sole(L, i)
  BY <1>2, <1>5 DEF Sole
<1>7. /\ Ready(L[i]) /\ L[i].cursor_x = list[i].cursor_x /\ L[i].cursor_y = list[i].cursor_y
      /\ WindowPage(L[i]) = WindowPage(list[i])
  BY <1>3, <1>6, DrawnWindow
<1>8. /\ ColumnIn(L) = L[i].cursor_x /\ RowIn(L) = L[i].cursor_y
      /\ PageIn(L) = WindowPage(L[i])
  BY <1>4, <1>6, <1>7, SeenFirst DEF Ready
<1>9. WindowsInv'
  BY <1>1, <1>2, <1>4, <1>5, <1>6, <1>7 DEF WindowsInv
<1> QED BY <1>1, <1>2, <1>5, <1>7, <1>8, <1>9

(* One window is changed, and stays the first or another. *)
LEMMA ChangedList ==
  ASSUME NEW list, IsList(list), \A j \in 1 .. Len(list) : Shaped(list[j]),
         NEW k \in 1 .. Len(list), NEW u, Shaped(u), u.id = list[k].id
  PROVE  LET L == [list EXCEPT ![k] = u] IN
         /\ IsList(L) /\ Len(L) = Len(list) /\ L[k] = u
         /\ \A j \in 1 .. Len(list) : Shaped(L[j]) /\ L[j].id = list[j].id
         /\ \A j \in 1 .. Len(list) : j # k => L[j] = list[j]
         /\ \A i : Sole(list, i) => Sole(L, i)
<1> DEFINE L == [list EXCEPT ![k] = u]
<1>1. Len(list) \in Nat /\ list = [j \in 1 .. Len(list) |-> list[j]]
  BY DEF IsList
<1>2. L = [j \in 1 .. Len(list) |-> IF j = k THEN u ELSE list[j]]
  BY <1>1
<1>3. Len(L) = Len(list)
  BY <1>1, <1>2
<1>4. \A j \in 1 .. Len(list) : L[j] = IF j = k THEN u ELSE list[j]
  BY <1>2
<1> HIDE DEF L
<1>5. IsList(L)
  BY <1>1, <1>2, <1>3, <1>4 DEF IsList
<1>6. \A j \in 1 .. Len(list) : Shaped(L[j]) /\ L[j].id = list[j].id
  BY <1>4
<1>7. \A i : Sole(list, i) => Sole(L, i)
  BY <1>3, <1>6 DEF Sole
<1> QED BY <1>3, <1>4, <1>5, <1>6, <1>7 DEF L

LEMMA AppendedList ==
  ASSUME NEW list, IsList(list), NEW u
  PROVE  /\ IsList(Append(list, u)) /\ Len(Append(list, u)) = Len(list) + 1
         /\ \A j \in 1 .. Len(list) : Append(list, u)[j] = list[j]
         /\ Append(list, u)[Len(list) + 1] = u
<1> DEFINE S == {list[j] : j \in 1 .. Len(list)} \cup {u}
<1>1. list \in Seq(S) /\ u \in S /\ Len(list) \in Nat
  BY DEF IsList
<1> HIDE DEF S
<1>2. /\ Append(list, u) \in Seq(S) /\ Len(Append(list, u)) = Len(list) + 1
      /\ \A j \in 1 .. Len(list) : Append(list, u)[j] = list[j]
      /\ Append(list, u)[Len(list) + 1] = u
  BY <1>1
<1>3. IsList(Append(list, u))
  <2> DEFINE L == Append(list, u)
  <2>1. L \in Seq(S) /\ Len(L) \in Nat
    BY <1>1, <1>2
  <2> HIDE DEF L
  <2>2. L = [j \in 1 .. Len(L) |-> L[j]]
    BY <2>1
  <2> QED BY <2>1, <2>2 DEF IsList, L
<1> QED BY <1>2, <1>3

LEMMA RotatedList ==
  ASSUME NEW list, IsList(list), list # <<>>
  PROVE  LET L == Append(Tail(list), Head(list)) IN
         /\ IsList(L) /\ Len(L) = Len(list) /\ Len(list) \in Nat \ {0}
         /\ \A j \in 1 .. Len(list) : L[j] = IF j = Len(list) THEN list[1] ELSE list[j + 1]
<1> DEFINE S == {list[j] : j \in 1 .. Len(list)}
           t == Tail(list)
           n == Len(list)
<1>1. list \in Seq(S) /\ n \in Nat
  BY DEF IsList
<1> HIDE DEF S
<1>2. n # 0 /\ 1 \in 1 .. n
  BY <1>1
<1>3. /\ t \in Seq(S) /\ Len(t) = n - 1
      /\ \A j \in 1 .. n - 1 : t[j] = list[j + 1]
  BY <1>1, <1>2
<1>4. Head(list) = list[1]
  BY <1>1, <1>2
<1> HIDE DEF t
<1>5. IsList(t)
  BY <1>3 DEF IsList
<1>6. /\ IsList(Append(t, list[1])) /\ Len(Append(t, list[1])) = n
      /\ \A j \in 1 .. n - 1 : Append(t, list[1])[j] = t[j]
      /\ Append(t, list[1])[n] = list[1]
  <2> DEFINE u == list[1]
  <2>1. Len(t) + 1 = n /\ Len(t) = n - 1
    BY <1>1, <1>3
  <2> HIDE DEF u
  <2>2. /\ IsList(Append(t, u)) /\ Len(Append(t, u)) = Len(t) + 1
        /\ \A j \in 1 .. Len(t) : Append(t, u)[j] = t[j]
        /\ Append(t, u)[Len(t) + 1] = u
    BY <1>5, AppendedList
  <2> QED BY <2>1, <2>2 DEF u
<1> DEFINE L == Append(t, list[1])
<1>7. Append(Tail(list), Head(list)) = L
  BY <1>4 DEF t
<1> HIDE DEF L
<1>8. \A j \in 1 .. n : L[j] = IF j = n THEN list[1] ELSE list[j + 1]
  <2> SUFFICES ASSUME NEW j \in 1 .. n PROVE L[j] = IF j = n THEN list[1] ELSE list[j + 1]
    OBVIOUS
  <2>1. CASE j = n
    BY <1>6, <2>1 DEF L
  <2>2. CASE j # n
    <3>1. j \in 1 .. n - 1
      BY <1>1, <2>2
    <3> QED BY <1>3, <1>6, <2>2, <3>1 DEF L
  <2> QED BY <2>1, <2>2
<1>9. IsList(L) /\ Len(L) = n /\ n \in Nat \ {0}
  BY <1>1, <1>2, <1>6 DEF L
<1> QED BY <1>7, <1>8, <1>9

(* The window that wm_create_impl adds: the first is empty, as a new terminal. *)
LEMMA CreatedWindow ==
  ASSUME NEW n \in 1 .. Len(NewWindows)
  PROVE  LET N == new_window(n) IN
         /\ Shaped(N) /\ N.id = n
         /\ n = 1 => /\ Ready(N) /\ N.cursor_x = 0 /\ N.cursor_y = 0
                     /\ WindowPage(N) = EmptyPage
<1> DEFINE N == new_window(n)
<1>1. Shaped(N) /\ N.id = n
  BY DEF Shaped, Fields, new_window
<1>2. ASSUME n = 1
      PROVE /\ Ready(N) /\ N.cursor_x = 0 /\ N.cursor_y = 0
            /\ WindowPage(N) = EmptyPage
  <2>1. /\ N.width = Width /\ N.height = Height /\ N.cursor_x = 0 /\ N.cursor_y = 0
        /\ N.cursor_char = "cursor" /\ N.buffer = [k \in Places |-> Empty]
    BY <1>2 DEF new_window, Width, Height, Places
  <2> HIDE DEF N
  <2>2. Printed(N)
    <3>1. 0 \in 0 .. Width - 1 /\ 0 \in 0 .. Height - 1
      BY Sizes
    <3> QED BY <1>1, <1>2, <2>1, <3>1 DEF Printed
  <2>3. Ready(N)
    BY <2>1, <2>2, CursorIsInBuffer DEF Ready
  <2>4. \A r \in 0 .. Height - 1, c \in 0 .. Width - 1 : N.buffer[c + r * Width] = Empty
    BY <2>1, OffsetsDiffer
  <2>5. WindowPage(N) = EmptyPage
    BY <2>4 DEF WindowPage, EmptyPage
  <2> QED BY <2>1, <2>3, <2>5
<1> QED BY <1>1, <1>2

(* The variables of FirstWindow. *)
FirstColumn == IF Made THEN First.cursor_x ELSE 0
FirstRow == IF Made THEN First.cursor_y ELSE 0
FirstPage == [r \in 0 .. NewWindows[1].height - 1 |->
               [c \in 0 .. NewWindows[1].width - 1 |->
                 IF ~Made \/ <<c, r>> = <<First.cursor_x, First.cursor_y>> THEN Empty
                 ELSE First.buffer[c + r * First.width]]]
firstVars == <<FirstPage, FirstColumn, FirstRow>>

LEMMA SeenAlike ==
  /\ FirstColumn = ColumnIn(wnds) /\ FirstRow = RowIn(wnds) /\ FirstPage = PageIn(wnds)
  /\ FirstColumn' = ColumnIn(wnds') /\ FirstRow' = RowIn(wnds') /\ FirstPage' = PageIn(wnds')
BY DEF FirstColumn, FirstRow, FirstPage, ColumnIn, RowIn, PageIn, Made, First, MadeIn, FirstIn

(* The actions of the terminal, by what they do to the page and the cursor. *)
Arrives(p, a, b) == /\ FirstColumn' = a /\ FirstRow' = IF b = Height THEN Height - 1 ELSE b
                    /\ FirstPage' = TerminalPage(p, a, b)

LEMMA ClearedPlace ==
  ASSUME NEW p, NEW c, NEW r
  PROVE  FirstWindow!Cleared(p, c, r) = With(p, c, r, Empty)
BY DEF FirstWindow!Cleared, With

LEMMA EmptyRow == FirstWindow!BlankRow = [c \in 0 .. Width - 1 |-> Empty]
BY DEF FirstWindow!BlankRow, Width

(* The page on which the cursor arrives, in the terms of Terminal. *)
PageAfter(p, b) ==
  IF b = Height
  THEN [k \in 0 .. Height - 1 |-> IF k = Height - 1 THEN FirstWindow!BlankRow ELSE p[k + 1]]
  ELSE p
RowAfter(b) == IF b = Height THEN Height - 1 ELSE b

LEMMA ArrivedPage ==
  ASSUME NEW p, NEW a, NEW b, Arrives(p, a, b)
  PROVE  /\ FirstColumn' = a /\ FirstRow' = RowAfter(b)
         /\ FirstPage' = FirstWindow!Cleared(PageAfter(p, b), FirstColumn', FirstRow')
<1>1. TerminalPage(p, a, b) =
        FirstWindow!Cleared(PageAfter(p, b), a, IF b = Height THEN Height - 1 ELSE b)
  BY EmptyRow, ClearedPlace DEF TerminalPage, ScrolledPage, PageAfter
<1> QED BY <1>1 DEF Arrives, RowAfter

LEMMA NewLineStep ==
  ASSUME NEW p, p = FirstPage, NEW y, y = FirstRow, Arrives(p, 0, y + 1)
  PROVE  FirstWindow!TerminalNext
<1>1. FirstWindow!NewLine =
        /\ FirstColumn' = 0 /\ FirstRow' = RowAfter(FirstRow + 1)
        /\ FirstPage' = FirstWindow!Cleared(PageAfter(FirstPage, FirstRow + 1),
                                            FirstColumn', FirstRow')
  BY DEF FirstWindow!NewLine, FirstWindow!Goes, FirstColumn, FirstRow, FirstPage, Height,
         RowAfter, PageAfter
<1>2. FirstWindow!NewLine
  BY <1>1, ArrivedPage
<1> QED BY <1>2 DEF FirstWindow!TerminalNext

LEMMA TypeStep ==
  ASSUME NEW p, p = FirstPage, NEW x, x = FirstColumn, NEW y, y = FirstRow,
         NEW str \in Strings, NEW k \in DOMAIN str, str[k] \notin {NL, BS},
         x = Width - 1 => Arrives(With(p, x, y, str[k]), 0, y + 1),
         x # Width - 1 => Arrives(With(p, x, y, str[k]), x + 1, y)
  PROVE  FirstWindow!TerminalNext
<1> DEFINE ch == str[k]
           q == With(p, x, y, ch)
<1>1. FirstWindow!Type(ch) =
        LET z == [FirstPage EXCEPT ![FirstRow][FirstColumn] = ch] IN
        IF FirstColumn = Width - 1
        THEN /\ FirstColumn' = 0 /\ FirstRow' = RowAfter(FirstRow + 1)
             /\ FirstPage' = FirstWindow!Cleared(PageAfter(z, FirstRow + 1),
                                                 FirstColumn', FirstRow')
        ELSE /\ FirstColumn' = FirstColumn + 1 /\ FirstRow' = RowAfter(FirstRow)
             /\ FirstPage' = FirstWindow!Cleared(PageAfter(z, FirstRow),
                                                 FirstColumn', FirstRow')
  BY DEF FirstWindow!Type, FirstWindow!Goes, FirstColumn, FirstRow, FirstPage, Height, Width,
         RowAfter, PageAfter
<1>2. [FirstPage EXCEPT ![FirstRow][FirstColumn] = ch] = q
  BY DEF With
<1>3. x = Width - 1 => Arrives(q, 0, y + 1)
  OBVIOUS
<1>4. x # Width - 1 => Arrives(q, x + 1, y)
  OBVIOUS
<1>5. ch \notin {NL, BS} /\ ch \in {str[j] : j \in DOMAIN str}
  OBVIOUS
<1>6. {str[j] : j \in DOMAIN str} \in {{s[j] : j \in DOMAIN s} : s \in Strings}
  OBVIOUS
<1> HIDE DEF q, ch
<1>7. FirstWindow!Type(ch)
  <2>1. CASE x = Width - 1
    <3>1. /\ FirstColumn' = 0 /\ FirstRow' = RowAfter(y + 1)
          /\ FirstPage' = FirstWindow!Cleared(PageAfter(q, y + 1), FirstColumn', FirstRow')
      BY <1>3, <2>1, ArrivedPage
    <3> QED BY <1>1, <1>2, <2>1, <3>1
  <2>2. CASE x # Width - 1
    <3>1. /\ FirstColumn' = x + 1 /\ FirstRow' = RowAfter(y)
          /\ FirstPage' = FirstWindow!Cleared(PageAfter(q, y), FirstColumn', FirstRow')
      BY <1>4, <2>2, ArrivedPage
    <3> QED BY <1>1, <1>2, <2>2, <3>1
  <2> QED BY <2>1, <2>2
<1> DEFINE S == {{s[j] : j \in DOMAIN s} : s \in Strings}
           C == {str[j] : j \in DOMAIN str}
<1>8. ch \in C /\ C \in S
  BY <1>5, <1>6
<1> HIDE DEF S, C
<1>9. ch \in (UNION S) \ {NL, BS}
  BY <1>5, <1>8
<1> QED BY <1>7, <1>9 DEF FirstWindow!TerminalNext, S

LEMMA BackSpaceStep ==
  ASSUME NEW p, p = FirstPage, NEW x, x = FirstColumn, NEW y, y = FirstRow,
         \/ x > 0 /\ Arrives(p, x - 1, y)
         \/ x = 0 /\ y > 0 /\ Arrives(p, Width - 1, y - 1)
  PROVE  FirstWindow!TerminalNext
<1>1. FirstWindow!BackSpace =
        \/ /\ FirstColumn > 0
           /\ FirstColumn' = FirstColumn - 1 /\ FirstRow' = RowAfter(FirstRow)
           /\ FirstPage' = FirstWindow!Cleared(PageAfter(FirstPage, FirstRow),
                                               FirstColumn', FirstRow')
        \/ /\ FirstColumn = 0 /\ FirstRow > 0
           /\ FirstColumn' = Width - 1 /\ FirstRow' = RowAfter(FirstRow - 1)
           /\ FirstPage' = FirstWindow!Cleared(PageAfter(FirstPage, FirstRow - 1),
                                               FirstColumn', FirstRow')
  BY DEF FirstWindow!BackSpace, FirstWindow!Goes, FirstColumn, FirstRow, FirstPage, Height,
         Width, RowAfter, PageAfter
<1>2. FirstWindow!BackSpace
  BY <1>1, ArrivedPage
<1> QED BY <1>2 DEF FirstWindow!TerminalNext

LEMMA ClearStep ==
  ASSUME FirstColumn' = 0, FirstRow' = 0, FirstPage' = EmptyPage
  PROVE  FirstWindow!TerminalNext
<1>1. FirstWindow!ClearPage = /\ FirstPage' = [r \in 0 .. Height - 1 |-> FirstWindow!BlankRow]
                              /\ FirstColumn' = 0 /\ FirstRow' = 0
  BY DEF FirstWindow!ClearPage, FirstColumn, FirstRow, FirstPage, Height
<1>2. FirstWindow!ClearPage
  BY <1>1, EmptyRow DEF EmptyPage
<1> QED BY <1>2 DEF FirstWindow!TerminalNext

(* A character in a window that is ready for it. *)
LEMMA CharacterPrinted ==
  ASSUME NEW w, Ready(w), NEW ch
  PROVE  Printed(wm_print_char(w, ch)) /\ (ch # BS => Ready(wm_print_char(w, ch)))
<1>1. CASE ch = NL
  BY <1>1, NewLinePrinted DEF Ready
<1>2. CASE ch = BS
  BY <1>2, BackspacePrinted
<1>3. CASE ch \notin {NL, BS}
  BY <1>3, OrdinaryPrinted DEF Ready
<1> QED BY <1>1, <1>2, <1>3

LEMMA CharacterStep ==
  ASSUME NEW w, Ready(w), NEW str \in Strings, NEW k \in DOMAIN str,
         FirstPage = WindowPage(w), FirstColumn = w.cursor_x, FirstRow = w.cursor_y,
         NEW v, v = wm_print_char(w, str[k]),
         FirstPage' = WindowPage(v), FirstColumn' = v.cursor_x, FirstRow' = v.cursor_y
  PROVE  FirstWindow!TerminalNext \/ UNCHANGED firstVars
<1> DEFINE p == WindowPage(w)
           x == w.cursor_x
           y == w.cursor_y
           ch == str[k]
<1>1. ASSUME NEW q, NEW a, NEW b, GoesTo(v, q, a, b) PROVE Arrives(q, a, b)
  BY <1>1 DEF GoesTo, Arrives
<1>2. x \in Nat /\ y \in Nat
  BY DEF Ready, Printed
<1>3. CASE ch = NL
  <2>1. GoesTo(v, p, 0, y + 1)
    BY <1>3, NewLinePrinted
  <2>2. Arrives(p, 0, y + 1)
    BY <1>1, <2>1
  <2>3. FirstWindow!TerminalNext
    BY <2>2, NewLineStep
  <2> QED BY <2>3
<1>4. CASE ch = BS
  <2>1. /\ x > 0 => GoesTo(v, p, x - 1, y)
        /\ x = 0 /\ y > 0 => GoesTo(v, p, Width - 1, y - 1)
        /\ x = 0 /\ y = 0 => v.cursor_x = 0 /\ v.cursor_y = 0 /\ WindowPage(v) = p
    BY <1>4, BackspacePrinted
  <2>2. CASE x > 0
    <3>1. Arrives(p, x - 1, y)
      BY <1>1, <2>1, <2>2
    <3>2. FirstWindow!TerminalNext
      BY <2>2, <3>1, BackSpaceStep
    <3> QED BY <3>2
  <2>3. CASE x = 0 /\ y > 0
    <3>1. Arrives(p, Width - 1, y - 1)
      BY <1>1, <2>1, <2>3
    <3>2. FirstWindow!TerminalNext
      BY <2>3, <3>1, BackSpaceStep
    <3> QED BY <3>2
  <2>4. CASE x = 0 /\ y = 0
    BY <2>1, <2>4 DEF firstVars
  <2> QED BY <1>2, <2>2, <2>3, <2>4
<1>5. CASE ch \notin {NL, BS}
  <2> DEFINE q == With(p, x, y, ch)
  <2>1. IF x = Width - 1 THEN GoesTo(v, q, 0, y + 1) ELSE GoesTo(v, q, x + 1, y)
    BY <1>5, OrdinaryPrinted
  <2>2. /\ x = Width - 1 => Arrives(q, 0, y + 1)
        /\ x # Width - 1 => Arrives(q, x + 1, y)
    BY <1>1, <2>1
  <2>3. FirstWindow!TerminalNext
    BY <1>5, <2>2, TypeStep
  <2> QED BY <2>3
<1> QED BY <1>3, <1>4, <1>5

(* Printing changes neither the fields a window has nor its id. *)
LEMMA PrintedShape ==
  ASSUME NEW w, Shaped(w), NEW ch
  PROVE  Shaped(wm_print_char(w, ch)) /\ wm_print_char(w, ch).id = w.id
<1> DEFINE Kept(u) == Shaped(u) /\ u.id = w.id
<1>1. ASSUME NEW u, Kept(u), NEW a, NEW b PROVE Kept(MoveTo(u, a, b))
  <2>1. Shaped(u)
    BY <1>1
  <2> DEFINE m == MoveTo(u, a, b)
  <2>2. Shaped(m) /\ \A f \in Fields \ {"cursor_x", "cursor_y"} : m[f] = u[f]
    BY <2>1, MovedFields
  <2> HIDE DEF m
  <2>3. m.id = u.id
    BY <2>2 DEF Fields
  <2> QED BY <1>1, <2>2, <2>3 DEF m
<1>2. ASSUME NEW u, Kept(u), NEW c PROVE Kept(PutChar(u, c))
  <2> DEFINE m == [u EXCEPT !.buffer[CursorOffset(u)] = c]
  <2>1. Shaped(m) /\ \A f \in Fields \ {"buffer"} : m[f] = u[f]
    BY <1>2, WrittenFields
  <2>2. PutChar(u, c) = m
    BY DEF PutChar
  <2> HIDE DEF m
  <2>3. m.id = u.id
    BY <2>1 DEF Fields
  <2> QED BY <1>2, <2>1, <2>2, <2>3
<1>3. ASSUME NEW u, Kept(u) PROVE Kept(scroll_wm(u))
  BY <1>3 DEF scroll_wm, Shaped, Fields
<1>4. Kept(w)
  OBVIOUS
<1> HIDE DEF Kept
<1>5. Kept(newline(w)) /\ Kept(backspace(w)) /\ Kept(ordinary(w, ch))
  BY <1>1, <1>2, <1>4 DEF newline, backspace, ordinary
<1> DEFINE p == IF ch = NL THEN newline(w) ELSE IF ch = BS THEN backspace(w) ELSE ordinary(w, ch)
<1>6. Kept(p)
  BY <1>5
<1>7. wm_print_char(w, ch) = Scrolls(p)
  BY DEF wm_print_char, Scrolls
<1> HIDE DEF p
<1>8. Kept(Scrolls(p))
  BY <1>1, <1>3, <1>6 DEF Scrolls
<1> QED BY <1>7, <1>8 DEF Kept

(* What FirstWindow's variables are before a step. *)
LEMMA ShownBefore ==
  ASSUME NEW list, list = wnds, IsList(list), NEW j, Sole(list, j), Ready(list[j])
  PROVE  /\ FirstColumn = list[j].cursor_x /\ FirstRow = list[j].cursor_y
         /\ FirstPage = WindowPage(list[j])
BY SeenFirst, SeenAlike DEF Ready

(* One window, number k, is changed to u, and all are drawn. *)
LEMMA WindowRedrawn ==
  ASSUME NEW list, list = wnds, IsList(list), \A i \in 1 .. Len(list) : Shaped(list[i]),
         NEW j, Sole(list, j), Ready(list[j]),
         NEW k \in 1 .. Len(list), NEW u, Shaped(u), u.id = list[k].id, k = j => Printed(u),
         redraw_screen([list EXCEPT ![k] = u])
  PROVE  /\ WindowsInv'
         /\ k # j => UNCHANGED firstVars
         /\ k = j => /\ FirstColumn' = u.cursor_x /\ FirstRow' = u.cursor_y
                     /\ FirstPage' = WindowPage(u)
<1> DEFINE L == [list EXCEPT ![k] = u]
<1>1. wnds' = [i \in DOMAIN L |-> Drawn(L[i])]
  BY DEF redraw_screen
<1>2. /\ IsList(L) /\ L[k] = u
      /\ \A i \in 1 .. Len(L) : Shaped(L[i])
      /\ \A i \in 1 .. Len(list) : i # k => L[i] = list[i]
      /\ Sole(L, j)
  BY ChangedList
<1> HIDE DEF L
<1>3. j \in 1 .. Len(list) /\ Printed(list[j])
  BY DEF Sole, Ready
<1>4. Printed(L[j])
  BY <1>2, <1>3
<1>5. /\ WindowsInv'
      /\ ColumnIn(wnds') = L[j].cursor_x /\ RowIn(wnds') = L[j].cursor_y
      /\ PageIn(wnds') = WindowPage(L[j])
  BY <1>1, <1>2, <1>4, RedrawnList
<1>6. CASE k = j
  BY <1>2, <1>5, <1>6, SeenAlike
<1>7. CASE k # j
  <2>1. L[j] = list[j]
    BY <1>2, <1>3, <1>7
  <2> QED BY <1>5, <1>7, <2>1, ShownBefore, SeenAlike DEF firstVars
<1> QED BY <1>6, <1>7

(* A new window: the terminal is empty when its own is made, and stays as  *)
(* it is when another one is.                                              *)
LEMMA CreateStep ==
  ASSUME WindowsInv, wm_create_impl_drawn
  PROVE  WindowsInv' /\ UNCHANGED firstVars
<1>1. PICK list : list = wnds
  OBVIOUS
<1> DEFINE n == Len(list) + 1
           N == new_window(n)
           L == Append(list, N)
<1>2. IsList(list) /\ Len(list) \in Nat
  BY <1>1 DEF WindowsInv, IsList
<1>3. n \in 1 .. Len(NewWindows)
  BY <1>1, <1>2, WmScreenAssumption DEF wm_create_impl_drawn
<1>4. wnds' = [i \in DOMAIN L |-> Drawn(L[i])]
  BY <1>1 DEF wm_create_impl_drawn, redraw_screen
<1>5. /\ Shaped(N) /\ N.id = n
      /\ n = 1 => /\ Ready(N) /\ N.cursor_x = 0 /\ N.cursor_y = 0
                  /\ WindowPage(N) = EmptyPage
  BY <1>3, CreatedWindow
<1>6. /\ IsList(L) /\ Len(L) = n
      /\ \A j \in 1 .. Len(list) : L[j] = list[j]
      /\ L[n] = N
  BY <1>2, AppendedList
<1>7. \A j \in 1 .. Len(L) : j = n \/ j \in 1 .. Len(list)
  BY <1>2, <1>6
<1>8. \A j \in 1 .. Len(L) : Shaped(L[j])
  <2>1. \A j \in 1 .. Len(list) : Shaped(list[j])
    BY <1>1 DEF WindowsInv
  <2> QED BY <1>5, <1>6, <1>7, <2>1
<1> HIDE DEF L, N
<1>9. CASE list = <<>>
  <2>1. n = 1
    BY <1>9
  <2>2. Sole(L, 1) /\ Printed(L[1]) /\ L[1] = N
    BY <1>2, <1>5, <1>6, <1>7, <2>1 DEF Sole, Ready
  <2>3. /\ WindowsInv'
        /\ ColumnIn(wnds') = 0 /\ RowIn(wnds') = 0 /\ PageIn(wnds') = EmptyPage
    BY <1>4, <1>5, <1>6, <1>8, <2>1, <2>2, RedrawnList
  <2>4. ColumnIn(wnds) = 0 /\ RowIn(wnds) = 0 /\ PageIn(wnds) = EmptyPage
    BY <1>1, <1>9, SeenNone
  <2> QED BY <2>3, <2>4, SeenAlike DEF firstVars
<1>10. CASE list # <<>>
  <2>1. PICK j \in 1 .. Len(list) : Sole(list, j) /\ Ready(list[j])
    BY <1>1, <1>10 DEF WindowsInv
  <2>2. n # 1
    BY <1>2, <2>1
  <2>3. Sole(L, j) /\ L[j] = list[j] /\ Printed(L[j])
    BY <1>2, <1>5, <1>6, <1>7, <2>1, <2>2 DEF Sole, Ready
  <2>4. /\ WindowsInv'
        /\ ColumnIn(wnds') = L[j].cursor_x /\ RowIn(wnds') = L[j].cursor_y
        /\ PageIn(wnds') = WindowPage(L[j])
    BY <1>4, <1>6, <1>8, <2>3, RedrawnList
  <2>5. /\ FirstColumn = list[j].cursor_x /\ FirstRow = list[j].cursor_y
        /\ FirstPage = WindowPage(list[j])
    BY <1>1, <1>2, <2>1, ShownBefore
  <2> QED BY <2>3, <2>4, <2>5, SeenAlike DEF firstVars
<1> QED BY <1>9, <1>10

(* The focus moves on: another window is at the end of the list. *)
LEMMA FocusStep ==
  ASSUME WindowsInv, wm_change_focus_drawn
  PROVE  WindowsInv' /\ UNCHANGED firstVars
<1>1. PICK list : list = wnds
  OBVIOUS
<1> DEFINE L == Append(Tail(list), Head(list))
           n == Len(list)
<1>2. IsList(list) /\ list # <<>>
  BY <1>1 DEF WindowsInv, wm_change_focus_drawn
<1>3. wnds' = [i \in DOMAIN L |-> Drawn(L[i])]
  BY <1>1 DEF wm_change_focus_drawn, redraw_screen
<1>4. /\ IsList(L) /\ Len(L) = n /\ n \in Nat \ {0}
      /\ \A j \in 1 .. n : L[j] = IF j = n THEN list[1] ELSE list[j + 1]
  BY <1>2, RotatedList
<1> HIDE DEF L
<1>5. PICK j \in 1 .. n : Sole(list, j) /\ Ready(list[j])
  BY <1>1, <1>2 DEF WindowsInv
<1> DEFINE k == IF j = 1 THEN n ELSE j - 1
<1>6. k \in 1 .. n /\ L[k] = list[j]
  BY <1>4, <1>5
<1>7. ASSUME NEW i \in 1 .. n, L[i].id = 1 PROVE i = k
  <2>1. CASE i = n
    BY <1>4, <1>5, <1>7, <2>1 DEF Sole
  <2>2. CASE i # n
    <3>1. i + 1 \in 1 .. n /\ L[i] = list[i + 1]
      BY <1>4, <2>2
    <3>2. i + 1 = j
      BY <1>5, <1>7, <3>1 DEF Sole
    <3> QED BY <1>5, <3>1, <3>2
  <2> QED BY <2>1, <2>2
<1> HIDE DEF k
<1>8. Sole(L, k) /\ Printed(L[k])
  BY <1>4, <1>5, <1>6, <1>7 DEF Sole, Ready
<1>9. \A i \in 1 .. Len(L) : Shaped(L[i])
  <2>1. \A i \in 1 .. n : Shaped(list[i])
    BY <1>1 DEF WindowsInv
  <2>2. \A i \in 1 .. n : i # n => i + 1 \in 1 .. n
    BY <1>4
  <2>3. 1 \in 1 .. n
    BY <1>4
  <2> QED BY <1>4, <2>1, <2>2, <2>3
<1>10. /\ WindowsInv'
       /\ ColumnIn(wnds') = L[k].cursor_x /\ RowIn(wnds') = L[k].cursor_y
       /\ PageIn(wnds') = WindowPage(L[k])
  BY <1>3, <1>4, <1>8, <1>9, RedrawnList
<1>11. /\ FirstColumn = list[j].cursor_x /\ FirstRow = list[j].cursor_y
       /\ FirstPage = WindowPage(list[j])
  BY <1>1, <1>2, <1>5, ShownBefore
<1> QED BY <1>6, <1>10, <1>11, SeenAlike DEF firstVars

(* wm.c: WM_ACTION_CLEAR. *)
LEMMA ClearingStep ==
  ASSUME WindowsInv, NEW k \in DOMAIN wnds, clear(k)
  PROVE  WindowsInv' /\ (FirstWindow!TerminalNext \/ UNCHANGED firstVars)
<1>1. PICK list : list = wnds
  OBVIOUS
<1>2. /\ IsList(list) /\ k \in 1 .. Len(list) /\ list # <<>>
      /\ \A i \in 1 .. Len(list) : Shaped(list[i])
  BY <1>1 DEF WindowsInv, IsList
<1>3. PICK j \in 1 .. Len(list) : Sole(list, j) /\ Ready(list[j])
  BY <1>1, <1>2 DEF WindowsInv
<1> DEFINE m == MoveTo(list[k], 0, 0)
           b == [q \in DOMAIN m.buffer |-> Empty]
           u == [m EXCEPT !.buffer = b]
<1>4. /\ Shaped(m) /\ m.cursor_x = 0 /\ m.cursor_y = 0
      /\ \A f \in Fields \ {"cursor_x", "cursor_y"} : m[f] = list[k][f]
  <2>1. Shaped(list[k])
    BY <1>2
  <2> QED BY <2>1, MovedFields
<1>5. redraw_screen([list EXCEPT ![k] = u])
  BY <1>1 DEF clear, Control
<1> HIDE DEF m, b
<1>6. Shaped(u) /\ u.buffer = b /\ \A f \in Fields \ {"buffer"} : u[f] = m[f]
  BY <1>4 DEF Shaped, Fields
<1> HIDE DEF u
<1>7. /\ m.id = list[k].id /\ m.width = list[k].width /\ m.height = list[k].height
      /\ m.cursor_char = list[k].cursor_char /\ m.buffer = list[k].buffer
  BY <1>4 DEF Fields
<1>8. /\ u.id = m.id /\ u.width = m.width /\ u.height = m.height
      /\ u.cursor_char = m.cursor_char /\ u.cursor_x = 0 /\ u.cursor_y = 0
  BY <1>4, <1>6 DEF Fields
<1>9. ASSUME k = j PROVE Printed(u) /\ WindowPage(u) = EmptyPage
  <2>1. Printed(list[k])
    BY <1>3, <1>9 DEF Ready
  <2>2. DOMAIN u.buffer = Places /\ u.buffer = [q \in Places |-> Empty]
    BY <1>6, <1>7, <2>1 DEF b, Printed
  <2>3. 0 \in 0 .. Width - 1 /\ 0 \in 0 .. Height - 1
    BY Sizes
  <2>4. Printed(u)
    BY <1>6, <1>7, <1>8, <2>1, <2>2, <2>3 DEF Printed
  <2>5. \A r \in 0 .. Height - 1, c \in 0 .. Width - 1 : u.buffer[c + r * Width] = Empty
    BY <2>2, OffsetsDiffer
  <2>6. WindowPage(u) = EmptyPage
    BY <2>5 DEF WindowPage, EmptyPage
  <2> QED BY <2>4, <2>6
<1>10. u.id = list[k].id
  BY <1>7, <1>8
<1>11. /\ WindowsInv'
       /\ k # j => UNCHANGED firstVars
       /\ k = j => /\ FirstColumn' = 0 /\ FirstRow' = 0
                   /\ FirstPage' = WindowPage(u)
  BY <1>1, <1>2, <1>3, <1>5, <1>6, <1>8, <1>9, <1>10, WindowRedrawn
<1> QED BY <1>9, <1>11, ClearStep

(* The calls that change neither the cursor nor the buffer of the window. *)
LEMMA OtherControlStep ==
  ASSUME WindowsInv, NEW list, list = wnds, NEW k \in DOMAIN list,
         NEW u, Shaped(u), u.id = list[k].id,
         list[k].id = 1 =>
           /\ u.width = list[k].width /\ u.height = list[k].height
           /\ u.cursor_x = list[k].cursor_x /\ u.cursor_y = list[k].cursor_y
           /\ u.cursor_char = list[k].cursor_char /\ u.buffer = list[k].buffer,
         redraw_screen([list EXCEPT ![k] = u])
  PROVE  WindowsInv' /\ UNCHANGED firstVars
<1>1. /\ IsList(list) /\ k \in 1 .. Len(list) /\ list # <<>>
      /\ \A i \in 1 .. Len(list) : Shaped(list[i])
  BY DEF WindowsInv, IsList
<1>2. PICK j \in 1 .. Len(list) : Sole(list, j) /\ Ready(list[j])
  BY <1>1 DEF WindowsInv
<1>3. ASSUME k = j
      PROVE /\ Printed(u) /\ WindowPage(u) = WindowPage(list[j])
            /\ u.cursor_x = list[j].cursor_x /\ u.cursor_y = list[j].cursor_y
  <2>1. Printed(list[j]) /\ list[k].id = 1
    BY <1>2, <1>3 DEF Ready, Printed
  <2>2. /\ u.width = list[j].width /\ u.height = list[j].height
        /\ u.cursor_x = list[j].cursor_x /\ u.cursor_y = list[j].cursor_y
        /\ u.cursor_char = list[j].cursor_char /\ u.buffer = list[j].buffer
    BY <1>3, <2>1
  <2>3. CursorOffset(u) = CursorOffset(list[j])
    BY <2>2 DEF CursorOffset
  <2>4. Printed(u)
    BY <1>3, <2>1, <2>2, <2>3 DEF Printed
  <2>5. WindowPage(u) = WindowPage(list[j])
    BY <2>2 DEF WindowPage
  <2> QED BY <2>2, <2>4, <2>5
<1>4. /\ WindowsInv'
      /\ k # j => UNCHANGED firstVars
      /\ k = j => /\ FirstColumn' = u.cursor_x /\ FirstRow' = u.cursor_y
                  /\ FirstPage' = WindowPage(u)
  BY <1>1, <1>2, <1>3, WindowRedrawn
<1>5. /\ FirstColumn = list[j].cursor_x /\ FirstRow = list[j].cursor_y
      /\ FirstPage = WindowPage(list[j])
  BY <1>1, <1>2, ShownBefore
<1> QED BY <1>3, <1>4, <1>5 DEF firstVars

(* wm.c: WM_ACTION_SET_CURSOR, which the first window does not get. *)
LEMMA SetCursorStep ==
  ASSUME WindowsInv, NEW k \in DOMAIN wnds, set_cursor(k)
  PROVE  WindowsInv' /\ UNCHANGED firstVars
<1>1. PICK list : list = wnds
  OBVIOUS
<1>2. Shaped(list[k]) /\ k \in DOMAIN list /\ list[k].id # 1
  BY <1>1, WmScreenAssumption DEF WindowsInv, IsList, set_cursor
<1> DEFINE m == MoveTo(list[k], 0, 0)
           u == [m EXCEPT !.cursor_char = Empty]
<1>3. Shaped(m) /\ \A f \in Fields \ {"cursor_x", "cursor_y"} : m[f] = list[k][f]
  BY <1>2, MovedFields
<1>4. redraw_screen([list EXCEPT ![k] = u])
  BY <1>1 DEF set_cursor, Control
<1> HIDE DEF m
<1>5. Shaped(u) /\ u.id = m.id /\ m.id = list[k].id
  BY <1>3 DEF Shaped, Fields
<1> HIDE DEF u
<1> QED BY <1>1, <1>2, <1>4, <1>5, OtherControlStep

(* wm.c: WM_ACTION_MOVE_LEFT and the others. *)
LEMMA MoveStep ==
  ASSUME WindowsInv, NEW k \in DOMAIN wnds, NEW dx, NEW dy, move(k, dx, dy)
  PROVE  WindowsInv' /\ UNCHANGED firstVars
<1>1. PICK list : list = wnds
  OBVIOUS
<1>2. Shaped(list[k]) /\ k \in DOMAIN list
  BY <1>1 DEF WindowsInv, IsList
<1> DEFINE a == list[k].x + dx
           b == list[k].y + dy
           u == [list[k] EXCEPT !.x = a, !.y = b]
<1>3. redraw_screen([list EXCEPT ![k] = u])
  BY <1>1 DEF move, Control
<1> HIDE DEF a, b
<1>4. Shaped(u) /\ \A f \in Fields \ {"x", "y"} : u[f] = list[k][f]
  BY <1>2 DEF Shaped, Fields
<1> HIDE DEF u
<1>5. /\ u.id = list[k].id /\ u.width = list[k].width /\ u.height = list[k].height
      /\ u.cursor_x = list[k].cursor_x /\ u.cursor_y = list[k].cursor_y
      /\ u.cursor_char = list[k].cursor_char /\ u.buffer = list[k].buffer
  BY <1>4 DEF Fields
<1> QED BY <1>1, <1>2, <1>3, <1>4, <1>5, OtherControlStep

LEMMA SameWindows ==
  ASSUME WindowsInv, UNCHANGED wnds
  PROVE  WindowsInv' /\ UNCHANGED firstVars
<1>1. WindowsInv'
  BY DEF WindowsInv
<1> QED BY <1>1, SeenAlike DEF firstVars

(* wm.c: a string of Strings is about to be printed. *)
LEMMA StringStarts ==
  ASSUME NEW i \in 1 .. Len(wnds), NEW str \in Strings, UNCHANGED wnds,
         printing' = [id |-> wnds[i].id, str |-> str]
  PROVE  PrintingInv'
<1>1. /\ Len(str) \in Nat \ {0} /\ str = [k \in 1 .. Len(str) |-> str[k]]
      /\ (\E k \in DOMAIN str : str[k] = BS) => Len(str) = 1
  BY WmScreenAssumption
<1>2. IsList(str) /\ str # <<>> /\ DOMAIN str = 1 .. Len(str)
  BY <1>1 DEF IsList
<1>3. \A k \in 1 .. Len(str) : \E s \in Strings : \E l \in DOMAIN s : s[l] = str[k]
  BY <1>2
<1>4. /\ printing'.id = wnds[i].id /\ printing'.str = str
      /\ printing' = [id |-> printing'.id, str |-> printing'.str]
  OBVIOUS
<1>5. \E q \in 1 .. Len(wnds') : wnds'[q].id = printing'.id
  BY <1>4
<1> QED BY <1>1, <1>2, <1>3, <1>4, <1>5 DEF PrintingInv

(* What is left of the string after one character. *)
LEMMA StringGoesOn ==
  ASSUME NEW str, IsList(str), Len(str) > 1,
         \A k \in 1 .. Len(str) : \E s \in Strings : \E l \in DOMAIN s : s[l] = str[k],
         (\E k \in 1 .. Len(str) : str[k] = BS) => Len(str) = 1,
         NEW id, printing' = [id |-> id, str |-> Tail(str)],
         \E i \in 1 .. Len(wnds') : wnds'[i].id = id
  PROVE  PrintingInv'
<1> DEFINE t == Tail(str)
           S == {str[k] : k \in 1 .. Len(str)}
<1>1. str \in Seq(S) /\ Len(str) \in Nat
  BY DEF IsList
<1> HIDE DEF S
<1>2. t \in Seq(S) /\ Len(t) = Len(str) - 1 /\ \A k \in 1 .. Len(t) : t[k] = str[k + 1]
  BY <1>1
<1> HIDE DEF t
<1>3. IsList(t) /\ t # <<>>
  BY <1>1, <1>2 DEF IsList
<1>4. \A k \in 1 .. Len(t) : k + 1 \in 1 .. Len(str)
  BY <1>1, <1>2
<1>5. /\ \A k \in 1 .. Len(t) : \E s \in Strings : \E l \in DOMAIN s : s[l] = t[k]
      /\ ~ \E k \in 1 .. Len(t) : t[k] = BS
  BY <1>2, <1>4
<1>6. printing' = [id |-> id, str |-> t]
  BY DEF t
<1>7. /\ printing'.id = id /\ printing'.str = t
      /\ printing' = [id |-> printing'.id, str |-> printing'.str]
  BY <1>6
<1> QED BY <1>3, <1>5, <1>7 DEF PrintingInv

(* wm.c, wm_print_impl: one character of a string that goes on. *)
LEMMA CharacterChanges ==
  ASSUME WindowsInv, NEW list, list = wnds, NEW k \in 1 .. Len(list),
         NEW str \in Strings, NEW l \in DOMAIN str, str[l] # BS,
         wnds' = [list EXCEPT ![k] = wm_print_char(list[k], str[l])]
  PROVE  WindowsInv' /\ (FirstWindow!TerminalNext \/ UNCHANGED firstVars)
<1> DEFINE v == wm_print_char(list[k], str[l])
           L == [list EXCEPT ![k] = v]
<1>1. /\ IsList(list) /\ Len(list) \in Nat /\ list # <<>>
      /\ \A i \in 1 .. Len(list) : Shaped(list[i])
  BY DEF WindowsInv, IsList
<1>2. PICK j \in 1 .. Len(list) : Sole(list, j) /\ Ready(list[j])
  BY <1>1 DEF WindowsInv
<1>3. Shaped(v) /\ v.id = list[k].id
  BY <1>1, PrintedShape
<1>4. wnds' = L
  OBVIOUS
<1>5. k = j => Ready(v)
  BY <1>2, CharacterPrinted
<1> HIDE DEF v
<1>6. /\ IsList(L) /\ Len(L) = Len(list) /\ L[k] = v
      /\ \A i \in 1 .. Len(list) : Shaped(L[i]) /\ L[i].id = list[i].id
      /\ \A i \in 1 .. Len(list) : i # k => L[i] = list[i]
      /\ Sole(L, j)
  <2>1. PICK u : u = v
    OBVIOUS
  <2>2. Shaped(u) /\ u.id = list[k].id
    BY <1>3, <2>1
  <2> DEFINE M == [list EXCEPT ![k] = u]
  <2>3. IsList(M)
    BY <1>1, <2>2, ChangedList
  <2>4. Len(M) = Len(list)
    BY <1>1, <2>2, ChangedList
  <2>5. M[k] = u
    BY <1>1, <2>2, ChangedList
  <2>6. \A i \in 1 .. Len(list) : Shaped(M[i]) /\ M[i].id = list[i].id
    BY <1>1, <2>2, ChangedList
  <2>7. \A i \in 1 .. Len(list) : i # k => M[i] = list[i]
    BY <1>1, <2>2, ChangedList
  <2>8. Sole(M, j)
    BY <1>1, <1>2, <2>2, ChangedList
  <2>9. M = L
    BY <2>1
  <2> QED BY <2>1, <2>3, <2>4, <2>5, <2>6, <2>7, <2>8, <2>9
<1> HIDE DEF L
<1>7. Ready(L[j])
  BY <1>2, <1>5, <1>6
<1>8. WindowsInv'
  BY <1>2, <1>4, <1>6, <1>7 DEF WindowsInv
<1>9. /\ FirstColumn = list[j].cursor_x /\ FirstRow = list[j].cursor_y
      /\ FirstPage = WindowPage(list[j])
  BY <1>1, <1>2, ShownBefore
<1>10. /\ FirstColumn' = L[j].cursor_x /\ FirstRow' = L[j].cursor_y
       /\ FirstPage' = WindowPage(L[j])
  BY <1>4, <1>6, <1>7, SeenFirst, SeenAlike DEF Ready
<1>11. CASE k = j
  <2>1. L[j] = v
    BY <1>6, <1>11
  <2>2. v = wm_print_char(list[j], str[l])
    BY <1>11 DEF v
  <2>3. FirstWindow!TerminalNext \/ UNCHANGED firstVars
    BY <1>2, <1>9, <1>10, <2>1, <2>2, CharacterStep
  <2> QED BY <1>4, <1>6, <1>8, <2>3
<1>12. CASE k # j
  <2>1. UNCHANGED firstVars
    BY <1>2, <1>6, <1>9, <1>10, <1>12 DEF firstVars
  <2> QED BY <1>4, <1>6, <1>8, <2>1
<1> QED BY <1>11, <1>12

(* The last character of a string: all windows are drawn again. *)
LEMMA LastCharacterChanges ==
  ASSUME WindowsInv, NEW list, list = wnds, NEW k \in 1 .. Len(list),
         NEW str \in Strings, NEW l \in DOMAIN str,
         redraw_screen([list EXCEPT ![k] = wm_print_char(list[k], str[l])])
  PROVE  WindowsInv' /\ (FirstWindow!TerminalNext \/ UNCHANGED firstVars)
<1> DEFINE v == wm_print_char(list[k], str[l])
<1>1. /\ IsList(list) /\ Len(list) \in Nat /\ list # <<>>
      /\ \A i \in 1 .. Len(list) : Shaped(list[i])
  BY DEF WindowsInv, IsList
<1>2. PICK j \in 1 .. Len(list) : Sole(list, j) /\ Ready(list[j])
  BY <1>1 DEF WindowsInv
<1>3. Shaped(v) /\ v.id = list[k].id
  BY <1>1, PrintedShape
<1>4. k = j => Printed(v)
  BY <1>2, CharacterPrinted
<1>5. redraw_screen([list EXCEPT ![k] = v])
  OBVIOUS
<1> HIDE DEF v
<1>6. /\ WindowsInv'
      /\ k # j => UNCHANGED firstVars
      /\ k = j => /\ FirstColumn' = v.cursor_x /\ FirstRow' = v.cursor_y
                  /\ FirstPage' = WindowPage(v)
  BY <1>1, <1>2, <1>3, <1>4, <1>5, WindowRedrawn
<1>7. /\ FirstColumn = list[j].cursor_x /\ FirstRow = list[j].cursor_y
      /\ FirstPage = WindowPage(list[j])
  BY <1>1, <1>2, ShownBefore
<1>8. CASE k = j
  <2>1. v = wm_print_char(list[j], str[l])
    BY <1>8 DEF v
  <2> QED BY <1>2, <1>6, <1>7, <1>8, <2>1, CharacterStep
<1>9. CASE k # j
  BY <1>6, <1>9
<1> QED BY <1>8, <1>9

(* wm.c: wm_print_impl. *)
LEMMA PrintStep ==
  ASSUME WindowsInv, PrintingInv, wm_print_impl
  PROVE  /\ WindowsInv' /\ PrintingInv'
         /\ FirstWindow!TerminalNext \/ UNCHANGED firstVars
<1>1. PICK list : list = wnds
  OBVIOUS
<1>2. IsList(list) /\ DOMAIN list = 1 .. Len(list)
  BY <1>1 DEF WindowsInv, IsList
<1>3. CASE Idle
  <2>1. /\ UNCHANGED wnds
        /\ \E i \in DOMAIN list, str \in Strings :
             printing' = [id |-> list[i].id, str |-> str]
    BY <1>1, <1>3 DEF wm_print_impl
  <2>2. PrintingInv'
    BY <1>1, <1>2, <2>1, StringStarts
  <2> QED BY <2>1, <2>2, SameWindows
<1>4. CASE ~Idle
  <2>1. PICK id, rest : printing.id = id /\ printing.str = rest
    OBVIOUS
  <2>2. /\ printing = [id |-> id, str |-> rest]
        /\ IsList(rest) /\ rest # <<>>
        /\ \A k \in 1 .. Len(rest) :
             \E str \in Strings : \E l \in DOMAIN str : str[l] = rest[k]
        /\ (\E k \in 1 .. Len(rest) : rest[k] = BS) => Len(rest) = 1
        /\ \E i \in 1 .. Len(list) : list[i].id = id
    BY <1>1, <1>4, <2>1 DEF PrintingInv
  <2>3. PICK k \in 1 .. Len(list) : k = get_window_from_id(id) /\ list[k].id = id
    <3>1. get_window_from_id(id) = CHOOSE i \in 1 .. Len(list) : list[i].id = id
      BY <1>1, <1>2 DEF get_window_from_id
    <3> QED BY <2>2, <3>1
  <2>4. 1 \in 1 .. Len(rest) /\ Head(rest) = rest[1]
    <3> DEFINE S == {rest[q] : q \in 1 .. Len(rest)}
    <3>1. rest \in Seq(S)
      BY <2>2 DEF IsList
    <3> HIDE DEF S
    <3> QED BY <2>2, <3>1
  <2>5. PICK str \in Strings : \E l \in DOMAIN str : str[l] = rest[1]
    BY <2>2, <2>4
  <2>6. PICK l \in DOMAIN str : str[l] = rest[1]
    BY <2>5
  <2> DEFINE v == wm_print_char(list[k], str[l])
  <2>7. \/ /\ Len(rest) > 1
           /\ wnds' = [list EXCEPT ![k] = v]
           /\ printing' = [printing EXCEPT !.str = Tail(rest)]
        \/ /\ Len(rest) = 1
           /\ redraw_screen([list EXCEPT ![k] = v])
           /\ printing' = Nothing
    BY <1>1, <1>4, <2>1, <2>3, <2>4, <2>6 DEF wm_print_impl
  <2> HIDE DEF v
  <2>8. CASE /\ Len(rest) > 1
             /\ wnds' = [list EXCEPT ![k] = v]
             /\ printing' = [printing EXCEPT !.str = Tail(rest)]
    <3>1. str[l] # BS
      BY <2>2, <2>4, <2>6, <2>8
    <3>2. WindowsInv' /\ (FirstWindow!TerminalNext \/ UNCHANGED firstVars)
      <4>1. wnds' = [list EXCEPT ![k] = wm_print_char(list[k], str[l])]
        BY <2>8 DEF v
      <4> QED BY <1>1, <3>1, <4>1, CharacterChanges
    <3>3. \E i \in 1 .. Len(wnds') : wnds'[i].id = id
      <4>1. v.id = id
        BY <1>1, <1>2, <2>3, PrintedShape DEF v, WindowsInv
      <4>2. k \in 1 .. Len(wnds') /\ wnds'[k] = v
        BY <1>2, <2>3, <2>8 DEF IsList
      <4> QED BY <4>1, <4>2
    <3>4. printing' = [id |-> id, str |-> Tail(rest)]
      BY <2>2, <2>8
    <3>5. PrintingInv'
      BY <2>2, <2>8, <3>3, <3>4, StringGoesOn
    <3> QED BY <3>2, <3>5
  <2>9. CASE /\ Len(rest) = 1
             /\ redraw_screen([list EXCEPT ![k] = v])
             /\ printing' = Nothing
    <3>1. WindowsInv' /\ (FirstWindow!TerminalNext \/ UNCHANGED firstVars)
      BY <1>1, <2>9, LastCharacterChanges DEF v
    <3>2. PrintingInv'
      BY <2>9 DEF PrintingInv, Idle
    <3> QED BY <3>1, <3>2
  <2> QED BY <2>7, <2>8, <2>9
<1> QED BY <1>3, <1>4

(* Every step of the window manager is one of the terminal, or nothing for *)
(* it.                                                                     *)
LEMMA WmScreenStep ==
  ASSUME WindowsInv, PrintingInv, [WmScreenNext]_wmScreenVars
  PROVE  /\ WindowsInv' /\ PrintingInv'
         /\ FirstWindow!TerminalNext \/ UNCHANGED firstVars
<1>1. ASSUME Idle, UNCHANGED printing PROVE PrintingInv'
  BY <1>1 DEF PrintingInv, Idle
<1>2. CASE wm_create_impl_drawn
  BY <1>1, <1>2, CreateStep DEF wm_create_impl_drawn
<1>3. CASE wm_change_focus_drawn
  BY <1>1, <1>3, FocusStep DEF wm_change_focus_drawn
<1>4. CASE wm_print_impl
  BY <1>4, PrintStep
<1>5. ASSUME NEW i \in DOMAIN wnds, clear(i)
      PROVE /\ WindowsInv' /\ PrintingInv'
            /\ FirstWindow!TerminalNext \/ UNCHANGED firstVars
  <2>1. Idle /\ UNCHANGED printing
    BY <1>5 DEF clear, Control
  <2> QED BY <1>1, <1>5, <2>1, ClearingStep
<1>6. ASSUME NEW i \in DOMAIN wnds, set_cursor(i)
      PROVE WindowsInv' /\ PrintingInv' /\ UNCHANGED firstVars
  <2>1. Idle /\ UNCHANGED printing
    BY <1>6 DEF set_cursor, Control
  <2> QED BY <1>1, <1>6, <2>1, SetCursorStep
<1>7. ASSUME NEW i \in DOMAIN wnds, NEW dx, NEW dy, move(i, dx, dy)
      PROVE WindowsInv' /\ PrintingInv' /\ UNCHANGED firstVars
  <2>1. Idle /\ UNCHANGED printing
    BY <1>7 DEF move, Control
  <2> QED BY <1>1, <1>7, <2>1, MoveStep
<1>8. CASE UNCHANGED wmScreenVars
  <2>1. UNCHANGED wnds /\ UNCHANGED printing
    BY <1>8 DEF wmScreenVars
  <2>2. WindowsInv' /\ UNCHANGED firstVars
    BY <2>1, SameWindows
  <2>3. PrintingInv'
    BY <2>1 DEF PrintingInv, Idle
  <2> QED BY <2>2, <2>3
<1> QED BY <1>2, <1>3, <1>4, <1>5, <1>6, <1>7, <1>8 DEF WmScreenNext

(* wm.c: to a program that prints to the first window and clears it, the   *)
(* window is a terminal of its size, whatever the other windows are, what  *)
(* is printed to them, where they are moved and who has the focus.         *)
THEOREM WindowImplementsTerminal == WmScreenSpec => WindowIsATerminal
<1>1. WmScreenInit => WindowsInv /\ PrintingInv /\ FirstWindow!TerminalInit
  <2> SUFFICES ASSUME WmScreenInit
               PROVE WindowsInv /\ PrintingInv /\ FirstWindow!TerminalInit
    OBVIOUS
  <2>1. wnds = <<>> /\ printing = Nothing
    BY DEF WmScreenInit
  <2>2. Len(<<>>) = 0 /\ <<>> = [k \in 1 .. 0 |-> <<>>[k]]
    OBVIOUS
  <2>3. WindowsInv /\ PrintingInv
    BY <2>1, <2>2 DEF WindowsInv, PrintingInv, IsList, Idle
  <2>4. FirstColumn = 0 /\ FirstRow = 0 /\ FirstPage = EmptyPage
    BY <2>1, SeenNone, SeenAlike
  <2>5. FirstWindow!TerminalInit
    BY <2>4 DEF FirstWindow!TerminalInit, FirstWindow!BlankRow, FirstColumn, FirstRow,
                FirstPage, EmptyPage, Width, Height
  <2> QED BY <2>3, <2>5
<1>2. WindowsInv /\ PrintingInv /\ [WmScreenNext]_wmScreenVars
      => WindowsInv' /\ PrintingInv' /\ [FirstWindow!TerminalNext]_firstVars
  BY WmScreenStep
<1> QED BY <1>1, <1>2, PTL
        DEF WmScreenSpec, WindowIsATerminal, FirstWindow!TerminalSpec, firstVars,
            FirstPage, FirstColumn, FirstRow

-----------------------------------------------------------------------------
(* The screen *)

(* A window, also between the characters of a string: its cursor is on one *)
(* of its cells.                                                           *)
OnScreen(w) ==
  /\ Shaped(w)
  /\ w.x \in Int /\ w.y \in Int
  /\ w.width \in Nat \ {0} /\ w.height \in Nat \ {0}
  /\ w.cursor_x \in 0 .. w.width - 1 /\ w.cursor_y \in 0 .. w.height - 1
  /\ DOMAIN w.buffer = 0 .. w.width * w.height - 1

AreOnScreen(list) == IsList(list) /\ \A i \in 1 .. Len(list) : OnScreen(list[i])

LEMMA Least ==
  ASSUME NEW T \in SUBSET Nat, T # {}
  PROVE  \E n \in T : \A m \in T : n <= m
<1> DEFINE R == OpToRel(<, Nat)
<1>1. PICK n \in T : \A m \in T : <<m, n>> \notin R
  <2> HIDE DEF R
  <2>1. IsWellFoundedOn(R, Nat)
    BY NatLessThanWellFounded DEF R
  <2> QED BY <2>1, WFMin
<1>2. ASSUME NEW m \in T PROVE n <= m
  <2>1. m \in Nat /\ n \in Nat /\ ~(m < n)
    BY <1>1 DEF OpToRel
  <2> QED BY <2>1
<1> QED BY <1>2

(* A non-empty set of indices has a greatest one. *)
LEMMA Greatest ==
  ASSUME NEW n \in Nat, NEW s \in SUBSET (1 .. n), s # {}
  PROVE  Max(s) \in s /\ \A i \in s : i <= Max(s)
<1> DEFINE T == {k \in Nat : \A i \in s : i <= k}
<1>1. n \in T
  OBVIOUS
<1>2. PICK k \in T : \A m \in T : k <= m
  <2>1. T \in SUBSET Nat /\ T # {}
    BY <1>1
  <2> HIDE DEF T
  <2> QED BY <2>1, Least
<1>3. k \in s
  <2> SUFFICES ASSUME k \notin s PROVE FALSE
    OBVIOUS
  <2>1. PICK i \in s : TRUE
    OBVIOUS
  <2>2. k - 1 \in Nat /\ \A j \in s : j <= k - 1
    BY <1>2, <2>1
  <2>3. k - 1 \in T
    BY <2>2
  <2> QED BY <1>2, <2>3
<1>4. k \in s /\ \A i \in s : k >= i
  BY <1>2, <1>3
<1>5. Max(s) \in s /\ \A i \in s : Max(s) >= i
  BY <1>4, Zenon DEF Max
<1> QED BY <1>5

(* Window i of the list as it is drawn over a screen. *)
Image(list, i) == draw_window(list[i], i = Len(list))
Over(list, i, scr) == poke_screen_buffer(scr, Image(list, i))

(* The screens with the windows of each set, drawn in the order of the     *)
(* list, and what they look like.                                          *)
AreDrawn(list, f) ==
  f = [s \in SUBSET (1 .. Len(list)) |->
         IF s = {} THEN BlankScreen ELSE Over(list, Max(s), f[s \ {Max(s)}])]

Painted(list, s) ==
  [c \in Cells |->
     LET t == {i \in s : c \in DOMAIN Image(list, i)} IN
     IF t = {} THEN Empty ELSE Image(list, Max(t))[c]]

LEMMA OneMore ==
  ASSUME NEW list, Len(list) \in Nat, NEW s \in SUBSET (1 .. Len(list)), s # {}
  PROVE  Painted(list, s) = Over(list, Max(s), Painted(list, s \ {Max(s)}))
<1>1. PICK m : m = Max(s)
  OBVIOUS
<1>2. m \in s /\ \A i \in s : i <= m
  BY <1>1, Greatest
<1> DEFINE Of(u, c) == {i \in u : c \in DOMAIN Image(list, i)}
           Seen(u, c) == IF Of(u, c) = {} THEN Empty ELSE Image(list, Max(Of(u, c)))[c]
<1>3. ASSUME NEW c \in Cells
      PROVE Seen(s, c) = IF c \in DOMAIN Image(list, m) THEN Image(list, m)[c]
                         ELSE Seen(s \ {m}, c)
  <2>1. CASE c \in DOMAIN Image(list, m)
    <3>1. PICK t : t = Of(s, c)
      OBVIOUS
    <3>2. m \in t /\ t \in SUBSET (1 .. Len(list)) /\ t # {} /\ \A i \in t : i <= m
      BY <1>2, <2>1, <3>1
    <3>3. Max(t) \in t /\ \A i \in t : i <= Max(t)
      BY <3>2, Greatest
    <3>4. Max(t) = m
      <4>1. PICK x : x = Max(t)
        OBVIOUS
      <4>2. x \in t /\ m <= x
        BY <3>2, <3>3, <4>1, Zenon
      <4>3. x <= m /\ x \in Nat /\ m \in Nat
        BY <3>2, <4>2
      <4> QED BY <4>1, <4>2, <4>3
    <3> QED BY <2>1, <3>1, <3>2, <3>4
  <2>2. CASE c \notin DOMAIN Image(list, m)
    <3>1. Of(s, c) = Of(s \ {m}, c)
      BY <2>2
    <3> QED BY <2>2, <3>1
  <2> QED BY <2>1, <2>2
<1>4. Painted(list, s) = [c \in Cells |-> Seen(s, c)]
  BY DEF Painted
<1>5. Painted(list, s \ {m}) = [c \in Cells |-> Seen(s \ {m}, c)]
  BY DEF Painted
<1> HIDE DEF Seen
<1>6. Over(list, m, Painted(list, s \ {m})) =
        [c \in Cells |-> IF c \in DOMAIN Image(list, m) THEN Image(list, m)[c]
                         ELSE Seen(s \ {m}, c)]
  BY <1>5 DEF Over, poke_screen_buffer
<1>7. Painted(list, s) = Over(list, m, Painted(list, s \ {m}))
  <2>1. [c \in Cells |-> Seen(s, c)] =
          [c \in Cells |-> IF c \in DOMAIN Image(list, m) THEN Image(list, m)[c]
                           ELSE Seen(s \ {m}, c)]
    BY <1>3
  <2> QED BY <1>4, <1>6, <2>1, Zenon
<1> QED BY <1>1, <1>7, Zenon

LEMMA DrawnIsPainted ==
  ASSUME NEW list, Len(list) \in Nat, NEW f, AreDrawn(list, f)
  PROVE  \A s \in SUBSET (1 .. Len(list)) : f[s] = Painted(list, s)
<1>1. PICK n : n = Len(list)
  OBVIOUS
<1> SUFFICES ASSUME \E s \in SUBSET (1 .. n) : f[s] # Painted(list, s) PROVE FALSE
  BY <1>1
<1> DEFINE Wrong(k) == \E s \in SUBSET (1 .. k) : f[s] # Painted(list, s)
           T == {k \in 0 .. n : Wrong(k)}
<1>2. T \in SUBSET Nat /\ n \in T
  BY <1>1
<1>3. PICK k \in T : \A m \in T : k <= m
  <2> HIDE DEF T
  <2> QED BY <1>2, Least
<1>4. PICK s \in SUBSET (1 .. k) : f[s] # Painted(list, s)
  BY <1>3
<1>5. n \in Nat /\ k \in 0 .. n /\ s \in SUBSET (1 .. Len(list))
  BY <1>1, <1>3
<1>6. f[s] = IF s = {} THEN BlankScreen ELSE Over(list, Max(s), f[s \ {Max(s)}])
  BY <1>5, Zenon DEF AreDrawn
<1>7. s # {}
  <2>1. Painted(list, {}) = BlankScreen
    BY DEF Painted, BlankScreen
  <2> QED BY <1>4, <1>6, <2>1
<1>8. PICK m : m = Max(s)
  OBVIOUS
<1>9. m \in s /\ \A i \in s : i <= m
  BY <1>5, <1>7, <1>8, Greatest
<1>10. m \in 1 .. k /\ s \ {m} \in SUBSET (1 .. m - 1) /\ m - 1 \in 0 .. n /\ ~(k <= m - 1)
  BY <1>5, <1>9
<1>11. f[s \ {m}] = Painted(list, s \ {m})
  BY <1>3, <1>10
<1> QED BY <1>4, <1>5, <1>6, <1>7, <1>8, <1>11, OneMore

(* wm.c:178-189: redraw_screen draws window upon window. *)
LEMMA RedrawnScreen ==
  ASSUME NEW list, IsList(list), redraw_screen(list)
  PROVE  screen_buffer' = Painted(list, 1 .. Len(list))
<1>1. Len(list) \in Nat /\ DOMAIN list = 1 .. Len(list)
  BY DEF IsList
<1> DEFINE P == SUBSET (1 .. Len(list))
           all == 1 .. Len(list)
<1>2. \E f : AreDrawn(list, f)
  <2> DEFINE f == [s \in P |-> Painted(list, s)]
  <2>1. ASSUME NEW s \in P
        PROVE Painted(list, s) = IF s = {} THEN BlankScreen
                                 ELSE Over(list, Max(s), f[s \ {Max(s)}])
    <3>1. CASE s = {}
      BY <3>1 DEF Painted, BlankScreen
    <3>2. CASE s # {}
      <4>1. s \ {Max(s)} \in P
        OBVIOUS
      <4>2. f[s \ {Max(s)}] = Painted(list, s \ {Max(s)})
        BY <4>1
      <4> HIDE DEF f
      <4> QED BY <1>1, <3>2, <4>2, OneMore
    <3> QED BY <3>1, <3>2
  <2>2. f = [s \in P |-> IF s = {} THEN BlankScreen
                         ELSE Over(list, Max(s), f[s \ {Max(s)}])]
    BY <2>1
  <2> HIDE DEF f
  <2> QED BY <2>2 DEF AreDrawn
<1> DEFINE ids == [i \in DOMAIN list |-> i]
           After(f, i) == poke_screen_buffer(f, draw_window(list[ids[i]], ids[i] = Len(list)))
           AreFolded(f) == f = [s \in SUBSET DOMAIN ids |->
                                  IF s = {} THEN BlankScreen ELSE After(f[s \ {Max(s)}], Max(s))]
<1>3. screen_buffer' = (CHOOSE f : AreFolded(f))[DOMAIN ids]
  BY Zenon DEF redraw_screen, FoldLeftDomain, FoldLeft, MapThenFoldSet
<1>4. DOMAIN ids = all /\ \A i \in all : ids[i] = i
  BY <1>1
<1> HIDE DEF ids
<1>5. ASSUME NEW f PROVE AreFolded(f) <=> AreDrawn(list, f)
  <2>1. ASSUME NEW s \in P, s # {}
        PROVE After(f[s \ {Max(s)}], Max(s)) = Over(list, Max(s), f[s \ {Max(s)}])
    <3>1. Max(s) \in all
      BY <1>1, <2>1, Greatest
    <3> QED BY <1>4, <3>1, Zenon DEF Over, Image
  <2> HIDE DEF After
  <2>2. ASSUME NEW s \in P
        PROVE (IF s = {} THEN BlankScreen ELSE After(f[s \ {Max(s)}], Max(s))) =
              IF s = {} THEN BlankScreen ELSE Over(list, Max(s), f[s \ {Max(s)}])
    BY <2>1, Zenon
  <2>3. [s \in SUBSET DOMAIN ids |->
           IF s = {} THEN BlankScreen ELSE After(f[s \ {Max(s)}], Max(s))] =
        [s \in P |-> IF s = {} THEN BlankScreen ELSE Over(list, Max(s), f[s \ {Max(s)}])]
    BY <1>4, <2>2
  <2> QED BY <2>3, Zenon DEF AreDrawn
<1> HIDE DEF AreFolded
<1>6. PICK F : F = CHOOSE f : AreFolded(f)
  OBVIOUS
<1>7. AreFolded(F)
  BY <1>2, <1>5, <1>6
<1>8. F[all] = Painted(list, all)
  BY <1>1, <1>5, <1>7, DrawnIsPainted
<1> QED BY <1>3, <1>4, <1>6, <1>8, Zenon

LEMMA DrawnOnScreen ==
  ASSUME NEW w, OnScreen(w)
  PROVE  /\ OnScreen(Drawn(w))
         /\ \A f \in Fields \ {"buffer"} : Drawn(w)[f] = w[f]
         /\ \A k \in 0 .. w.width * w.height - 1 :
              k # CursorOffset(w) \/ w.cursor_char = Empty => Drawn(w).buffer[k] = w.buffer[k]
<1>1. CASE w.cursor_char = Empty
  BY <1>1 DEF Drawn
<1>2. CASE w.cursor_char # Empty
  <2> DEFINE d == [w EXCEPT !.buffer[CursorOffset(w)] = Empty]
  <2>1. Drawn(w) = d
    BY <1>2 DEF Drawn
  <2>2. /\ Shaped(d) /\ d.buffer = [w.buffer EXCEPT ![CursorOffset(w)] = Empty]
        /\ \A f \in Fields \ {"buffer"} : d[f] = w[f]
    <3>1. PICK k : k = CursorOffset(w)
      OBVIOUS
    <3> DEFINE e == [w EXCEPT !.buffer[k] = Empty]
    <3>2. Shaped(w)
      BY DEF OnScreen
    <3>3. /\ Shaped(e) /\ e.buffer = [w.buffer EXCEPT ![k] = Empty]
          /\ \A f \in Fields \ {"buffer"} : e[f] = w[f]
      BY <3>2 DEF Shaped, Fields
    <3> QED BY <3>1, <3>3, Zenon
  <2> HIDE DEF d
  <2>3. /\ d.x = w.x /\ d.y = w.y /\ d.width = w.width /\ d.height = w.height
        /\ d.cursor_x = w.cursor_x /\ d.cursor_y = w.cursor_y
    BY <2>2 DEF Fields
  <2>4. DOMAIN d.buffer = DOMAIN w.buffer
    BY <2>2
  <2>5. OnScreen(d)
    BY <2>2, <2>3, <2>4 DEF OnScreen
  <2>6. \A k \in DOMAIN w.buffer : k # CursorOffset(w) => d.buffer[k] = w.buffer[k]
    BY <2>2
  <2>7. DOMAIN w.buffer = 0 .. w.width * w.height - 1
    BY DEF OnScreen
  <2> QED BY <1>2, <2>1, <2>2, <2>5, <2>6, <2>7
<1> QED BY <1>1, <1>2

(* A place inside a window is one cell of its buffer. *)
LEMMA PlaceInBuffer ==
  ASSUME NEW w, OnScreen(w), NEW a, NEW b,
         <<a, b>> \in ColumnsOf(w) \X LinesOf(w)
  PROVE  /\ Offset(w, <<a, b>>) \in 0 .. w.width * w.height - 1
         /\ Offset(w, <<a, b>>) = CursorOffset(w) <=>
              <<w.x + w.cursor_x, w.y + w.cursor_y>> = <<a, b>>
<1>1. PICK W \in Nat \ {0}, H \in Nat \ {0} : W = w.width /\ H = w.height
  BY DEF OnScreen
<1>2. PICK x \in 0 .. W - 1, y \in 0 .. H - 1 : x = w.cursor_x /\ y = w.cursor_y
  BY <1>1 DEF OnScreen
<1>3. PICK u \in Int, v \in Int : u = w.x /\ v = w.y
  BY DEF OnScreen
<1>4. a \in u .. u + W - 1 /\ b \in v .. v + H - 1
  BY <1>1, <1>3 DEF ColumnsOf, LinesOf
<1>5. PICK c \in 0 .. W - 1, r \in 0 .. H - 1 : c = a - u /\ r = b - v
  BY <1>4
<1>6. /\ c + r * W \in 0 .. W * H - 1
      /\ \A p \in 0 .. W - 1, q \in 0 .. H - 1 :
           /\ c + r * W = p + q * W <=> (c = p /\ r = q)
           /\ c + r * W > p + q * W <=> (r > q \/ (r = q /\ c > p))
  BY OffsetsIn
<1>7. Offset(w, <<a, b>>) = c + r * W /\ CursorOffset(w) = x + y * W
  BY <1>1, <1>2, <1>3, <1>5 DEF Offset, CursorOffset
<1>8. (c = x /\ r = y) <=> (u + x = a /\ v + y = b)
  BY <1>3, <1>4, <1>5
<1>9. <<w.x + w.cursor_x, w.y + w.cursor_y>> = <<a, b>> <=> (u + x = a /\ v + y = b)
  BY <1>2, <1>3
<1> QED BY <1>1, <1>2, <1>6, <1>7, <1>8, <1>9

(* What draw_window pokes is what has to be seen of the window. *)
LEMMA ImageShows ==
  ASSUME NEW w, OnScreen(w), NEW is_top, NEW c \in Cells
  PROVE  /\ c \in DOMAIN draw_window(w, is_top) <=> Covers(w, c)
         /\ Covers(w, c) => draw_window(w, is_top)[c] = Shows(Drawn(w), is_top, c)
         /\ Covers(Drawn(w), c) <=> Covers(w, c)
<1>1. PICK a, b : c = <<a, b>>
  BY DEF Cells
<1>2. PICK d : d = Drawn(w)
  OBVIOUS
<1>3. /\ OnScreen(d) /\ \A f \in Fields \ {"buffer"} : d[f] = w[f]
      /\ \A k \in 0 .. w.width * w.height - 1 :
           k # CursorOffset(w) \/ w.cursor_char = Empty => d.buffer[k] = w.buffer[k]
  BY <1>2, DrawnOnScreen
<1>4. /\ d.x = w.x /\ d.y = w.y /\ d.width = w.width /\ d.height = w.height
      /\ d.cursor_x = w.cursor_x /\ d.cursor_y = w.cursor_y /\ d.cursor_char = w.cursor_char
  BY <1>3 DEF Fields
<1>5. PICK L, R, T, B : L = LeftOf(w) /\ R = RightOf(w) /\ T = TopOf(w) /\ B = BottomOf(w)
  OBVIOUS
<1>6. /\ L = LeftOf(d) /\ R = RightOf(d) /\ T = TopOf(d) /\ B = BottomOf(d)
      /\ Offset(d, c) = Offset(w, c)
  BY <1>4, <1>5 DEF LeftOf, RightOf, TopOf, BottomOf, Offset
<1>7. /\ L \in Int /\ R \in Int /\ T \in Int /\ B \in Int /\ L + 1 < R /\ T + 1 < B
      /\ ColumnsOf(w) = L + 1 .. R - 1 /\ LinesOf(w) = T + 1 .. B - 1
  <2>1. PICK W \in Nat \ {0}, H \in Nat \ {0}, u \in Int, v \in Int :
          W = w.width /\ H = w.height /\ u = w.x /\ v = w.y
    BY DEF OnScreen
  <2>2. L = u - 1 /\ R = u + W /\ T = v - 1 /\ B = v + H
    BY <1>5, <2>1, Zenon DEF LeftOf, RightOf, TopOf, BottomOf
  <2>3. ColumnsOf(w) = u .. u + W - 1 /\ LinesOf(w) = v .. v + H - 1
    BY <2>1, Zenon DEF ColumnsOf, LinesOf
  <2>4. L + 1 = u /\ R - 1 = u + W - 1 /\ T + 1 = v /\ B - 1 = v + H - 1
    BY <2>2
  <2> QED BY <2>2, <2>3, <2>4
<1>8. /\ Covers(w, c) <=> a \in L .. R /\ b \in T .. B
      /\ Covers(d, c) <=> a \in L .. R /\ b \in T .. B
  BY <1>1, <1>5, <1>6 DEF Covers
<1> DEFINE side == a \in {L, R}
           edge == b \in {T, B}
           D1 == {L, R} \X {T, B}
           D2 == ColumnsOf(w) \X {T, B}
           D3 == {L, R} \X LinesOf(w)
           D4 == ColumnsOf(w) \X LinesOf(w)
           content == draw_window_content(w)
<1>9. /\ c \in D1 <=> side /\ edge
      /\ c \in D2 <=> (a \in L + 1 .. R - 1 /\ edge)
      /\ c \in D3 <=> (side /\ b \in T + 1 .. B - 1)
      /\ c \in D4 <=> (a \in L + 1 .. R - 1 /\ b \in T + 1 .. B - 1)
  <2>1. \A M, N : c \in M \X N <=> a \in M /\ b \in N
    BY <1>1
  <2> HIDE DEF side, edge
  <2>2. /\ c \in D1 <=> a \in {L, R} /\ b \in {T, B}
        /\ c \in D2 <=> a \in ColumnsOf(w) /\ b \in {T, B}
        /\ c \in D3 <=> a \in {L, R} /\ b \in LinesOf(w)
        /\ c \in D4 <=> a \in ColumnsOf(w) /\ b \in LinesOf(w)
    BY <2>1, Zenon
  <2> HIDE DEF D1, D2, D3, D4
  <2> QED BY <1>7, <2>2, Zenon DEF side, edge
<1>10. /\ DOMAIN draw_window(w, is_top) = ((D1 \cup D2) \cup D3) \cup D4
       /\ \A q \in ((D1 \cup D2) \cup D3) \cup D4 :
            draw_window(w, is_top)[q] =
              IF q \in D1 THEN Frame("corner", is_top)
              ELSE IF q \in D2 THEN Frame("horizontal", is_top)
              ELSE IF q \in D3 THEN Frame("vertical", is_top)
              ELSE content[q]
  <2> DEFINE F1 == [q \in D1 |-> Frame("corner", is_top)]
             F2 == [q \in D2 |-> Frame("horizontal", is_top)]
             F3 == [q \in D3 |-> Frame("vertical", is_top)]
  <2>1. draw_window(w, is_top) = Beside(Beside(Beside(F1, F2), F3), content)
    BY <1>5, Zenon DEF draw_window, draw_window_frame
  <2>2. DOMAIN content = D4
    BY DEF draw_window_content
  <2> HIDE DEF content, D1, D2, D3, D4
  <2>3. /\ DOMAIN Beside(F1, F2) = D1 \cup D2
        /\ \A q \in D1 \cup D2 : Beside(F1, F2)[q] = IF q \in D1 THEN Frame("corner", is_top)
                                                 ELSE Frame("horizontal", is_top)
    <3>1. PICK f, g : f = F1 /\ g = F2
      OBVIOUS
    <3>2. /\ DOMAIN f = D1 /\ \A q \in D1 : f[q] = Frame("corner", is_top)
          /\ DOMAIN g = D2 /\ \A q \in D2 : g[q] = Frame("horizontal", is_top)
      BY <3>1
    <3>3. /\ DOMAIN Beside(f, g) = D1 \cup D2
          /\ \A q \in D1 \cup D2 : Beside(f, g)[q] = IF q \in D1 THEN f[q] ELSE g[q]
      BY <3>2 DEF Beside
    <3>4. \A q \in D1 \cup D2 : Beside(f, g)[q] = IF q \in D1 THEN Frame("corner", is_top)
                                               ELSE Frame("horizontal", is_top)
      BY <3>2, <3>3, Zenon
    <3> QED BY <3>1, <3>3, <3>4, Zenon
  <2>4. PICK f12 : f12 = Beside(F1, F2)
    OBVIOUS
  <2>5. /\ DOMAIN Beside(f12, F3) = (D1 \cup D2) \cup D3
        /\ \A q \in (D1 \cup D2) \cup D3 :
             Beside(f12, F3)[q] = IF q \in D1 THEN Frame("corner", is_top)
                              ELSE IF q \in D2 THEN Frame("horizontal", is_top)
                              ELSE Frame("vertical", is_top)
    BY <2>3, <2>4 DEF Beside
  <2>6. PICK f123 : f123 = Beside(f12, F3)
    OBVIOUS
  <2>7. /\ DOMAIN Beside(f123, content) = ((D1 \cup D2) \cup D3) \cup D4
        /\ \A q \in ((D1 \cup D2) \cup D3) \cup D4 :
             Beside(f123, content)[q] = IF q \in D1 THEN Frame("corner", is_top)
                              ELSE IF q \in D2 THEN Frame("horizontal", is_top)
                              ELSE IF q \in D3 THEN Frame("vertical", is_top)
                              ELSE content[q]
    BY <2>2, <2>5, <2>6 DEF Beside
  <2> QED BY <2>1, <2>4, <2>6, <2>7, Zenon
<1>11. c \in D4 => content[c] = IF <<d.x + d.cursor_x, d.y + d.cursor_y>> = c /\ d.cursor_char # Empty
                                THEN d.cursor_char ELSE d.buffer[Offset(d, c)]
  <2> SUFFICES ASSUME c \in D4
               PROVE content[c] =
                       IF <<d.x + d.cursor_x, d.y + d.cursor_y>> = c /\ d.cursor_char # Empty
                       THEN d.cursor_char ELSE d.buffer[Offset(d, c)]
    OBVIOUS
  <2>1. content[c] = IF Offset(w, c) = CursorOffset(w) /\ w.cursor_char # Empty THEN w.cursor_char
                     ELSE w.buffer[Offset(w, c)]
    BY DEF draw_window_content
  <2>2. /\ Offset(w, c) \in 0 .. w.width * w.height - 1
        /\ Offset(w, c) = CursorOffset(w) <=> <<w.x + w.cursor_x, w.y + w.cursor_y>> = c
    BY <1>1, PlaceInBuffer
  <2> HIDE DEF content, D4
  <2>3. <<d.x + d.cursor_x, d.y + d.cursor_y>> = <<w.x + w.cursor_x, w.y + w.cursor_y>>
    BY <1>4
  <2>4. ~(Offset(w, c) = CursorOffset(w) /\ w.cursor_char # Empty)
        => d.buffer[Offset(w, c)] = w.buffer[Offset(w, c)]
    BY <1>3, <2>2, Zenon
  <2> QED BY <1>4, <1>6, <2>1, <2>2, <2>3, <2>4, Zenon
<1> HIDE DEF D1, D2, D3, D4, content
<1>12. c \in ((D1 \cup D2) \cup D3) \cup D4 <=> a \in L .. R /\ b \in T .. B
  BY <1>7, <1>9
<1>13. ASSUME a \in L .. R, b \in T .. B
       PROVE draw_window(w, is_top)[c] = Shows(d, is_top, c)
  <2>1. c[1] = a /\ c[2] = b
    BY <1>1
  <2>2. side \/ a \in L + 1 .. R - 1
    BY <1>7, <1>13
  <2>3. edge \/ b \in T + 1 .. B - 1
    BY <1>7, <1>13
  <2>4. /\ side => a \notin L + 1 .. R - 1
        /\ edge => b \notin T + 1 .. B - 1
    BY <1>7
  <2> DEFINE inner == IF <<d.x + d.cursor_x, d.y + d.cursor_y>> = c /\ d.cursor_char # Empty
                      THEN d.cursor_char ELSE d.buffer[Offset(d, c)]
  <2>5. /\ side /\ edge => Shows(d, is_top, c) = Frame("corner", is_top)
        /\ side /\ ~edge => Shows(d, is_top, c) = Frame("vertical", is_top)
        /\ ~side /\ edge => Shows(d, is_top, c) = Frame("horizontal", is_top)
        /\ ~side /\ ~edge => Shows(d, is_top, c) = inner
    BY <1>6, <2>1 DEF Shows
  <2> HIDE DEF inner, side, edge
  <2>6. draw_window(w, is_top)[c] =
              IF c \in D1 THEN Frame("corner", is_top)
              ELSE IF c \in D2 THEN Frame("horizontal", is_top)
              ELSE IF c \in D3 THEN Frame("vertical", is_top)
              ELSE content[c]
    BY <1>10, <1>12, <1>13
  <2>7. c \in D4 => content[c] = inner
    BY <1>11 DEF inner
  <2> QED BY <1>9, <2>2, <2>3, <2>4, <2>5, <2>6, <2>7, Zenon
<1> QED BY <1>2, <1>8, <1>10, <1>12, <1>13

(* ScreenIsCurrent for any windows and any screen. *)
UppermostIn(list, c) == CHOOSE i \in DOMAIN list :
                          Covers(list[i], c)
                          /\ \A j \in i + 1 .. Len(list) : ~Covers(list[j], c)
ShowsTop(list, c) ==
  IF \E i \in DOMAIN list : Covers(list[i], c)
  THEN Shows(list[UppermostIn(list, c)], UppermostIn(list, c) = Len(list), c)
  ELSE Empty
IsCurrent(list, scr) == \A c \in Cells : scr[c] = ShowsTop(list, c)

LEMMA CurrentAlike ==
  /\ ScreenIsCurrent <=> (Idle => IsCurrent(wnds, screen_buffer))
  /\ ScreenIsCurrent' <=> (Idle' => IsCurrent(wnds', screen_buffer'))
BY Zenon DEF ScreenIsCurrent, IsCurrent, ShowsTop, UppermostIn, Uppermost

(* wm.c:176-187: what has been drawn is up to date. *)
LEMMA RedrawnIsCurrent ==
  ASSUME NEW list, AreOnScreen(list), redraw_screen(list)
  PROVE  AreOnScreen(wnds') /\ IsCurrent(wnds', screen_buffer')
<1> DEFINE n == Len(list)
           L == [j \in 1 .. n |-> Drawn(list[j])]
<1>1. n \in Nat /\ DOMAIN list = 1 .. n /\ IsList(list)
  BY DEF AreOnScreen, IsList
<1>2. wnds' = L
  BY <1>1 DEF redraw_screen
<1>3. DOMAIN L = 1 .. n /\ Len(L) = n /\ \A j \in 1 .. n : L[j] = Drawn(list[j])
  BY <1>1
<1> HIDE DEF L
<1>4. \A j \in 1 .. n : OnScreen(L[j])
  BY <1>3, DrawnOnScreen DEF AreOnScreen
<1>5. L = [j \in 1 .. n |-> L[j]]
  BY <1>3 DEF L
<1>6. AreOnScreen(L)
  BY <1>1, <1>3, <1>4, <1>5 DEF AreOnScreen, IsList
<1>7. screen_buffer' = Painted(list, 1 .. n)
  BY <1>1, RedrawnScreen
<1> HIDE DEF n
<1>8. ASSUME NEW c \in Cells PROVE Painted(list, 1 .. n)[c] = ShowsTop(L, c)
  <2> DEFINE t == {i \in 1 .. n : c \in DOMAIN Image(list, i)}
  <2>1. Painted(list, 1 .. n)[c] = IF t = {} THEN Empty ELSE Image(list, Max(t))[c]
    BY DEF Painted
  <2>2. ASSUME NEW i \in 1 .. n
        PROVE /\ i \in t <=> Covers(L[i], c)
              /\ Covers(L[i], c) => Image(list, i)[c] = Shows(L[i], i = n, c)
    <3>1. PICK w, is_top : w = list[i] /\ is_top = (i = n)
      OBVIOUS
    <3>2. OnScreen(w) /\ L[i] = Drawn(w)
      BY <1>3, <3>1 DEF AreOnScreen, n
    <3>3. /\ c \in DOMAIN draw_window(w, is_top) <=> Covers(w, c)
          /\ Covers(w, c) => draw_window(w, is_top)[c] = Shows(Drawn(w), is_top, c)
          /\ Covers(Drawn(w), c) <=> Covers(w, c)
      BY <3>2, ImageShows
    <3>4. Image(list, i) = draw_window(w, is_top)
      BY <3>1, Zenon DEF Image, n
    <3>5. i \in t <=> c \in DOMAIN draw_window(w, is_top)
      BY <3>4
    <3> HIDE DEF t
    <3> QED BY <3>1, <3>2, <3>3, <3>4, <3>5, Zenon
  <2>3. t \in SUBSET (1 .. n)
    OBVIOUS
  <2> HIDE DEF t
  <2>4. CASE t = {}
    <3>1. ~ \E i \in DOMAIN L : Covers(L[i], c)
      BY <1>3, <2>2, <2>4
    <3> QED BY <2>1, <2>4, <3>1 DEF ShowsTop
  <2>5. CASE t # {}
    <3>1. n \in Nat
      BY <1>1
    <3>2. PICK m : m = Max(t)
      OBVIOUS
    <3>3. m \in t /\ \A i \in t : i <= m
      BY <2>3, <2>5, <3>1, <3>2, Greatest
    <3>4. m \in 1 .. n /\ Covers(L[m], c)
      BY <2>2, <2>3, <3>3
    <3> DEFINE Up(i) == Covers(L[i], c) /\ \A j \in i + 1 .. n : ~Covers(L[j], c)
    <3>5. Up(m)
      <4> SUFFICES ASSUME NEW j \in m + 1 .. n, Covers(L[j], c) PROVE FALSE
        BY <3>4
      <4>1. j \in 1 .. n /\ m < j /\ j \in Nat /\ m \in Nat
        BY <3>1, <3>4
      <4>2. j \in t
        BY <2>2, <4>1
      <4> QED BY <3>3, <4>1, <4>2
    <3>6. ASSUME NEW i \in 1 .. n, Up(i) PROVE i = m
      <4>1. i <= m
        BY <2>2, <3>3, <3>6
      <4>2. ~(m \in i + 1 .. n)
        BY <3>4, <3>6
      <4> QED BY <3>1, <3>4, <4>1, <4>2
    <3>7. UppermostIn(L, c) = CHOOSE i \in 1 .. n : Up(i)
      BY <1>3 DEF UppermostIn
    <3> HIDE DEF Up
    <3>8. UppermostIn(L, c) = m
      BY <3>4, <3>5, <3>6, <3>7
    <3>9. ShowsTop(L, c) = Shows(L[m], m = n, c)
      BY <1>3, <3>4, <3>8, Zenon DEF ShowsTop
    <3> QED BY <2>1, <2>2, <2>5, <3>2, <3>4, <3>9, Zenon
  <2> QED BY <2>4, <2>5
<1> QED BY <1>2, <1>6, <1>7, <1>8, Zenon DEF IsCurrent

LEMMA MovedOnScreen ==
  ASSUME NEW w, OnScreen(w), NEW a \in 0 .. w.width - 1, NEW b \in 0 .. w.height - 1
  PROVE  OnScreen(MoveTo(w, a, b))
<1> DEFINE m == MoveTo(w, a, b)
<1>1. Shaped(w)
  BY DEF OnScreen
<1>2. /\ Shaped(m) /\ m.cursor_x = a /\ m.cursor_y = b
      /\ \A f \in Fields \ {"cursor_x", "cursor_y"} : m[f] = w[f]
  BY <1>1, MovedFields
<1> HIDE DEF m
<1>3. /\ m.x = w.x /\ m.y = w.y /\ m.width = w.width /\ m.height = w.height
      /\ m.buffer = w.buffer
  BY <1>2 DEF Fields
<1>4. OnScreen(m)
  BY <1>2, <1>3, Zenon DEF OnScreen
<1> QED BY <1>4 DEF m

(* A window in which a character is written and the cursor set; its row    *)
(* may be the one below the last.                                          *)
LEMMA PrintedOnScreen ==
  ASSUME NEW w, OnScreen(w), NEW ch
  PROVE  OnScreen(wm_print_char(w, ch))
<1>1. PICK W \in Nat \ {0}, H \in Nat \ {0} : W = w.width /\ H = w.height
  BY DEF OnScreen
<1>2. PICK x \in 0 .. W - 1, y \in 0 .. H - 1 : x = w.cursor_x /\ y = w.cursor_y
  BY <1>1 DEF OnScreen
<1> DEFINE Fit(u) == /\ Shaped(u) /\ u.x \in Int /\ u.y \in Int
                     /\ u.width = W /\ u.height = H
                     /\ DOMAIN u.buffer = 0 .. W * H - 1
           Goal(u) == /\ Fit(u) /\ u.cursor_x \in 0 .. W - 1
                      /\ u.cursor_y \in 0 .. H
<1>3. Fit(w) /\ W * H \in Nat
  BY <1>1 DEF OnScreen
<1>4. ASSUME NEW u, Fit(u), NEW a, NEW b
      PROVE Fit(MoveTo(u, a, b)) /\ MoveTo(u, a, b).cursor_x = a /\ MoveTo(u, a, b).cursor_y = b
  <2> DEFINE m == MoveTo(u, a, b)
  <2>1. Shaped(u)
    BY <1>4
  <2>2. /\ Shaped(m) /\ m.cursor_x = a /\ m.cursor_y = b
        /\ \A f \in Fields \ {"cursor_x", "cursor_y"} : m[f] = u[f]
    BY <2>1, MovedFields
  <2> HIDE DEF m
  <2>3. /\ m.x = u.x /\ m.y = u.y /\ m.width = u.width /\ m.height = u.height
        /\ m.buffer = u.buffer
    BY <2>2 DEF Fields
  <2>4. Fit(m)
    BY <1>4, <2>2, <2>3, Zenon
  <2> QED BY <2>2, <2>4 DEF m
<1>5. Fit(PutChar(w, Empty)) /\ Fit(PutChar(w, ch))
  <2> SUFFICES ASSUME NEW c PROVE Fit(PutChar(w, c))
    OBVIOUS
  <2>1. PICK k : k = CursorOffset(w)
    OBVIOUS
  <2> DEFINE m == [w EXCEPT !.buffer[k] = c]
  <2>2. PutChar(w, c) = m
    BY <2>1, Zenon DEF PutChar
  <2>3. Shaped(w)
    BY <1>3
  <2>4. /\ Shaped(m) /\ m.buffer = [w.buffer EXCEPT ![k] = c]
        /\ m.x = w.x /\ m.y = w.y /\ m.width = w.width /\ m.height = w.height
    BY <2>3 DEF Shaped, Fields
  <2> HIDE DEF m
  <2>5. DOMAIN m.buffer = DOMAIN w.buffer
    BY <2>4
  <2>6. Fit(m)
    BY <1>3, <2>4, <2>5, Zenon
  <2> QED BY <2>2, <2>6, Zenon
<1>6. ASSUME NEW u, Fit(u) PROVE Fit(scroll_wm(u)) /\ scroll_wm(u).cursor_x = u.cursor_x
                                /\ scroll_wm(u).cursor_y = u.cursor_y
  <2>1. PICK B : DOMAIN B = DOMAIN u.buffer /\ scroll_wm(u) = [u EXCEPT !.buffer = B]
    BY DEF scroll_wm
  <2> QED BY <1>6, <2>1 DEF Shaped, Fields
<1> HIDE DEF Fit
<1>7. Goal(newline(w))
  <2>1. 0 \in 0 .. W - 1 /\ y + 1 \in 0 .. H
    OBVIOUS
  <2>2. PICK b : b = y + 1
    OBVIOUS
  <2>3. newline(w) = MoveTo(w, 0, b)
    BY <1>2, <2>2 DEF newline
  <2>4. Fit(MoveTo(w, 0, b)) /\ MoveTo(w, 0, b).cursor_x = 0 /\ MoveTo(w, 0, b).cursor_y = b
    BY <1>3, <1>4
  <2> QED BY <2>1, <2>2, <2>3, <2>4
<1>8. Goal(backspace(w))
  <2>1. PICK e : e = PutChar(w, Empty)
    OBVIOUS
  <2>2. Fit(e) /\ backspace(w) = IF x > 0 THEN MoveTo(e, x - 1, y)
                                 ELSE IF y = 0 THEN MoveTo(e, 0, 0)
                                 ELSE MoveTo(e, W - 1, y - 1)
    BY <1>1, <1>2, <1>5, <2>1 DEF backspace
  <2>3. /\ 0 \in 0 .. W - 1 /\ W - 1 \in 0 .. W - 1 /\ x > 0 => x - 1 \in 0 .. W - 1
        /\ 0 \in 0 .. H /\ y \in 0 .. H /\ y # 0 => y - 1 \in 0 .. H
    OBVIOUS
  <2> QED BY <1>4, <2>2, <2>3
<1>9. Goal(ordinary(w, ch))
  <2>1. PICK e : e = PutChar(w, ch)
    OBVIOUS
  <2>2. Fit(e) /\ ordinary(w, ch) = IF x + 1 = W THEN MoveTo(e, 0, y + 1) ELSE MoveTo(e, x + 1, y)
    BY <1>1, <1>2, <1>5, <2>1 DEF ordinary
  <2>3. /\ 0 \in 0 .. W - 1 /\ x + 1 # W => x + 1 \in 0 .. W - 1
        /\ y \in 0 .. H /\ y + 1 \in 0 .. H
    OBVIOUS
  <2> QED BY <1>4, <2>2, <2>3
<1>10. PICK p : p = IF ch = NL THEN newline(w) ELSE IF ch = BS THEN backspace(w) ELSE ordinary(w, ch)
  OBVIOUS
<1>11. Goal(p)
  BY <1>7, <1>8, <1>9, <1>10
<1>12. wm_print_char(w, ch) = IF p.cursor_y = p.height THEN scroll_wm(MoveTo(p, p.cursor_x, p.cursor_y - 1))
                             ELSE p
  BY <1>10, Zenon DEF wm_print_char
<1>13. p.height = H
  BY <1>11 DEF Fit
<1>14. ASSUME NEW u, Fit(u), u.cursor_x \in 0 .. W - 1, u.cursor_y \in 0 .. H - 1
       PROVE OnScreen(u)
  BY <1>14 DEF Fit, OnScreen
<1>15. CASE p.cursor_y # H
  <2>1. p.cursor_y \in 0 .. H - 1
    BY <1>11, <1>15
  <2> QED BY <1>11, <1>12, <1>13, <1>14, <1>15, <2>1
<1>16. CASE p.cursor_y = H
  <2>1. PICK m : m = MoveTo(p, p.cursor_x, p.cursor_y - 1)
    OBVIOUS
  <2>2. Fit(m) /\ m.cursor_x = p.cursor_x /\ m.cursor_y = H - 1
    BY <1>4, <1>11, <1>16, <2>1
  <2>3. H - 1 \in 0 .. H - 1
    OBVIOUS
  <2>4. Fit(scroll_wm(m)) /\ scroll_wm(m).cursor_x \in 0 .. W - 1
        /\ scroll_wm(m).cursor_y \in 0 .. H - 1
    BY <1>6, <1>11, <2>2, <2>3
  <2>5. OnScreen(scroll_wm(m))
    BY <1>14, <2>4
  <2> QED BY <1>12, <1>13, <1>16, <2>1, <2>5
<1> QED BY <1>15, <1>16

(* One window is changed. *)
LEMMA OneChanged ==
  ASSUME NEW list, AreOnScreen(list), NEW k \in DOMAIN list, NEW u, OnScreen(u)
  PROVE  AreOnScreen([list EXCEPT ![k] = u])
<1> DEFINE L == [list EXCEPT ![k] = u]
           n == Len(list)
<1>1. n \in Nat /\ list = [j \in 1 .. n |-> list[j]] /\ DOMAIN list = 1 .. n
  BY DEF AreOnScreen, IsList
<1>2. L = [j \in 1 .. n |-> IF j = k THEN u ELSE list[j]]
  BY <1>1
<1>3. Len(L) = n /\ \A j \in 1 .. n : L[j] = IF j = k THEN u ELSE list[j]
  BY <1>1, <1>2
<1> HIDE DEF L
<1>4. \A j \in 1 .. n : OnScreen(L[j])
  BY <1>3 DEF AreOnScreen
<1>5. L = [j \in 1 .. n |-> L[j]]
  BY <1>2, <1>3
<1>6. AreOnScreen(L)
  BY <1>1, <1>3, <1>4, <1>5 DEF AreOnScreen, IsList
<1> QED BY <1>6 DEF L

LEMMA NewOnScreen ==
  ASSUME NEW n \in 1 .. Len(NewWindows) PROVE OnScreen(new_window(n))
<1> DEFINE S == [x : Int, y : Int, width : Nat \ {0}, height : Nat \ {0}]
           N == new_window(n)
<1>1. NewWindows \in Seq(S)
  BY WmScreenAssumption
<1> HIDE DEF S
<1>2. NewWindows[n] \in S
  BY <1>1
<1>3. PICK w : w = NewWindows[n]
  OBVIOUS
<1>4. w.x \in Int /\ w.y \in Int /\ w.width \in Nat \ {0} /\ w.height \in Nat \ {0}
  BY <1>2, <1>3 DEF S
<1>5. /\ N.x = w.x /\ N.y = w.y /\ N.width = w.width /\ N.height = w.height
      /\ N.cursor_x = 0 /\ N.cursor_y = 0
      /\ N.buffer = [k \in 0 .. w.width * w.height - 1 |-> Empty]
  BY <1>3 DEF new_window
<1>6. Shaped(N)
  BY DEF new_window, Shaped, Fields
<1> HIDE DEF N
<1>7. 0 \in 0 .. w.width - 1 /\ 0 \in 0 .. w.height - 1
  BY <1>4
<1>8. DOMAIN N.buffer = 0 .. w.width * w.height - 1
  BY <1>5
<1>9. OnScreen(N)
  BY <1>4, <1>5, <1>6, <1>7, <1>8, Zenon DEF OnScreen
<1> QED BY <1>9 DEF N

LEMMA RestIsNotEmpty ==
  ASSUME NEW str, IsList(str), Len(str) > 1 PROVE Tail(str) # <<>>
<1> DEFINE S == {str[k] : k \in 1 .. Len(str)}
<1>1. str \in Seq(S)
  BY DEF IsList
<1> HIDE DEF S
<1>2. Len(str) \in Nat /\ str # <<>>
  BY <1>1
<1>3. Len(Tail(str)) = Len(str) - 1
  BY <1>1, <1>2
<1>4. PICK n : n = Len(str)
  OBVIOUS
<1>5. n - 1 # 0
  BY <1>2, <1>4
<1>6. Len(<<>>) = 0
  OBVIOUS
<1> QED BY <1>3, <1>4, <1>5, <1>6, Zenon

ScreenInv == AreOnScreen(wnds) /\ ScreenIsCurrent

(* wm.c: wm_create_impl and WM_ACTION_CHANGE_FOCUS. *)
LEMMA CreatedOnScreen ==
  ASSUME AreOnScreen(wnds), wm_create_impl_drawn PROVE ScreenInv'
<1>1. PICK list, N : list = wnds /\ N = new_window(Len(list) + 1)
  OBVIOUS
<1>2. IsList(list) /\ Len(list) \in Nat /\ \A i \in 1 .. Len(list) : OnScreen(list[i])
  BY <1>1 DEF AreOnScreen, IsList
<1>3. redraw_screen(Append(list, N)) /\ Len(list) < Len(NewWindows)
  BY <1>1 DEF wm_create_impl_drawn
<1>4. OnScreen(N)
  <2>1. PICK n : n = Len(list) + 1
    OBVIOUS
  <2>2. n \in 1 .. Len(NewWindows)
    <3> DEFINE S == [x : Int, y : Int, width : Nat \ {0}, height : Nat \ {0}]
    <3>1. NewWindows \in Seq(S)
      BY WmScreenAssumption
    <3> HIDE DEF S
    <3>2. Len(NewWindows) \in Nat
      BY <3>1
    <3>3. PICK m : m = Len(list)
      OBVIOUS
    <3>4. m \in Nat /\ m < Len(NewWindows)
      BY <1>2, <1>3, <3>3
    <3>5. m + 1 \in 1 .. Len(NewWindows)
      BY ONLY <3>2, <3>4
    <3> QED BY <2>1, <3>3, <3>5
  <2> QED BY <1>1, <2>1, <2>2, NewOnScreen
<1>5. PICK L : L = Append(list, N)
  OBVIOUS
<1>6. /\ IsList(L) /\ Len(L) = Len(list) + 1
      /\ \A j \in 1 .. Len(list) : L[j] = list[j]
      /\ L[Len(list) + 1] = N
  BY <1>2, <1>5, AppendedList
<1>7. AreOnScreen(L)
  <2> SUFFICES ASSUME NEW i \in 1 .. Len(list) + 1 PROVE OnScreen(L[i])
    BY <1>6 DEF AreOnScreen
  <2>1. i = Len(list) + 1 \/ i \in 1 .. Len(list)
    BY <1>2
  <2> QED BY <1>2, <1>4, <1>6, <2>1
<1> QED BY <1>3, <1>5, <1>7, RedrawnIsCurrent, CurrentAlike DEF ScreenInv

LEMMA FocusOnScreen ==
  ASSUME AreOnScreen(wnds), wm_change_focus_drawn PROVE ScreenInv'
<1>1. PICK list, L : list = wnds /\ L = Append(Tail(list), Head(list))
  OBVIOUS
<1>2. IsList(list) /\ Len(list) \in Nat /\ \A i \in 1 .. Len(list) : OnScreen(list[i])
  BY <1>1 DEF AreOnScreen, IsList
<1>3. redraw_screen(L) /\ list # <<>>
  BY <1>1 DEF wm_change_focus_drawn
<1>4. /\ IsList(L) /\ Len(L) = Len(list) /\ Len(list) \in Nat \ {0}
      /\ \A j \in 1 .. Len(list) : L[j] = IF j = Len(list) THEN list[1] ELSE list[j + 1]
  BY <1>1, <1>2, <1>3, RotatedList
<1>5. AreOnScreen(L)
  <2> SUFFICES ASSUME NEW i \in 1 .. Len(list) PROVE OnScreen(L[i])
    BY <1>4 DEF AreOnScreen
  <2>1. 1 \in 1 .. Len(list) /\ (i # Len(list) => i + 1 \in 1 .. Len(list))
    BY <1>4
  <2> QED BY <1>2, <1>4, <2>1
<1> QED BY <1>3, <1>5, RedrawnIsCurrent, CurrentAlike DEF ScreenInv

(* WM_ACTION_CLEAR, WM_ACTION_SET_CURSOR, WM_ACTION_MOVE_... *)
LEMMA ControlOnScreen ==
  ASSUME AreOnScreen(wnds), NEW k \in DOMAIN wnds,
         \/ clear(k)
         \/ set_cursor(k)
         \/ \E d \in {-1, 1} : move(k, d, 0) \/ move(k, 0, d)
  PROVE  ScreenInv'
<1>1. PICK list, w : list = wnds /\ w = list[k]
  OBVIOUS
<1>2. k \in DOMAIN list /\ AreOnScreen(list) /\ OnScreen(w)
  BY <1>1 DEF AreOnScreen, IsList
<1>3. Shaped(w) /\ 0 \in 0 .. w.width - 1 /\ 0 \in 0 .. w.height - 1
  BY <1>2 DEF OnScreen
<1>4. OnScreen(MoveTo(w, 0, 0))
  BY <1>2, <1>3, MovedOnScreen
<1>5. PICK m : m = MoveTo(w, 0, 0)
  OBVIOUS
<1>6. Shaped(m) /\ OnScreen(m)
  BY <1>4, <1>5 DEF OnScreen
<1>7. ASSUME NEW u, OnScreen(u), redraw_screen([list EXCEPT ![k] = u]) PROVE ScreenInv'
  <2>1. AreOnScreen([list EXCEPT ![k] = u])
    BY <1>2, <1>7, OneChanged
  <2>2. PICK L : L = [list EXCEPT ![k] = u]
    OBVIOUS
  <2> QED BY <1>7, <2>1, <2>2, RedrawnIsCurrent, CurrentAlike DEF ScreenInv
<1>8. CASE clear(k)
  <2>1. PICK B : DOMAIN B = DOMAIN m.buffer /\ B = [q \in DOMAIN m.buffer |-> Empty]
    OBVIOUS
  <2> DEFINE u == [m EXCEPT !.buffer = B]
  <2>2. redraw_screen([list EXCEPT ![k] = u])
    BY <1>1, <1>5, <1>8, <2>1, Zenon DEF clear, Control
  <2>3. /\ Shaped(u) /\ u.x = m.x /\ u.y = m.y /\ u.width = m.width /\ u.height = m.height
        /\ u.cursor_x = m.cursor_x /\ u.cursor_y = m.cursor_y /\ u.buffer = B
    BY <1>6 DEF Shaped, Fields
  <2> HIDE DEF u
  <2>4. DOMAIN u.buffer = DOMAIN m.buffer
    BY <2>1, <2>3
  <2>5. OnScreen(u)
    BY <1>6, <2>3, <2>4, Zenon DEF OnScreen
  <2> QED BY <1>7, <2>2, <2>5
<1>9. CASE set_cursor(k)
  <2> DEFINE u == [m EXCEPT !.cursor_char = Empty]
  <2>1. redraw_screen([list EXCEPT ![k] = u])
    BY <1>1, <1>5, <1>9, Zenon DEF set_cursor, Control
  <2>2. /\ Shaped(u) /\ u.x = m.x /\ u.y = m.y /\ u.width = m.width /\ u.height = m.height
        /\ u.cursor_x = m.cursor_x /\ u.cursor_y = m.cursor_y /\ u.buffer = m.buffer
    BY <1>6 DEF Shaped, Fields
  <2> HIDE DEF u
  <2>3. OnScreen(u)
    BY <1>6, <2>2, Zenon DEF OnScreen
  <2> QED BY <1>7, <2>1, <2>3
<1>10. ASSUME NEW dx \in Int, NEW dy \in Int, move(k, dx, dy) PROVE ScreenInv'
  <2>1. PICK a, b : a = w.x + dx /\ b = w.y + dy
    OBVIOUS
  <2> DEFINE u == [w EXCEPT !.x = a, !.y = b]
  <2>2. redraw_screen([list EXCEPT ![k] = u])
    BY <1>1, <1>10, <2>1 DEF move, Control
  <2>3. a \in Int /\ b \in Int
    BY <1>2, <2>1 DEF OnScreen
  <2>4. /\ Shaped(u) /\ u.x = a /\ u.y = b /\ u.width = w.width /\ u.height = w.height
        /\ u.cursor_x = w.cursor_x /\ u.cursor_y = w.cursor_y /\ u.buffer = w.buffer
    BY <1>3 DEF Shaped, Fields
  <2> HIDE DEF u
  <2>5. OnScreen(u)
    BY <1>2, <2>3, <2>4, Zenon DEF OnScreen
  <2> QED BY <1>7, <2>2, <2>5
<1> QED BY <1>8, <1>9, <1>10

(* wm.c: wm_print_impl.  Between the characters of a string the screen is  *)
(* not up to date.                                                         *)
LEMMA PrintOnScreen ==
  ASSUME AreOnScreen(wnds), PrintingInv, wm_print_impl PROVE ScreenInv'
<1>1. PICK list : list = wnds
  OBVIOUS
<1>2. AreOnScreen(list) /\ DOMAIN list = 1 .. Len(list)
  BY <1>1 DEF AreOnScreen, IsList
<1>3. CASE Idle
  <2>1. PICK i \in DOMAIN wnds, str \in Strings : printing' = [id |-> wnds[i].id, str |-> str]
    BY <1>3 DEF wm_print_impl
  <2>2. UNCHANGED wnds
    BY <1>3 DEF wm_print_impl
  <2>3. Len(str) # 0
    BY WmScreenAssumption
  <2>4. printing'.str = str /\ str # <<>>
    BY <2>1, <2>3
  <2>5. ~Idle'
    BY <2>4 DEF Idle, Nothing
  <2> QED BY <2>2, <2>5, CurrentAlike DEF ScreenInv
<1>4. CASE ~Idle
  <2>1. PICK id, rest : printing.id = id /\ printing.str = rest
    OBVIOUS
  <2>2. /\ printing = [id |-> id, str |-> rest]
        /\ IsList(rest) /\ rest # <<>>
        /\ \E i \in 1 .. Len(list) : list[i].id = id
    BY <1>1, <1>4, <2>1 DEF PrintingInv
  <2>3. PICK k \in 1 .. Len(list) : k = get_window_from_id(id)
    <3>1. get_window_from_id(id) = CHOOSE i \in 1 .. Len(list) : list[i].id = id
      BY <1>1, <1>2 DEF get_window_from_id
    <3> QED BY <2>2, <3>1
  <2>4. PICK v : v = wm_print_char(list[k], Head(rest))
    OBVIOUS
  <2>5. OnScreen(v)
    BY <1>2, <2>4, PrintedOnScreen DEF AreOnScreen
  <2>6. AreOnScreen([list EXCEPT ![k] = v])
    BY <1>2, <2>5, OneChanged
  <2>7. \/ /\ Len(rest) > 1
           /\ wnds' = [list EXCEPT ![k] = v]
           /\ printing' = [printing EXCEPT !.str = Tail(rest)]
        \/ redraw_screen([list EXCEPT ![k] = v])
    BY <1>1, <1>4, <2>1, <2>3, <2>4 DEF wm_print_impl
  <2>8. CASE /\ Len(rest) > 1
             /\ wnds' = [list EXCEPT ![k] = v]
             /\ printing' = [printing EXCEPT !.str = Tail(rest)]
    <3>1. printing'.str = Tail(rest)
      BY <2>2, <2>8
    <3>2. Tail(rest) # <<>>
      BY <2>2, <2>8, RestIsNotEmpty
    <3>3. ~Idle'
      BY <3>1, <3>2 DEF Idle, Nothing
    <3> QED BY <2>6, <2>8, <3>3, CurrentAlike DEF ScreenInv
  <2>9. CASE redraw_screen([list EXCEPT ![k] = v])
    <3>1. PICK L : L = [list EXCEPT ![k] = v]
      OBVIOUS
    <3> QED BY <2>6, <2>9, <3>1, RedrawnIsCurrent, CurrentAlike DEF ScreenInv
  <2> QED BY <2>7, <2>8, <2>9
<1> QED BY <1>3, <1>4

(* wm.c: whenever no message is being handled the screen shows, of each    *)
(* place, the uppermost window there with its frame, contents and cursor,  *)
(* for windows of every number and size, also beyond the screen, and       *)
(* strings of every length.                                                *)
THEOREM ScreenStaysCurrent == WmScreenSpec => []ScreenIsCurrent
<1>1. WmScreenInit => WindowsInv /\ PrintingInv /\ ScreenInv
  <2> SUFFICES ASSUME WmScreenInit PROVE WindowsInv /\ PrintingInv /\ ScreenInv
    OBVIOUS
  <2>1. wnds = <<>> /\ printing = Nothing /\ screen_buffer = BlankScreen
    BY DEF WmScreenInit
  <2>2. Len(<<>>) = 0 /\ <<>> = [k \in 1 .. 0 |-> <<>>[k]] /\ DOMAIN <<>> = {}
    OBVIOUS
  <2>3. WindowsInv /\ PrintingInv /\ AreOnScreen(wnds)
    BY <2>1, <2>2 DEF WindowsInv, PrintingInv, IsList, Idle, AreOnScreen
  <2>4. IsCurrent(wnds, screen_buffer)
    BY <2>1, <2>2 DEF IsCurrent, ShowsTop, BlankScreen
  <2> QED BY <2>3, <2>4, CurrentAlike DEF ScreenInv
<1>2. WindowsInv /\ PrintingInv /\ ScreenInv /\ [WmScreenNext]_wmScreenVars
      => WindowsInv' /\ PrintingInv' /\ ScreenInv'
  <2> SUFFICES ASSUME WindowsInv, PrintingInv, ScreenInv, [WmScreenNext]_wmScreenVars
               PROVE ScreenInv'
    BY WmScreenStep
  <2>1. AreOnScreen(wnds)
    BY DEF ScreenInv
  <2>2. CASE WmScreenNext
    BY <2>1, <2>2, CreatedOnScreen, FocusOnScreen, PrintOnScreen, ControlOnScreen DEF WmScreenNext
  <2>3. CASE UNCHANGED wmScreenVars
    <3>1. UNCHANGED wnds /\ UNCHANGED screen_buffer /\ UNCHANGED printing
      BY <2>3 DEF wmScreenVars
    <3>2. Idle' <=> Idle
      BY <3>1 DEF Idle
    <3> QED BY <3>1, <3>2, CurrentAlike DEF ScreenInv
  <2> QED BY <2>2, <2>3
<1>3. ScreenInv => ScreenIsCurrent
  BY DEF ScreenInv
<1> QED BY <1>1, <1>2, <1>3, PTL DEF WmScreenSpec

=============================================================================
