------------------------------ MODULE Terminal ------------------------------
(***************************************************************************)
(* What a program sees of a window it prints to: a page of rows and a      *)
(* cursor.  The cell under the cursor shows the cursor, so it is blank.    *)
(***************************************************************************)
EXTENDS Integers, Sequences

CONSTANTS Columns, Rows, Glyphs, Blank

VARIABLES page, column, row      \* page[row][column]

BlankRow == [c \in 0 .. Columns - 1 |-> Blank]

TerminalInit == /\ page = [r \in 0 .. Rows - 1 |-> BlankRow]
                /\ column = 0 /\ row = 0

Cleared(p, c, r) == [p EXCEPT ![r][c] = Blank]

(* The cursor goes to a place in the next row if r is one too large: then  *)
(* the page moves up.                                                      *)
Goes(p, c, r) ==
  /\ column' = c /\ row' = IF r = Rows THEN Rows - 1 ELSE r
  /\ page' = Cleared(IF r = Rows
                     THEN [k \in 0 .. Rows - 1 |-> IF k = Rows - 1 THEN BlankRow ELSE p[k + 1]]
                     ELSE p,
                     column', row')

Type(g) ==
  LET p == [page EXCEPT ![row][column] = g] IN
  IF column = Columns - 1 THEN Goes(p, 0, row + 1) ELSE Goes(p, column + 1, row)

NewLine == Goes(page, 0, row + 1)

(* Back by one cell, to the end of the row above at the start of a row. *)
BackSpace ==
  \/ column > 0 /\ Goes(page, column - 1, row)
  \/ column = 0 /\ row > 0 /\ Goes(page, Columns - 1, row - 1)

ClearPage == /\ page' = [r \in 0 .. Rows - 1 |-> BlankRow]
             /\ column' = 0 /\ row' = 0

TerminalNext == (\E g \in Glyphs : Type(g)) \/ NewLine \/ BackSpace \/ ClearPage

TerminalSpec == TerminalInit /\ [][TerminalNext]_<<page, column, row>>

=============================================================================
