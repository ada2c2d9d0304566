------------------------------- MODULE MCParts -------------------------------
(***************************************************************************)
(* The values for the run of Parts.                                        *)
(***************************************************************************)
EXTENDS Parts

\* Console: a window of 2 by 3 cells inside a screen of 4 by 4.
MCWnd == [x |-> 1, y |-> 1, width |-> 2, height |-> 3]

\* WmScreen: two windows that overlap, one with its frame beyond the screen.
MCNewWindows == << [x |-> 1, y |-> 1, width |-> 2, height |-> 2],
                   [x |-> 0, y |-> 1, width |-> 2, height |-> 1] >>
MCStrings == {<<"a">>, <<BS>>, <<"a", NL>>}

\* Shell: a name that is the beginning of another.
MCCommandNames == (<<"a">> :> "about") @@ (<<"a", "b">> :> "echo") @@ (<<"b">> :> "shell")

\* Formats: zero, the ends of the range of an int of 8 bits, and where the
\* number of digits changes; the characters '-', 0, 1, 2, 9 and a letter.
MCArguments == {-128, -127, -17, -1, 0, 1, 7, 8, 9, 10, 15, 16, 99, 127}
MCStarWidths == {-3, 3}
MCPrecisions == {-1, 0, 1, 2, 4}
MCTexts == {<<>>, <<10>>, <<10, 11, 12>>}
MCParameters == UNION {[1 .. n -> {-1, 0, 1, 2, 9, 10}] : n \in 0 .. 3}

=============================================================================
