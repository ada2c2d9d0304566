-------------------------------- MODULE Shell --------------------------------
(***************************************************************************)
(* The shell (shell.c): it reads a line and echoes it, splits it into a    *)
(* command and a parameter and executes the command.  The window is known  *)
(* by the text since the prompt.  A command name is a word of letters.     *)
(*                                                                         *)
(* A user types lines of at most MaxLine keys, fewer than BUF_LEN: longer  *)
(* ones have left the buffer when their length is looked at (shell.c:418). *)
(* The words are shorter than the 20 bytes that are allocated for them.    *)
(***************************************************************************)
EXTENDS Integers, Sequences, FiniteSets, SequencesExt

CONSTANTS
  MaxLine,
  Letters,
  CommandNames     \* word -> command

ASSUME ShellAssumption ==
  /\ MaxLine \in Nat
  /\ DOMAIN CommandNames \subseteq Seq(Letters)

VARIABLES
  input,           \* input->buffer up to input->length
  shown,           \* the text in the window, from the prompt on
  executed,        \* NotYet, or what execute_cmd has done with the line
  special_key      \* a key without a character was typed in this line

shellVars == <<input, shown, executed, special_key>>

Space == " "
NUL == "nul"                     \* the value of a key without a character
Prompt == ">"
NotYet == [command |-> "", para |-> <<>>]
Invalid == [command |-> "not valid", para |-> <<>>]
Unknown == [command |-> "not found", para |-> <<>>]

ShellInit == /\ input = <<>> /\ shown = <<Prompt>>
             /\ executed = NotYet /\ special_key = FALSE

-----------------------------------------------------------------------------
(* read_input(): one key.  keyb_get_keystroke() gives the character.       *)

Reading == executed = NotYet

(* A bug: at the start of the line the key is echoed all the same. *)
erase_without_check ==
  /\ Reading
  /\ input' = SubSeq(input, 1, Len(input) - 1)
  /\ shown' = Front(shown)
  /\ UNCHANGED <<executed, special_key>>

(* '\b' erases the last character, if there is one in the buffer. *)
erase ==
  /\ Reading /\ input # <<>>
  /\ input' = Front(input)
  /\ shown' = IF shown = <<>> THEN <<>> ELSE Front(shown)
  /\ UNCHANGED <<executed, special_key>>

save(ch) ==
  /\ Reading /\ Len(input) < MaxLine
  /\ input' = Append(input, ch)
  /\ shown' = IF ch = NUL THEN shown ELSE Append(shown, ch)
  /\ special_key' = (special_key \/ ch = NUL)
  /\ UNCHANGED executed

-----------------------------------------------------------------------------
(* process_cmd() *)

(* The longest prefix of which every element satisfies the test. *)
LongestPrefix(s, Test(_)) ==
  LET n == CHOOSE k \in 0 .. Len(s) :
             /\ \A i \in 1 .. k : Test(s[i])
             /\ k < Len(s) => ~Test(s[k + 1])
  IN SubSeq(s, 1, n)
Without_(prefix, s) == SubSeq(s, Len(prefix) + 1, Len(s))

SkipSpaces(s) == Without_(LongestPrefix(s, LAMBDA ch : ch = Space), s)
FirstWord(s) == LongestPrefix(s, LAMBDA ch : ch # Space)

(* The buffer as a string: a NUL ends it. *)
AsString(s) == LongestPrefix(s, LAMBDA ch : ch # NUL)

(* A bug: leading spaces are kept. *)
process_cmd_keeping_spaces(s) ==
  [com |-> FirstWord(s), para |-> FirstWord(SkipSpaces(Without_(FirstWord(s), s)))]

(* After a space at the end of the line the code goes on behind the '\0'   *)
(* (shell.c:333-341), but what it copies lies behind a '\0' too: the       *)
(* parameter is empty.                                                     *)
process_cmd(s) ==
  LET t == SkipSpaces(s) IN
  [com |-> FirstWord(t), para |-> FirstWord(SkipSpaces(Without_(FirstWord(t), t)))]

(* Those that allow a parameter. *)
TakeParameter == {"echo", "conv"}

execute_cmd(cmd) ==
  IF cmd.com \notin DOMAIN CommandNames THEN Unknown
  ELSE IF cmd.para # <<>> /\ CommandNames[cmd.com] \notin TakeParameter THEN Invalid
  ELSE [command |-> CommandNames[cmd.com], para |-> cmd.para]

(* Enter, and the rest of the loop of shell_process. *)
enter ==
  /\ Reading
  /\ executed' = execute_cmd(process_cmd(AsString(input)))
  /\ UNCHANGED <<input, shown, special_key>>

(* The next turn of the loop. *)
prompt ==
  /\ ~Reading
  /\ input' = <<>> /\ shown' = <<Prompt>>
  /\ executed' = NotYet /\ special_key' = FALSE

ShellNext == \/ erase
             \/ \E ch \in Letters \cup {Space, NUL} : save(ch)
             \/ enter
             \/ prompt

ShellSpec == ShellInit /\ [][ShellNext]_shellVars

-----------------------------------------------------------------------------
(* Properties *)

(* What the user sees is what will be executed, through all corrections,   *)
(* unless a key without a character was typed: it is saved, not shown, and *)
(* taken back with a character that is.                                    *)
LineIsShown == ~special_key => shown = <<Prompt>> \o input

(* The n-th maximal run of characters other than spaces. *)
Word(s, n) ==
  LET Ends(i) == i = 1 \/ s[i - 1] = Space
      starts == {i \in DOMAIN s : s[i] # Space /\ Ends(i)}
  IN IF Cardinality(starts) < n THEN <<>>
     ELSE LET a == CHOOSE i \in starts : Cardinality({j \in starts : j <= i}) = n
              b == CHOOSE j \in a .. Len(s) :
                     /\ \A k \in a .. j : s[k] # Space
                     /\ j < Len(s) => s[j + 1] = Space
          IN SubSeq(s, a, b)

(* The command that the first word of the shown line names is executed,    *)
(* with the second word, whatever the spaces; it is refused exactly if     *)
(* there is a second word that it does not take.                           *)
CommandIsTheFirstWord ==
  ~Reading /\ ~special_key =>
    LET line == Tail(shown)
        name == Word(line, 1)
        known == name \in DOMAIN CommandNames
        refused == Word(line, 2) # <<>> /\ CommandNames[name] \notin TakeParameter
    IN /\ ~known => executed = Unknown
       /\ known /\ refused => executed = Invalid
       /\ known /\ ~refused =>
            executed = [command |-> CommandNames[name], para |-> Word(line, 2)]

=============================================================================
