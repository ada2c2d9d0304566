------------------------------- MODULE Formats -------------------------------
(***************************************************************************)
(* Numbers as text: the directives of vsprintf, with printnum (window.c),  *)
(* and the command conv of the shell, which reads a number and prints it   *)
(* in binary and hexadecimal (shell.c).  A call is one step, and so is the *)
(* output of its text.                                                     *)
(*                                                                         *)
(* A character is a number: a digit its value, up to 15, Minus and Blank   *)
(* are negative.  An int has INT_WIDTH bits and wraps around.  A precision *)
(* that is given by a negative argument is left out.                       *)
(***************************************************************************)
EXTENDS Integers, Sequences, SequencesExt

CONSTANTS
  INT_WIDTH,
  Arguments,       \* of %b, %o, %d, %u and %x
  Widths,          \* field widths as they are written; 0 for none
  StarWidths,      \* and as arguments for a '*'
  Precisions,      \* -1 for none
  Texts,           \* arguments of %s
  Parameters       \* parameters of conv

Minus == -1
Blank_ == -2

INT_MAX == 2 ^ (INT_WIDTH - 1) - 1
INT_MIN == -(2 ^ (INT_WIDTH - 1))
Unsigned(n) == n % 2 ^ INT_WIDTH
Signed(u) == IF Unsigned(u) > INT_MAX THEN Unsigned(u) - 2 ^ INT_WIDTH ELSE Unsigned(u)

ASSUME FormatsAssumption ==
  /\ INT_WIDTH \in Nat \ {0} /\ Arguments \subseteq INT_MIN .. INT_MAX
  /\ Widths \subseteq Nat /\ StarWidths \subseteq Int
  /\ Precisions \subseteq Nat \cup {-1}

VARIABLES
  call,            \* what is formatted: the directive and its argument
  text             \* the text that vsprintf or conv has made of it

formatVars == <<call, text>>

NoCall == [conversion |-> "none"]

FormatsInit == call = NoCall /\ text = <<>>

Fill(n, ch) == [i \in 1 .. n |-> ch]
Larger(a, b) == IF a > b THEN a ELSE b

-----------------------------------------------------------------------------
(* printnum *)

Base(conversion) == CASE conversion = "b" -> 2  [] conversion = "o" -> 8
                      [] conversion = "d" -> 10 [] conversion = "u" -> 10
                      [] conversion = "x" -> 16

(* A bug: while instead of do .. while. *)
digs_without_zero(number, base) ==
  LET d[u \in Nat] == IF u = 0 THEN <<>> ELSE Append(d[u \div base], u % base)
  IN d[number]

(* do .. while: there is at least one digit. *)
digs(number, base) ==
  LET d[u \in Nat] == IF u < base THEN <<u>> ELSE Append(d[u \div base], u % base)
  IN d[number]

(* The sign comes first and is not counted in the length. *)
printnum(u, base, negflag, length, ladjust, padc) ==
  LET digits == digs(u, base)
      padding == Fill(Larger(0, length - Len(digits)), padc) IN
  (IF negflag THEN <<Minus>> ELSE <<>>)
    \o (IF ladjust THEN digits \o padding ELSE padding \o digits)

-----------------------------------------------------------------------------
(* vsprintf, on one directive %[-][0][width][.precision]conversion *)

Length(d) == IF d.width < 0 THEN -d.width ELSE d.width

(* A negative width for a '*' turns the '-' round. *)
Ladjust(d) == d.minus # (d.width < 0)

print_number(d) ==
  LET negflag == d.conversion = "d" /\ d.value < 0 IN
  printnum(IF negflag THEN Unsigned(-d.value) ELSE Unsigned(d.value), Base(d.conversion),
           negflag, Length(d), Ladjust(d), IF d.zero THEN 0 ELSE Blank_)

(* What is printed of a string. *)
Cut(d) == IF d.precision = -1 \/ d.precision > Len(d.value) THEN d.value
          ELSE SubSeq(d.value, 1, d.precision)

(* On the right, blanks are counted from n, which is one more than has     *)
(* been printed when the precision has ended the loop.                     *)
print_string(d) ==
  LET cut == Cut(d)
      n == IF Len(cut) < Len(d.value) THEN Len(cut) + 1 ELSE Len(cut) IN
  IF Ladjust(d) THEN cut \o Fill(Larger(0, Length(d) - n), Blank_)
  ELSE Fill(Larger(0, Length(d) - Len(cut)), Blank_) \o cut

vsprintf(d) ==
  /\ call = NoCall /\ call' = d
  /\ text' = IF d.conversion = "s" THEN print_string(d) ELSE print_number(d)

-----------------------------------------------------------------------------
(* conv: a parameter is a sequence of characters; one that is no digit and *)
(* no '-' at the start makes it 0.                                         *)

Digit == 0 .. 9

Atoi(str) ==
  LET negative == str # <<>> /\ Head(str) = Minus
      digits == IF negative THEN Tail(str) ELSE str
      res == FoldLeft(LAMBDA r, ch : Signed(r * 10 + ch), 0, digits) IN
  IF \E i \in DOMAIN digits : digits[i] \notin Digit THEN 0
  ELSE IF negative THEN Signed(-res) ELSE res

(* A bug: the sign bit is left out. *)
deci_to_binary_short(n) ==
  [i \in 1 .. INT_WIDTH - 1 |-> (Unsigned(n) \div 2 ^ (INT_WIDTH - 1 - i)) % 2]

deci_to_binary(n) == [i \in 1 .. INT_WIDTH |-> (Unsigned(n) \div 2 ^ (INT_WIDTH - i)) % 2]

(* Of a number that is not positive there are no digits: of 0 none at all, *)
(* of others, characters below '0', by the remainders of C.                *)
deci_to_hexadecimal(n) ==
  LET d[u \in Nat] == IF u = 0 THEN <<>> ELSE Append(d[u \div 16], u % 16)
      Below(ch) == IF ch = 0 THEN 0 ELSE -10 - ch
  IN IF n >= 0 THEN d[n] ELSE [i \in DOMAIN d[-n] |-> Below(d[-n][i])]

conv(str) ==
  /\ call = NoCall /\ call' = [conversion |-> "conv", value |-> str]
  /\ text' = [binary |-> deci_to_binary(Atoi(str)),
              hexadecimal |-> deci_to_hexadecimal(Atoi(str))]

-----------------------------------------------------------------------------
(* output_string, wm_print *)
output_text == call # NoCall /\ call' = NoCall /\ text' = <<>>

Numbers == [conversion : {"b", "o", "d", "u", "x"}, minus : BOOLEAN, zero : BOOLEAN,
            width : Widths \cup StarWidths, precision : Precisions, value : Arguments]
TextFields == [conversion : {"s"}, minus : BOOLEAN, zero : BOOLEAN,
            width : Widths \cup StarWidths, precision : Precisions, value : Texts]

FormatsNext == \/ \E d \in Numbers \cup TextFields : vsprintf(d)
               \/ \E str \in Parameters : conv(str)
               \/ output_text

FormatsSpec == FormatsInit /\ [][FormatsNext]_formatVars

-----------------------------------------------------------------------------
(* Properties *)

(* The number that a text shows, whatever blanks are in it. *)
ReadIn(base, s) ==
  LET marks == SelectSeq(s, LAMBDA ch : ch # Blank_)
      negative == marks # <<>> /\ Head(marks) = Minus
      magnitude == FoldLeft(LAMBDA r, ch : r * base + ch, 0,
                            IF negative THEN Tail(marks) ELSE marks)
  IN IF negative THEN -magnitude ELSE magnitude

IsNumber == call.conversion \in {"b", "o", "d", "u", "x"}

(* The magnitude of a number in its base, with no zero before it.          *)
Numeral(d) ==
  LET u == IF d.conversion = "d" /\ d.value < 0 THEN -d.value ELSE Unsigned(d.value)
      base == Base(d.conversion)
      n == CHOOSE k \in 1 .. INT_WIDTH :
             u < base ^ k /\ (k > 1 => u >= base ^ (k - 1))
  IN [i \in 1 .. n |-> (u \div base ^ (n - i)) % base]

Sign(d) == IF d.conversion = "d" /\ d.value < 0 THEN <<Minus>> ELSE <<>>

AtLeft(d) == d.minus \/ d.width < 0

(* The field of printf, whose features window.c:201-212 promises: the sign *)
(* is next to the number and counts; blanks stand on one side only, zeros  *)
(* between the sign and the number.                                        *)
Printf(d) ==
  LET number == Sign(d) \o Numeral(d)
      fill == Larger(0, Length(d) - Len(number)) IN
  IF AtLeft(d) THEN number \o Fill(fill, Blank_)
  ELSE IF d.zero THEN Sign(d) \o Fill(fill, 0) \o Numeral(d)
  ELSE Fill(fill, Blank_) \o number

(* Where the code is known to differ: the sign is not counted, and blanks  *)
(* come after it ("%5d" of -17 gives "-   17", window.c:174); zeros fill a *)
(* field on the right ("%-05d"); a '-' and a negative width together put   *)
(* the text at the right ("%-*d").                                         *)
SignNotCounted(d) == Sign(d) # <<>> /\ Len(Numeral(d)) < Length(d)
ZerosOnTheRight(d) == d.zero /\ Ladjust(d)
TurnedRound(d) == d.minus /\ d.width < 0

(* window.c:157-197: a number is printed as printf prints it, the smallest *)
(* int and 0 too, with the sign and the blanks in their places and exactly *)
(* in the width asked for, but for the three cases above; in these it is   *)
(* read back all the same, unless zeros follow it, and the field is one    *)
(* too wide where the sign is not counted.  A precision is without effect  *)
(* on numbers.                                                             *)
NumbersArePrinted ==
  IsNumber =>
    /\ SignNotCounted(call) \/ ZerosOnTheRight(call) \/ TurnedRound(call)
         \/ text = Printf(call)
    /\ SignNotCounted(call) => Len(text) = Length(call) + 1
    /\ ~ZerosOnTheRight(call) =>
         ReadIn(Base(call.conversion), text) =
           IF call.conversion = "d" THEN call.value ELSE Unsigned(call.value)

(* window.c:327-354: of a string as much is printed as the precision lets, *)
(* in the field, at its left or right; one that is cut and at the left of  *)
(* its field is followed by a blank too few (window.c:344).                *)
StringsAreFitted ==
  call.conversion = "s" =>
    LET cut == Cut(call)
        blanks == Larger(0, Length(call) - Len(cut)) IN
    IF ~AtLeft(call) \/ TurnedRound(call) THEN text = Fill(blanks, Blank_) \o cut
    ELSE /\ SubSeq(text, 1, Len(cut)) = cut
         /\ text = cut \o Fill(Len(text) - Len(cut), Blank_)
         /\ Len(text) - Len(cut) \in
              IF cut = call.value \/ blanks = 0 THEN {blanks} ELSE {blanks - 1}

(* What vsprintf prints, of numbers and of strings, is what was asked for. *)
TextsAreRight == NumbersArePrinted /\ StringsAreFitted

(* shell.c:272: both texts of conv show the number that was typed, where   *)
(* it is one that an int can have; the hexadecimal one only above 0.       *)
ConvertedAlike ==
  call.conversion = "conv" =>
    LET str == call.value
        digits == IF str # <<>> /\ Head(str) = Minus THEN Tail(str) ELSE str
        n == ReadIn(10, str) IN
    (\A i \in DOMAIN digits : digits[i] \in Digit) /\ n \in INT_MIN .. INT_MAX =>
      /\ Signed(ReadIn(2, text.binary)) = n
      /\ n > 0 => ReadIn(16, text.hexadecimal) = n

=============================================================================
