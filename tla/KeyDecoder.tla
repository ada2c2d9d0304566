----------------------------- MODULE KeyDecoder -----------------------------
(***************************************************************************)
(* The loop of keyb_notifier (keyb.c) that makes keystrokes of scan codes, *)
(* with a typist who presses, holds and releases keys.  Keyb takes its     *)
(* result as an input.  Each key stands for those that are treated alike:  *)
(* letters, symbols, the digits of the keypad, the arrows, the navigation  *)
(* keys; numlock and scrlock have no effect but on the LEDs.               *)
(*                                                                         *)
(* The codes of one key are not mixed with those of another.               *)
(***************************************************************************)
EXTENDS Integers, Sequences, FiniteSets

CONSTANT MaxDown    \* how many keys the typist holds at once

ASSUME KeyDecoderAssumption == MaxDown \in Nat

VARIABLES
  ignore, special, shift, control, alt, capslock,
  keystroke,       \* what get_keycode has returned, None where it is 0
  codes,           \* the scan codes that are still to come
  down,            \* the keys that are held
  wanted,          \* the keystroke that the last key should have given
  odd              \* what has happened that the code does not cope with

decoderVars == <<ignore, special, shift, control, alt, capslock, keystroke>>
typistVars == <<down, wanted, odd>>

None == "none"

make == [a |-> <<30>>, quote |-> <<40>>, slash |-> <<53>>, enter |-> <<28>>,
         kp7 |-> <<71>>, kpslash |-> <<224, 53>>, kpenter |-> <<224, 28>>,
         up |-> <<224, 72>>, home |-> <<224, 71>>,
         lshift |-> <<42>>, rshift |-> <<54>>, lctrl |-> <<29>>, rctrl |-> <<224, 29>>,
         alt |-> <<56>>, caps |-> <<58>>,
         printscreen |-> <<224, 42, 224, 55>>,
         pause |-> <<225, 29, 69, 225, 157, 197>>]
break == [k \in DOMAIN make |->
           CASE k = "pause" -> <<>>
             [] k = "printscreen" -> <<224, 183, 224, 170>>
             [] OTHER -> [make[k] EXCEPT ![Len(make[k])] = @ + 128]]

Shifts == {"lshift", "rshift"}

DecoderInit ==
  /\ ignore = 0 /\ special = 0
  /\ shift = 0 /\ control = 0 /\ alt = 0 /\ capslock = 0
  /\ keystroke = None /\ codes = <<>>
  /\ down = {} /\ wanted = None /\ odd = {}

-----------------------------------------------------------------------------
(* The tables small, shfted and capped, at the keys' codes: capped has no  *)
(* apostrophe there, shfted ends before the keypad.                        *)
Coded == {28, 30, 40, 53, 71}
small == [ch \in Coded |->
            CASE ch = 28 -> "enter" [] ch = 30 -> "a" [] ch = 40 -> "quote"
              [] ch = 53 -> "/" [] ch = 71 -> "7"]
shfted == [ch \in Coded |->
             CASE ch = 28 -> "enter" [] ch = 30 -> "A" [] ch = 40 -> "dquote"
               [] ch = 53 -> "?" [] ch = 71 -> None]
capped == [small EXCEPT ![30] = "A", ![40] = None]

(* What a code after E0 gives: an arrow, a navigation key (ch * MULT), the *)
(* keypad's Enter and '/'.                                                 *)
special_keycode(ch) ==
  CASE ch = 72 -> "up" [] ch = 71 -> "home" [] ch = 28 -> "enter" [] ch = 53 -> "/"
    [] OTHER -> None

(* Of a code that is no release.  The other keys have no character.        *)
get_keycode_of(ch) ==
  IF ch = 72 \/ special # 0 THEN special_keycode(ch)
  ELSE IF alt # 0 \/ ch \notin Coded THEN None
  ELSE IF capslock # 0 THEN capped[ch]
  ELSE IF shift # 0 THEN shfted[ch] ELSE small[ch]

Dec(x) == IF x = 0 THEN 0 ELSE x - 1

(* The end of the loop: special counts down.  So does brk, which is set and *)
(* cleared within a turn.                                                  *)
NextCode == special' = Dec(special)

(* Pause (E1) and Print Screen (E0 2A) make the loop skip codes. *)
ignored_code(ch) ==
  \/ /\ ch = 225 /\ ignore = 0 /\ ignore' = 5
     /\ UNCHANGED <<shift, control, alt, capslock, keystroke>>
  \/ /\ ignore # 0 /\ ignore' = ignore - 1
     /\ UNCHANGED <<shift, control, alt, capslock, keystroke>>

PrintScreen(ch) == ch = 42 /\ special # 0

(* A bug: the right Shift key is never released. *)
released_but_rshift(ch) ==
  /\ control' = IF ch = 29 THEN 0 ELSE control
  /\ alt' = IF ch = 40 THEN 0 ELSE alt
  /\ shift' = IF ch = 42 THEN 0 ELSE shift
  /\ capslock' = IF ch = 58 THEN 1 - capslock ELSE capslock
  /\ UNCHANGED <<keystroke, ignore>>

(* A code with the bit 128: Alt is cleared by the code of the apostrophe,  *)
(* hexadecimal 28; Caps Lock is toggled as well when it is released.           *)
released(ch) ==
  /\ control' = IF ch = 29 THEN 0 ELSE control
  /\ alt' = IF ch = 40 THEN 0 ELSE alt
  /\ shift' = IF ch \in {42, 54} THEN 0 ELSE shift
  /\ capslock' = IF ch = 58 THEN 1 - capslock ELSE capslock
  /\ UNCHANGED <<keystroke, ignore>>

pressed(ch) ==
  /\ ignore' = IF PrintScreen(ch) THEN 3 ELSE ignore
  /\ control' = IF ch = 29 THEN 1 ELSE control
  /\ alt' = IF ch = 56 THEN 1 ELSE alt
  /\ shift' = IF ch \in {42, 54} /\ ~PrintScreen(ch) THEN 1 ELSE shift
  /\ capslock' = IF ch = 58 THEN 1 - capslock ELSE capslock
  /\ keystroke' = IF get_keycode_of(ch) = None THEN keystroke ELSE get_keycode_of(ch)

(* One turn of the loop. *)
Decode(ch) ==
  \/ ignored_code(ch) /\ NextCode
  \/ /\ ignore = 0 /\ ch = 224 /\ special' = 1
     /\ UNCHANGED <<shift, control, alt, capslock, keystroke, ignore>>
  \/ /\ ignore = 0 /\ ch \notin {224, 225} /\ ch >= 128
     /\ released(ch - 128) /\ NextCode
  \/ /\ ignore = 0 /\ ch < 128
     /\ pressed(ch) /\ NextCode

scan_code ==
  /\ codes # <<>>
  /\ Decode(Head(codes)) /\ codes' = Tail(codes)
  /\ UNCHANGED typistVars

-----------------------------------------------------------------------------
(* The typist *)

(* What a key should give, by what is held: Shift changes letters and      *)
(* symbols, Caps Lock letters only, neither the keypad.                    *)
Shifted == down \cap Shifts # {}
Caps == "caps" \in down
Wanted(k) ==
  CASE k = "a"     -> IF Shifted \/ Caps THEN "A" ELSE "a"
    [] k = "quote" -> IF Shifted THEN "dquote" ELSE "quote"
    [] k = "slash" -> IF Shifted THEN "?" ELSE "/"
    [] k = "kp7"   -> "7"
    [] k \in {"enter", "kpenter"} -> "enter"
    [] k = "kpslash" -> "/"
    [] k \in {"up", "home"} -> k
    [] OTHER       -> None

(* Where the tables do not have it: the apostrophe with Caps Lock, symbols *)
(* with both, the keypad with Shift.                                       *)
Mistabled(k) == \/ k = "quote" /\ Caps
                \/ k = "slash" /\ Caps /\ Shifted
                \/ k = "kp7" /\ Shifted /\ ~Caps

(* Print Screen leaves ignore at 1: its release is what should come next.  *)
Ignored == IF ignore # 0 THEN {"ignored"} ELSE {}

Odd(gone, new) == odd' = (odd \ (gone \cup {"table"})) \cup new

(* Also of a key that is held, which repeats its code. *)
press(k) ==
  /\ codes = <<>> /\ Cardinality(down \cup {k}) <= MaxDown
  /\ codes' = make[k]
  /\ down' = IF k = "pause" THEN down ELSE down \cup {k}
  /\ wanted' = Wanted(k)
  /\ Odd(IF k \in Shifts THEN {"shift"} ELSE {},
         Ignored \cup ({k} \cap ({"alt"} \cup ({"caps", "printscreen"} \cap down)))
           \cup (IF Mistabled(k) THEN {"table"} ELSE {}))
  /\ keystroke' = None
  /\ UNCHANGED <<ignore, special, shift, control, alt, capslock>>

release(k) ==
  /\ codes = <<>> /\ k \in down
  /\ codes' = break[k]
  /\ down' = down \ {k}
  /\ wanted' = None
  /\ Odd(IF k = "quote" THEN {"alt"} ELSE {},
         (IF k \in Shifts \cup {"printscreen"} /\ down' \cap Shifts # {} THEN {"shift"} ELSE {})
         \cup (IF k = "printscreen" THEN {} ELSE Ignored))
  /\ keystroke' = None
  /\ UNCHANGED <<ignore, special, shift, control, alt, capslock>>

DecoderNext == \/ scan_code
               \/ \E k \in DOMAIN make : press(k)
               \/ \E k \in down : release(k)

DecoderSpec == DecoderInit /\ [][DecoderNext]_<<decoderVars, codes, typistVars>>

-----------------------------------------------------------------------------
(* Properties *)

(* Each key gives its keystroke, once, as the keys that are held with it   *)
(* say.  Not covered: the keys that the tables miss (keyb.c:60, 77) while  *)
(* Caps Lock or Shift are held; Alt mutes all keys until the apostrophe is *)
(* released (keyb.c:252); while a Shift key is held, the release of the    *)
(* other, or of Print Screen, ends its effect; a repeated Caps Lock        *)
(* toggles; after Print Screen, or its repetition, codes of other keys     *)
(* disappear.                                                              *)
KeysAreTyped == codes = <<>> /\ odd = {} => keystroke = wanted

=============================================================================
