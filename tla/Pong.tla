-------------------------------- MODULE Pong --------------------------------
(***************************************************************************)
(* Pong (pong.c): a ball between a racket on the left and three walls.     *)
(* The program draws with a pointer to the buffer of its window, which is  *)
(* the window manager's, so that nothing stops it at the buffer's end.     *)
(* One step is a turn of the loop.                                         *)
(***************************************************************************)
EXTENDS Integers

CONSTANTS PONG_WINDOW_WIDTH, PONG_WINDOW_HEIGHT, PONG_RACKET_HEIGHT

ASSUME PongAssumption ==
  /\ PONG_WINDOW_WIDTH \in Nat /\ PONG_WINDOW_WIDTH > 1
  /\ PONG_WINDOW_HEIGHT \in Nat /\ PONG_WINDOW_HEIGHT > 1
  /\ PONG_RACKET_HEIGHT \in 1 .. PONG_WINDOW_HEIGHT

VARIABLES
  pong_state,      \* "INIT", "MOVE", "DRAW", "GAME_OVER"
  x, y, dx, dy,    \* the ball and where it goes
  racket           \* the upper end of the racket

pongVars == <<pong_state, x, y, dx, dy, racket>>

(* x, y, dx and dy have no value before PONG_STATE_INIT gives them one.    *)
PongInit == /\ pong_state = "INIT" /\ racket = 0
            /\ x = 0 /\ y = 0 /\ dx = 1 /\ dy = 1

start_ball ==
  /\ pong_state = "INIT" /\ pong_state' = "MOVE"
  /\ x' = PONG_WINDOW_WIDTH \div 2 /\ y' = PONG_WINDOW_HEIGHT \div 2
  /\ dx' = 1 /\ dy' = -1
  /\ UNCHANGED racket

AtRacket == y >= racket /\ y < racket + PONG_RACKET_HEIGHT

Bounced_dy == IF y = PONG_WINDOW_HEIGHT - 1 THEN -1 ELSE IF y = 0 THEN 1 ELSE dy
Bounced_dx == IF x = 0 THEN 1 ELSE IF x = PONG_WINDOW_WIDTH - 1 THEN -1 ELSE dx

(* A bug: the racket goes on below the window. *)
move_racket_too_far(key) ==
  racket' = IF key = "q" /\ racket # 0 THEN racket - 1
            ELSE IF key = "a" /\ racket # PONG_WINDOW_HEIGHT THEN racket + 1
            ELSE racket

(* The key that keyb_get_keystroke() returns, without waiting for one. *)
move_racket(key) ==
  racket' = IF key = "q" /\ racket # 0 THEN racket - 1
            ELSE IF key = "a" /\ racket + PONG_RACKET_HEIGHT # PONG_WINDOW_HEIGHT
                 THEN racket + 1
            ELSE racket

move_ball ==
  /\ pong_state = "MOVE" /\ dy' = Bounced_dy
  /\ \/ /\ x = 0 /\ ~AtRacket /\ pong_state' = "GAME_OVER"
        /\ UNCHANGED <<x, y, dx, racket>>
     \/ /\ ~(x = 0 /\ ~AtRacket) /\ pong_state' = "DRAW"
        /\ dx' = Bounced_dx
        /\ x' = x + dx' /\ y' = y + dy'
        /\ \E key \in {"q", "a", "no key"} : move_racket(key)

draw == /\ pong_state = "DRAW" /\ pong_state' = "MOVE"
        /\ UNCHANGED <<x, y, dx, dy, racket>>

show_game_over == /\ pong_state = "GAME_OVER" /\ pong_state' = "INIT"
                  /\ UNCHANGED <<x, y, dx, dy, racket>>

PongNext == start_ball \/ move_ball \/ draw \/ show_game_over

PongSpec == PongInit /\ [][PongNext]_pongVars

-----------------------------------------------------------------------------
(* Properties *)

(* The cells of the buffer that draw_racket and PONG_STATE_DRAW write to.  *)
CellsDrawn == {(racket + i) * PONG_WINDOW_WIDTH : i \in 0 .. PONG_RACKET_HEIGHT - 1}
              \cup {y * PONG_WINDOW_WIDTH + x}

(* pong.c:31, 118: however the ball bounces and the racket moves, what is  *)
(* written lies in the buffer that the window has.                         *)
PongDrawsInItsWindow ==
  pong_state = "DRAW" =>
    CellsDrawn \subseteq 0 .. PONG_WINDOW_WIDTH * PONG_WINDOW_HEIGHT - 1

=============================================================================
