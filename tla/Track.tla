-------------------------------- MODULE Track --------------------------------
(***************************************************************************)
(* The train simulator (tools/train/train.pyw) as the train program meets  *)
(* it: its commands, the contacts, the switches, and the Zamboni, a train  *)
(* that nobody controls and that never stops.                              *)
(*                                                                         *)
(* A place is a tile.  Of the track only the outer loop is kept: how the   *)
(* Zamboni goes round on it, and where a switch can lead it astray.  What  *)
(* it does then is not followed: it may be on any contact, and it may      *)
(* collide or run off the track at any time, which ends the simulation.    *)
(* The train and the wagon stand where the configuration has put them      *)
(* until the train is set in motion; where they go then is not modelled.   *)
(***************************************************************************)
EXTENDS Integers, Sequences

VARIABLES
  configuration,        \* 1 .. 5, or 0: the simulator is not set up yet
  show_zamboni,
  zamboni,              \* where it is on the loop, and in which direction
  switches,             \* switch -> "G" or "R"
  speed,                \* of the train
  pre_cmd,              \* the command before
  simulation_running

trackVars == <<configuration, show_zamboni, zamboni, switches, speed, pre_cmd,
               simulation_running>>

(* Clockwise from the lower right on, as the Zamboni enters them.          *)
OuterLoop ==
  << <<10,10>>, <<9,10>>, <<8,10>>, <<7,10>>, <<6,10>>, <<5,10>>, <<4,10>>,
     <<3,9>>, <<2,8>>, <<1,7>>, <<0,6>>, <<0,5>>, <<0,4>>, <<0,3>>, <<0,2>>,
     <<1,1>>, <<2,0>>, <<3,0>>, <<4,0>>, <<5,0>>, <<6,0>>, <<7,0>>, <<8,0>>,
     <<9,0>>, <<10,0>>, <<11,0>>, <<12,0>>, <<13,1>>, <<14,2>>, <<15,3>>,
     <<15,4>>, <<15,5>>, <<14,6>>, <<13,7>>, <<12,8>>, <<11,9>> >>

(* The tiles of the loop where a vehicle that comes clockwise (or not) is  *)
(* led off it, and the switch and its setting that do so.                  *)
Astray == { [tile |-> <<4,0>>,  switch |-> 5, to |-> "R", clockwise |-> TRUE],
            [tile |-> <<15,5>>, switch |-> 9, to |-> "G", clockwise |-> TRUE],
            [tile |-> <<13,7>>, switch |-> 1, to |-> "R", clockwise |-> TRUE],
            [tile |-> <<10,0>>, switch |-> 8, to |-> "R", clockwise |-> FALSE],
            [tile |-> <<2,8>>,  switch |-> 4, to |-> "R", clockwise |-> FALSE] }
LoopSwitches == {s.switch : s \in Astray}

(* The four that can be chosen, and the first of those that the file keeps *)
(* as a comment, which the program does not know.                          *)
configurations ==
  << [wagon |-> <<6,8>>, train |-> <<6,5>>,  zamboni |-> <<5,10>>, clockwise |-> FALSE],
     [wagon |-> <<6,8>>, train |-> <<13,9>>, zamboni |-> <<6,10>>, clockwise |-> TRUE],
     [wagon |-> <<7,2>>, train |-> <<14,8>>, zamboni |-> <<6,10>>, clockwise |-> FALSE],
     [wagon |-> <<9,1>>, train |-> <<7,7>>,  zamboni |-> <<5,10>>, clockwise |-> TRUE],
     [wagon |-> <<9,1>>, train |-> <<6,5>>,  zamboni |-> <<5,10>>, clockwise |-> FALSE] >>

(* The contacts that the program asks while the train stands. *)
ContactTiles(c) ==
  CASE c = 4  -> {<<5,10>>, <<3,9>>, <<4,10>>, <<6,10>>, <<7,10>>}
    [] c = 5  -> {<<5,8>>, <<7,7>>, <<4,8>>, <<6,8>>}
    [] c = 8  -> {<<6,3>>, <<6,2>>, <<6,4>>, <<6,5>>}
    [] c = 9  -> {<<7,2>>, <<6,1>>}
    [] c = 11 -> {<<9,1>>, <<8,2>>}
    [] c = 16 -> {<<14,8>>, <<15,6>>, <<15,7>>, <<13,9>>}

-----------------------------------------------------------------------------
M(n, to) == [op |-> "M", n |-> n, to |-> to]
L(v)     == [op |-> "S", n |-> v]
D        == [op |-> "D"]
R        == [op |-> "R"]
C(n)     == [op |-> "C", n |-> n]
NoCommand == [op |-> ""]

Away == [at |-> 0, clockwise |-> TRUE]      \* there is no Zamboni
Lost == [at |-> -1, clockwise |-> TRUE]     \* it has left the loop

TrackInit ==
  /\ configuration = 0 /\ show_zamboni = FALSE /\ zamboni = Away
  /\ switches = [s \in 1 .. 9 |-> "G"]
  /\ speed = 0 /\ pre_cmd = NoCommand /\ simulation_running = TRUE

setup_vehicles ==
  /\ configuration' \in DOMAIN configurations /\ show_zamboni' \in BOOLEAN
  /\ LET start == configurations[configuration'] IN
     zamboni' = IF ~show_zamboni' THEN Away
                ELSE [at |-> CHOOSE i \in DOMAIN OuterLoop :
                               OuterLoop[i] = start.zamboni,
                      clockwise |-> start.clockwise]
  /\ speed' = 0

(* Each switch is set at random.  Those that are not on the loop make no   *)
(* difference here.                                                        *)
reset_switches ==
  \E red \in SUBSET LoopSwitches :
    switches' = [s \in 1 .. 9 |-> IF s \in red THEN "R" ELSE "G"]

start_simulation == pre_cmd' = NoCommand /\ simulation_running' = TRUE

(* The user, who may have chosen another configuration, or the boot loader *)
(* resets the simulator; the Zamboni runs from now on.                     *)
reset == setup_vehicles /\ reset_switches /\ start_simulation

(* The place after k tiles of the loop. *)
Ahead(z, k) == 1 + ((z.at - 1 + (IF z.clockwise THEN k ELSE -k)) % Len(OuterLoop))

(* The Zamboni passes k tiles.  It takes the way that a tile's switch says *)
(* when it enters the tile.                                                *)
zamboni_moves(k) ==
  zamboni' =
    IF zamboni \in {Away, Lost} \/ ~simulation_running THEN zamboni
    ELSE IF \E j \in 1 .. k, s \in Astray :
              /\ OuterLoop[Ahead(zamboni, j)] = s.tile
              /\ s.clockwise = zamboni.clockwise /\ switches[s.switch] = s.to
         THEN Lost
         ELSE [zamboni EXCEPT !.at = Ahead(zamboni, k)]

(* What process_C_command answers, while the train stands. *)
status(c, z) ==
  IF \/ configurations[configuration].train \in ContactTiles(c)
     \/ configurations[configuration].wagon \in ContactTiles(c)
     \/ z.at > 0 /\ OuterLoop[z.at] \in ContactTiles(c)
  THEN 1 ELSE 0

(* A Zamboni that was led astray has collided, or has come to where the    *)
(* track ends.                                                             *)
abort_simulation ==
  /\ zamboni = Lost /\ simulation_running
  /\ simulation_running' = FALSE
  /\ UNCHANGED <<configuration, show_zamboni, zamboni, switches, speed, pre_cmd>>

(* process_train_command and what it calls: a command that is out of order *)
(* or out of range aborts the simulation, and from then on commands have   *)
(* no effect.                                                              *)
Aborts(cmd) ==
  \/ cmd.op = "S" /\ cmd.n \notin 0 .. 5
  \/ cmd.op = "D" /\ speed # 0
  \/ cmd.op = "M" /\ cmd.n \notin 1 .. 9
  \/ cmd.op = "C" /\ (pre_cmd # R \/ cmd.n \notin 1 .. 16)

process_train_command(cmd) ==
  /\ \/ /\ simulation_running
        /\ simulation_running' = ~Aborts(cmd)
        /\ pre_cmd' = cmd
        /\ speed' = IF cmd.op = "S" /\ ~Aborts(cmd) THEN cmd.n ELSE speed
        /\ switches' = IF cmd.op = "M" /\ ~Aborts(cmd)
                       THEN [switches EXCEPT ![cmd.n] = cmd.to] ELSE switches
     \/ ~simulation_running /\ UNCHANGED <<simulation_running, pre_cmd, speed, switches>>
  /\ UNCHANGED <<configuration, show_zamboni>>

=============================================================================
