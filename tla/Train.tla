-------------------------------- MODULE Train --------------------------------
(***************************************************************************)
(* The train program (train.c): it sets the switches so that the Zamboni   *)
(* stays on the outer loop, finds out which of four configurations it has, *)
(* and runs the script for that one.                                       *)
(*                                                                         *)
(* Time is counted in tiles that the Zamboni passes, from the reset of the *)
(* simulator on and until the script begins: while the user has still to   *)
(* type "train" it may go anywhere, and a switch may lead it astray.  In a *)
(* script the contacts answer anything and pauses have no effect: what is  *)
(* checked is the order of the commands.  A command is one step: sleep(1), *)
(* the message to com_process and, for C, its answer, for which the        *)
(* program waits for ever if the simulation has been aborted.              *)
(***************************************************************************)
EXTENDS Track

CONSTANTS
  CommandTiles,    \* how many tiles the Zamboni passes during a command
  PauseTiles,      \* and during sleep(SLEEP_TICKS)
  ZAMBONI_LOOP

ASSUME TrainAssumption ==
  CommandTiles \subseteq Nat /\ PauseTiles \subseteq Nat /\ ZAMBONI_LOOP \in Nat

VARIABLES
  phase,           \* "off", "init", "check", "find", "pause", "run", "done"
  script,          \* the commands that are left of it
  cleared,         \* between the R and the C of probe_contact
  probed,          \* in "check": which test, which of its two contacts;
                   \* in "find": the turn of the loop
  config_no        \* 0 until it is known, and for the -1 of an unclear one

trainVars == <<phase, script, cleared, probed, config_no>>

(* A bug: a switch is forgotten. *)
init_train_track_short == <<M(5,"G"), M(1,"G"), M(4,"G"), M(9,"R")>>

init_train_track == <<M(5,"G"), M(8,"G"), M(1,"G"), M(4,"G"), M(9,"R")>>

(* In a script C(n) stands for keep_probing. *)
run_config_1 == <<M(4,"R"), M(3,"R"), M(5,"R"), M(6,"R"), L(5), C(6), L(0),
                  D, L(5), C(7), L(3), C(8), L(0)>>
run_config_1_zamboni == <<C(4), L(5), M(4,"R"), M(3,"R"), C(6), M(4,"G"), L(0),
                          D, C(4), L(5), M(5,"R"), M(6,"R"), C(7), L(3), C(8), L(0)>>
run_config_2 == <<M(4,"R"), M(3,"R"), L(5), C(6), L(0),
                  D, L(5), M(9,"G"), C(14), L(3), C(16), L(0)>>
run_config_2_zamboni == <<C(4), L(5), C(14), L(0), D, L(5), M(4,"R"), M(3,"R"), C(7),
                          C(6), L(0), D, L(5), L(3), L(0),
                          D, C(10), L(5), C(3), M(9,"G"), C(14), L(2), C(16), L(0),
                          M(9,"R")>>

(* A bug: the train is reversed while it moves. *)
run_config_3_moving == <<L(5), M(5,"R"), M(6,"G"), C(7), D, L(0), L(5), M(9,"G"),
                         C(14), L(0), D, L(3), C(16), L(0)>>
run_config_3 == <<L(5), M(5,"R"), M(6,"G"), C(7), L(0), D, L(5), M(9,"G"),
                  C(14), L(0), D, L(3), C(16), L(0)>>
run_config_3_zamboni == <<C(10), L(5), C(6), M(5,"R"), M(6,"G"), C(7), L(0),
                          D, L(5), C(12), L(0), C(13), L(5), M(9,"G"), C(14), L(0),
                          D, L(3), C(16), L(0)>>

(* A bug: the train is started after the contact is asked for. *)
run_config_4_late == <<M(5,"R"), M(6,"G"), C(12), L(5), L(0), D, M(7,"R"), L(5), C(13),
                       L(0), D, L(5), M(4,"R"), M(3,"R"), C(6), L(0)>>
run_config_4 == <<L(5), M(5,"R"), M(6,"G"), C(12), L(0), D, M(7,"R"), L(5), C(13),
                  L(0), D, L(5), M(4,"R"), M(3,"R"), C(6), L(0)>>
run_config_4_zamboni == <<C(10), L(5), M(5,"R"), M(6,"G"), C(12), M(5,"G"), L(0), D,
                          M(7,"R"), C(14), L(5), M(4,"R"), M(3,"R"), C(7), C(6),
                          L(0), D, L(5), L(0)>>

(* run_train: the script for each config_no, 0 for an unclear one. *)
run_train(n) ==
  CASE n = 10 -> run_config_1 [] n = 11 -> run_config_1_zamboni
    [] n = 20 -> run_config_2 [] n = 21 -> run_config_2_zamboni
    [] n = 30 -> run_config_3 [] n = 31 -> run_config_3_zamboni
    [] n = 40 -> run_config_4 [] n = 41 -> run_config_4_zamboni
    [] OTHER -> <<>>

-----------------------------------------------------------------------------
TrainInit ==
  /\ TrackInit
  /\ phase = "off" /\ script = <<>> /\ cleared = FALSE
  /\ probed = <<1, 1>> /\ config_no = 0

(* Before the program is started the simulator is reset once or more, and  *)
(* the Zamboni runs.                                                       *)
simulator_is_reset == phase = "off" /\ reset /\ UNCHANGED trainVars

zamboni_runs ==
  /\ phase = "off" /\ configuration # 0
  /\ zamboni_moves(1)
  /\ UNCHANGED <<configuration, show_zamboni, switches, speed, pre_cmd,
                 simulation_running, trainVars>>

zamboni_aborts == abort_simulation /\ UNCHANGED trainVars

init_train ==
  /\ phase = "off" /\ configuration # 0
  /\ phase' = "init" /\ script' = init_train_track
  /\ UNCHANGED <<trackVars, cleared, probed, config_no>>

(* The Zamboni is followed until the script begins. *)
time_passes == IF phase = "run" THEN UNCHANGED zamboni
               ELSE \E k \in CommandTiles : zamboni_moves(k)

(* set_switch, change_train_speed, change_train_direction *)
send_command ==
  /\ phase \in {"init", "run"} /\ script # <<>> /\ Head(script).op # "C"
  /\ time_passes
  /\ process_train_command(Head(script))
  /\ script' = Tail(script)
  /\ UNCHANGED <<phase, cleared, probed, config_no>>

end_of_script ==
  /\ phase \in {"init", "run"} /\ script = <<>>
  /\ phase' = IF phase = "init" THEN "check" ELSE "done"
  /\ UNCHANGED <<trackVars, script, cleared, probed, config_no>>

(* A bug: of configuration 1 only one contact is asked for. *)
tests_one_contact == << <<8, 8>>, <<16, 5>>, <<16, 9>>, <<5, 11>> >>

(* check_configuration asks for two contacts, one after the other. *)
tests == << <<8, 5>>, <<16, 5>>, <<16, 9>>, <<5, 11>> >>

Probing == \/ phase \in {"check", "find"}
           \/ phase = "run" /\ script # <<>> /\ Head(script).op = "C"
Contact == CASE phase = "check" -> tests[probed[1]][probed[2]]
             [] phase = "find"  -> 4
             [] phase = "run"   -> Head(script).n

clear_memory_buffer ==
  /\ Probing /\ ~cleared
  /\ time_passes
  /\ process_train_command(R)
  /\ cleared' = TRUE
  /\ UNCHANGED <<phase, script, probed, config_no>>

run_script(n) == phase' = "run" /\ config_no' = n /\ script' = run_train(n)

(* The rest of check_configuration, after an answer. *)
check_configuration(answer) ==
  /\ phase = "check"
  /\ \/ /\ answer = 1 /\ probed[2] = 1 /\ probed' = <<probed[1], 2>>
        /\ UNCHANGED <<phase, config_no, script>>
     \/ /\ answer = 1 /\ probed[2] = 2
        /\ phase' = "find" /\ config_no' = 10 * probed[1] /\ probed' = <<1, 1>>
        /\ UNCHANGED script
     \/ /\ answer = 0 /\ probed[1] < Len(tests) /\ probed' = <<probed[1] + 1, 1>>
        /\ UNCHANGED <<phase, config_no, script>>
     \/ /\ answer = 0 /\ probed[1] = Len(tests)
        /\ run_script(0) /\ UNCHANGED probed

(* find_zamboni, after an answer: at most ZAMBONI_LOOP turns, with a pause *)
(* at the end of each (pause_ends).                                        *)
find_zamboni(answer) ==
  /\ phase = "find"
  /\ \/ answer = 1 /\ run_script(config_no + 1) /\ UNCHANGED probed
     \/ /\ answer = 0 /\ phase' = "pause"
        /\ UNCHANGED <<config_no, script, probed>>

keep_probing(answer) ==
  /\ phase = "run"
  /\ script' = IF answer = 1 THEN Tail(script) ELSE script
  /\ UNCHANGED <<phase, config_no, probed>>

(* A simulator that has aborted does not answer. *)
probe_contact ==
  /\ Probing /\ cleared
  /\ time_passes
  /\ process_train_command(C(Contact))
  /\ \/ /\ simulation_running' /\ cleared' = FALSE
        /\ \E answer \in IF phase = "run" \/ zamboni' = Lost THEN {0, 1}
                         ELSE {status(Contact, zamboni')} :
             check_configuration(answer) \/ find_zamboni(answer) \/ keep_probing(answer)
     \/ ~simulation_running' /\ UNCHANGED trainVars

pause_ends ==
  /\ phase = "pause"
  /\ \E k \in PauseTiles : zamboni_moves(k)
  /\ \/ /\ probed[1] < ZAMBONI_LOOP /\ probed' = <<probed[1] + 1, 1>>
        /\ phase' = "find" /\ UNCHANGED <<config_no, script>>
     \/ /\ probed[1] = ZAMBONI_LOOP
        /\ run_script(config_no) /\ UNCHANGED probed
  /\ UNCHANGED <<configuration, show_zamboni, switches, speed, pre_cmd,
                 simulation_running, cleared>>

(* while (1); *)
train_loops == phase = "done" /\ UNCHANGED <<trackVars, trainVars>>

TrainNext == simulator_is_reset \/ zamboni_runs \/ zamboni_aborts
             \/ init_train \/ send_command \/ end_of_script \/ clear_memory_buffer
             \/ probe_contact \/ pause_ends \/ train_loops

TrainSpec == TrainInit /\ [][TrainNext]_<<trackVars, trainVars>>

-----------------------------------------------------------------------------
(* Properties *)

(* Whatever the contacts answer, the simulator accepts every command: each *)
(* C follows an R, and the train stands when it is reversed.  Nothing but  *)
(* an accident of the Zamboni ends the simulation.                         *)
SimulatorNeverAborts ==
  [][simulation_running /\ ~simulation_running' => abort_simulation]_<<trackVars, trainVars>>

(* train.c:99: from when the program has set the switches, the Zamboni     *)
(* goes on the outer loop and nowhere else, whichever way they were and    *)
(* wherever it was.  ("Always", train.c:163, it does not: a switch may     *)
(* have led it astray before, while it ran without the program.)           *)
ZamboniStaysOnTheLoop ==
  [][zamboni # Lost /\ zamboni' = Lost =>
       phase = "off" \/ (phase = "init" /\ script # <<>>)]_<<trackVars, trainVars>>

(* The script that runs is the one for what is on the track, although the  *)
(* Zamboni moves while the program asks and may be anywhere on the loop    *)
(* when it begins to; none, if it is none of the four.  A Zamboni that had *)
(* left the loop before is the exception: it may be missed, or taken for   *)
(* the train.                                                              *)
ConfigurationIsRight ==
  phase \in {"run", "done"} /\ zamboni # Lost =>
    config_no = IF configuration = 5 THEN 0
                ELSE 10 * configuration + (IF show_zamboni THEN 1 ELSE 0)

(* The program never waits for a contact that nothing can reach: without a *)
(* Zamboni the train moves while its script polls.  When the script is     *)
(* finished the train stands (or the simulation has ended).                *)
TrainGoesAndStops ==
  /\ phase = "run" /\ Probing /\ ~show_zamboni => speed > 0
  /\ phase = "done" => speed = 0 \/ ~simulation_running

=============================================================================
