------------------------------ MODULE KeybSystem ------------------------------
(***************************************************************************)
(* The keyboard service and the window manager with programs of priority 5 *)
(* that make a window each and read keys, from the boot process's call of  *)
(* init_wm on.                                                             *)
(***************************************************************************)
EXTENDS Keyb

CONSTANT Calls    \* what the programs do

ASSUME CallsAssumption == Calls \subseteq {"start", "wait", "poll", "update"}

(* main.c's processes and the shell, and a port for all but the boot       *)
(* process: kernel.h has 20 PCBs, 40 ports and 8 ready queues.             *)
ASSUME RoomAssumption == /\ MAX_PROCS >= 6 /\ MAX_PORTS >= MAX_PROCS - 1
                         /\ MAX_READY_QUEUES >= 8

keybSystemVars == <<vars, received, progVars, wmVars, keybVars>>

KInit == ProgramsInit("init_wm") /\ WmInit /\ KeybInit

(* The boot process starts one program, as main.c starts the shell; a      *)
(* program may start another, as the shell does on command.                *)
BootProgram(p) ==
  \/ init_wm(p, "init_keyb") /\ UNCHANGED keybVars
  \/ init_keyb(p, "start_shell")
  \/ /\ \/ Runs(p, "start_shell") /\ Create(p, "start", 5, "become_zombie")
        \/ Runs(p, "become_zombie") /\ Dies(p)
     /\ UNCHANGED <<wmVars, keybVars>>

Start(p) == /\ "start" \in Calls
            /\ Runs(p, "program") /\ next_free_pcb # NULL
            /\ Create(p, "start", 5, "program")
            /\ UNCHANGED <<wmVars, keybVars>>

(* A program makes a window, then reads keys, waiting for one (the shell)  *)
(* or not (pong), or prints.                                               *)
MakeWindow(p) == /\ Runs(p, "start")
                 /\ wm_call(p, "create", NoWindow, "program")
                 /\ UNCHANGED keybVars
Read(p, call) == /\ call \in Calls /\ Runs(p, "program")
                 /\ keyb_get_keystroke(p, wm_msg[p].window_id, call = "wait", "program")
Update(p) == /\ "update" \in Calls /\ Runs(p, "program")
             /\ wm_call(p, "update", wm_msg[p].window_id, "program")
             /\ UNCHANGED keybVars

WindowManager(p) == process_window_manager(p) /\ UNCHANGED keybVars
KeybNotifier(p) == keyb_notifier(p)
KeybProcess(p) == keyb_process(p)
Return(p) == Continue(p) /\ UNCHANGED <<wmVars, keybVars>>
KeyStroke == key_stroke
Tick == isr_timer /\ UNCHANGED <<received, progVars, wmVars, keybVars>>
Loop == Loops /\ UNCHANGED <<wmVars, keybVars>>

Step(p) == BootProgram(p) \/ WindowManager(p) \/ KeybNotifier(p)
             \/ KeybProcess(p) \/ Return(p)
Program(p) == \/ MakeWindow(p) \/ Update(p) \/ Start(p)
              \/ \E call \in {"wait", "poll"} : Read(p, call)

KNext == (\E p \in Proc : Step(p) \/ Program(p)) \/ KeyStroke \/ Tick \/ Loop

(* A process that is dispatched again and again takes its step. *)
Fairness == \A p \in Proc : SF_keybSystemVars(Step(p))

KSpec == KInit /\ [][KNext]_keybSystemVars /\ Fairness

-----------------------------------------------------------------------------
(* Properties *)

KeybTypeOK ==
  /\ keyb_port \in Port \cup {NULL} /\ wm_port \in Port \cup {NULL}
  /\ new_key \in Keys \cup {NoKey} /\ keyb_key \in Chars \cup {NoKey}
  /\ current_window \in DOMAIN windows \cup {0, NoWindow, NullWord}
  /\ \A w \in DOMAIN keyb_clients :
       /\ keyb_clients[w].client \in ProcOrNull
       /\ keyb_clients[w].is_waiting \in BOOLEAN
       /\ keyb_clients[w].buffer \in Seq(Chars \cup {NoKey})
       /\ Len(keyb_clients[w].buffer) < MAX_KEYB_BUFFER

(* With a patient typist no call of keyb.c or wm.c panics: every reply     *)
(* goes to a process that waits for it, every window asked for exists.     *)
KeybNeverPanics == halt = "no"

(* The services keep their types and never stop the machine. *)
KeybIsSound == KeybTypeOK /\ KeybNeverPanics

(* The processes that keyb_get_keystroke has blocked, and the keyboard     *)
(* process when it has nothing to do.                                      *)
Reading(p) == keyb_msg[p].window_id # NoWindow
KeybIdle == \E k \in Proc : /\ at[k] = "keyb_received"
                            /\ rq.state[k] = "RECEIVE_BLOCKED"

(* A program waits for a key if and only if the record of its window says  *)
(* so, and only while there is no key for it.                              *)
WaitersAreRecorded ==
  /\ \A w \in DOMAIN keyb_clients :
       LET record == keyb_clients[w] IN
       record.is_waiting =>
         \/ /\ rq.state[record.client] = "REPLY_BLOCKED"
            /\ keyb_msg[record.client].window_id = w
            /\ Blocks(record.client)
            /\ record.buffer = <<>>
         \/ keyb_window = w /\ \E k \in Proc : at[k] = "key_given"
  /\ KeybIdle => \A p \in Proc :
       rq.state[p] = "REPLY_BLOCKED" /\ Reading(p) =>
         keyb_clients[keyb_msg[p].window_id].is_waiting

(* Once the program of the window with the focus has asked for a key, the  *)
(* keyboard process knows that this window has the focus, and no key goes  *)
(* elsewhere; windows are made, and the focus changes, in between.         *)
KeysGoToTheFocus ==
  Focus \in DOMAIN keyb_clients =>
    /\ KeybIdle => current_window = Focus
    /\ \A k \in Proc : Runs(k, "key_record") => keyb_window = Focus

(* A read that waits returns the character of a key that was pressed, and  *)
(* one that does not wait, too, where its window has one.  This does not   *)
(* say that a read that waits never returns 0, as its callers expect: the  *)
(* character of NAVIGATION is 0 (keyb.c:407), what keyb.c:439 gives to     *)
(* those that do not wait.                                                 *)
ReadsReturnKeys ==
  [][\A p \in Proc :
       Reading(p) /\ keyb_msg'[p].window_id = NoWindow =>
         \/ keyb_msg'[p].key \in Chars \ {NoKey}
         \/ ~Blocks(p) /\ keyb_clients[keyb_msg[p].window_id].buffer = <<>>]_keybSystemVars

(* A read that does not wait returns. *)
PollsReturn == \A p \in Proc : (Reading(p) /\ ~keyb_msg[p].block) ~> ~Reading(p)

(* keyb.c:281 "we actually have a new keystroke. Send it to the keyboard   *)
(* process": new_key is read before the notifier overwrites it.            *)
KeysAreRead == [][Unread => new_key' = new_key]_keybSystemVars

(* keyb.c:414 "No window exists. Just discard key". *)
NoWindowNoKey == windows = <<>> => keyb_clients = <<>>

=============================================================================
