--------------------------------- MODULE Keyb ---------------------------------
(***************************************************************************)
(* The keyboard service (keyb.c): a notifier of priority 7 that turns scan *)
(* codes into keys, and a process of priority 6 that gives keys to the     *)
(* programs whose windows have the focus.  It asks the window manager.     *)
(*                                                                         *)
(* A scan code is known by what the notifier makes of it: a key, RELEASE   *)
(* where get_keycode returns 0, MODIFIER where it is consumed before.  The *)
(* keyboard process takes the low byte of a key for its character.  A      *)
(* Keyb_Message is known by the process on whose stack it lies.            *)
(*                                                                         *)
(* The keyboard interrupts when the notifier waits.  It would be a panic   *)
(* at any other time: between two codes, 30 ms apart, the notifier must    *)
(* have been through its loop.  A patient typist begins when there is a    *)
(* window, and waits until keyb_process has read one key before the next.  *)
(***************************************************************************)
EXTENDS Wm

CONSTANTS
  MAX_KEYB_BUFFER,
  Keys,            \* what get_keycode returns: characters and control keys
  Patient          \* whether the typist is patient

ASSUME KeybAssumption == /\ MAX_KEYB_BUFFER \in Nat \ {0, 1}
                         /\ Keys \subseteq STRING
                         /\ Patient \in BOOLEAN

VARIABLES
  keyb_port,       \* the global variable, NULL until init_keyb assigns it
  new_key,         \* the global variable: what get_keycode returned last
  keyb_msg,        \* Proc -> its Keyb_Message: window_id and block, or,
                   \* once it is answered, the key
  keyb_clients,    \* window id -> KEYB_CLIENT, for the windows seen so far
  current_window,
  keyb_key,        \* the character key in keyb_process, while it handles one
  keyb_window      \* the parameter of get_client_record, while it is used

localVars == <<keyb_key, keyb_window>>
keybVars == <<keyb_port, new_key, keyb_msg, keyb_clients,
              current_window, localVars>>

NoKey == ""
CHANGE_FOCUS == "tab"
MOVE == "arrow"
RELEASE == "release"
NAVIGATION == "home"    \* one of INS, DEL, HOME, END, PG-UP, PG-DN: ch * MULT
MODIFIER == "modifier"
Codes == Keys \cup {RELEASE, MODIFIER}

(* The low byte of a key.  That of ch * MULT is 0, the value of NoKey: no  *)
(* program can tell NUL from NoKey, and nothing in keyb.c compares the     *)
(* two.  Here they differ, to say where a 0 comes from.                    *)
NUL == "nul"
Char(key) == IF key = NAVIGATION THEN NUL ELSE key
Chars == {Char(k) : k \in Keys}

Answered(k) == [window_id |-> NoWindow, block |-> FALSE, key |-> k]

KeybInit ==
  /\ keyb_port = NULL
  /\ new_key = NoKey /\ keyb_key = NoKey
  /\ keyb_msg = [p \in Proc |-> Answered(NoKey)]
  /\ keyb_clients = [w \in {} |-> NULL]
  /\ current_window = NoWindow /\ keyb_window = NoWindow

get_keycode(code) == IF code = RELEASE THEN NoKey ELSE code

(* A bug: a key of value 0 is sent as well. *)
NoKeystroke_modifier(code) == code = MODIFIER

(* No key for keyb_process: a modifier or a release. *)
NoKeystroke(code) == code = MODIFIER \/ get_keycode(code) = NoKey

(* inportb() returns any scan code. *)
keyb_notifier(p) ==
  /\ \/ /\ Runs(p, "keyb_notifier")
        /\ Waits(p, KEYB_IRQ, "keyb_scan")
        /\ UNCHANGED new_key
     \/ \E code \in Codes :
          /\ Runs(p, "keyb_scan")
          /\ IF code = MODIFIER THEN UNCHANGED new_key
             ELSE new_key' = get_keycode(code)
          /\ \/ NoKeystroke(code) /\ Computes(p, "keyb_notifier")
             \/ /\ ~NoKeystroke(code)
                /\ Messages(p, keyb_port, p, "keyb_notifier")
  /\ UNCHANGED <<wmVars, keyb_port, keyb_msg, keyb_clients, current_window,
                 localVars>>

-----------------------------------------------------------------------------
(* The buffer of a client, a ring of MAX_KEYB_BUFFER cells. *)

(* A bug: one key counts as none. *)
has_key_enqueued_late(q) == Len(q) > 1

(* The ring is full with one cell empty: then the oldest key is dropped. *)
enqueue_key(q, key) ==
  IF Len(q) + 1 = MAX_KEYB_BUFFER THEN Append(Tail(q), key) ELSE Append(q, key)

has_key_enqueued(q) == q # <<>>

-----------------------------------------------------------------------------
(* get_client_record(window_id): record is next[1] where there is one, and *)
(* otherwise the window manager is asked for the focus and next[2] made.   *)

Seen(w) == w \in DOMAIN keyb_clients

get_client_record(p, w, next) ==
  /\ keyb_window' = w
  /\ \/ Seen(w) /\ Computes(p, next[1]) /\ UNCHANGED wmVars
     \/ ~Seen(w) /\ wm_call(p, "current_focus", NoWindow, next[2])

NewRecord == [client |-> NULL, is_waiting |-> FALSE, buffer |-> <<>>]

AddRecord(w) == keyb_clients' = [v \in DOMAIN keyb_clients \cup {w} |->
                                   IF v = w THEN NewRecord ELSE keyb_clients[v]]

(* A bug: current_window is left as it is when a window is seen first. *)
new_client_record_unasked(p, next) ==
  /\ AddRecord(keyb_window)
  /\ Computes(p, next)
  /\ wm_returned(p)
  /\ UNCHANGED <<current_window, localVars>>

new_client_record(p, next) ==
  /\ current_window' = wm_msg[p].window_id
  /\ AddRecord(keyb_window)
  /\ Computes(p, next)
  /\ wm_returned(p)
  /\ UNCHANGED localVars

NextMessage(p) == /\ Computes(p, "keyb_receive")
                  /\ keyb_key' = NoKey /\ keyb_window' = NoWindow

(* A key from the notifier.  Control keys (keyb_handle_control) are for    *)
(* the window manager; before any other key current_window must be known.  *)
key_received(p) ==
  LET key == Char(new_key)
      asks(action, next) == /\ wm_call(p, action, NoWindow, next)
                            /\ UNCHANGED keyb_window
  IN
  /\ keyb_key' = key
  /\ \/ key = CHANGE_FOCUS /\ asks("change_focus", "focus_changed")
     \/ key = MOVE /\ asks("current_focus", "move")
     \/ /\ key \notin {CHANGE_FOCUS, MOVE} /\ current_window = NoWindow
        /\ asks("current_focus", "focus_asked")
     \/ /\ key \notin {CHANGE_FOCUS, MOVE} /\ current_window # NoWindow
        /\ get_client_record(p, current_window, <<"key_record", "key_new_record">>)
  /\ UNCHANGED <<new_key, keyb_clients, current_window>>

(* The window manager has answered. *)
focus_answered(p) ==
  LET focus == wm_msg[p].window_id IN
  /\ \/ Runs(p, "focus_changed") /\ NextMessage(p) /\ wm_returned(p)
     \/ /\ Runs(p, "move")
        /\ wm_call(p, "update", focus, "moved")
        /\ UNCHANGED localVars
     \/ /\ Runs(p, "focus_asked") /\ focus = NoWindow
        /\ NextMessage(p) /\ wm_returned(p)
     \/ /\ Runs(p, "focus_asked") /\ focus # NoWindow
        /\ get_client_record(p, focus, <<"key_record", "key_new_record">>)
        /\ UNCHANGED keyb_key
  /\ current_window' = focus
  /\ UNCHANGED keyb_clients

moved(p) == /\ Runs(p, "moved") /\ NextMessage(p) /\ wm_returned(p)
            /\ UNCHANGED <<keyb_clients, current_window>>

(* A bug: the client stays recorded. *)
key_given_again(p) == /\ Runs(p, "key_given") /\ NextMessage(p)
                      /\ UNCHANGED keyb_clients

key_given(p) ==
  /\ Runs(p, "key_given")
  /\ keyb_clients' = [keyb_clients EXCEPT ![keyb_window].is_waiting = FALSE]
  /\ NextMessage(p)

(* The key's record is there.  A client that waits gets the key. *)
key_record(p) ==
  LET record == keyb_clients[keyb_window] IN
  /\ \/ /\ Runs(p, "key_record") /\ record.is_waiting
        /\ keyb_msg' = [keyb_msg EXCEPT ![record.client] = Answered(keyb_key)]
        /\ Replies(p, record.client, "key_given")
        /\ UNCHANGED <<keyb_clients, localVars>>
     \/ key_given(p) /\ UNCHANGED keyb_msg
     \/ /\ Runs(p, "key_record") /\ ~record.is_waiting
        /\ keyb_clients' = [keyb_clients EXCEPT ![keyb_window].buffer =
                              enqueue_key(@, keyb_key)]
        /\ NextMessage(p)
        /\ UNCHANGED keyb_msg
  /\ UNCHANGED <<wmVars, current_window>>

(* A bug: msg->block is not looked at. *)
Blocks_always(s) == keyb_msg[s].window_id # NoWindow
Blocks(s) == keyb_msg[s].block

(* The record of a client that asks for a key is there. *)
client_record(p) ==
  LET s == Sender(p)
      record == keyb_clients[keyb_window]
      answer(key) == /\ keyb_msg' = [keyb_msg EXCEPT ![s] = Answered(key)]
                     /\ Replies(p, s, "keyb_receive")
                     /\ keyb_key' = NoKey /\ keyb_window' = NoWindow
  IN
  /\ Runs(p, "client_record")
  /\ \/ /\ has_key_enqueued(record.buffer)
        /\ answer(Head(record.buffer))
        /\ keyb_clients' = [keyb_clients EXCEPT ![keyb_window].buffer = Tail(@)]
     \/ /\ ~has_key_enqueued(record.buffer) /\ Blocks(s)
        /\ keyb_clients' = [keyb_clients EXCEPT ![keyb_window].client = s,
                                                ![keyb_window].is_waiting = TRUE]
        /\ NextMessage(p)
        /\ UNCHANGED keyb_msg
     \/ /\ ~has_key_enqueued(record.buffer) /\ ~Blocks(s)
        /\ answer(NoKey)
        /\ UNCHANGED keyb_clients
  /\ UNCHANGED <<wmVars, current_window>>

(* keyb_notifier_proc, the owner of the port that create_process returned. *)
FromNotifier(p) == Sender(p) = port[Returned(p)].owner

keyb_process(p) ==
  /\ \/ /\ \/ /\ Runs(p, "keyb_process")
              /\ Create(p, "keyb_notifier", 7, "keyb_receive")
           \/ Runs(p, "keyb_receive") /\ Receives(p, "keyb_received")
        /\ UNCHANGED <<wmVars, new_key, keyb_msg, keyb_clients, current_window,
                       localVars>>
     \/ /\ Runs(p, "keyb_received") /\ FromNotifier(p)
        /\ key_received(p)
        /\ UNCHANGED keyb_msg
     \/ /\ \/ focus_answered(p)
           \/ moved(p)
           \/ /\ Runs(p, "keyb_received") /\ ~FromNotifier(p)
              /\ get_client_record(p, keyb_msg[Message(p)].window_id,
                                   <<"client_record", "client_new_record">>)
              /\ UNCHANGED <<keyb_clients, current_window, keyb_key>>
           \/ Runs(p, "key_new_record") /\ new_client_record(p, "key_record")
           \/ Runs(p, "client_new_record") /\ new_client_record(p, "client_record")
        /\ UNCHANGED <<new_key, keyb_msg>>
     \/ key_record(p) /\ UNCHANGED new_key
     \/ client_record(p) /\ UNCHANGED new_key
  /\ UNCHANGED keyb_port

(* keyb_get_keystroke(w, block): keyb_msg[p].key is its result. *)
keyb_get_keystroke(p, w, block, next) ==
  /\ keyb_msg' = [keyb_msg EXCEPT ![p] = [window_id |-> w, block |-> block,
                                          key |-> NoKey]]
  /\ Sends(p, keyb_port, p, next)
  /\ UNCHANGED <<wmVars, keyb_port, new_key, keyb_clients,
                 current_window, localVars>>

init_keyb(p, next) ==
  /\ \/ /\ Runs(p, "init_keyb")
        /\ Create(p, "keyb_process", 6, "assign_keyb_port")
        /\ UNCHANGED keyb_port
     \/ /\ Runs(p, "assign_keyb_port")
        /\ keyb_port' = Returned(p)
        /\ Forget(p)
        /\ Jump(p, "resign_keyb")
        /\ UNCHANGED <<vars, received>>
     \/ Runs(p, "resign_keyb") /\ Resigns(p, next) /\ UNCHANGED keyb_port
  /\ UNCHANGED <<wmVars, new_key, keyb_msg, keyb_clients, current_window,
                 localVars>>

-----------------------------------------------------------------------------
(* The keyboard. *)

(* A key that keyb_process has still to read. *)
Unread == \E n \in Proc :
  \/ at[n] = "keyb_notifier" /\ rq.state[n] = "MESSAGE_BLOCKED"
  \/ at[n] = "keyb_received" /\ rq.state[n] = "READY"
     /\ LET first == IF pc[n] = "user" THEN Sender(n) ELSE param_proc[n]
        IN first = port[Returned(n)].owner

NotifierWaits == /\ interrupt_table[KEYB_IRQ] # NULL
                 /\ rq.state[interrupt_table[KEYB_IRQ]] = "INTR_BLOCKED"

key_stroke == /\ NotifierWaits
              /\ Patient => ~Unread /\ windows # <<>>
              /\ isr_keyb
              /\ UNCHANGED <<received, progVars, wmVars, keybVars>>

=============================================================================
