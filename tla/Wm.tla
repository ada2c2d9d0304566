---------------------------------- MODULE Wm ----------------------------------
(***************************************************************************)
(* The window manager process (wm.c), as its callers see it: the circular  *)
(* list of windows, which of them has the focus, and the assertions on     *)
(* window ids.  The contents and places of windows, and the screen, are    *)
(* not modelled.  A MSG_WM is known by the process on whose stack it lies. *)
(***************************************************************************)
EXTENDS Programs, SequencesExt

CONSTANT NullWord    \* the word at address 0, where a null pointer points

ASSUME NullWordAssumption == NullWord \in Int

VARIABLES
  wm_port,         \* the global variable, NULL until init_wm assigns it
  windows,         \* the window ids of the circular list, from
                   \* window_tail->next on: the last is window_tail
  wm_msg           \* Proc -> the process's MSG_WM: action and window_id,
                   \* only the latter once it is handled

wmVars == <<wm_port, windows, wm_msg>>

NoWindow == -1

Handled(id) == [action |-> NULL, window_id |-> id]

WmInit == /\ wm_port = NULL
          /\ windows = <<>>
          /\ wm_msg = [p \in Proc |-> Handled(NoWindow)]

(* window_tail->window_id, also where window_tail is a null pointer: the   *)
(* window with the focus is the one at the tail.                           *)
Focus == IF windows = <<>> THEN NullWord ELSE Last(windows)

(* next_window_id: windows are numbered from 0 and never removed. *)
next_window_id == Len(windows)

Answer(s, id) == wm_msg' = [wm_msg EXCEPT ![s] = Handled(id)]

(* wm_create_impl: the new window is linked in behind window_tail and      *)
(* becomes window_tail, which gives it the focus.                          *)
wm_create_impl(s) ==
  /\ windows' = Append(windows, next_window_id)
  /\ Answer(s, next_window_id)

wm_change_focus(s) ==
  \/ windows = <<>> /\ Answer(s, NoWindow) /\ UNCHANGED windows
  \/ /\ windows # <<>>
     /\ windows' = Append(Tail(windows), Head(windows))
     /\ Answer(s, Head(windows))

wm_current_focus(s) == Answer(s, Focus) /\ UNCHANGED windows

(* All other actions, and wm_print: get_window_from_id has to find the     *)
(* window that is printed to, cleared or moved; moves accept NoWindow.     *)
Found(id) == \E k \in DOMAIN windows : windows[k] = id

wm_control_impl(s, action) ==
  \/ action = "create" /\ wm_create_impl(s)
  \/ action = "change_focus" /\ wm_change_focus(s)
  \/ action = "current_focus" /\ wm_current_focus(s)
  \/ action = "update" /\ Answer(s, wm_msg[s].window_id) /\ UNCHANGED windows

process_window_manager(p) ==
  /\ \/ /\ Runs(p, "wm")
        /\ Receives(p, "wm_handle")
        /\ UNCHANGED <<windows, wm_msg>>
     \/ LET msg == wm_msg[Message(p)]
            lost == /\ msg.action = "update"
                    /\ msg.window_id # NoWindow /\ ~Found(msg.window_id)
        IN /\ Runs(p, "wm_handle")
           /\ \/ /\ ~lost
                 /\ wm_control_impl(Message(p), msg.action)
                 /\ Replies(p, Sender(p), "wm")
              \/ /\ lost
                 /\ Panic("get_window_from_id")
                 /\ UNCHANGED <<received, progVars, windows, wm_msg>>
  /\ UNCHANGED wm_port

(* A call of wm_create, wm_change_focus, wm_current_focus, or of one that  *)
(* updates a window; wm_msg[p].window_id is its result when it returns.    *)
wm_call(p, action, id, next) ==
  /\ wm_msg' = [wm_msg EXCEPT ![p] = [action |-> action, window_id |-> id]]
  /\ Sends(p, wm_port, p, next)
  /\ UNCHANGED <<wm_port, windows>>

(* The caller has its result, and its MSG_WM is gone. *)
wm_returned(p) == /\ wm_msg' = [wm_msg EXCEPT ![p] = Handled(NoWindow)]
                  /\ UNCHANGED <<wm_port, windows>>

(* init_wm does not call resign(). *)
init_wm(p, next) ==
  /\ \/ /\ Runs(p, "init_wm")
        /\ Create(p, "wm", 6, "assign_wm_port")
        /\ UNCHANGED wm_port
     \/ /\ Runs(p, "assign_wm_port")
        /\ wm_port' = Returned(p)
        /\ Forget(p)
        /\ Jump(p, next)
        /\ UNCHANGED <<vars, received>>
  /\ UNCHANGED <<windows, wm_msg>>

=============================================================================
