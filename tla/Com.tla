--------------------------------- MODULE Com ---------------------------------
(***************************************************************************)
(* The serial line (com.c): a process of priority 6 that takes one request *)
(* at a time, and a reader of priority 7 that fills its input buffer, one  *)
(* interrupt per byte.  A COM_Message is known by the process on whose     *)
(* stack it lies.  A byte is known by the process whose command it         *)
(* answers.                                                                *)
(*                                                                         *)
(* The device answers a command with as many bytes as its sender waits     *)
(* for.  The first byte may come at once.  The next one takes the time of  *)
(* a byte on the line (4 ms), so it comes when the reader, which nothing   *)
(* preempts for long, has read the one before and waits again.             *)
(***************************************************************************)
EXTENDS Programs

VARIABLES
  com_port,          \* the global variable, NULL until init_com assigns it
  com_writer_port,   \* of com_process, and the parameter of com_reader_process
  com_sender,        \* sender_proc of com_process: who is served
  reader_i,          \* the i of com_reader_process
  len_input_buffer,  \* of the COM_Message of a process
  input_buffer,      \* of the COM_Message of a process
  line,              \* the bytes the device has still to send
  uart               \* the byte received and not yet read, or NULL

comVars == <<com_port, com_writer_port, com_sender, reader_i,
             len_input_buffer, input_buffer, line, uart>>
messageVars == <<len_input_buffer, input_buffer>>
deviceVars == <<line, uart>>

ComInit == /\ com_port = NULL /\ com_writer_port = NULL /\ com_sender = NULL
           /\ reader_i = 0
           /\ len_input_buffer = [p \in Proc |-> 0]
           /\ input_buffer = [p \in Proc |-> <<>>]
           /\ line = <<>> /\ uart = NULL

(* Bugs: the reader waits for one byte too many; it stops one byte early. *)
Full_late(p)  == reader_i > len_input_buffer[Message(p)]
Full_early(p) == reader_i + 1 >= len_input_buffer[Message(p)]

reader_start(p) ==
  /\ Runs(p, "reader_start")
  /\ reader_i' = 0
  /\ Computes(p, "reader_loop")
  /\ UNCHANGED <<com_port, com_writer_port, com_sender, messageVars, deviceVars>>

(* The end of the reader's loop; msg is what its receive() returned. *)
Full(p) == reader_i = len_input_buffer[Message(p)]

com_reader_process(p) ==
  \/ /\ Runs(p, "com_reader")
     /\ Receives(p, "reader_start")
     /\ UNCHANGED comVars
  \/ reader_start(p)
  \/ /\ Runs(p, "reader_loop")
     /\ \/ ~Full(p) /\ Waits(p, COM1_IRQ, "read_byte")
        \/ Full(p) /\ Messages(p, com_writer_port, p, "com_reader")
     /\ UNCHANGED comVars
  \/ /\ Runs(p, "read_byte")
     /\ input_buffer' = [input_buffer EXCEPT ![Message(p)] = Append(@, uart)]
     /\ uart' = NULL
     /\ reader_i' = reader_i + 1
     /\ Computes(p, "reader_loop")
     /\ UNCHANGED <<com_port, com_writer_port, com_sender, len_input_buffer, line>>

(* send_cmd_to_com: the command goes out and will be answered. *)
send_cmd_to_com(msg) ==
  line' = line \o [k \in 1 .. len_input_buffer[msg] |-> msg]

(* A bug: the reader has a lower priority than com_process, which sends    *)
(* the command before the reader waits.                                    *)
com_process_start_slow_reader(p) ==
  /\ \/ /\ Runs(p, "com_process")
        /\ create_port(p)
        /\ com_writer_port' = next_free_port
        /\ Jump(p, "create_reader")
        /\ UNCHANGED <<received, ret>>
     \/ /\ Runs(p, "create_reader")
        /\ Create(p, "com_reader", 5, "open_com_port")
        /\ UNCHANGED com_writer_port
  /\ UNCHANGED <<com_port, com_sender, reader_i, messageVars, deviceVars>>

(* com_process before its loop: a second port, and the reader.  The result *)
(* of this create_process is its local variable com_reader_port.           *)
com_process_start(p) ==
  /\ \/ /\ Runs(p, "com_process")
        /\ create_port(p)
        /\ com_writer_port' = next_free_port
        /\ Jump(p, "create_reader")
        /\ UNCHANGED <<received, ret>>
     \/ /\ Runs(p, "create_reader")
        /\ Create(p, "com_reader", 7, "open_com_port")
        /\ UNCHANGED com_writer_port
  /\ UNCHANGED <<com_port, com_sender, reader_i, messageVars, deviceVars>>

(* A bug: com_port stays open while com_process waits for the reader. *)
close_com_port_left_out(p) ==
  Runs(p, "close_com_port") /\ Computes(p, "open_writer_port")

close_com_port(p) ==
  Runs(p, "close_com_port") /\ Closes(p, com_port, "open_writer_port")

(* The loop of com_process: it serves what it receives on com_port, with   *)
(* com_writer_port closed, then waits for the reader with com_port closed. *)
com_process_loop(p) ==
  \/ /\ \/ Runs(p, "open_com_port") /\ Opens(p, com_port, "close_writer_port")
        \/ Runs(p, "close_writer_port") /\ Closes(p, com_writer_port, "com_receive")
        \/ Runs(p, "com_receive") /\ Receives(p, "start_reader")
        \/ close_com_port(p)
        \/ Runs(p, "open_writer_port") /\ Opens(p, com_writer_port, "await_reader")
        \/ Runs(p, "await_reader") /\ Receives(p, "com_reply")
        \/ Runs(p, "com_reply") /\ Replies(p, com_sender, "open_com_port")
     /\ UNCHANGED comVars
  \/ /\ Runs(p, "start_reader")
     /\ com_sender' = Sender(p)
     /\ Messages(p, Returned(p), Message(p), "send_cmd")
     /\ UNCHANGED <<com_port, com_writer_port, reader_i, messageVars, deviceVars>>
  \/ /\ Runs(p, "send_cmd")
     /\ send_cmd_to_com(Message(p))
     /\ Computes(p, "close_com_port")
     /\ UNCHANGED <<com_port, com_writer_port, com_sender, reader_i, messageVars, uart>>

com_process(p) == com_process_start(p) \/ com_process_loop(p)

(* A program sends a command and waits for len bytes: train.c. *)
send_to_com(p, len, next) ==
  /\ len_input_buffer' = [len_input_buffer EXCEPT ![p] = len]
  /\ input_buffer' = [input_buffer EXCEPT ![p] = <<>>]
  /\ Sends(p, com_port, p, next)
  /\ UNCHANGED <<com_port, com_writer_port, com_sender, reader_i, deviceVars>>

init_com(p, next) ==
  /\ \/ Runs(p, "init_com") /\ Create(p, "com_process", 6, "assign_com_port")
        /\ UNCHANGED com_port
     \/ /\ Runs(p, "assign_com_port")
        /\ com_port' = Returned(p)
        /\ Forget(p)
        /\ Jump(p, "resign_com")
        /\ UNCHANGED <<vars, received>>
     \/ Runs(p, "resign_com") /\ Resigns(p, next) /\ UNCHANGED com_port
  /\ UNCHANGED <<com_writer_port, com_sender, reader_i, messageVars, deviceVars>>

(* The device sends its next byte, which interrupts. *)
FirstOfAnswer == uart = NULL /\ input_buffer[Head(line)] = <<>>
ReaderWaits == /\ uart = NULL
               /\ interrupt_table[COM1_IRQ] # NULL
               /\ rq.state[interrupt_table[COM1_IRQ]] = "INTR_BLOCKED"

com1_byte == /\ line # <<>>
             /\ FirstOfAnswer \/ ReaderWaits
             /\ isr_com1
             /\ uart' = Head(line)
             /\ line' = Tail(line)
             /\ UNCHANGED <<received, progVars, com_port, com_writer_port,
                            com_sender, reader_i, messageVars>>

=============================================================================
