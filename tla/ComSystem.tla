------------------------------ MODULE ComSystem ------------------------------
(***************************************************************************)
(* The serial line with programs of priority 5 that send requests, from    *)
(* the boot process's call of init_com on.                                 *)
(***************************************************************************)
EXTENDS Com

CONSTANT Lengths      \* the lengths of the answers that programs wait for

ASSUME LengthsAssumption == Lengths \subseteq Nat /\ Lengths # {}

(* kernel.h has room for more than the boot, null and com processes, the   *)
(* priorities 0 .. 7, and a port for every process but the boot process    *)
(* with a second one for com_process.                                      *)
ASSUME RoomAssumption ==
  MAX_PROCS >= 4 /\ MAX_READY_QUEUES >= 8 /\ MAX_PORTS >= MAX_PROCS

comSystemVars == <<vars, received, progVars, comVars>>

CInit == ProgramsInit("init_com") /\ ComInit

BootProgram(p) ==
  \/ init_com(p, "create_programs")
  \/ /\ Runs(p, "create_programs") /\ next_free_pcb # NULL
     /\ Create(p, "program", 5, "create_programs")
     /\ UNCHANGED comVars
  \/ /\ Runs(p, "create_programs") /\ next_free_pcb = NULL
     /\ Dies(p)
     /\ UNCHANGED comVars

Request(p) == /\ Runs(p, "program")
              /\ \E len \in Lengths : send_to_com(p, len, "program")

ComReader(p) == com_reader_process(p)
ComProcess(p) == com_process(p)
Return(p) == Continue(p) /\ UNCHANGED comVars
Byte == com1_byte
Tick == isr_timer /\ UNCHANGED <<received, progVars, comVars>>
Loop == Loops /\ UNCHANGED comVars

Step(p) == BootProgram(p) \/ ComReader(p) \/ ComProcess(p) \/ Return(p)

CNext == (\E p \in Proc : Step(p) \/ Request(p)) \/ Byte \/ Tick \/ Loop

(* The device sends its bytes; a process that is dispatched again and      *)
(* again takes its step.                                                   *)
Fairness == WF_comSystemVars(Byte) /\ \A p \in Proc : SF_comSystemVars(Step(p))

CSpec == CInit /\ [][CNext]_comSystemVars /\ Fairness

-----------------------------------------------------------------------------
(* Properties *)

ComTypeOK ==
  /\ com_port \in Port \cup {NULL}
  /\ com_writer_port \in Port \cup {NULL}
  /\ com_sender \in ProcOrNull
  /\ len_input_buffer \in [Proc -> Lengths \cup {0}]
  /\ \A p \in Proc : Len(input_buffer[p]) \in 0 .. len_input_buffer[p]
  /\ \E longest \in Lengths : reader_i \in 0 .. longest
  /\ uart \in ProcOrNull

(* No byte finds the reader away, no reply goes to a process that does not *)
(* wait for one.  The exception is the boot race.                          *)
ComNeverPanics == halt # "no" => halt = "Failed assertion" /\ com_port = NULL

(* The service keeps its types, its buffers their lengths, and the machine *)
(* never stops.                                                            *)
ComIsSound == ComTypeOK /\ ComNeverPanics

(* ipc.c:64 assert(port->magic == MAGIC_PORT): com_port is assigned when   *)
(* com_process opens it.                                                   *)
AssertionsHold == halt # "Failed assertion"

Programs == {p \in Proc : at[p] = "program"}

(* One request at a time: while one is served the others are in the list   *)
(* of the port, and every byte goes to the buffer of the request that it   *)
(* answers.                                                                *)
RequestsAreSeparate ==
  /\ \A p, q \in Programs :
       rq.state[p] = "REPLY_BLOCKED" /\ rq.state[q] = "REPLY_BLOCKED" => p = q
  /\ \A p \in Programs : \A k \in DOMAIN input_buffer[p] : input_buffer[p][k] = p
  /\ line # <<>> => rq.state[Head(line)] = "REPLY_BLOCKED"

Readers == {p \in Proc : at[p] \in {"com_reader", "reader_start",
                                    "reader_loop", "read_byte"}}

(* com.c:99, where the assertion is a comment: recv_proc is the reader.    *)
(* What com_process receives between a request and its reply comes from    *)
(* the reader, however many programs send requests meanwhile.              *)
OnlyTheReaderAnswers ==
  \A p \in Proc : Runs(p, "com_reply") => Sender(p) \in Readers

(* What holds com.c together between a request and its answer: nobody else *)
(* is served and nobody else's message is taken for the reader's.          *)
OneRequestAtATime == RequestsAreSeparate /\ OnlyTheReaderAnswers

(* send() to com_port returns when the whole answer is in the buffer and   *)
(* nothing of it is left on the line.                                      *)
AnswersAreComplete ==
  [][\A p \in Programs :
       rq.state[p] = "REPLY_BLOCKED" /\ rq.state'[p] = "READY" =>
         /\ Len(input_buffer[p]) = len_input_buffer[p]
         /\ line = <<>> /\ uart = NULL]_comSystemVars

(* Every request is answered, whoever else sends requests. *)
EveryRequestEnds ==
  \A p \in Proc : (at[p] = "program" /\ rq.state[p] # "READY")
                    ~> (rq.state[p] = "READY" \/ halt # "no")

=============================================================================
