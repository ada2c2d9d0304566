# TOS kernel: a TLA+ model

TOS is a small preemptive multitasking kernel for the PC (C, `src/kernel`) with
synchronous messages, a few drivers (timer, serial line, keyboard, window
manager) and programs that run on it (shell, train control, two games). This
directory models its processes as they run on the kernel, interrupts and all, and,
apart from each other, the parts that are sequential programs or libraries; it checks
them with TLC and proves the central properties with TLAPS.

## 1. Inventory

| component | state | operations | who calls it |
|---|---|---|---|
| processes (`process.c`) | `pcb[]`, free list through `PCB.next`, `active_proc` | `create_process`, `init_process` | programs, drivers |
| dispatcher (`dispatch.c`, `disptable.c`, `gentable.cc`) | one circular doubly linked ring per priority, bits `ready_procs`, `table` | `add_ready_queue`, `remove_ready_queue`, `dispatcher`, `resign`, `become_zombie` | every kernel call, every ISR |
| messages (`ipc.c`) | `port[]`, list of blocked senders per port through `PCB.next_blocked`, `param_proc`, `param_data` | `create_port`, `open_port`, `close_port`, `send`, `message`, `receive`, `reply` | programs, drivers |
| interrupts (`intr.c`) | `interrupt_table`, the interrupt flag | `isr_timer`, `isr_com1`, `isr_keyb`, `wait_for_interrupt` | hardware, the notifier processes of the drivers |
| panic (`assert.c`), null process (`null.c`), start (`main.c`) | - | the machine stops; priority 0 loops; creates everything | |
| timer service (`timer.c`) | `ticks_left[]` | `sleep`, notifier (7), service (6) | programs |
| serial line (`com.c`) | two ports, the request in progress | service (6) and reader (7) | train |
| keyboard (`keyb.c`) | modifier keys, a ring buffer of keys per window, `current_window` | notifier (7), service (6), `keyb_get_keystroke` | shell, games |
| window manager (`wm.c`) | circular list of windows, buffers, cursors, `screen_buffer` | service, `wm_*` | everything that prints |
| kernel window (`window.c`) | cursor; the screen itself | `output_char`, `clear_window`, `vsprintf` | kernel, tests |
| heap (`malloc.c`) | list of blocks, `sbrk_ptr` | `malloc`, `calloc`, `free`, `realloc` | keyboard, window manager, shell |
| shell (`shell.c`) | input line | read, split, execute; `conv` | user, by keyboard and window |
| train (`train.c`) | the configuration, the place in a script | commands over the serial line, answers of contacts | user; the simulator `tools/train/train.pyw` |
| pong (`pong.c`) | ball, racket | moves and draws into its window's buffer | user |
| pacman (`pacman.c`) | ghosts, a shared cursor, a random number | nothing starts it | - |

What is hard: interrupts between any two instructions with interrupts enabled
(`create_process` and `become_zombie` have some inside); a call that stops in
its middle in `resign()` and goes on much later; linked structures that share
fields (`PCB.next` is the link of the free list and of the rings) and keep
stale links; a message that lies in a PCB until its receiver runs; slots that
are never freed; drivers in two processes where the notifier is away when the
next interrupt comes. In the sequential parts it is long sequences of legal calls:
reuse of blocks, cursors at the corners, modifier keys held in any order, a train
that has to be moving, or standing, when a command comes. `PROJECT.json` lists each
hazard at its line.

## 2. Modules

| module | models | how |
|---|---|---|
| `ReadyQueue` | `dispatch.c` data structure | operators from record to record, because each C function runs with interrupts disabled |
| `Kernel` | `process.c`, `dispatch.c`, `ipc.c`, `intr.c`, `null.c`, `assert.c` | one action per kernel call and ISR; calls with preemption points take several steps |
| `GeneralClient` | every program on the kernel | any process makes any call at any time, any interrupt at any time |
| `Rendezvous` | what `ipc.c` promises | queues of messages, no PCBs, links or dispatcher |
| `RendezvousRefinement`, `RendezvousProofs` | - | refinement mapping from the kernel to `Rendezvous`; theorem |
| `KernelInvariant` | - | the inductive invariant |
| `KernelProofs` | - | theorems about `ReadyQueue` and `Kernel` |
| `MCGeneralClient` | - | instances for TLC |
| `Programs` | the frame of a particular program on the kernel | `at[p]` is the place in the program, `pc[p]` the place in a kernel call; one operator per kernel call, with the assertion on a null port |
| `Timer`, `TimerSystem`, `TimerProofs` | `timer.c`; with programs that sleep; theorems | notifier, service, `sleep`, `init_timer`; ghosts: what a sleeper asked for and the ticks since |
| `Com`, `ComSystem`, `ComProofs` | `com.c`; with programs that send requests as `train.c` does; theorems | reader, service, `init_com`, and a device that answers |
| `Wm` | `wm.c` as its callers see it | the list of windows, the focus, the assertion on window ids |
| `Keyb`, `KeybSystem`, `KeybProofs` | `keyb.c`; both services with programs that read keys; theorems | notifier, service with its client records and buffers, `keyb_get_keystroke`, `init_keyb`, and a typist |
| `Heap`, `Allocator`, `HeapProofs` | `malloc.c`; what its users rely on; theorems | blocks, memory cell by cell, users that store values; the refinement is `ImplementsAllocator` |
| `Track`, `Train` | `train.pyw` as the program meets it; `train.c` | the loop of tiles, contacts, switches and the Zamboni; the program as a sequence of commands and answers |
| `Console` | `window.c`, output | the screen and one window in it |
| `WmScreen` | `wm.c`, contents | buffers, cursors, frames, order of drawing, the screen |
| `Terminal`, `ScreenProofs` | what both windows promise; theorems | a page and a cursor |
| `KeyDecoder` | the loop of `keyb_notifier`, `get_keycode` | scan codes one by one, and a typist who holds keys |
| `KeyRing`, `KeyQueue` | `enqueue_key`, `dequeue_key`; the sequence that `Keyb` has in its place | head, tail and cells |
| `Shell` | `shell.c` | keys, line, window, `process_cmd`, `execute_cmd` |
| `Formats` | `printnum`, `vsprintf`; `conv` and its conversions | ints of a given width, texts as sequences of digits |
| `Pong` | `pong.c` | one turn of the loop per step |
| `PartsProofs` | - | theorems about `KeyRing`, `KeyDecoder`, `Pong`, `Shell` and `Train` |
| `Parts`, `MCParts` | - | the nine state machines above side by side; instances for TLC |

`Timer`, `Com`, `Wm` and `Keyb` extend `Programs`, which extends `Kernel`: every
service runs on the kernel as it is, and its steps are interleaved only as the
dispatcher and the interrupts allow. The `..System` modules compose the services
with the boot process, programs and hardware. `Keyb` extends `Wm`, because the
keyboard process calls the window manager.

### Steps

The kernel runs on one CPU. `DISABLE_INTR` .. `ENABLE_INTR` is one step unless it
calls `resign()`, which gives the CPU away; the process then keeps its place in
`pc[p]` and runs the rest, still with interrupts disabled, when it gets the CPU
back. Only the running process takes steps (`At`), and interrupts come only where
they are enabled (`InterruptsEnabled`). `resign()` pushes the registers, calls
`dispatcher()` and pops those of the chosen process; registers and stacks are
`pc`. A panic or a failed assertion disables interrupts and loops: `halt`.

### What `Kernel` leaves out

`magic` and `used`: no slot is ever freed and programs hold only pointers the
kernel gave them, so the `assert`s on `magic` hold; stacks, names and the process
listing; the IDT, the programming of the interrupt controller, the processor
exceptions (all of them panic). `param_data` is one of a few values.

### The services

A step of a service is what it does between two kernel calls together with the
second one, since no other process looks at its local variables; where a global
variable is read or written, or an assignment follows a call (`timer_port`,
`com_port`, `keyb_port`, `is_waiting`), it is a step of its own, and an interrupt may
come before it. A message that is a pointer is known by the process on whose stack
it points to. Local variables are cleared when they are not used any more.

Inputs: the ticks of `sleep`, the length of an answer on the line, the kind of each
scan code (a character, a control key, a navigation key, a release, a modifier) are
chosen anew each time. The code of a navigation key (INS, HOME and their like) is
`ch * 0x100`; `keyb_process` keeps its low byte (`keyb.c:407`), which is 0, the value
for no key. In `Keyb` this character is `NUL`, told apart from `NoKey` only to say in
`ReadsReturnKeys` where a 0 comes from: a read that waits may return it.

Two devices are assumed to be slower than the process that serves them,
because the kernel stops the machine otherwise (`intr.c:261`, `intr.c:323`): after
the first byte of an answer the next one comes when the COM reader waits again (a
byte takes 4 ms), and a scan code comes when the keyboard notifier waits again.
`Patient` in `Keyb` says, in addition, whether the typist waits for the first
window and until the last key is read.

`GeneralClient` keeps the three rules its header names; the programs in `src/`
keep them. Its two ghost variables say which port a sender waits on and which
senders a process has still to reply to.

### The sequential parts

Each is one process, or a library whose calls run with interrupts disabled, so that
no other process sees its state in between: a step is a call, a message, a scan
code, a key or a command. What they get from other processes is an input here, and
is modelled in the services above (`Keyb` takes any keystroke, `ComSystem` any
request). `Parts` chooses one of them at the start; the others stay as they are,
which makes the number of states a sum. No property of one mentions another.

- `Heap`: users keep to the size they asked for and free only what they hold. A call
  that finds no room fails the assertion of `sbrk` and stops the machine. `malloc(0)`,
  `free(NULL)` and `realloc(NULL, n)` are calls like the others; that a block is shrunk
  to nothing by `realloc(p, 0)`, which gives it back as it is, is left out, as are sizes
  so large that `sbrk_ptr + size` wraps round. No caller asks for either.
- `Train`: the eight scripts are data, as they are in the source; `C` in a script
  stands for `keep_probing`. The user, or the boot loader, resets the simulator, once or
  more, and the Zamboni runs from then on (`train.pyw:1126`, `1323`) over switches set at
  random: while the user has still to type `train`, it goes any number of tiles
  (`zamboni_runs`), so it may be anywhere when `init_train` comes, or a switch may have
  led it off the loop. What it does then (`Lost`) is not followed: it may be on any
  contact, and may at any time end the simulation by a collision or where the track ends
  (`zamboni_aborts`); then nothing is answered any more, and the program waits for ever.
  That the simulator is reset once more while the program runs is not modelled.
  Time is counted in tiles the Zamboni passes: it makes 2
  pixels of a tile of 30 every 0.05 s, so a tile takes 0.75 s. `sleep(SLEEP_TICKS)`
  is 1.65 s, 2.2 tiles, and `R` and `C`, each with its delays of 0.2 s and more in
  the simulator, about another: a turn of `find_zamboni` is taken to be 3 to 5
  tiles. Contact 4 covers five tiles in a row, and 15 turns of 3 tiles go once round
  the loop of 36; at 2 tiles per turn the Zamboni can be missed. In a script
  contacts answer anything, because where the train goes is not modelled.
  Configuration 5 is one that the simulator's file keeps as a comment; the program
  finds it unclear and does nothing. "Always stays" (`train.c:163`) is more than the code
  can do: `ZamboniStaysOnTheLoop` says it from when the last switch is set, and
  `ConfigurationIsRight` excepts a Zamboni that was astray before.
- `KeyDecoder`: a letter, two symbols, Enter, a digit of the keypad, its Enter and '/', an
  arrow and a navigation key stand for the keys that are treated alike, beside the
  modifiers, Print Screen and Pause. The codes of one key are not mixed with those of
  another. `Wanted` says what a key should give without a look at the tables; where they
  miss it is in `Mistabled`: the apostrophe with Caps Lock (it stands two places too far in
  `capped`, `keyb.c:60`), symbols with Caps Lock and Shift (`capped` wins), the keypad with
  Shift (`shfted` ends before it, `keyb.c:77`). The
  orders in which the code loses a key or a modifier are collected in `odd`, and
  `KeysAreTyped` names them: the code clears Alt at the release of the apostrophe
  (0x28, `keyb.c:252`) and not of Alt (0x38), so Alt mutes the keyboard until then;
  with both Shift keys down the first release ends their effect; a Caps Lock that
  repeats toggles again; Print Screen leaves `ignore` at 1.
- `Shell`: lines are shorter than the buffer and words shorter than the 20 bytes that
  `process_cmd` allocates and never frees: longer ones are written behind it. `help`
  also lists a command that is not implemented (`shell.c:84`).
- `WmScreen`: a string is printed one character per step. `'\b'` comes in a string of
  its own, as from the shell. One window, as Pong's, gets another cursor and
  position; its drawing through `wm_get_buffer` is in `Pong`.
- `Formats`: `Printf` is the field that `window.c:201-212` promises. The exceptions are
  named where they are checked: the sign is not counted in the width and stands before the
  blanks, so `%5d` of -17 is `-   17` (`window.c:174`); zeros fill a field on the right
  (`%-05d`); a `-` and a negative width for `*` together put the text at the right; a
  precision has no effect on numbers; a string that is cut and at the left of its field
  gets a blank too few (`window.c:344`); and `conv` gives no hexadecimal digits for 0 and
  wrong ones below.
- `Console`: the cursor looks unlike a blank, as in the windows of the programs.
  `kernel_window`'s own cursor is a blank (`window.c:401`), so that of `ConsoleIsATerminal`
  the part about the one cursor says nothing of it.

## 3. Runs

| run | instance | what it shows |
|---|---|---|
| `all_calls` | 3 processes, 4 ports, 2 priorities, every call and interrupt, a bad priority, all tables full | `GTypeOK`, `NeverIdle`, `RingsHoldTheReady`, `DispatchesHighest`, `WaitersAreRegistered`, `NoLostWakeup` with several ports of one owner, `ImplementsRendezvous` |
| `rendezvous` | 4 processes, so 3 that talk; send, message, receive, reply, timer | `BlockedListsAreQueues`, `EverySenderGetsAReply`, `ImplementsRendezvous` with lists of two senders and more |
| `zombie_runs` | 3 processes, one priority for programs | refutes dispatch.c:98 `// Never reached` |
| `timer` | 2 programs that sleep 0, 1 or 2 ticks | a sleep is never too short and, but for `sleep(0)`, ends; the counts are exact; no tick is lost while programs compute; no panic but in the boot race |
| `round_robin` | the same | refutes dispatch.c:108 "Within one priority level round robin is used" |
| `com` | 2 programs, answers of 0, 1 or 2 bytes | no panic but in the boot race; one request at a time, every answer complete and in the right buffer, every request ends |
| `com_boot_race` | the same | refutes ipc.c:64 `assert(port->magic == MAGIC_PORT)` |
| `keyb` | 1 program that reads, waiting or not, and prints; characters, moves, releases, modifiers | no panic, buffers keep their size, reads that do not wait return |
| `windows` | 2 programs with a window each, the second started at any time; a navigation key, which gives a character like every other key, and focus changes | no program waits beside its key, keys go to the focus, a read that waits returns a character that was typed |
| `key_lost` | 1 program, a typist who does not wait | refutes keyb.c:281: a key is overwritten before it is read |
| `key_without_window` | the same, keys before the first window | refutes keyb.c:414 "No window exists. Just discard key" |
| `parts` | the sequential parts, one at a time | heap: `HeapIsConsistent`, `ImplementsAllocator`; train: `ZamboniStaysOnTheLoop` once the switches are set, wherever it was before, `ConfigurationIsRight` with a Zamboni that moves, `SimulatorNeverAborts`, `TrainGoesAndStops`; windows: `ConsoleIsATerminal`, `WindowIsATerminal`, `ScreenIsCurrent`; keys: `KeysAreTyped`, `ImplementsKeyQueue`; shell: `LineIsShown`, `CommandIsTheFirstWord`; `TextsAreRight`, `ConvertedAlike`; `PongDrawsInItsWindow` |

Why the bounds are enough. The kernel looks at processes one or two at a time:
three processes that talk give a list with head, middle and tail, and two
priorities (0, which a program may share with the null process, and 1) a ring that
is preempted and one that preempts it, while 2 is refused; the theorems below do
away with these bounds. A service has one request in hand at a
time, so one program is in service and a second one waits or comes in between.
Ticks and lengths up to 2 give a first, a last and no turn of each loop. A buffer
of two cells is empty, full and overrun. There are two windows, of which one has
the focus. In `parts`: a heap of 9 cells has room for one to four blocks of three
sizes, so that a block is reused, is too small, moves, and the heap ends; a window of
2 by 3 cells, inside a larger screen, and one of 2 by 2, have corners, ends of lines
and a row to scroll; two windows overlap, go beyond the screen and change places;
two keys are held at once, so each modifier meets each key; a ring of 4 cells is
empty, full, overrun and wraps round at every head; lines of 4 characters have two
words with a space, or spaces on either side; ints have 8 bits, with both ends of
the range and each change of the number of digits. The track, the scripts and
Pong's window have their real size. `MAX_PROCS` is the number of processes of each
composition, so every PCB is used; where tables run full is a question of `all_calls`.

Fairness, for the temporal properties. The timer interrupts for ever (`WF` of
`Tick`). The serial device sends the bytes of an answer (`WF` of `Byte`). A step of
a service or of a call is finitely many instructions, and a process that has the
CPU executes at least one before the next interrupt: a process that is dispatched
again and again takes its step (`SF` of `Step(p)`). Nothing is assumed of when
programs make calls, nor of interrupts of the keyboard. The dispatcher is not
assumed to be fair, since it is modelled.

`zombie_runs`: a process with priority i is alone on its ring and becomes a
zombie. Between `remove_ready_queue` and `resign` an interrupt puts a waiter of the
same priority on the ring. `dispatcher()` finds i equal to the priority of
`active_proc` and takes `active_proc->next`, which is the zombie itself: it enters
the loop that the comment says is never reached, and every later tick picks it
again.

`round_robin`: a tick wakes the timer notifier and the timer process, of priority 7
and 6. When they block again `dispatcher()` comes from a process of another
priority and takes `ready_queue[i]`, the head of the ring, instead of going on after
the process that was interrupted. Two programs of priority 5 that compute, as the
shell and the games all have, never take turns.

`com_boot_race`: `create_process` enables interrupts after `add_ready_queue`, and the
caller assigns the port when it returns. One tick in between runs the new process,
of higher priority, with the global variable still null. `timer_port` and
`keyb_port` have the same race, but only a notifier uses them, so that more
interrupts must come: `TimerNeverPanics`, a part of `TimerIsSound`, names the case.

`key_lost`: the message of the notifier points to the global `new_key`. `message()`
returns as soon as `keyb_process` is ready, and the notifier, of higher priority,
goes on to the next scan code.

`key_without_window`: `wm_control_impl` reads `window_tail->window_id` where
`window_tail` is null, so the answer is the word at address 0 (`NullWord`, on a PC
the BIOS's vector of interrupt 0) and not -1. The key is kept for a window that
does not exist. An arrow key in its place is a call of `wm_move_left` for that
window and stops the machine (`wm.c:217`).

## 4. Proofs

`KernelProofs!Invariance` proves `GSpec => []IInv` for every number of processes,
ports and priorities, every set of data and of calls. Assumptions: the sizes are
naturals (two PCBs and two priorities at least, one port), `NULL` is not an
integer, the call and payload constants have their types.

`IInv` (module `KernelInvariant`) is needed because the properties are not
inductive. A ring stays a ring only if the free list and the rings are disjoint
(they share `PCB.next`); the dispatcher finds a member only if the running
process is on its ring or has just left it; a delivered message is not
overwritten only if a process that is made ready in `receive()` is not receive
blocked; a blocked list is exact only if `waits_on` agrees with the states.

The argument: the first part of `KernelProofs` proves once what `add_ready_queue`,
`remove_ready_queue` and `dispatcher` do to rings (a ring is a permutation of its
members with a single cycle, said by closure of subsets, so no induction is
needed). The second has one lemma per action, `NextInv` puts them together,
and each property of the runs follows from `IInv` and is a theorem of its own.

**The kernel implements `Rendezvous`** (`RendezvousProofs!KernelImplementsRendezvous`),
for any programs. A queue of the abstraction is the list that `next_blocked` links.
Beside `IInv` this needs that the links are acyclic, said as: every set of processes
that is not empty has one whose link leads out of it. That makes a list end, and
gives by the least counterexample the one recursive function that `Chain` chooses,
so no induction theorem is used. There is one lemma per call that says what it does
to the lists, and the mapped step follows. The hypothesis `~KeepsResults` is that of
the run: `Rendezvous` shows what a `receive()` returned in the step it returns in.

**The timer service** (`TimerProofs`), for any number of programs and any sleeps. The
kernel under these programs is an instance `K` of `KernelProofs`: the two ghosts of
`GeneralClient` (`waits_on`, `clients`) are told from the state (`SentTo`,
`ToReply`), every step is shown to be a step of the general client, and `K!IInv`
follows. `TimerInv` adds where the boot process, the service, the notifier and a
program can be, and with what registers (`BootStages`, `ServiceStages`,
`NotifierStages`, `ProgramStages`). The two parts that carry the rest are
`ServiceFirst`, that nobody runs while the service or the notifier can, which comes
from the priorities and `DispatchedHighest`; and `TicksHaveCome`, that the ticks a
count has gone down by and those under way (with the notifier, in a message, in a
turn of the loop) are no more than the ticks since the call. `TicksAssumption` says
that there is a longest sleep, `RoomAssumption` that the tables of `kernel.h` have
room for the services and a port for every process, as they have.

**The serial line** (`ComProofs`), in the same frame, for any number of programs and
answers of any lengths. A request is `Asked` (the service has it), `Serving` (the
reader has it) or `Answered`. `OneCustomer` says that the only process that waits for a
reply is the one whose request this is, `ReaderIsAsked` that the reader reads
exactly while serving, and `BytesAddUp` that the bytes in the buffer, in the UART and
on the line are as many as asked for. `ServiceFirst` is used for the reader: its
priority is 7, so it waits again before the next byte, and no interrupt of the line
finds nobody.

**The keyboard service and the window manager** (`KeybProofs`), in the same frame, for
any number of programs that make windows, read, print and start others, any keys and
buffers of any size. The hypothesis is a patient typist (`Patient`); without one the
runs `key_lost` and `key_without_window` show what happens. `KeybInv` has, beside
the stages of each process:

- `ServiceFirst`: no program runs while one of the two services or the notifier can.
  So a program that calls finds both services in `receive()` with nobody waiting for
  them (`ProgramRuns`), and a key finds the notifier.
- `OneAtATime`: each service has one customer, which it has still to reply to. Only
  `keyb_process` may have to wait for the window manager, in its list of senders,
  and only the notifier for `keyb_process`; `TheLists` follows.
- `ServiceAsks`: `keyb_process`, in the middle of a key or a read, has asked the
  window manager what the place it waits at says, and the answer is still the focus
  when it goes on, since no program has run in between.
- `ProgramsHaveWindows`: ids are unique and exist, so no window is not found.
- `KeysAreKept`: a key is in `new_key` until it is read. Here the typist's patience
  is needed.
- `RecordsAreFound`, `RecordsAreRight`, `FocusIsKnown`: the properties of the runs,
  with the exceptions that hold while a key is under way: between the reply to a
  client and `is_waiting = FALSE` (`BeingGiven`), while a read is handled
  (`ServedNow`), and between a change of the focus and its answer. That
  `current_window` is right once the focus has a record rests on a detail of
  `get_client_record`: it asks for the focus exactly when it makes a record, and a
  new window, which takes the focus silently, has none yet.

There is one lemma for each kind of kernel call, which says what it does under this
invariant (`SendDelivers`, `ReplyStep`, `TakesStep`, ..), and one for each step of
each program. `RoomAssumption` is that of the timer. That a read returns with a key
(`ReadsReturnKeys`) is then a matter of the two actions that answer reads: what is
in the buffers and in `keyb_process` is the low byte of some key that was typed.

**The heap** (`HeapProofs`), for any bounds, any `META_SIZE` and any requests.
`HeapIsConsistent` is not inductive: that neighbours are adjacent says nothing yet of
blocks further apart. `HeapInv` adds `Apart` (a block ends before each later one
begins), `Taken` (a pointer is held if and only if its block is not free) and
`HoldsData` (behind a header, and behind the last block, is data), kept when a
block is added at the end, taken again, freed or moved by `realloc`.
`HeapImplementsAllocator` then compares memory pointer by pointer.

**The windows** (`ScreenProofs`), of any size. Both are shown to be a `Terminal`. For the
window manager this needs `Printed` and `Ready`: behind the cursor everything is
empty, so a newline and a character land on an empty cell, but for the moment after a
`'\b'`, which is why it is printed in a string of its own. The list of windows holds
the first one once (`Sole`), whatever is done to the others. Pages are compared cell by
cell. The assumption is that empty cells and what is printed do not look like the
cursor.

`ScreenStaysCurrent` says that the screen shows the uppermost window at every place, for
any windows, overlapping or beyond the screen. `redraw_screen` draws one window after
another over what is there, so the model folds over the indices of the list; `Painted`
says what a place shows once the windows of a set of indices are drawn, which is what the
greatest of them whose window covers it draws there, and `DrawnIsPainted` that the fold
computes it. Since induction is out of the provers' reach, that lemma takes the least `k`
with a set up to `k` for which the two would differ (`Least`). The invariant, `ScreenInv`, adds `OnScreen`: the cursor of every window is on a
cell of its buffer, which is what `wm_print_char` must keep through every line end, scroll
and backspace, or a window would be drawn with a cell of another row.

**The key ring** (`PartsProofs!RingImplementsKeyQueue`) refines the queue, for an
array of any size above 1 and any keys. The queue is read off the ring by
`Count` and `Place`, which are the two cases of a head before or behind the tail. Its
type needs only `RingIsTyped`; then there is one lemma per operation, with a case
for a full ring (the tail moves, the queue loses its first key) and one for the
others, each compared place by place.

**The key decoder** (`PartsProofs!KeysStayTyped`), for a typist who holds any number of
keys. `DecoderInv` lists where the decoder can be within a key: which codes are still to
come, with which counts in `ignore` and `special`, and which of the flags is not yet what
the held keys say (`CapsRight`, `ShiftRight`, `AltRight`). It is not enough to follow the
histories in which nothing odd has happened: the effects of Shift and of Alt come right
again, so the flags must be known while they are wrong, and only what is `Misled` for good
is given up. What `Mistabled` names is odd for one key only; all else that the three tables and
`special_keycode` give is compared with `Wanted` key by key.

**Pong** (`PartsProofs!PongDrawsInside`) draws ball and racket inside the buffer, for a
window and a racket of any size that fits. The property is not inductive: the
cells drawn say nothing of where the ball goes next. `PongInv` keeps the ball within
the walls with a direction of one cell each way, which holds because it is turned
round at a wall before it moves, and the racket within the height of the window after
every key. `CellIsInBuffer` turns rows and columns into offsets.

**The shell** (`PartsProofs!LineStaysShown`, `CommandStaysTheFirstWord`), for lines of any
length. `ShellInv` says in addition that a line without an odd key holds no NUL, so
it is the string that `process_cmd` sees, and that what was executed is the line
still in the buffer. The second theorem compares the walk of `process_cmd`, which
skips spaces and takes a word up to the next one, with words counted by the places
where they start (`Starts`): the first letter behind the leading spaces is the
least such place.

**The train** (`PartsProofs!CommandsInOrder` and the four after it). Three properties hold
for any timing, wherever the Zamboni went before the program, and whatever the contacts
answer: `SimulatorNeverAborts`, `TrainGoesAndStops` and `ZamboniStaysOnTheLoop`. The
invariant of the first two, `CommandInv`, says that what is left of the script
is in order for the speed the train has now. `InOrder` asks for the speeds between the
commands, so each of the nine lists needs one lemma that names its speeds, and one lemma
(`InOrderTail`) carries the rest of any list past its first command. The third rests on
`RouteInv`: the switches that `init_train_track` has set so far, and all five when it is done
(`LoopIsClosed`: with these no number of tiles leads astray; the scripts, which set them
anew, begin when the Zamboni is not followed any more).

`ConfigurationIsRight` depends on how far the Zamboni comes while the program sends and
sleeps. It is proved under `Timely`: a command, and a turn of `find_zamboni`, let it pass at
most five tiles, and `ZAMBONI_LOOP` turns bring it round the loop. That is what the comment
on `find_zamboni` asks of `ZAMBONI_LOOP` and what the times of section 2 amount to; the
values of `MCParts.cfg` satisfy it with turns of at least `d = 3` tiles, and for slower
programs it can be false (a contact of five tiles is passed between two questions).
Nothing is assumed of where on the loop the Zamboni is when the program starts. `PlaceInv`
follows it by its distance to contact 4, `ToGo`, which shrinks by at least `d` in every
turn of the search (`Nearing`), so that the contact cannot be passed and the turns do not
run out before it is reached. For `check_configuration` it lists the
questions that the answers of each configuration lead to (`Asked`). A Zamboni that is lost
stays lost (`NotLostBefore`), which is why one on the loop at the end was there at every
question. What the theorem adds to the run is any timing of that kind, in place of one.

Only model-checked: everything under fairness (a read that does not wait returns,
sleeps and requests end); and what the recursive functions of `Formats` compute, which would need an
induction that the installed provers cannot do.

## 5. Not modelled

`PROJECT.json` lists every component. Left out for good: the byte loops of
`stdlib.c`, `mem.c` and `inout.c`, the code before `kernel_main`, the processor's
tables, the disk, loader and test tools on the host, and the tests, whose programs
make calls that `GeneralClient` makes too. Of the simulator of the train the drawing
and the way of train and wagon are left out; of the shell what `help`, `ps` and
`about` print.

Left out so far, in the order in which they are planned:

1. `Boot`: all services started in the order of `main.c`, on one kernel.
2. `Pacman`: the ghosts share the cursor of the window and the random number, in
   functions with interrupts enabled, so that a tick between `move_cursor` and
   `remove_cursor` can let one ghost wipe the mark of another. Nothing starts them
   in this repository.
