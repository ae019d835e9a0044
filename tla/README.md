# A TLA+ verification of the ALPR system

The repository reads licence plates on a DE10-Standard board. Software on the
HPS finds plates in camera frames and packs them side by side into an image
strip; the FPGA reads the plates with an OCR accelerator; the two halves talk
through a few PIO registers according to the AHIM protocol. This directory holds
TLA+ models of the parts whose behaviour is hard to test, the TLC configurations
that check them, an abstract protocol the FPGA's controller is shown to implement, and
TLAPS proofs about the FPGA's controller, its data port, its accelerator, its result
receiver, the software's loop and its process: every safety property the passing runs check
is also a theorem, for all sizes.

Paths below are relative to `src/`. `PROJECT.json` has the line-by-line map of
definitions to sources, the hazards, and the list of runs, mutants and theorems.

## 1. The system

### 1.1 Parts, state and operations

| Part | Source | State | Operations |
|---|---|---|---|
| AHIM core controller | `FPGA_HPS_Bridge_AHIM/hardware/fpga_src/ahim_core_controller.sv` | FSM of 16 states, command one-shot, INIT and UPLOAD payload, image and result counters, image window, OCR watchdog, header latch | decode INIT, UPLOAD, ACK, RESET; walk the accelerator through the images; report faults |
| Breakpoint RAM | `.../Breakpoint_RAM.v` | last column of every image | written by RX_UNIT, read with two cycles of latency |
| RX_UNIT, TX_UNIT | `.../RX_UNIT.sv`, `.../TX_UNIT.sv`, bus registers `fpga_soc_top/pio128_out.sv`, `pio128_in.sv` | handshake registers, beat and word counters, write address, link watchdogs | receive two bursts (breakpoints, columns); send header and results |
| OCR_RX_UNIT, Result_FILO | `.../OCR_RX_UNIT.sv`, `.../Result_FILO.sv` | text shift register, word shift register, word count, result buffer | load a text, shift it into words, push, pop |
| OCR accelerator | `FPGA_OCR_CNN/fpga_src/` | System_SM and Memory_CU with their counters and addresses, pixel registers, ReLU buffer, result comparator | load a column, convolve, score the classes, find the winner, go on or back, answer |
| Software state machine | `ALPR_SYSTEM/src/alpr_statemachine.cpp` | loop state, bank of plates, job flag, stuck-status counters, requests | one handler per loop state; stop, restart |
| Bridge API | `ALPR_SYSTEM/src/fpga_access_api/` | register mapping, time-outs | commands, `sendImageStrip`, `receiveResultStrings` |
| Process life cycle, control socket | `ALPR_SYSTEM/src/main.cpp`, `socket_server.cpp`, `alprctl/src/main.cpp` | PID file, main and socket thread, mutex, requests, listening socket | start, stop, restart, status, flush, signals |
| Logger | `ALPR_SYSTEM/src/logger.cpp` | line buffers, file sizes | write, flush, rotate |
| Detection, segmentation, configuration, LCD, SoC top level | see `PROJECT.json` | none that other parts depend on | - |

### 1.2 How they interact

A strip goes round once: the software detects and segments plates into
`presend_images_`; CHECK_FPGA reads the status register; SEND_IMAGE writes UPLOAD,
then the breakpoint burst, then the column burst. The controller shows one image
after the other to the accelerator, hands every readable text to OCR_RX_UNIT,
raises `final_image`, latches the header and waits in WAIT_TX. The software reads
header and words (RECEIVE_RESULT), removes repetitions (POSTPROCESS) and writes ACK
(SEND_ACK). There are no interrupts: the software learns everything by polling the
status register between frames. Requests of the control socket arrive between two
turns of the loop.

### 1.3 What is hard

* **Pulses one or two cycles apart.** Breakpoints are prefetched through a RAM
  with latency; the header is latched from a counter that moves one cycle after
  its trigger; RESET clears the addresses one cycle after the FSM has moved; the
  accelerator may answer in the cycle its watchdog fires, or the next.
* **Two machines that only count alike.** System_SM and Memory_CU of the accelerator
  walk the same loops with separate counters, some cycles apart, and meet only at a start
  and at a winner.
* **Blind bursts.** The software looks at the data port once and then writes or reads
  a whole burst; the port closes between breakpoints and columns, and results come through
  a buffer that answers four cycles late.
* **Two threads and a process that may die anywhere.** Stop, restart and signals race the
  loop, its start and its end, while the FPGA keeps whatever state it was left in.
* **Equality tests on counters.** A batch ends only where the image counter is
  met exactly; the last word is closed only where the character counter is.
* **Recovery.** Every status has its own retry rule in CHECK_FPGA, and the rules
  share one counter, one flag and one remembered status. The controller may be
  restarted, and commands may be swallowed by the one-shot, behind the software.
* **Data at boundaries.** Texts across two result words, a full result buffer, a
  full image RAM, a full breakpoint RAM.
* **Liveness.** An accelerator that never answers; a state without a watchdog; a
  read that always fails.

### 1.4 What makes each part correct

* Controller: each image of a strip is shown exactly once, in its own columns, and
  with its own full watchdog time; the accelerator runs exactly while the FSM waits
  for it; the header equals the words stored; an error state is left only by RESET;
  every batch ends.
* Result path: the words hold the texts, gap-free and in order; the software gets
  every text once; the strip is closed.
* Data port: every word of an upload is stored once, in its RAM and at its address; every
  result word is read once and in order; neither transfer hangs.
* Accelerator: every product takes the columns, the weights and the intermediate values
  of the same column, filters and class; the columns stay inside the window, but for a
  winner in the first pass; it answers, unless winners for ever take back every column.
* Software: no plate is sent twice, no accepted job is forgotten, every command is obeyed
  but in four cases `ProtocolRespected` names, no error without a reset first, the loop gets
  back to the camera or gives up unless its bank is wider than UPLOAD can say, offered
  results are fetched.
* Process: the PID file tells whether the service is there; a command is answered; stop
  leaves the FPGA reset and the logs on disk, and ends the process unless its thread is back
  in accept() before the main thread closes the socket.

## 2. The modules

How the modules depend on each other:

    AhimProtocol  <--implements--  AhimCore  <--  AhimCoreProofs  <--  AhimRefinement
    RxUnit, TxUnit  <--  AhimLink  <--  AhimLinkProofs
                                                 (bridge bursts, both units, controller)
    OcrData  <--  SystemSM, MemoryCU  <--  OcrAccelerator  <--  OcrAcceleratorProofs
    OcrRx, DataLemmas  <--  OcrRxProofs          (OCR_RX_UNIT, Result_FILO, result strings)
    AlprFsm  <--  AlprFsmProofs                  (the loop and the FPGA as it shows itself)
    AlprService  <--  AlprServiceProofs          (threads, process, socket)

What one module takes for granted another one checks: the pulses `AhimCore` accepts from the
units are those of `AhimLink` (`DoneOnlyEnabled`); the accelerator that answers after any
time is that of `OcrAccelerator` (`Answers`); that a strip leaves PROCESS_IMAGE in `AlprFsm`
is `BatchTerminates` of `AhimCore`.

### 2.1 `AhimCore` (checked by `MCAhimCore`, proved about in `AhimCoreProofs`)

One step is one clock cycle of `ahim_core_controller.sv`; every register is a
variable or a component of `out`, `cfg`. The FSM's `case` branches are the actions
`Offline`, `Idle`, `AckBp`, `AckStrip`, `ProcessImage`, `NextImage`,
`NextImageValid`, `WaitPostRx`, `WaitRamStored`, `WaitTx`, `WaitAck`, `Error`. A
branch says which state it decides on, which outputs it raises, which command it
offers for the next cycle and which counters it moves; `Edge` performs the clock
edge, with the priority chain that overrides the branch (RESET, invalid command,
overflow, link watchdogs). All blocks of the file that are clocked in parallel are
conjuncts of that one edge.

The surroundings are as wide as the controller's inputs need:

* the HPS writes any opcode, at least three cycles apart (a bus write takes
  longer), including opcodes with several bits set;
* `rx_done` and the RX watchdog come only while `rx_en` is high, `tx_done` and the TX
  watchdog only in WAIT_TX, as RX_UNIT and TX_UNIT have it;
* the upload of breakpoints is one step: an increasing list, whose last entry is
  the last column of the strip; entries of earlier strips stay in the RAM;
* the accelerator may answer after any time, or never, with any digit count;
* OCR_RX_UNIT may push a word whenever there may be a text in it, and finishes at
  any time after `final_image`.

Left to `AhimLink`: `expected_packages`, the word count handed to RX_UNIT.

`AhimProtocol` is what the controller promises the software: a batch is announced, its
breakpoints and its strip are taken, its images are worked off one after the other, each in
the window the breakpoints give it; results are offered once, under a header that counts the
words; an error wipes the batch and only RESET ends an error. It has no clock, no command
register, no watchdog and no prefetch. `AhimCore!ImplementsProtocol` states the refinement:
the error states become one, NEXT_IMAGE_VALID and WAIT_RAM_STORED become part of the state
before them, and a register counts only in the states in which its value means something
(`ImagesDone`, `WindowShown`, `HeaderOffered`...). It is a specification, not a
translation, so that none of it is in the map.

### 2.2 `OcrRx` (checked by `MCOcrRx`, proved about in `OcrRxProofs`)

One step is one cycle of `OCR_RX_UNIT.sv`: text register, word register,
character count, and the push into `Result_FILO.sv`, which drops a word when it is
full. The controller is reduced to `phase`. The transfer of the words and
`receiveResultStrings` (split at nulls, drop what no null ends) are one step, since
no cycle of it interacts with the rest; the popping cycles are in `TxUnit`. Characters are pairs <plate, position>, so that a lost or
swapped character is visible. Assumed of the accelerator: an image takes longer
than shifting out a text; a text has at least one character (`min_digits` of the
default configuration asks for more).

### 2.3 `AlprFsm` (checked by `MCAlprFsm`, proved about in `AlprFsmProofs`)

One step of the software is one turn of `run()`, which holds the mutex; requests of the
socket (`requestStop`, `requestRestart`) come in between. Each handler is an
action with the name it has in the source. `Turn` is the order in which a turn looks
at its requests. CHECK_FPGA is split into one operator per group of statuses
(`Steady`, `Overflowed`, `OcrFailed`, `LinkFailed`, `IsOffline`, `StillBusy`), all of
which see the same counter and flag.

The FPGA is a record: FSM state, last opcode, strip, whether the strip fills the RAM,
and the plates it could read. `Command` has the one-shot (an opcode that is in the
register already is swallowed) and the two facts of `AhimCore` the software can
notice: a command in the wrong state, and an UPLOAD of no images, end in ERROR_COM, and the
first RESET out of ERROR_OVERFLOW with a full image RAM stays there. A strip that fills the
RAM ends in ERROR_OVERFLOW, or in ERROR_OCR when the watchdog gives up one of its images
before the last. `ImageCount` is the number of images as UPLOAD carries it: the cast to
eight bits (`CountRange` 256) makes 256 plates none and 257 one, and the controller then works
on the first plates of the strip only. Which bus access fails, what the detector sees and what
the OCR reads is open. The bridge is in its safe mode (the default). The initial
states are every controller state that a killed process may leave behind (`LeftBehind`): any
FSM state, a strip that fills the RAM or does not, and any opcode its way there may have left
in the command register, so that the first INIT may be swallowed.

Simplified: the failures of handleInit (configuration, model, camera, bridge) are one outcome.
All of them end `run()` in ERROR; they differ in how far the bridge and the controller got,
on which no property depends, and the next process starts from any `LeftBehind` state. `same_state_count_` stops at 3 + `max_fpga_persists_states`; it is only
compared with 2 and with that maximum. Left out: MARGE_BANKS (no state leads to it),
RESEND_IMAGE (unused), flush requests, LCD, wording of the status, and which texts
POSTPROCESS filters out.

### 2.4 `RxUnit`, `TxUnit`, `AhimLink` (checked by `MCAhimLink`, proved about in `AhimLinkProofs`)

`RxEdge` and `TxEdge` are the `always_ff` blocks of RX_UNIT and TX_UNIT, with the bus
register in front and the read port of Result_FILO behind. Two signals are assigned with `=`
inside clocked blocks (`waitrequest_out`, `valid_read`) and used below in the same edge: the
operators take their new value as a parameter. `AhimLink` connects both to the part of the
controller that switches them (`AckBp`, `AckStrip`, `WaitTx`, `expected_next`, one step per
cycle with `Override` for RESET and faults) and to the bridge: `pc` walks through reset,
init, status, UPLOAD, the two write bursts, header, result burst and ACK, one bus access per
step at most. A beat the port holds up stays on the bus (`held`). A data word is represented
by its place (RAM, word, beat), so that a shifted, doubled or swapped word is visible; a
result word by its address in the buffer. `Pause` lets any time pass between accesses, `Kill`
ends the process between any two of them; its successor begins with RESET.

`cut` remembers that a word was cut off by a kill, or written to a closed port: from then on
`write_count` may be out of step, which no RESET repairs (`AhimLinkRealign`); the properties
are about strips before that.

### 2.5 `OcrData`, `SystemSM`, `MemoryCU`, `OcrAccelerator` (checked by `MCOcrAccelerator`)

The proofs about them are in `OcrAcceleratorProofs`.

`SystemEdge` and `MemoryEdge` are the clocked processes of `System_SM.vhd` and
`Memory_CU.vhd` with all their counters; `OcrAccelerator` adds what lies between: the
two-cycle latency of the memories (`ram_in`, `ram_q`), the pixel registers, the addresses
of the ReLU buffer, the compute engine's register, and the comparator's pipeline. Instead of
pixels, weights and scores the registers hold where they come from: a column, a row, a class.
So the question of the model is whether operands meet that belong together, which is what
two machines with separate counters can get wrong. Whether a pass has a winner is open,
at every comparison, and nothing keeps winners apart: `Results_comparator_Chars.vhd` asserts
`winner` whenever a score beats its threshold. A stop (`CU_rst`) may come in any cycle. Two
history variables look back at the winners: `passes` counts the passes since the start or
the last winner (up to three, after which a column has been gained for good), and `set_back`
says that the image had a winner in the first of them, which takes the address below the
window. The error states, which no other state leads to,
are left out. `DelayAssumption` fixes the delays of `data_pack.vhd` (`T_RAM` 1,
`T_find_winner` 2): the generics look as if they could be set, but with another `T_RAM` or
a shorter `T_find_winner` `ConvAligned` fails and with a longer one `ColumnsConsecutive` does.

### 2.6 `AlprService` (proved about in `AlprServiceProofs`)

Main thread (`main`: PID file, socket, loop, exit, `SocketServer::stop`, join) and socket
thread (`thread`: accept, handler, the poll of the stop command, answer) with the mutex that
the loop holds for a turn and every handler for its call. The states of the loop that
`AlprFsm` has in detail are one, WORK. A turn is two steps, taking the mutex and doing
what the requests and the state ask for. `Signal` is SIGINT or SIGTERM at any step. systemd
starts the next incarnation when the last is gone; what it finds (PID file, an active FPGA)
is what was left behind. Logger: whether the files are open and whether lines wait.

### 2.7 Definitions with a suffix

A definition `<name>_<Fault>` is the definition below it with a bug a maintainer
could introduce. No action uses it; put in the place of the definition below it, it
shows that a property can fail. There is one for every property of a passing run.

## 3. The runs

State counts and times are those of two workers on one machine.

| Run | What it checks | Result |
|---|---|---|
| `AhimCore` | `TypeOK`, `BatchCounters`, `ImageWindow`, `OcrInStep`, `WatchdogFull`, `HeadcountCurrent`, `HaltedUntilReset`; `ImplementsProtocol`: every step is one of `AhimProtocol`; `BatchTerminates`: a strip is worked off or given up though the accelerator may never answer | holds; 398,855 states, 3 min |
| `AhimCoreSkip` | protocol: the watchdog skips the plate | violated, see 3.3 |
| `AlprFsm` | `TypeOK`, `NoPlateTwice`, `JobTracked`, `ProtocolRespected`, `ResetBeforeError`; `ReturnsToFrames`, `ResultsFetched` | holds; 338,456 states |
| `OcrRx` | `TypeOK`, `WordsExact`, `ResultsExact`, `Finishes` | holds |
| `OcrRxHang` | readme: the buffer is flushed at the end | violated |
| `OcrRxSplit` | protocol: the words, split at nulls, are the plates | violated |
| `AhimLink` | `TypeOK`, `UploadStored`, `DoneOnlyEnabled`, `NoBeatHeld`, `ResultsRead`, `ResultsComplete`; `StripTaken`, `ResultsTaken` | holds; about 104,000 states |
| `AhimLinkRealign` | protocol: RESET clears status and counters | violated |
| `OcrAccelerator` | `TypeOK`, `ConvAligned`, `FcAligned`, `ColumnsConsecutive`, `ScoreAligned`, `WindowKept`; `Answers` | holds; 43,441 states |
| `OcrAcceleratorWhite` | readme: the scores agree with the model's, in the last pass too | violated |
| `AlprService` | `TypeOK`, `PidFileMatches`, `StopClean`; `CommandsAnswered`, `StopEnds` | holds; 380,303 states |
| `AlprServiceHang` | pipeline overview: an ERROR exits cleanly | violated |

`WordsExact`, `ResultsExact` and `Finishes` exclude the boundary cases that the two
violated runs show (`Spills`, `Exact`, not `Whole`): they say that these are the only
ones. In the same way `ReturnsToFrames` names the one case in which the loop does not get back,
and `StopEnds` the one in which the process remains (`BackInAccept`).

### 3.1 Bounds

* `AhimCore`: image RAM of 4 columns, breakpoint RAM of 4. Strips of 0 to 3 images
  cover: no image, one, two, a full breakpoint RAM (the read-ahead of the last image
  wraps), a strip that fills the image RAM, one that exceeds it, one too short.
  `T_RAM_STORE` 2 and a watchdog unit of 2 cycles keep every counter visible.
  `MaxLines` 1 bounds the words pushed per batch: the header follows a change, and the
  proofs have any number. Both reactions to a silent accelerator (`ocr_break`) and both to an
  invalid command occur.
* `OcrRx`: words of 5 characters, texts of 1 to 4, up to 4 plates, a buffer of 4 words
  of which 3 are usable. All remainders modulo the word occur, texts in one word
  and across two, and more words than fit. The build has words of 16: with `W` 16
  two plates of 7 and 8 digits show the hang of `OcrRxHang`, too.
* `AhimLink`: strips of one and of two breakpoint words, of one and of three columns, and
  one too long for the image RAM; one and two result words; `MaxKills` 1, in any place.
  `BUS_GAP` is at least 2: an access passes two bridges, so that a status read and the
  write it permits are not in neighbouring cycles. It is an assumption about the bus, and a
  needed one: with 1 a beat can meet the port while it changes from breakpoints to columns
  (`NoBeatHeld` fails). Watchdogs of 2 and 6 cycles fire when a port stays closed. The
  watchdog of TX_UNIT has to be at least 3 (`TxWatchdogAssumption`): a read may come while a
  word passes the buffer, and waits for that long. The build counts it in units of 256 cycles.
* `OcrAccelerator`: 3 classes, 4 pairs of filters (11 and 32 in the build), the delays of
  the build; windows of one column, of four at the edge of the strip and of seven, in which
  two winners fit. `MAX_out_L` 1, so that an answer is full, and `DetectRange` 2, the values
  `dig_detect_count` has before it wraps (256 in the build), so that it wraps, too.
* `AlprService`: two incarnations, one signal, three commands, a backlog of 2: a restart
  and a stop in one turn, a stop that waits behind another command, a successor that finds
  the PID file of a crash. `AlprServiceHang` needs no command.
* `AlprFsm`: widths are counted in plates. An image RAM of 2, up to 4 plates in all and 2 per
  frame: banks that fit, fill and exceed the RAM, one bank waiting while another is worked on.
  `MaxWidth` 3, the width UPLOAD can say (65535 columns in the build), so that a bank of 4 is
  refused. `CountRange` 4: a strip that fits is counted right, as with plates of usual width. A
  strip that fills the RAM and one whose count is cut exclude each other, since all plates have
  one width. The run has the first; with a RAM of 3, `MaxWidth` 4 and `CountRange` 2, where 2 plates
  are sent as none and 3 as one, the same properties hold (about 320,000 states), and the safety
  properties are proved for every `CountRange`.
  `max_fpga_persists_states` 2 and two empty frames let every counter pass its limit.

Deadlock is checked in all runs but those of `AlprFsm` and `AlprService`, whose loop may return
and whose process may end.

### 3.2 Fairness

* `AhimCore`: `WF_vars(Next)`: the clock does not stop. Nothing is assumed of the HPS
  or the accelerator; the OCR watchdog alone ends a batch.
* `OcrRx`: the clock, and the software fetches what is stored (the loop polls).
* `AlprFsm`: the loop goes on turning; a strip is finished by the controller (what
  `BatchTerminates` shows up to WAIT_POST_RX); a read of results that are offered does
  not time out for ever (`SF`: the loop retries without limit, since WAIT_TX clears the
  counter, so that a read which does fail for ever is excluded here and not checked); the
  controller is not restarted for ever. That the last word is closed (`FpgaStore`) is *not*
  assumed: it may hang, and the loop must cope.
* `AhimLink`: the clock, and the process gets on with its accesses unless it is killed.
* `OcrAccelerator`: the clock. Nothing is assumed of what is in the image, hence nothing of
  its winners either. `Answers` is therefore a disjunction: every image is answered, or
  winners come for ever within three passes of one another. The first alone does not hold; that such
  an image ends is the OCR watchdog of `AhimCore`.
* `AlprService`: both threads run (`WF`); a thread that waits for the mutex gets it sooner or
  later although the loop gives it up only between two turns (`SF`). A `std::mutex` does not
  promise that; the turns of the loop take milliseconds and the kernel's queue is fair.
  Nothing is assumed of clients and signals, nor of who is first at the end of the loop:
  the socket's thread, which notices that `running_` is false, or the main thread, which
  closes the socket.

### 3.3 Where documents and code disagree

1. **A skipped plate is taken** (`AhimCoreSkip`). An answer in the cycle after the
   watchdog is handed to OCR_RX_UNIT, while the controller does not count it.
2. **The last word is never closed** (`OcrRxHang`). When the texts end with a word, or
   one character after it, `OCR_RX_done` does not come; WAIT_POST_RX has no watchdog.
   The software gets out by its stuck-status rule, and the results are lost.
3. **A text in two words is cut** (`OcrRxSplit`). Result_FILO is a queue, while the
   order of characters in a word needs a stack.
4. **RESET does not realign the data port** (`AhimLinkRealign`). `write_count`, the beat within
   a word, is not among the registers `Clear_buff` clears. After a process was killed in the
   middle of a word every later word is put together from two, until the board is reset.
5. **The pass over the white column is a cycle off** (`OcrAcceleratorWhite`).
   `Wait_winner_LL` does not set `K_count` as `Wait_winner` does. In the one pass behind the
   last column the last pair of filters gets the weights of the pair before, and the scores
   are computed with FC weights one row off. `ConvAligned` and `FcAligned` say that all other
   passes are right.
6. **An ERROR does not exit** (`AlprServiceHang`). After the loop has ended by itself the main
   thread closes the socket, which does not wake the thread in accept(), and joins it. The
   process remains without PID file and socket.

Met on the way and modelled as the code has it:

* Controller: the first RESET after a strip that fills the image RAM ends in ERROR_OVERFLOW, because
  `start_addr` is one past the last column until `Clear_buff` takes effect and the overflow
  flag does not look at the state. The default of 10 for `max_digits` is cast to three bits
  and becomes 2.
* Software loop: the counter of a stuck status survives the reset, so that the next strip gets
  no retry; the first half of a split bank goes to `sended_images_`, which nothing sends;
  an ACK after a failed read turns ERROR_TX into ERROR_COM, and the next UPLOAD is sent into
  ERROR_COM; commands to a controller that was restarted behind the loop find it OFFLINE
  (`ProtocolRespected` names each of these); an ERROR_RX at the end of the
  last burst is not noticed, so that the bank is gone; a failed upload in SPLIT_BANKS
  goes to CHECK_FPGA with an empty bank.
* A bank too wide: `cmdUpload` refuses a strip of more than 65535 columns before it writes
  anything. The controller stays IDLE, IDLE clears the counter, and CHECK_FPGA and SEND_IMAGE
  alternate for ever, with no reset, no ERROR and no frame (the escape in `ReturnsToFrames`).
* A bank too long: the number of plates is cast to `uint8_t` before `cmdUpload` compares it with
  255. Of 257 plates one is read, and the bank is gone; of 256 the count is none, and the UPLOAD
  ends in ERROR_COM.
* Result path: a single character that spills into the next word in the middle of a strip is
  lost. A read that gave up after the header is retried as if the header were to come.
* Accelerator: a winner in the first pass takes the address one column before the window, which
  belongs to the neighbouring plate, since Memory_CU stops it at 0 and 1 and not at
  `ADDR_PIXEL_START`; a winner at the last column but one ends the image although the last
  column was only addressed (`WindowKept` names both). The first pair of filters of the last
  pass sees the last column twice, because `LL_read` comes a cycle late (`white_missed` in
  `ColumnsConsecutive`).
* Process: SIGINT and SIGTERM end the process with the FPGA active and lines in the buffers,
  while the pipeline overview describes HALT, FPGA reset and a flush. A stop before INIT, or in
  the same turn as a restart, calls a null bridge and crashes; systemd starts again. A failed
  INIT leaves `running_` set, so that a stop command polls for ever (`StuckAfterInit`). A
  stop command is answered when the loop has ended, before the socket is closed; a thread that
  is back in accept() by then keeps the process as in 6 (`BackInAccept`). When
  SocketServer::start fails there is no thread, and `main` removes the PID file itself.

## 4. The proofs

`AhimCoreProofs` (about 1,000 obligations) proves, for every memory size, watchdog unit,
payload set and digit set that `SizesAssumption` and `PayloadsAssumption` allow:

| Theorem | Statement |
|---|---|
| `Typing` | `Spec => []TypeOK` |
| `Invariance` | `Spec => []IInv` |
| `CountersExact` | `Spec => []BatchCounters` |
| `WindowExact` | `Spec => []ImageWindow` |
| `AcceleratorInStep` | `Spec => []OcrInStep` |
| `WatchdogExact` | `Spec => []WatchdogFull` |
| `HeaderExact` | `Spec => []HeadcountCurrent` |
| `Halted` | `Spec => HaltedUntilReset` |

The assumptions say that sizes are natural numbers, that the breakpoint RAM has at
least two entries, that `T_RAM_STORE` exceeds 1 and the watchdog unit 0, and that
payloads fit their fields.

**The inductive invariant.** None of the properties is inductive. Which image is
shown depends on the prefetch two cycles earlier; whether the watchdog is fresh
depends on the outputs of the cycle before. `IInv` adds to them

* `OutputsInStep`: which outputs may be high in which state;
* `CommandsInStep`: which command a state has offered, hence which can arrive;
* `PrefetchInStep`: where breakpoint address, both read registers and the window
  stand, state by state, relative to `image_processed`;
* `WatchdogInStep`: accelerator and watchdog count the same cycles, and the count is
  cleared outside PROCESS_IMAGE once the accelerator has been reset;
* `HeadcountInStep`: how far the header latch lags behind the last push.

**The argument.** A clock edge either follows the decision of its FSM branch (`Smooth`)
or is overruled by a command or a fault (`Aborted`) into an error state or OFFLINE, with
the accelerator reset. `AbortedStep` settles the second kind once for all states; one
lemma per state (`OfflineKeeps`, ..., `ErrorKeeps`) settles the first, one step per
conjunct of `IInv`. `NextIInv` collects them, and the temporal step is one use of PTL.
`EdgeType` does the same for types, one lemma per group of registers. `Halted` is an
action property and follows from the error branch and the priority chain.

**The refinement.** `AhimRefinement` (about 500 obligations) proves

| Theorem | Statement |
|---|---|
| `Refinement` | `Spec => ImplementsProtocol` |

from `Typing` and `Invariance`. The initial state maps to the initial state. An overruled
edge is `Fail` or `Reset` of the protocol, or a stutter (`AbortedRefines`). For every other
edge there is a lemma per state: `CountedStep` and `ClosingStep` say how counters and words
move, and the invariant supplies what the protocol asks for: `WindowExact` that the window
shown next is the one the breakpoints give, `CountersExact` that an image remains or that
none does, `HeadcountInStep` that the header offered is the number of words. The registers a
failed batch leaves behind are no part of the mapping, which is why the next batch needs
`BatchCounters` for ACK_STRIP.

**The service.** `AlprServiceProofs` (about 300 obligations) proves, for any number of
incarnations, signals and commands and any backlog:

| Theorem | Statement |
|---|---|
| `TypeCorrect` | `Spec => []TypeOK` |
| `PidFileExact` | `Spec => []PidFileMatches` |
| `ProcessInStep` | `Spec => []IInv` |
| `StopCleans` | `Spec => []StopClean` |

`ServiceAssumption` says that the bounds are natural numbers. `PidFileMatches` is inductive.
`StopClean` speaks of the moment of the answer only; that nothing is left behind follows from
what the socket's thread saw several steps before. `IInv` therefore says that the request
stands as long as the stop command waits (`StopAsked`), that a loop that has ended with a
bridge has reset the FPGA or shows an ERROR (`EndedClean`), that an answer is not given while
an initialised loop runs (`AnsweredLast`), that a command which waited once has seen the loop
end in HALT, with files open (`SleepClean`, `BridgeLast`), and that no thread outlives its
process (`ThreadLives`).

**The software's loop.** `AlprFsmProofs` (about 830 obligations) proves, for any size of the
image RAM, any width and count an UPLOAD can say, any number of plates and clips, any
`max_fpga_persists_states` and any limit of empty frames:

| Theorem | Statement |
|---|---|
| `Typing` | `Spec => []TypeOK` |
| `PlatesOnce` | `Spec => []NoPlateTwice` |
| `JobsTracked` | `Spec => []JobTracked` |
| `CommandsInOrder` | `Spec => []ProtocolRespected` |
| `ResetFirst` | `Spec => ResetBeforeError` |

That a plate is not sent twice depends on where bank, strip and results are in every state of
the loop and of the controller at once. `IInv` therefore has a part about the controller
alone, which every command keeps: the opcode its register holds (`OpcodeInStep`, which
decides what the one-shot swallows) and that there is a strip only after an UPLOAD
(`StripInStep`). The part about the loop says which controller states a loop state goes with
(`LoopInStep`, `ResultsInStep`), that every plate under way has a number that was given out
(`Numbered`), and that after an error, or with `try_reset_` set, there was a reset or there
will be one before CHECK_FPGA looks again (`ResetInStep`). There is one lemma per command
that says what the controller makes of it, and one per handler of the loop.
`ProtocolRespected` speaks of the commands the loop's next turn may write (`Writes`):
`Commanded` says which controller and which opcode each of them can find, `Obedient` that
they are then obeyed or one of the four exceptions. `ResetFirst` is an action property:
`GivingUp` looks at the step into ERROR and takes the rest from the invariant.

**The accelerator.** `OcrAcceleratorProofs` (about 2,800 obligations) proves, for any number
of filters from three pairs on, any number of classes up to one more than that (the depth of
the bias memory), any windows of 16-bit columns and any length of the answer:

| Theorem | Statement |
|---|---|
| `Typing` | `Spec => []TypeOK` |
| `ConvInTime` | `Spec => []ConvAligned` |
| `FcInTime` | `Spec => []FcAligned` |
| `ScoresInTime` | `Spec => []ScoreAligned` |
| `ColumnsInOrder` | `Spec => []ColumnsConsecutive` |
| `InWindow` | `Spec => []WindowKept` |

So that System_SM and Memory_CU count alike does not depend on the sizes the build has. The
invariant says, as long as the accelerator works (`Working`),

* what each machine's counters are in each of its states, apart from the other one
  (`SystemCounts`, `LastLine`, `Shifts`, `WinnerInTime`, `MemCounts`), and that
  Memory_CU's addresses are the ones its counters name (`MemAddresses`);
* which state and which counters of Memory_CU go with those of System_SM
  (`MachinesInStep`): it is one pair of filters ahead, the time the memories take;
* how far the column has moved (`ColumnMoves`, `ColumnInStep`, `PixelsInStep`), and where
  the ReLU buffer is read and written (`ReluInStep`);
* what the address and output registers of the memories hold in consequence
  (`ConvInStep`, `WeightsInStep`, `ProductInStep`).

It is proved in that order, each part from the ones before it: first each machine by itself,
then the pair, then the data. Nothing is assumed of the winners: where one takes the column back
by two, either three passes have gone by, or `set_back` says that the address may now be before the window.

**The data port.** `AhimLinkProofs` (about 3,900 obligations) proves, for strips of any length
and any number of images, any number of result words, any pauses between the accesses, any
number of kills at any place, and any watchdogs from the bounds of section 3.1 on:

| Theorem | Statement |
|---|---|
| `Typing` | `Spec => []TypeOK` |
| `UploadsStored` | `Spec => []UploadStored` |
| `DoneWhileEnabled` | `Spec => []DoneOnlyEnabled` |
| `BurstsFlow` | `Spec => []NoBeatHeld` |
| `ResultsInOrder` | `Spec => []ResultsRead` |
| `ResultsToTheLast` | `Spec => ResultsComplete` |

Neither side of the port tells the other where it is: the software counts words and beats
(`word`, `beat`), RX_UNIT counts them again (`burst_count`, `write_count`), and the controller
learns of the end from a pulse two cycles late. The invariant says

* which outputs, commands and places of the software go with which state of the controller,
  and that the bus has been idle long enough when a command or a status read follows a
  burst (`OutputsInStep`, `CommandsInStep`, `SoftwareInStep`, `BusInStep`): this is where
  `BusAssumption` is used;
* how the unit's handshake registers hang together in the two open states (`RxOpen`), that
  nothing is under way outside of them (`RxIdle`), that the unit has stored as many words as
  it has counted, each from the last beat of its burst (`BreakpointsStored`,
  `ColumnsStored`), and that the beat the software puts next is the one the unit takes next
  (`BreakpointsSent`, `ColumnsSent`); hence `InOrder`. All of it is under `~cut`;
* that TX_UNIT is clear when results are offered (`TxIdle`), where the word on its way is in
  the buffer's registers (`TxHeader`, `TxWords`), that the watchdog does not bite meanwhile
  (`TxCalm`), and how many beats were handed out (`Taken`) where the software is
  (`TxReads`); hence `Received`.

`Moves` first brings every step of `Next` into one form, a cycle with what is on the bus in
it; `Edges` says what that cycle does to the registers. Then there is one lemma per conjunct,
which looks at the states of the controller rather than at the actions: what a register does
in a cycle depends on those, and on the software only by the beat that comes (`PutBeat`,
`ReadBeat`). `ResultsToTheLast` is an action property: in the step from WAIT_TX to WAIT_ACK
the last word's read is over and nothing of it is left in the buffer.

**The result receiver.** `OcrRxProofs` (about 4,300 obligations, and `DataLemmas`) proves, for
words of any width from two characters on, texts of any length, any number of plates, any
time between them, and a buffer of any size that the eight bits of `LC_reg` can count:

| Theorem | Statement |
|---|---|
| `Typing` | `Spec => []TypeOK` |
| `WordsStored` | `Spec => []WordsExact` |
| `TextsRead` | `Spec => []ResultsExact` |

The properties keep their conditions in the proof: no text spills, the words fit, and for
`ResultsExact` each text shares a word with its null. The runs `OcrRxHang` and `OcrRxSplit`
show what happens otherwise.

The strip is one sequence of characters, `Strip`, and grows at its end with each plate. At every
cycle it lies in four places one after the other: the words in the buffer, the last `c`
characters of `sipo_reg`, `Output_reg`, and nulls beyond. `InRegisters(c)` says so, `Aligned(c)`
adds how far the text register is behind (`LastInOutput`, `NotAhead`) and what `c` has to
do with the counter (`Counted`). The counter alone does not tell: it is 0
with no character waiting and with one, since neither the character shifted in with a push nor
a null at the beginning of a word is counted.
That is why the invariant, `WordsInStep`, asks for some `c`, and why `~Spills` is needed: with
just one character left over, the next null would be taken for it. A cycle shifts a character
(`ShiftsText`), pads (`ShiftsNulls`) or waits (`Waits`); the last push makes `WordsExact` true
(`LastWord`).

From there `TextsRead` is about data. `Layout` is what turning the words round makes of the strip;
a text is then read in its own direction and between two nulls (`TextIsRead`), whatever is not a
null belongs to one (`CharOfText`), and so `Split` returns a permutation of the texts
(`SplitIsTexts`). The induction over the words and the texts cannot use the library's induction
theorems, which have an operator as a parameter; the lemmas take the least counterexample out of a
set of numbers instead (`LeastNumber` in `DataLemmas`, from the well-foundedness of `<`).

**Only model-checked.** Liveness (`BatchTerminates`, `Finishes`, `ReturnsToFrames`,
`ResultsFetched`, `StripTaken`, `ResultsTaken`, `Answers`, `CommandsAnswered`, `StopEnds`),
which is out of the prover's reach together with ENABLED; and the violated runs, which are
counterexamples.

## 5. Not modelled, and why

* The arithmetic of the accelerator: fixed-point products, sums, thresholds, the order of
  characters in the answer. Where the operands come from is in `OcrAccelerator`.
* The composition of all FPGA parts at once. They meet in pulses of one cycle, which the
  modules exchange as assumption and check (section 2); the product of their states is
  out of reach.
* The fast mode of the bridge (`unsafe_mode`), the register mapping and the AXI bridges
  between processor and FPGA, which appear as `BUS_GAP`.
* Log rotation, the filter of repeated plates in POSTPROCESS, MARGE_BANKS (no state leads
  to it), LCD and status texts, `config.cpp`: no control state that others depend on.
* Detection and segmentation: a neural network and image processing.
* Everything generated or vendored. The repository's own code is about seven thousand lines;
  by far the larger part of the rest are register headers of the SoC vendor
  (`ALPR_SYSTEM/src/HPS_LCD/socal`), the generated memory sequencer in four copies, the
  generated system interconnect and testbenches.

## 6. Plan

Done, in this order: `AhimCore` and its proofs; `OcrRx`; `AlprFsm`; `AhimProtocol` and the
proved refinement; `RxUnit`, `TxUnit`, `AhimLink`; `AlprService` and its proofs; the
accelerator's control; the proofs about `AlprFsm`, about the accelerator, about `AhimLink` and
about `OcrRx`.

Next:

1. `AlprFsm`'s FPGA record as an instance of `AhimProtocol`.
2. The filter of repeated plates and log rotation.
