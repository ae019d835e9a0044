------------------------------ MODULE AhimLink ------------------------------
(***************************************************************************)
(* The data port of the AHIM from the software down to its registers: the  *)
(* bridge's upload and result reading (fpga_ocr_bridge.cpp over            *)
(* fpga_pio_api.cpp), RX_UNIT and TX_UNIT, and the part of the core        *)
(* controller that switches them on and off.  One step is one clock cycle, *)
(* in which the processor makes at most one bus access.                    *)
(*                                                                         *)
(* The software runs in its safe mode: it looks at the port's status once, *)
(* before a burst, and then writes or reads blindly.  Its process may be   *)
(* killed between two accesses and started again.                          *)
(* A definition <operator>_<fault> is the operator with that fault.        *)
(***************************************************************************)
EXTENDS RxUnit, TxUnit, Sequences, SequencesExt

CONSTANTS
  Uploads,            \* the strips to send: [columns |-> .., images |-> ..]
  BP_PER_WORD,        \* breakpoints in one word (8)
  IMAGE_RAM_DEPTH,    \* columns the image RAM holds; a longer strip is an overflow
  MaxWords,           \* bound: result words of a strip
  BUS_GAP,            \* cycles between two accesses that are not of one burst
  MaxKills            \* bound: how often the process is killed

ASSUME LinkAssumption ==
  /\ Uploads \subseteq [columns : Nat \ {0}, images : Nat \ {0}]
  /\ BP_PER_WORD \in Nat \ {0} /\ IMAGE_RAM_DEPTH \in Nat
  /\ MaxWords \in Nat /\ MaxKills \in Nat

\* A status read and the write it permits pass two bridges.  With one idle cycle in
\* between the write could meet the port while it changes from breakpoints to
\* columns: it tells so two cycles late.
ASSUME BusAssumption == BUS_GAP \in Nat /\ BUS_GAP >= 2

VARIABLES
  \* the controller
  cmd, state, out, strip_width, breakpoint_count, expected_packages, headcount,
  \* the software: where it is, the upload at hand, the word and beat of the burst
  pc, upload, word, beat, received,
  \* the bus: an access that waits, idle cycles since the last one
  held, quiet,
  \* history
  stored,      \* what RX_UNIT wrote since the upload began, unless cut
  cut,         \* a word was cut off, or written to a port that was not ready
  kills

ctrlVars == <<cmd, state, out, strip_width, breakpoint_count, expected_packages, headcount>>
swVars   == <<pc, upload, word, beat, received>>
busVars  == <<held, quiet>>
vars     == <<rxVars, txVars, ctrlVars, swVars, busVars, stored, cut, kills>>

NoUpload == [columns |-> 0, images |-> 0]
NoData   == [ram |-> "none", word |-> 0, beat |-> 0]
Commands == {"NO_CMD", "INIT", "UPLOAD", "ACK", "RESET"}
States   == {"OFFLINE", "IDLE", "ACK_BP", "ACK_STRIP", "PROCESS_IMAGE", "WAIT_TX", "WAIT_ACK",
             "ERROR"}
Places   == {"reset", "init", "check", "upload", "breakpoints_ready", "breakpoints",
             "columns_ready", "columns", "header_ready", "header", "words_ready", "words", "ack"}

Init ==
  /\ RxInit(NoData) /\ TxInit
  /\ cmd = "NO_CMD" /\ state = "OFFLINE" /\ out = {}
  /\ strip_width = 0 /\ breakpoint_count = 0 /\ expected_packages = 0 /\ headcount = 0
  /\ pc = "reset" /\ upload = NoUpload /\ word = 0 /\ beat = 0 /\ received = <<>>
  /\ held = FALSE /\ quiet = 0
  /\ stored = <<>> /\ cut = FALSE /\ kills = 0

-----------------------------------------------------------------------------
(* The controller, as far as the port is concerned.  Its FSM is AhimCore; the *)
(* images are worked off in one step of any length.                           *)

WordsFor(n) == (n + BP_PER_WORD - 1) \div BP_PER_WORD

rx_en == "rx_en" \in out
tx_en == "tx_en" \in out
Clear_buff  == "Clear_buff" \in out
select_mode == "select_mode" \in out
rx_done     == RX_done(expected_packages)

Override ==
  IF cmd = "RESET" THEN "OFFLINE"
  ELSE IF watchdog_rx_trigger \/ watchdog_tx_trigger \/ strip_width > IMAGE_RAM_DEPTH
       THEN "ERROR" ELSE "none"

\* What the state decides, unless a command or a fault overrules it.
To(next, outs) ==
  /\ state' = IF Override = "none" THEN next ELSE Override
  /\ out' = outs \union IF Override = "OFFLINE" THEN {"Clear_buff"} ELSE {}

\* The port closes for one cycle between breakpoints and columns.
AckBp ==
  /\ state = "ACK_BP"
  /\ \/ rx_done /\ To("ACK_STRIP", {})
     \/ ~rx_done /\ To("ACK_BP", {"rx_en"})

AckStrip ==
  /\ state = "ACK_STRIP"
  /\ \/ rx_done /\ To("PROCESS_IMAGE", {})
     \/ ~rx_done /\ To("ACK_STRIP", {"rx_en", "select_mode"})

WaitTx(read) ==
  /\ state = "WAIT_TX"
  /\ \/ tx_done(read, headcount) /\ To("WAIT_ACK", {})
     \/ ~tx_done(read, headcount) /\ To("WAIT_TX", {"tx_en"})

OnCommand(from, command, to, outs) ==
  /\ state = from
  /\ \/ cmd = command /\ To(to, outs)
     \/ cmd # command /\ To(from, {})

ProcessImages ==
  /\ state = "PROCESS_IMAGE"
  /\ \/ To("PROCESS_IMAGE", {}) \/ To("WAIT_TX", {"tx_en"}) \/ To("WAIT_ACK", {})

Fsm(read) ==
  \/ OnCommand("OFFLINE", "INIT", "IDLE", {})
  \/ OnCommand("IDLE", "UPLOAD", "ACK_BP", {"rx_en"})
  \/ AckBp \/ AckStrip \/ ProcessImages \/ WaitTx(read)
  \/ OnCommand("WAIT_ACK", "ACK", "IDLE", {"Clear_buff"})
  \/ state = "ERROR" /\ To("ERROR", {})

\* The number of words the port expects follows the mode by a cycle.
expected_next_Combined == IF "select_mode" \in out' THEN strip_width ELSE breakpoint_count

expected_next == IF "select_mode" \in out' THEN strip_width ELSE WordsFor(breakpoint_count)

ControllerEdge(read) ==
  /\ Fsm(read)
  /\ expected_packages' = expected_next
  /\ \/ cmd = "RESET" /\ strip_width' = 0 /\ breakpoint_count' = 0
     \/ /\ cmd = "UPLOAD"
        /\ strip_width' = upload.columns /\ breakpoint_count' = upload.images
     \/ cmd \notin {"RESET", "UPLOAD"} /\ UNCHANGED <<strip_width, breakpoint_count>>
  /\ \/ Clear_buff /\ headcount' = 0
     \/ /\ ~Clear_buff /\ state = "PROCESS_IMAGE" /\ state' = "WAIT_TX"
        /\ headcount' \in 1 .. MaxWords
     \/ /\ ~Clear_buff /\ ~(state = "PROCESS_IMAGE" /\ state' = "WAIT_TX")
        /\ UNCHANGED headcount

-----------------------------------------------------------------------------
(* A clock cycle: what the processor puts on the bus and what becomes of it. *)

\* A word as RX_UNIT files it.
Filed == [ram |-> IF select_mode THEN "image" ELSE "breakpoint",
          addr |-> addr_reg, data |-> PIO_OUT]

\* A beat that meets a closed port; it is swallowed when the watchdog lets it through.
Stray == write /\ ~rx_en

Clock(avs_write, data, avs_read, command) ==
  /\ RxEdge(avs_write, data, rx_en, Clear_buff)
  /\ TxEdge(avs_read, tx_en, headcount, Clear_buff)
  /\ ControllerEdge(avs_read)
  /\ cmd' = command
  /\ stored' = IF cut \/ (state = "IDLE" /\ state' = "ACK_BP") THEN <<>>
               ELSE IF valid_write THEN Append(stored, Filed) ELSE stored

NoAccess(command) == Clock(FALSE, NoData, FALSE, command)

Rested == ~held /\ quiet = BUS_GAP

\* A single access that the port does not hold up.
Access(command) ==
  /\ Rested /\ quiet' = 0
  /\ NoAccess(command)
  /\ cut' = (cut \/ Stray)
  /\ UNCHANGED <<held, kills>>

Command(from, command, to) ==
  /\ pc = from /\ pc' = to
  /\ Access(command)
  /\ UNCHANGED <<word, beat, received>>

sendReset == Command("reset", "RESET", "init") /\ UNCHANGED upload
sendInit  == Command("init", "INIT", "check") /\ UNCHANGED upload
sendAck   == Command("ack", "ACK", "check") /\ UNCHANGED upload
cmdUpload == Command("upload", "UPLOAD", "breakpoints_ready") /\ upload' \in Uploads

\* The turn of the software's loop that looks at the status.  How often it
\* looks at a stuck one before it resets is AlprFsm's matter.
checkStatus ==
  /\ pc = "check" /\ Access("NO_CMD")
  /\ \/ state = "IDLE" /\ pc' = "upload"
     \/ state \in {"ACK_BP", "ACK_STRIP"} /\ pc' \in {"check", "reset"}
     \/ state = "PROCESS_IMAGE" /\ pc' = "check"
     \/ state = "WAIT_TX" /\ pc' = "header_ready"
     \/ state = "WAIT_ACK" /\ pc' = "ack"
     \/ state \in {"OFFLINE", "ERROR"} /\ pc' = "reset"
  /\ UNCHANGED <<upload, word, beat, received>>

\* Looks until the port is ready, once for a burst.  On a port that stays closed in
\* this state of the controller the software runs out of tries.
Wait(from, ready, to, open) ==
  /\ pc = from /\ Access("NO_CMD")
  /\ \/ ready /\ pc' = to
     \/ ~ready /\ state \in open /\ pc' = from
     \/ ~ready /\ state \notin open /\ pc' = "check"
  /\ word' = 0 /\ beat' = 0
  /\ UNCHANGED <<upload, received>>

waitForOutReady ==
  LET open == {"IDLE", "ACK_BP", "ACK_STRIP"} IN
  \/ Wait("breakpoints_ready", ~waitrequest_out, "breakpoints", open)
  \/ Wait("columns_ready", ~waitrequest_out, "columns", open)

waitForInValid ==
  \/ Wait("header_ready", ~waitrequest_in(tx_en), "header", {"WAIT_TX"})
  \/ Wait("words_ready", ~waitrequest_in(tx_en), "words", {"WAIT_TX"})

\* The next beat of a burst of total words; the bus idles at least a cycle
\* between two beats.
Burst(total, next, waiting) ==
  /\ held \/ quiet = BUS_GAP \/ (quiet > 0 /\ (word > 0 \/ beat > 0))
  /\ cut' = (cut \/ Stray)
  /\ held' = waiting
  /\ quiet' = IF waiting THEN quiet ELSE 0
  /\ beat' = IF waiting THEN beat ELSE (beat + 1) % BEATS
  /\ word' = IF ~waiting /\ beat = BEATS - 1 THEN (word + 1) % total ELSE word
  /\ pc' = IF ~waiting /\ beat = BEATS - 1 /\ word = total - 1 THEN next ELSE pc
  /\ UNCHANGED <<upload, kills>>

Write(from, ram, total, next) ==
  /\ pc = from
  /\ Burst(total, next, waitrequest_out)
  /\ Clock(TRUE, [ram |-> ram, word |-> word, beat |-> beat], FALSE, "NO_CMD")
  /\ UNCHANGED received

writeBurst128_Unchecked ==
  \/ Write("breakpoints", "breakpoint", WordsFor(upload.images), "columns")
  \/ Write("columns", "image", upload.columns, "check")

writeBurst128 ==
  \/ Write("breakpoints", "breakpoint", WordsFor(upload.images), "columns_ready")
  \/ Write("columns", "image", upload.columns, "check")

Read(from, total, next, before) ==
  /\ pc = from
  /\ Burst(total, next, waitrequest_in(tx_en))
  /\ Clock(FALSE, NoData, TRUE, "NO_CMD")
  /\ received' = IF waitrequest_in(tx_en) THEN received
                 ELSE Append(before, avs_readdata)

\* The header says how many words follow.
read128      == Read("header", 1, "words_ready", IF beat = 0 THEN <<>> ELSE received)
readBurst128 == Read("words", headcount, "check", received)

Software == \/ sendReset \/ sendInit \/ sendAck \/ cmdUpload \/ checkStatus
            \/ waitForOutReady \/ waitForInValid
            \/ writeBurst128 \/ read128 \/ readBurst128

\* The processor does something else.
Pause ==
  /\ ~held
  /\ quiet' = IF quiet < BUS_GAP THEN quiet + 1 ELSE quiet
  /\ NoAccess("NO_CMD")
  /\ cut' = (cut \/ Stray)
  /\ UNCHANGED <<swVars, held, kills>>

\* The process is killed between two accesses; the next one begins with RESET.
Kill ==
  /\ ~held /\ kills < MaxKills /\ pc \notin {"reset", "init"}
  /\ kills' = kills + 1
  /\ pc' = "reset" /\ word' = 0 /\ beat' = 0 /\ quiet' = 0
  /\ NoAccess("NO_CMD")
  /\ cut' = (cut \/ Stray \/ (pc \in {"breakpoints", "columns"} /\ beat > 0))
  /\ UNCHANGED <<upload, received, held>>

Next == Software \/ Pause \/ Kill

\* The clock does not stop and the process gets on with its accesses.
Spec == Init /\ [][Next]_vars /\ WF_vars(Next) /\ WF_vars(Software)

-----------------------------------------------------------------------------
(* Properties. *)

\* The words of an upload in the order in which they belong into the RAMs.
Expected ==
  [i \in 1 .. WordsFor(upload.images) |->
     [ram |-> "breakpoint", addr |-> i - 1,
      data |-> [ram |-> "breakpoint", word |-> i - 1, beat |-> BEATS - 1]]]
  \o [i \in 1 .. upload.columns |->
     [ram |-> "image", addr |-> i - 1,
      data |-> [ram |-> "image", word |-> i - 1, beat |-> BEATS - 1]]]

Beat    == [ram : {"none", "breakpoint", "image"}, word : Nat, beat : 0 .. BEATS - 1]
Results == {Header} \union {Word(a) : a \in 0 .. MaxWords}

TypeOK ==
  /\ {write, write_reg_1, write_fall, rx_en_reg_1, first_rx_en, waitrequest_out, valid_write,
      watchdog_rx_trigger} \subseteq BOOLEAN
  /\ PIO_OUT \in Beat /\ write_count \in 0 .. BEATS - 1
  /\ burst_count \in Nat /\ addr_reg \in Nat /\ rx_watchdog_counter \in 0 .. watchdog_rx_conf
  /\ {valid_read, read_reg_1, en_reg_1, en_rise_reg, header_sent_reg, valid_data_0,
      valid_data_1, valid_data_2, valid_data_3, watchdog_tx_trigger} \subseteq BOOLEAN
  /\ read_count \in 0 .. READS - 1 /\ send_line_count \in 0 .. MaxWords
  /\ {addr_out, addr_out_reg, filo_q} \subseteq 0 .. MaxWords
  /\ tx_watchdog_counter \in 0 .. watchdog_tx_conf /\ avs_readdata \in Results
  /\ cmd \in Commands /\ state \in States
  /\ out \subseteq {"rx_en", "tx_en", "select_mode", "Clear_buff"}
  /\ strip_width \in Nat /\ breakpoint_count \in Nat /\ expected_packages \in Nat
  /\ headcount \in 0 .. MaxWords
  /\ pc \in Places /\ upload \in Uploads \union {NoUpload}
  /\ word \in Nat /\ beat \in 0 .. BEATS - 1 /\ received \in Seq(Results)
  /\ {held, cut} \subseteq BOOLEAN /\ quiet \in 0 .. BUS_GAP /\ kills \in 0 .. MaxKills
  /\ stored \in Seq([ram : {"breakpoint", "image"}, addr : Nat, data : Beat])
  /\ held => pc \in {"breakpoints", "columns", "words"}

\* Every word of an upload is stored once, complete, in the right RAM and at
\* consecutive addresses from 0, and the controller goes on exactly when the
\* last one is there - unless a word was cut off before, now or in an earlier
\* upload.  An upload given up between two words leaves nothing behind.
UploadStored ==
  ~cut /\ state \in {"ACK_BP", "ACK_STRIP", "PROCESS_IMAGE"} =>
    /\ IsPrefix(stored, Expected)
    /\ state = "PROCESS_IMAGE" => stored = Expected

\* What AhimCore takes for granted: the units report their last word only while
\* the controller has them switched on, whatever it expected in the burst before.
DoneOnlyEnabled ==
  /\ state \in {"ACK_BP", "ACK_STRIP"} /\ rx_done /\ ~cut => rx_en
  /\ read_reg_1 /\ at_head_count(headcount) => tx_en

\* In the safe mode one look at the status is enough for a whole burst: no beat
\* is held up, except where the strip was too long for the image RAM.
NoBeatHeld == held /\ ~cut /\ pc # "words" => strip_width > IMAGE_RAM_DEPTH

\* What the software reads is the header and then every result word once and in
\* order, all four beats of each from the same word, although the buffer answers
\* four cycles late.
ResultsRead ==
  state \in {"WAIT_TX", "WAIT_ACK"} /\ pc \in {"header", "words_ready", "words"} =>
    \A i \in 1 .. Len(received) :
      received[i] = IF i <= READS THEN Header ELSE Word((i - 1) \div READS - 1)

\* The controller leaves WAIT_TX when the last word has been read, never earlier.
ResultsComplete ==
  [][state = "WAIT_TX" /\ state' = "WAIT_ACK" =>
       Len(received) = READS * (headcount + 1)]_vars

\* RESET: "Status/counters clear."
ResetRealigns == state = "IDLE" => write_count = 0

\* An upload gets through or fails visibly.
StripTaken == state = "ACK_BP" ~> cut \/ state \in {"PROCESS_IMAGE", "OFFLINE", "ERROR"}

\* Offered results are fetched to the last word, without an error of the port,
\* unless the process that should fetch them is killed.
ResultsTaken == state = "WAIT_TX" ~> cut \/ state = "WAIT_ACK" \/ (state = "WAIT_TX" /\ pc \in {"reset", "init"})
=============================================================================
