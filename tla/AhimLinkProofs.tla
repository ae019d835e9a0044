---------------------------- MODULE AhimLinkProofs ----------------------------
(***************************************************************************)
(* Proofs about AhimLink, for strips of any length, any number of result   *)
(* words, any pauses between the accesses of the software and any number   *)
(* of kills: its types, that an upload is stored word for word, that no    *)
(* beat is held up, that the units report only while they are switched on, *)
(* and that the results are read once, in order and to the last.           *)
(***************************************************************************)
EXTENDS AhimLink, SequenceTheorems, TLAPS

USE DEF rx_en, tx_en, Clear_buff, select_mode, BEATS, READS

-----------------------------------------------------------------------------
(* The inductive invariant: the controller and the software. *)

Writing == {"breakpoints", "columns"}
Reading == {"header_ready", "header", "words_ready", "words"}

\* Which outputs may be high in which state.
OutputsInStep ==
  /\ rx_en => state \in {"ACK_BP", "ACK_STRIP", "ERROR", "OFFLINE"}
  /\ tx_en => state \in {"WAIT_TX", "ERROR", "OFFLINE"}
  /\ Clear_buff => state \in {"OFFLINE", "IDLE"}
  /\ state = "ACK_BP" => rx_en /\ ~select_mode
  /\ state = "ACK_STRIP" => (rx_en <=> select_mode)
  /\ state = "WAIT_TX" => tx_en
  /\ state = "OFFLINE" /\ ~Clear_buff => ~rx_en /\ ~tx_en

\* A command meets the state it is meant for, and a port at rest.
CommandsInStep ==
  /\ cmd # "NO_CMD" \/ Clear_buff => ~held /\ ~write /\ ~watchdog_rx_trigger
  /\ cmd # "NO_CMD" => quiet = 0 /\ ~Clear_buff
  /\ cmd = "RESET" => pc \in {"init", "reset"}
  /\ cmd = "INIT" => pc \in {"check", "reset"} /\ state = "OFFLINE"
  /\ cmd = "UPLOAD" => pc \in {"breakpoints_ready", "reset"} /\ state = "IDLE"
  /\ cmd = "ACK" => pc \in {"check", "reset"} /\ state = "WAIT_ACK"
  /\ Clear_buff => quiet <= 1 /\ pc \in {"init", "check", "reset"}

\* Where the software is, the controller is.
SoftwareInStep ==
  /\ pc = "init" => cmd = "RESET" \/ state = "OFFLINE"
  /\ pc = "upload" => state = "IDLE"
  /\ pc = "breakpoints_ready" => cmd = "UPLOAD" \/ state \in {"ACK_BP", "ERROR"}
  /\ pc \in Reading => state = "WAIT_TX"
  /\ pc = "ack" => state = "WAIT_ACK"
  /\ pc \in {"breakpoints_ready", "columns_ready"} \union Writing => upload \in Uploads
  /\ cmd = "UPLOAD" => upload \in Uploads
  /\ state \in {"ACK_BP", "ACK_STRIP", "PROCESS_IMAGE"} => upload \in Uploads
  /\ pc = "header" => word = 0
  /\ pc = "words" => word < headcount
  /\ strip_width > IMAGE_RAM_DEPTH => state \in {"ACK_BP", "ERROR"}

\* The bus is at rest once a burst is over.
BusInStep ==
  /\ write => \/ pc \in Writing /\ (held \/ quiet = 0)
              \/ pc \in {"columns_ready", "check", "reset"} /\ ~held /\ quiet = 0
  /\ watchdog_rx_trigger \/ write_fall =>
       \/ pc \in Writing /\ (held \/ quiet <= 1)
       \/ pc \in {"columns_ready", "check", "reset"} /\ ~held /\ quiet <= 1

(* TX_UNIT and the result buffer. *)

TxClear ==
  /\ read_count = 0 /\ send_line_count = 0 /\ addr_out = 0
  /\ ~en_reg_1 /\ ~en_rise_reg /\ ~header_sent_reg /\ ~read_reg_1
  /\ ~valid_data_0 /\ ~valid_data_1 /\ ~valid_data_2 /\ ~valid_data_3

\* Nothing is left of the results before when the next ones are offered.
TxIdle ==
  /\ state \in {"OFFLINE", "IDLE"} => Clear_buff \/ TxClear
  /\ state \in {"ACK_BP", "ACK_STRIP", "PROCESS_IMAGE"} =>
       TxClear /\ addr_out_reg = 0 /\ filo_q = 0
  /\ pc = "upload" => ~Clear_buff /\ addr_out_reg = 0 /\ (quiet > 0 => filo_q = 0)
  /\ cmd = "UPLOAD" => addr_out_reg = 0 /\ filo_q = 0

\* The watchdog of a read never bites: it counts while a word comes through the buffer.
TxCalm ==
  /\ valid_read <=> read_reg_1
  /\ read_reg_1 => state = "WAIT_TX" /\ quiet = 0 /\ ~held
  /\ ~watchdog_tx_trigger
  /\ tx_watchdog_counter > 0 => pc = "words" /\ held
  /\ tx_watchdog_counter <= IF valid_data_1 THEN 1 ELSE IF valid_data_2 THEN 2
                            ELSE IF valid_data_3 THEN 3 ELSE 0
  /\ send_line_count <= headcount /\ addr_out <= headcount

HeaderOpen == ~en_reg_1 \/ en_rise_reg

TxHeader ==
  state = "WAIT_TX" /\ HeaderOpen =>
    /\ headcount > 0 /\ ~header_sent_reg
    /\ send_line_count = 0 /\ addr_out = 0 /\ addr_out_reg = 0 /\ filo_q = 0
    /\ ~valid_data_0 /\ ~valid_data_1 /\ ~valid_data_2
    /\ ~en_reg_1 => ~en_rise_reg /\ ~valid_data_3
    /\ IF valid_data_3 THEN avs_readdata = Header ELSE ~read_reg_1 /\ read_count = 0
    /\ read_reg_1 => read_count = 0

\* A data word on its way: the buffer's address, its two registers and the bus register
\* follow one another.
TxWords ==
  state = "WAIT_TX" /\ ~HeaderOpen =>
    /\ headcount > 0 /\ header_sent_reg
    /\ \/ /\ read_reg_1 /\ ~valid_data_0 /\ ~valid_data_1 /\ ~valid_data_2 /\ ~valid_data_3
          /\ send_line_count = addr_out + 1
       \/ /\ ~read_reg_1 /\ valid_data_0 /\ ~valid_data_1 /\ ~valid_data_2 /\ ~valid_data_3
          /\ send_line_count = addr_out
       \/ /\ ~read_reg_1 /\ ~valid_data_0 /\ valid_data_1 /\ ~valid_data_2 /\ ~valid_data_3
          /\ send_line_count = addr_out /\ addr_out_reg = addr_out
       \/ /\ ~read_reg_1 /\ ~valid_data_0 /\ ~valid_data_1 /\ valid_data_2 /\ ~valid_data_3
          /\ send_line_count = addr_out /\ addr_out_reg = addr_out /\ filo_q = addr_out
       \/ /\ ~read_reg_1 /\ ~valid_data_0 /\ ~valid_data_1 /\ ~valid_data_2 /\ valid_data_3
          /\ send_line_count = addr_out /\ addr_out_reg = addr_out /\ filo_q = addr_out
          /\ avs_readdata = Word(send_line_count)
    /\ ~valid_data_3 => read_count = 0
    /\ ~read_reg_1 => send_line_count < headcount

\* The beats the unit has handed out, and what the software makes of them.
Taken == IF HeaderOpen /\ ~read_reg_1 THEN read_count
         ELSE READS * (send_line_count + 1) + read_count

TxReads ==
  /\ state = "WAIT_TX" =>
       /\ Taken > 0 => Len(received) = Taken
       /\ pc = "header_ready" => Taken = 0
       /\ pc = "header" => Taken = beat /\ valid_data_3 /\ ~read_reg_1
       /\ pc = "words_ready" => Taken = READS
       /\ pc = "words" => Taken = READS * (word + 1) + beat
       /\ pc = "check" => Taken = 0 \/ (read_reg_1 /\ send_line_count = headcount)
       /\ pc \in Reading \union {"check", "reset"} \/ cmd = "RESET" \/ Taken = 0

Received ==
  \A i \in 1 .. Len(received) :
    received[i] = IF i <= READS THEN Header ELSE Word((i - 1) \div READS - 1)

(* RX_UNIT, as long as no word was cut off. *)

Words == WordsFor(upload.images)

BreakpointBeat(w, b) == [ram |-> "breakpoint", word |-> w, beat |-> b]
ColumnBeat(w, b)     == [ram |-> "image", word |-> w, beat |-> b]

\* Beats are written only to the two open states, or to the port of a controller that has
\* refused the strip.
RxIdle ==
  ~cut =>
    /\ ~watchdog_rx_trigger
    /\ state \in {"ACK_BP", "ACK_STRIP", "PROCESS_IMAGE"} =>
         strip_width = upload.columns /\ breakpoint_count = upload.images
    /\ pc = "breakpoints" => state \in {"ACK_BP", "ERROR"}
    /\ pc \in {"columns_ready", "columns"} => state \in {"ACK_BP", "ACK_STRIP"}
    /\ state \notin {"ACK_BP", "ACK_STRIP", "ERROR"} => ~write
    /\ state \notin {"ACK_BP", "ACK_STRIP"} => write_count = 0 /\ ~valid_write
    /\ state = "IDLE" => /\ ~write_fall /\ ~write_reg_1
                         /\ ~rx_en_reg_1 /\ ~first_rx_en /\ burst_count = 0
    /\ state = "ERROR" => /\ strip_width > IMAGE_RAM_DEPTH
                          /\ rx_en => ~write /\ pc # "breakpoints"
                          /\ pc = "breakpoints" => beat = 0 \/ (beat = 1 /\ write)
    /\ held => pc = "words" \/ state = "ERROR"

\* The handshake with the unit, in both states.
RxOpen ==
  ~cut /\ state \in {"ACK_BP", "ACK_STRIP"} =>
    /\ write => rx_en /\ rx_en_reg_1 /\ ~first_rx_en /\ ~write_reg_1 /\ ~write_fall
    /\ write /\ pc \notin Writing => write_count = 3
    /\ ~write /\ pc \notin Writing => write_count = 0
    /\ valid_write <=> write_fall /\ write_count = 0
    /\ valid_write => rx_en_reg_1 /\ ~first_rx_en /\ ~write /\ rx_en
    /\ rx_en /\ rx_en_reg_1 => ~waitrequest_out
    /\ rx_en /\ ~rx_en_reg_1 => burst_count = 0 /\ write_count = 0 /\ ~first_rx_en
    /\ first_rx_en => burst_count = 0 /\ write_count = 0

BreakpointsStored ==
  ~cut /\ state = "ACK_BP" =>
    /\ burst_count <= Words
    /\ Len(stored) + (IF valid_write THEN 1 ELSE 0) = burst_count
    /\ rx_en_reg_1 /\ ~first_rx_en => addr_reg = Len(stored)
    /\ rx_en_reg_1 => expected_packages = Words /\ strip_width <= IMAGE_RAM_DEPTH
    /\ write => burst_count < Words /\ PIO_OUT = BreakpointBeat(burst_count, write_count)
    /\ valid_write => PIO_OUT = BreakpointBeat(burst_count - 1, 3)
    /\ burst_count = Words => valid_write
    /\ quiet > 1 => rx_en_reg_1

\* The beat the software puts next is the one the unit takes next.
BreakpointsSent ==
  ~cut /\ state = "ACK_BP" =>
    /\ pc \in {"breakpoints_ready", "breakpoints", "columns_ready", "reset"} \/ cmd = "RESET"
    /\ pc = "breakpoints_ready" => ~write /\ burst_count = 0
    /\ pc = "breakpoints" =>
         /\ rx_en_reg_1 /\ word < Words
         /\ BEATS * word + beat = BEATS * burst_count + write_count + (IF write THEN 1 ELSE 0)
    /\ pc = "columns_ready" =>
         \/ write /\ quiet = 0 /\ burst_count = Words - 1
         \/ valid_write /\ quiet = 1 /\ burst_count = Words

ColumnsStored ==
  ~cut /\ state = "ACK_STRIP" =>
    /\ ~rx_en => ~write /\ ~write_fall /\ ~valid_write /\ Len(stored) = Words
    /\ rx_en =>
         /\ burst_count <= upload.columns
         /\ Len(stored) + (IF valid_write THEN 1 ELSE 0) = Words + burst_count
         /\ rx_en_reg_1 /\ ~first_rx_en => addr_reg + Words = Len(stored)
         /\ expected_packages = upload.columns
         /\ write => /\ burst_count < upload.columns
                     /\ PIO_OUT = ColumnBeat(burst_count, write_count)
         /\ valid_write => PIO_OUT = ColumnBeat(burst_count - 1, 3)
         /\ burst_count = upload.columns => valid_write

ColumnsSent ==
  ~cut /\ state = "ACK_STRIP" =>
    /\ pc # "breakpoints"
    /\ ~rx_en => pc # "columns" /\ (pc = "columns_ready" => quiet > 1)
    /\ rx_en /\ pc = "columns_ready" => ~write /\ burst_count = 0
    /\ rx_en /\ pc = "columns" =>
         /\ quiet > 0 => rx_en_reg_1
         /\ word < upload.columns
         /\ BEATS * word + beat = BEATS * burst_count + write_count + (IF write THEN 1 ELSE 0)

\* What is stored is what belongs there, so far; a strip that is worked off is complete.
InOrder ==
  ~cut /\ state \in {"ACK_BP", "ACK_STRIP", "PROCESS_IMAGE"} =>
    /\ \A i \in 1 .. Len(stored) : stored[i] = Expected[i]
    /\ state = "PROCESS_IMAGE" => Len(stored) = Words + upload.columns

Control == OutputsInStep /\ CommandsInStep /\ SoftwareInStep /\ BusInStep
Transmit == TxIdle /\ TxCalm /\ TxHeader /\ TxWords /\ TxReads /\ Received
Receive == /\ RxIdle /\ RxOpen
           /\ BreakpointsStored /\ BreakpointsSent
           /\ ColumnsStored /\ ColumnsSent /\ InOrder

IInv == TypeOK /\ Control /\ Transmit /\ Receive

-----------------------------------------------------------------------------
(* What a clock cycle does to the registers, with equivalences for flags. *)

LEMMA Constants ==
  /\ BP_PER_WORD \in Nat /\ BP_PER_WORD > 0 /\ IMAGE_RAM_DEPTH \in Nat
  /\ MaxWords \in Nat /\ MaxKills \in Nat /\ BUS_GAP \in Nat /\ BUS_GAP >= 2
  /\ watchdog_tx_conf \in Nat /\ watchdog_tx_conf >= 3
  /\ watchdog_rx_conf \in Nat /\ watchdog_rx_conf > 0
BY LinkAssumption, BusAssumption, TxWatchdogAssumption, RxWatchdogAssumption

LEMMA UploadSizes ==
  ASSUME NEW u \in Uploads
  PROVE  u.columns \in Nat /\ u.columns > 0 /\ u.images \in Nat /\ u.images > 0
BY LinkAssumption

LEMMA WordCount ==
  ASSUME NEW n \in Nat
  PROVE  /\ WordsFor(n) \in Nat
         /\ n > 0 => WordsFor(n) > 0
<1>1. BP_PER_WORD \in Nat /\ BP_PER_WORD > 0
  BY Constants
<1>2. QED
  BY <1>1 DEF WordsFor

LEMMA NextInBurst ==
  ASSUME NEW total \in Nat, NEW i \in Nat, i < total
  PROVE  (i + 1) % total = IF i + 1 = total THEN 0 ELSE i + 1
OBVIOUS

LEMMA FlagTypes ==
  TypeOK =>
    /\ write \in BOOLEAN /\ write_reg_1 \in BOOLEAN /\ write_fall \in BOOLEAN
    /\ rx_en_reg_1 \in BOOLEAN /\ first_rx_en \in BOOLEAN /\ waitrequest_out \in BOOLEAN
    /\ valid_write \in BOOLEAN /\ watchdog_rx_trigger \in BOOLEAN
    /\ valid_read \in BOOLEAN /\ read_reg_1 \in BOOLEAN /\ en_reg_1 \in BOOLEAN
    /\ en_rise_reg \in BOOLEAN /\ header_sent_reg \in BOOLEAN
    /\ valid_data_0 \in BOOLEAN /\ valid_data_1 \in BOOLEAN
    /\ valid_data_2 \in BOOLEAN /\ valid_data_3 \in BOOLEAN
    /\ watchdog_tx_trigger \in BOOLEAN /\ held \in BOOLEAN /\ cut \in BOOLEAN
BY DEF TypeOK

RxFlagSteps(w) ==
  /\ write' <=> w
  /\ write_reg_1' <=> write
  /\ write_fall' <=> (~write_reg_1 /\ write)
  /\ rx_en_reg_1' <=> rx_en
  /\ first_rx_en' <=> (rx_en /\ ~rx_en_reg_1)
  /\ Clear_buff => ~valid_write' /\ (waitrequest_out' <=> waitrequest_out)
  /\ ~Clear_buff =>
       /\ valid_write' <=> (at_write_count /\ write)
       /\ waitrequest_out' <=> ~(rx_en \/ watchdog_rx_trigger)

LEMMA RxFlags ==
  ASSUME NEW w, NEW d, RxEdge(w, d, rx_en, Clear_buff)
  PROVE  RxFlagSteps(w)
<1>1. /\ write' <=> w
      /\ write_reg_1' <=> write
      /\ write_fall' <=> (~write_reg_1 /\ write)
  BY Zenon DEF RxEdge
<1>2. /\ rx_en_reg_1' <=> rx_en
      /\ first_rx_en' <=> (rx_en /\ ~rx_en_reg_1)
  BY Zenon DEF RxEdge
<1>3. CASE Clear_buff
  <2>1. ~valid_write' /\ (waitrequest_out' <=> waitrequest_out)
    BY <1>3 DEF RxEdge
  <2>2. QED
    BY Zenon, <1>1, <1>2, <1>3, <2>1 DEF RxFlagSteps
<1>4. CASE ~Clear_buff
  <2>1. /\ valid_write' <=> (at_write_count /\ write)
        /\ waitrequest_out' <=> ~(rx_en \/ watchdog_rx_trigger)
    BY Zenon, <1>4 DEF RxEdge
  <2>2. QED
    BY Zenon, <1>1, <1>2, <1>4, <2>1 DEF RxFlagSteps
<1>5. QED
  BY Zenon, <1>3, <1>4

RxCountSteps(w, d) ==
  /\ PIO_OUT' = IF w THEN d ELSE PIO_OUT
  /\ Clear_buff =>
       /\ addr_reg' = 0 /\ burst_count' = 0 /\ ~watchdog_rx_trigger'
       /\ rx_watchdog_counter' = 0 /\ write_count' = write_count
  /\ ~Clear_buff =>
       /\ write_count' = IF write /\ at_write_count THEN 0
                         ELSE IF write /\ ~waitrequest_out' THEN write_count + 1
                         ELSE write_count
       /\ burst_count' = IF ~rx_en THEN 0
                         ELSE IF at_write_count /\ write /\ ~waitrequest_out'
                         THEN burst_count + 1 ELSE burst_count
       /\ addr_reg' = IF first_rx_en THEN 0
                      ELSE IF valid_write THEN addr_reg + 1 ELSE addr_reg
       /\ rx_en \/ ~write => ~watchdog_rx_trigger' /\ rx_watchdog_counter' = 0
       /\ ~rx_en /\ write =>
            IF rx_watchdog_counter = watchdog_rx_conf
            THEN watchdog_rx_trigger' /\ rx_watchdog_counter' = rx_watchdog_counter
            ELSE /\ rx_watchdog_counter' = rx_watchdog_counter + 1
                 /\ watchdog_rx_trigger' <=> watchdog_rx_trigger

LEMMA RxCounts ==
  ASSUME TypeOK, NEW w \in BOOLEAN, NEW d, RxEdge(w, d, rx_en, Clear_buff)
  PROVE  RxCountSteps(w, d)
BY Zenon DEF RxCountSteps, RxEdge, CountEdge, RxWatchdogEdge, addr_rx_next

TxFlagSteps(r) ==
  /\ valid_read' <=> (at_read_count /\ r)
  /\ Clear_buff =>
       /\ ~read_reg_1' /\ ~en_reg_1' /\ ~en_rise_reg' /\ ~header_sent_reg'
       /\ ~valid_data_0' /\ ~valid_data_1' /\ ~valid_data_2' /\ ~valid_data_3'
       /\ ~watchdog_tx_trigger'
  /\ ~Clear_buff =>
       /\ read_reg_1' <=> (at_read_count /\ r)
       /\ en_reg_1' <=> tx_en
       /\ en_rise_reg' <=> /\ r \/ ~read_reg_1
                           /\ en_rise_reg \/ (tx_en /\ ~en_reg_1)
       /\ header_sent_reg' <=> /\ ~tx_en \/ en_reg_1
                               /\ header_sent_reg \/ (~r /\ read_reg_1)
       /\ valid_data_0' <=> (valid_read /\ header_sent_reg)
       /\ valid_data_1' <=> valid_data_0
       /\ valid_data_2' <=> valid_data_1
       /\ valid_data_3' <=> \/ en_rise_reg \/ valid_data_2
                            \/ valid_data_3 /\ ~(at_read_count /\ r)

LEMMA TxFlags ==
  ASSUME NEW r, TxEdge(r, tx_en, headcount, Clear_buff)
  PROVE  TxFlagSteps(r)
<1>1. valid_read' <=> (at_read_count /\ r)
  BY Zenon DEF TxEdge
<1>2. CASE Clear_buff
  <2>1. /\ ~read_reg_1' /\ ~en_reg_1' /\ ~en_rise_reg' /\ ~header_sent_reg'
        /\ ~valid_data_0' /\ ~valid_data_1' /\ ~valid_data_2' /\ ~valid_data_3'
        /\ ~watchdog_tx_trigger'
    BY Zenon, <1>2 DEF TxEdge
  <2>2. QED
    BY Zenon, <1>1, <1>2, <2>1 DEF TxFlagSteps
<1>3. CASE ~Clear_buff
  <2>1. HandshakeEdge(r, tx_en, headcount, at_read_count /\ r)
    BY Zenon, <1>3 DEF TxEdge
  <2>2. /\ read_reg_1' <=> (at_read_count /\ r)
        /\ en_reg_1' <=> tx_en
        /\ en_rise_reg' <=> /\ r \/ ~read_reg_1
                            /\ en_rise_reg \/ (tx_en /\ ~en_reg_1)
    BY Zenon, <2>1 DEF HandshakeEdge, read_fall
  <2>3. header_sent_reg' <=> /\ ~tx_en \/ en_reg_1
                             /\ header_sent_reg \/ (~r /\ read_reg_1)
    BY Zenon, <2>1 DEF HandshakeEdge, read_fall
  <2>4. /\ valid_data_0' <=> (valid_read /\ header_sent_reg)
        /\ valid_data_1' <=> valid_data_0
        /\ valid_data_2' <=> valid_data_1
    BY Zenon, <2>1 DEF HandshakeEdge, valid_data
  <2>5. valid_data_3' <=> \/ en_rise_reg \/ valid_data_2
                          \/ valid_data_3 /\ ~(at_read_count /\ r)
    BY Zenon, <2>1 DEF HandshakeEdge, valid_data_next
  <2>6. QED
    BY Zenon, <1>1, <1>3, <2>2, <2>3, <2>4, <2>5 DEF TxFlagSteps
<1>4. QED
  BY Zenon, <1>2, <1>3

TxCountSteps(r) ==
  /\ addr_out_reg' = addr_out /\ filo_q' = addr_out_reg
  /\ avs_readdata' = IF en_rise_reg /\ (r \/ ~read_reg_1) THEN Header ELSE Word(filo_q)
  /\ Clear_buff =>
       /\ addr_out' = 0 /\ read_count' = 0 /\ send_line_count' = 0
       /\ tx_watchdog_counter' = 0
  /\ ~Clear_buff =>
       /\ addr_out' = IF /\ valid_read /\ header_sent_reg
                         /\ ~at_head_count(headcount) /\ addr_out # headcount
                      THEN addr_out + 1 ELSE addr_out
       /\ read_count' = IF at_read_count /\ r THEN 0
                        ELSE IF r /\ ~waitrequest_in(tx_en)
                        THEN (read_count + 1) % 8 ELSE read_count
       /\ send_line_count' =
            IF /\ at_read_count /\ r /\ valid_data_3 /\ header_sent_reg
               /\ ~at_head_count(headcount)
            THEN send_line_count + 1 ELSE send_line_count
       /\ (valid_data_3 /\ tx_en) \/ ~r => ~watchdog_tx_trigger' /\ tx_watchdog_counter' = 0
       /\ ~(valid_data_3 /\ tx_en) /\ r =>
            IF tx_watchdog_counter = watchdog_tx_conf
            THEN watchdog_tx_trigger' /\ tx_watchdog_counter' = tx_watchdog_counter
            ELSE /\ tx_watchdog_counter' = tx_watchdog_counter + 1
                 /\ watchdog_tx_trigger' <=> watchdog_tx_trigger

LEMMA TxCounts ==
  ASSUME TypeOK, NEW r \in BOOLEAN, TxEdge(r, tx_en, headcount, Clear_buff)
  PROVE  TxCountSteps(r)
BY Zenon DEF TxCountSteps, TxEdge, HandshakeEdge, BufferEdge, TxWatchdogEdge, read_fall,
   valid_data, pop, PIO_IN

LEMMA Counted ==
  TypeOK => /\ at_write_count <=> write_count = 3
            /\ at_read_count <=> read_count = 3
BY DEF TypeOK, at_write_count, at_read_count

Fault     == watchdog_rx_trigger \/ watchdog_tx_trigger \/ strip_width > IMAGE_RAM_DEPTH
Overruled == cmd = "RESET" \/ Fault

OutputSteps ==
  /\ cmd = "RESET" => Clear_buff'
  /\ cmd # "RESET" => (Clear_buff' <=> state = "WAIT_ACK" /\ cmd = "ACK")
  /\ rx_en' <=> \/ state = "IDLE" /\ cmd = "UPLOAD"
                \/ /\ state \in {"ACK_BP", "ACK_STRIP"}
                   /\ ~RX_done(expected_packages)
  /\ select_mode' <=> state = "ACK_STRIP" /\ ~RX_done(expected_packages)
  /\ tx_en' => state \in {"PROCESS_IMAGE", "WAIT_TX"}
  /\ expected_packages' = IF select_mode' THEN strip_width ELSE WordsFor(breakpoint_count)
  /\ out' \subseteq {"rx_en", "tx_en", "select_mode", "Clear_buff"}

LEMMA ControllerOutputs ==
  ASSUME TypeOK, NEW r, ControllerEdge(r)
  PROVE  OutputSteps
<1>1. /\ Fsm(r)
      /\ expected_packages' = IF select_mode' THEN strip_width ELSE WordsFor(breakpoint_count)
  BY DEF ControllerEdge, expected_next
<1>2. PICK next, outs : /\ To(next, outs)
                        /\ "Clear_buff" \in outs <=> state = "WAIT_ACK" /\ cmd = "ACK"
                        /\ "rx_en" \in outs <=>
                             \/ state = "IDLE" /\ cmd = "UPLOAD"
                             \/ /\ state \in {"ACK_BP", "ACK_STRIP"}
                                /\ ~RX_done(expected_packages)
                        /\ "select_mode" \in outs <=>
                             state = "ACK_STRIP" /\ ~RX_done(expected_packages)
                        /\ "tx_en" \in outs => state \in {"PROCESS_IMAGE", "WAIT_TX"}
                        /\ outs \subseteq {"rx_en", "tx_en", "select_mode", "Clear_buff"}
  <2>1. CASE OnCommand("OFFLINE", "INIT", "IDLE", {})
    BY <2>1 DEF OnCommand
  <2>2. CASE OnCommand("IDLE", "UPLOAD", "ACK_BP", {"rx_en"})
    BY <2>2 DEF OnCommand
  <2>3. CASE AckBp \/ AckStrip
    BY <2>3 DEF AckBp, AckStrip, rx_done
  <2>4. CASE ProcessImages
    BY <2>4 DEF ProcessImages
  <2>5. CASE WaitTx(r)
    BY <2>5 DEF WaitTx
  <2>6. CASE OnCommand("WAIT_ACK", "ACK", "IDLE", {"Clear_buff"})
    BY <2>6 DEF OnCommand
  <2>7. CASE state = "ERROR" /\ To("ERROR", {})
    BY <2>7
  <2>8. QED
    BY <1>1, <2>1, <2>2, <2>3, <2>4, <2>5, <2>6, <2>7 DEF Fsm
<1>3. Override = "OFFLINE" <=> cmd = "RESET"
  BY DEF Override
<1>4. out' = outs \union IF Override = "OFFLINE" THEN {"Clear_buff"} ELSE {}
  BY <1>2 DEF To
<1>5. QED
  BY <1>1, <1>2, <1>3, <1>4 DEF OutputSteps

\* What the state decides, unless a command or a fault overrules it.
StateSteps(r) ==
  /\ cmd = "RESET" => state' = "OFFLINE"
  /\ cmd # "RESET" /\ Fault => state' = "ERROR"
  /\ ~Overruled =>
       /\ state = "OFFLINE" => state' = IF cmd = "INIT" THEN "IDLE" ELSE "OFFLINE"
       /\ state = "IDLE" => state' = IF cmd = "UPLOAD" THEN "ACK_BP" ELSE "IDLE"
       /\ state = "ACK_BP" =>
            state' = IF RX_done(expected_packages) THEN "ACK_STRIP" ELSE "ACK_BP"
       /\ state = "ACK_STRIP" =>
            state' = IF RX_done(expected_packages) THEN "PROCESS_IMAGE" ELSE "ACK_STRIP"
       /\ state = "PROCESS_IMAGE" =>
            \/ state' \in {"PROCESS_IMAGE", "WAIT_ACK"} /\ ~tx_en'
            \/ state' = "WAIT_TX" /\ tx_en'
       /\ state = "WAIT_TX" =>
            \/ /\ state' = "WAIT_ACK" /\ ~tx_en'
               /\ headcount = send_line_count /\ ~r /\ read_reg_1
            \/ /\ state' = "WAIT_TX" /\ tx_en'
               /\ ~(headcount = send_line_count /\ ~r /\ read_reg_1)
       /\ state = "WAIT_ACK" => state' = IF cmd = "ACK" THEN "IDLE" ELSE "WAIT_ACK"
       /\ state = "ERROR" => state' = "ERROR"

LEMMA ControllerNext ==
  ASSUME TypeOK, NEW r \in BOOLEAN, ControllerEdge(r)
  PROVE  StateSteps(r)
<1>1. Fsm(r)
  BY DEF ControllerEdge
<1>2. /\ Override = "OFFLINE" <=> cmd = "RESET"
      /\ Override = "ERROR" <=> cmd # "RESET" /\ Fault
      /\ Override = "none" <=> ~Overruled
  BY DEF Override, Fault, Overruled
<1>3. CASE Overruled
  <2>1. state' = Override
    BY <1>1, <1>2, <1>3 DEF Fsm, OnCommand, AckBp, AckStrip, ProcessImages, WaitTx, To
  <2>2. QED
    BY <1>2, <1>3, <2>1 DEF Overruled, StateSteps
<1>4. CASE ~Overruled
  <2>0. Override = "none"
    BY <1>2, <1>4
  <2>1. CASE OnCommand("OFFLINE", "INIT", "IDLE", {})
    BY <1>4, <2>0, <2>1 DEF OnCommand, To, Overruled, StateSteps
  <2>2. CASE OnCommand("IDLE", "UPLOAD", "ACK_BP", {"rx_en"})
    BY <1>4, <2>0, <2>2 DEF OnCommand, To, Overruled, StateSteps
  <2>3. CASE AckBp \/ AckStrip
    BY <1>4, <2>0, <2>3 DEF AckBp, AckStrip, rx_done, To, Overruled, StateSteps
  <2>4. CASE ProcessImages
    BY <1>4, <2>0, <2>4 DEF ProcessImages, To, Overruled, StateSteps
  <2>5. CASE WaitTx(r)
    BY <1>4, <2>0, <2>5 DEF WaitTx, To, Overruled, tx_done, at_head_count, read_fall, StateSteps
  <2>6. CASE OnCommand("WAIT_ACK", "ACK", "IDLE", {"Clear_buff"})
    BY <1>4, <2>0, <2>6 DEF OnCommand, To, Overruled, StateSteps
  <2>7. CASE state = "ERROR" /\ To("ERROR", {})
    BY <1>4, <2>0, <2>7 DEF To, Overruled, StateSteps
  <2>8. QED
    BY <1>1, <2>1, <2>2, <2>3, <2>4, <2>5, <2>6, <2>7 DEF Fsm
<1>5. QED
  BY <1>3, <1>4

DataSteps ==
  /\ cmd = "RESET" => strip_width' = 0 /\ breakpoint_count' = 0
  /\ cmd = "UPLOAD" => strip_width' = upload.columns /\ breakpoint_count' = upload.images
  /\ cmd \notin {"RESET", "UPLOAD"} =>
       strip_width' = strip_width /\ breakpoint_count' = breakpoint_count
  /\ Clear_buff => headcount' = 0
  /\ ~Clear_buff /\ state = "PROCESS_IMAGE" /\ state' = "WAIT_TX" =>
       headcount' \in 1 .. MaxWords
  /\ ~Clear_buff /\ ~(state = "PROCESS_IMAGE" /\ state' = "WAIT_TX") =>
       headcount' = headcount

LEMMA ControllerData ==
  ASSUME TypeOK, NEW r, ControllerEdge(r)
  PROVE  DataSteps
BY DEF ControllerEdge, DataSteps

-----------------------------------------------------------------------------
(* What the software does in a clock cycle. *)

\* A command, or a look at a register.
Single(c) ==
  /\ quiet = BUS_GAP /\ ~held /\ quiet' = 0 /\ ~held' /\ (cut' <=> cut \/ Stray)
  /\ received' = received /\ kills' = kills
  /\ \/ c = "RESET" /\ pc = "reset" /\ pc' = "init"
     \/ c = "INIT" /\ pc = "init" /\ pc' = "check"
     \/ c = "ACK" /\ pc = "ack" /\ pc' = "check"
     \/ c = "UPLOAD" /\ pc = "upload" /\ pc' = "breakpoints_ready" /\ upload' \in Uploads
     \/ c = "NO_CMD" /\ checkStatus
     \/ c = "NO_CMD" /\ waitForOutReady
     \/ c = "NO_CMD" /\ waitForInValid
  /\ c # "UPLOAD" => upload' = upload
  /\ \/ word' = word /\ beat' = beat
     \/ word' = 0 /\ beat' = 0

Waits ==
  /\ ~held /\ ~held' /\ (cut' <=> cut \/ Stray)
  /\ quiet' = IF quiet < BUS_GAP THEN quiet + 1 ELSE quiet
  /\ UNCHANGED <<pc, upload, word, beat, received, kills>>

Dies ==
  /\ ~held /\ ~held' /\ quiet' = 0 /\ pc \notin {"reset", "init"}
  /\ cut' <=> cut \/ Stray \/ (pc \in Writing /\ beat > 0)
  /\ kills < MaxKills /\ kills' = kills + 1
  /\ pc' = "reset" /\ word' = 0 /\ beat' = 0
  /\ UNCHANGED <<upload, received>>

\* A beat of a burst.
Beats(total, next, waiting) ==
  /\ held \/ quiet > 0
  /\ held \/ quiet = BUS_GAP \/ word > 0 \/ beat > 0
  /\ (cut' <=> cut \/ Stray) /\ (held' <=> waiting)
  /\ quiet' = IF waiting THEN quiet ELSE 0
  /\ waiting => word' = word /\ beat' = beat /\ pc' = pc
  /\ ~waiting =>
       /\ beat' = IF beat = 3 THEN 0 ELSE beat + 1
       /\ word' = IF beat = 3 THEN (word + 1) % total ELSE word
       /\ pc' = IF beat = 3 /\ word = total - 1 THEN next ELSE pc
  /\ UNCHANGED <<upload, kills>>

Puts(d) ==
  /\ \/ /\ pc = "breakpoints" /\ d = BreakpointBeat(word, beat)
        /\ Beats(Words, "columns_ready", waitrequest_out)
     \/ /\ pc = "columns" /\ d = ColumnBeat(word, beat)
        /\ Beats(upload.columns, "check", waitrequest_out)
  /\ received' = received

Gets ==
  \/ /\ pc = "header" /\ Beats(1, "words_ready", waitrequest_in(tx_en))
     /\ received' = IF waitrequest_in(tx_en) THEN received
                    ELSE IF beat = 0 THEN Append(<<>>, avs_readdata)
                    ELSE Append(received, avs_readdata)
  \/ /\ pc = "words" /\ Beats(headcount, "check", waitrequest_in(tx_en))
     /\ received' = IF waitrequest_in(tx_en) THEN received ELSE Append(received, avs_readdata)

Move(w, d, r, c) ==
  /\ w \in BOOLEAN /\ r \in BOOLEAN /\ d \in Beat /\ c \in Commands
  /\ Clock(w, d, r, c)
  /\ \/ ~w /\ ~r /\ Single(c)
     \/ ~w /\ ~r /\ c = "NO_CMD" /\ Waits
     \/ ~w /\ ~r /\ c = "NO_CMD" /\ Dies
     \/ w /\ ~r /\ c = "NO_CMD" /\ Puts(d)
     \/ ~w /\ r /\ c = "NO_CMD" /\ Gets

LEMMA BurstBeats ==
  ASSUME TypeOK, NEW total, NEW next, NEW waiting \in BOOLEAN, Burst(total, next, waiting)
  PROVE  Beats(total, next, waiting)
<1>1. /\ beat \in 0 .. 3 /\ quiet \in Nat /\ held \in BOOLEAN /\ cut \in BOOLEAN
      /\ BUS_GAP \in Nat /\ BUS_GAP >= 2
  BY Constants DEF TypeOK
<1>2. beat # 3 => (beat + 1) % 4 = beat + 1
  BY <1>1
<1>3. beat = 3 => (beat + 1) % 4 = 0
  BY <1>1
<1>4. (cut' <=> cut \/ Stray) /\ (held' <=> waiting)
  BY Zenon DEF Burst
<1>5. /\ held \/ quiet > 0
      /\ held \/ quiet = BUS_GAP \/ word > 0 \/ beat > 0
  BY <1>1 DEF Burst
<1>6. QED
  BY <1>1, <1>2, <1>3, <1>4, <1>5 DEF Burst, Beats

LEMMA Moves ==
  ASSUME TypeOK, Next
  PROVE  \E w \in BOOLEAN, r \in BOOLEAN, d \in Beat, c \in Commands : Move(w, d, r, c)
<1>0. /\ NoData \in Beat
      /\ waitrequest_out \in BOOLEAN /\ waitrequest_in(tx_en) \in BOOLEAN
      /\ held \in BOOLEAN /\ cut \in BOOLEAN
      /\ word \in Nat /\ beat \in 0 .. 3
  BY FlagTypes DEF NoData, Beat, waitrequest_in, TypeOK
<1> DEFINE Goal == \E w \in BOOLEAN, r \in BOOLEAN, d \in Beat, c \in Commands : Move(w, d, r, c)
<1>a. ASSUME NEW c \in Commands, Access(c)
      PROVE  /\ Clock(FALSE, NoData, FALSE, c)
             /\ quiet = BUS_GAP /\ ~held /\ quiet' = 0 /\ ~held' /\ kills' = kills
             /\ cut' <=> cut \/ Stray
  BY <1>a, <1>0, Zenon DEF Access, Rested, NoAccess
<1>1. ASSUME NEW c \in Commands, NoAccess(c), Single(c)
      PROVE  Goal
  BY <1>0, <1>1, Zenon DEF Move, NoAccess
<1>2. CASE sendReset \/ sendInit \/ sendAck \/ cmdUpload
  <2>1. PICK c \in Commands : Access(c) /\ Single(c)
    <3>1. CASE sendReset
      <4>1. Single("RESET")
        BY <1>a, <3>1 DEF sendReset, Command, Single, Commands
      <4>2. QED
        BY <3>1, <4>1 DEF sendReset, Command, Commands
    <3>2. CASE sendInit
      <4>1. Single("INIT")
        BY <1>a, <3>2 DEF sendInit, Command, Single, Commands
      <4>2. QED
        BY <3>2, <4>1 DEF sendInit, Command, Commands
    <3>3. CASE sendAck
      <4>1. Single("ACK")
        BY <1>a, <3>3 DEF sendAck, Command, Single, Commands
      <4>2. QED
        BY <3>3, <4>1 DEF sendAck, Command, Commands
    <3>4. CASE cmdUpload
      <4>1. Single("UPLOAD")
        BY <1>a, <3>4 DEF cmdUpload, Command, Single, Commands
      <4>2. QED
        BY <3>4, <4>1 DEF cmdUpload, Command, Commands
    <3>5. QED
      BY <1>2, <3>1, <3>2, <3>3, <3>4
  <2>2. QED
    BY <1>1, <2>1 DEF Access
<1>3. CASE checkStatus \/ waitForOutReady \/ waitForInValid
  <2>1. Access("NO_CMD")
    BY <1>3 DEF checkStatus, waitForOutReady, waitForInValid, Wait
  <2>2. /\ received' = received /\ upload' = upload
        /\ (word' = word /\ beat' = beat) \/ (word' = 0 /\ beat' = 0)
    BY <1>3 DEF checkStatus, waitForOutReady, waitForInValid, Wait
  <2>3. "NO_CMD" \in Commands
    BY DEF Commands
  <2>4. Single("NO_CMD")
    BY <1>a, <1>3, <2>1, <2>2, <2>3 DEF Single
  <2>5. QED
    BY <1>1, <2>1, <2>3, <2>4 DEF Access
<1>4. CASE Pause
  <2>1. Waits
    BY <1>0, <1>4 DEF Pause, Waits, swVars
  <2>2. Move(FALSE, NoData, FALSE, "NO_CMD")
    BY <1>0, <1>4, <2>1 DEF Pause, NoAccess, Move, Commands
  <2>3. QED
    BY <1>0, <2>2 DEF Commands
<1>5. CASE Kill
  <2>1. cut' <=> cut \/ Stray \/ (pc \in Writing /\ beat > 0)
    BY <1>5, Zenon DEF Kill, Writing
  <2>2. Dies
    BY <1>0, <1>5, <2>1 DEF Kill, Dies
  <2>3. Move(FALSE, NoData, FALSE, "NO_CMD")
    BY <1>0, <1>5, <2>2 DEF Kill, NoAccess, Move, Commands
  <2>4. QED
    BY <1>0, <2>3 DEF Commands
<1>6. CASE writeBurst128
  <2>1. PICK d : /\ Clock(TRUE, d, FALSE, "NO_CMD") /\ Puts(d)
                 /\ d \in Beat
    <3>1. /\ BreakpointBeat(word, beat) \in Beat
          /\ ColumnBeat(word, beat) \in Beat
      BY <1>0 DEF BreakpointBeat, ColumnBeat, Beat
    <3>2. CASE Write("breakpoints", "breakpoint", Words, "columns_ready")
      <4>1. /\ Beats(Words, "columns_ready", waitrequest_out)
            /\ Clock(TRUE, BreakpointBeat(word, beat), FALSE, "NO_CMD")
            /\ pc = "breakpoints" /\ received' = received
        BY <1>0, <3>2, BurstBeats DEF Write, BreakpointBeat
      <4>2. QED
        BY <3>1, <4>1, Zenon DEF Puts
    <3>3. CASE Write("columns", "image", upload.columns, "check")
      <4>1. /\ Beats(upload.columns, "check", waitrequest_out)
            /\ Clock(TRUE, ColumnBeat(word, beat), FALSE, "NO_CMD")
            /\ pc = "columns" /\ received' = received
        BY <1>0, <3>3, BurstBeats DEF Write, ColumnBeat
      <4>2. QED
        BY <3>1, <4>1, Zenon DEF Puts
    <3>4. QED
      BY <1>6, <3>2, <3>3 DEF writeBurst128, Words
  <2>2. Move(TRUE, d, FALSE, "NO_CMD")
    BY <2>1 DEF Move, Commands
  <2>3. QED
    BY <2>1, <2>2 DEF Commands
<1>7. CASE read128 \/ readBurst128
  <2>1. Clock(FALSE, NoData, TRUE, "NO_CMD") /\ Gets
    <3>1. CASE read128
      <4>1. Beats(1, "words_ready", waitrequest_in(tx_en))
        BY <1>0, <3>1, BurstBeats DEF read128, Read
      <4>2. QED
        BY <3>1, <4>1 DEF read128, Read, Gets
    <3>2. CASE readBurst128
      <4>1. Beats(headcount, "check", waitrequest_in(tx_en))
        BY <1>0, <3>2, BurstBeats DEF readBurst128, Read
      <4>2. QED
        BY <3>2, <4>1 DEF readBurst128, Read, Gets
    <3>3. QED
      BY <1>7, <3>1, <3>2
  <2>2. Move(FALSE, NoData, TRUE, "NO_CMD")
    BY <1>0, <2>1 DEF Move, Commands
  <2>3. QED
    BY <1>0, <2>2 DEF Commands
<1>8. QED
  BY <1>2, <1>3, <1>4, <1>5, <1>6, <1>7 DEF Next, Software

LEMMA Edges ==
  ASSUME TypeOK, NEW w, NEW d, NEW r, NEW c, Move(w, d, r, c)
  PROVE  /\ RxFlagSteps(w) /\ RxCountSteps(w, d) /\ TxFlagSteps(r) /\ TxCountSteps(r)
         /\ OutputSteps /\ StateSteps(r) /\ DataSteps /\ cmd' = c
         /\ stored' = IF cut \/ (state = "IDLE" /\ state' = "ACK_BP") THEN <<>>
                      ELSE IF valid_write THEN Append(stored, Filed) ELSE stored
<1>1. /\ w \in BOOLEAN /\ r \in BOOLEAN
      /\ RxEdge(w, d, rx_en, Clear_buff) /\ TxEdge(r, tx_en, headcount, Clear_buff)
      /\ ControllerEdge(r) /\ cmd' = c
      /\ stored' = IF cut \/ (state = "IDLE" /\ state' = "ACK_BP") THEN <<>>
                   ELSE IF valid_write THEN Append(stored, Filed) ELSE stored
  BY Zenon DEF Move, Clock
<1>2. RxFlagSteps(w) /\ RxCountSteps(w, d)
  BY <1>1, RxFlags, RxCounts
<1>3. TxFlagSteps(r) /\ TxCountSteps(r)
  BY <1>1, TxFlags, TxCounts
<1>4. OutputSteps /\ StateSteps(r) /\ DataSteps
  BY <1>1, ControllerOutputs, ControllerNext, ControllerData
<1>5. QED
  BY <1>1, <1>2, <1>3, <1>4

\* The moves of the software, seen from the port.
LEMMA PortMoves ==
  ASSUME TypeOK, NEW w, NEW d, NEW r, NEW c, Move(w, d, r, c)
  PROVE  /\ w \in BOOLEAN /\ r \in BOOLEAN /\ c \in Commands
         /\ w => /\ pc \in Writing /\ ~r /\ c = "NO_CMD" /\ (held' <=> waitrequest_out)
                 /\ held \/ quiet > 0
         /\ r => /\ pc \in {"header", "words"} /\ c = "NO_CMD"
                 /\ held' <=> waitrequest_in(tx_en)
                 /\ held \/ quiet > 0
         /\ w \/ r => quiet' = IF held' THEN quiet ELSE 0
         /\ ~w /\ ~r => ~held /\ ~held'
         /\ c # "NO_CMD" => ~w /\ ~r /\ quiet = BUS_GAP /\ quiet' = 0
         /\ quiet' = 0 \/ (quiet' = quiet + 1 /\ pc' = pc) \/ (quiet' = quiet /\ pc' = pc)
         /\ ~cut' => ~cut /\ ~(write /\ ~rx_en)
<1>1. /\ waitrequest_out \in BOOLEAN /\ waitrequest_in(tx_en) \in BOOLEAN
      /\ held \in BOOLEAN /\ cut \in BOOLEAN /\ quiet \in Nat
  BY FlagTypes DEF TypeOK, waitrequest_in
<1>2. CASE ~w /\ ~r /\ Single(c)
  BY <1>1, <1>2 DEF Single, Stray, Move
<1>3. CASE ~w /\ ~r /\ c = "NO_CMD" /\ (Waits \/ Dies)
  BY <1>1, <1>3 DEF Waits, Dies, Stray, Move
<1>4. CASE w /\ ~r /\ c = "NO_CMD" /\ Puts(d)
  BY <1>1, <1>4 DEF Puts, Beats, Stray, Move, Writing
<1>5. CASE ~w /\ r /\ c = "NO_CMD" /\ Gets
  BY <1>1, <1>5 DEF Gets, Beats, Stray, Move
<1>6. QED
  BY <1>2, <1>3, <1>4, <1>5 DEF Move

LEMMA OutputsKept ==
  ASSUME TypeOK, OutputsInStep, CommandsInStep, SoftwareInStep, TxCalm,
         NEW w, NEW d, NEW r, NEW c, Move(w, d, r, c)
  PROVE  OutputsInStep'
<1>1. OutputSteps /\ StateSteps(r)
  BY Edges
<1>2. state \in States /\ IMAGE_RAM_DEPTH \in Nat /\ strip_width \in Nat
  BY Constants DEF TypeOK
<1>3. CASE Overruled
  BY <1>1, <1>2, <1>3 DEF OutputsInStep, OutputSteps, StateSteps, Overruled, Fault,
     CommandsInStep, SoftwareInStep, TxCalm, States
<1>4. CASE ~Overruled
  BY <1>1, <1>2, <1>4 DEF OutputsInStep, OutputSteps, StateSteps, Overruled,
     CommandsInStep, States
<1>5. QED
  BY <1>3, <1>4

LEMMA CommandsKept ==
  ASSUME TypeOK, OutputsInStep, CommandsInStep, SoftwareInStep, BusInStep, TxCalm,
         NEW w, NEW d, NEW r, NEW c, Move(w, d, r, c)
  PROVE  CommandsInStep'
<1>1. /\ OutputSteps /\ StateSteps(r) /\ RxFlagSteps(w) /\ RxCountSteps(w, d)
      /\ cmd' = c
  BY Edges
<1>2. /\ w \in BOOLEAN /\ r \in BOOLEAN
      /\ ~w /\ ~r => ~held /\ ~held'
      /\ w => pc \in Writing /\ (held \/ quiet > 0)
      /\ r => pc \in {"header", "words"} /\ (held \/ quiet > 0)
      /\ c # "NO_CMD" => ~w /\ ~r /\ quiet = BUS_GAP /\ quiet' = 0
      /\ quiet' = 0 \/ (quiet' = quiet + 1 /\ pc' = pc) \/ (quiet' = quiet /\ pc' = pc)
  BY PortMoves
<1>3. /\ state \in States /\ cmd \in Commands /\ quiet \in Nat
      /\ BUS_GAP \in Nat /\ BUS_GAP >= 2 /\ IMAGE_RAM_DEPTH \in Nat /\ strip_width \in Nat
  BY Constants DEF TypeOK
<1>4. ~write \/ rx_en => ~watchdog_rx_trigger'
  BY <1>1, FlagTypes DEF RxCountSteps
<1>5. cmd' # "NO_CMD" => ~write /\ ~watchdog_rx_trigger /\ ~Clear_buff /\ cmd = "NO_CMD" /\ ~held
  BY <1>1, <1>2, <1>3 DEF BusInStep, CommandsInStep, Writing
<1>6. cmd' # "NO_CMD" => ~Clear_buff'
  BY <1>1, <1>5 DEF OutputSteps
<1>7. /\ cmd' = "RESET" => pc' = "init"
      /\ cmd' = "INIT" => pc = "init" /\ pc' = "check"
      /\ cmd' = "UPLOAD" => pc = "upload" /\ pc' = "breakpoints_ready"
      /\ cmd' = "ACK" => pc = "ack" /\ pc' = "check"
  BY <1>1 DEF Move, Single
<1>8. cmd' \in {"INIT", "UPLOAD", "ACK"} => state' = state
  BY <1>1, <1>3, <1>5, <1>7 DEF StateSteps, Overruled, Fault, TxCalm, SoftwareInStep, States
<1>9. Clear_buff' => /\ cmd # "NO_CMD" /\ ~held /\ ~w /\ ~r
                     /\ ~write /\ ~watchdog_rx_trigger /\ quiet = 0
  BY <1>1, <1>2, <1>3 DEF OutputSteps, CommandsInStep, Commands, Writing
<1>10. Clear_buff' => pc' \in {"init", "check", "reset"}
  <2>1. SUFFICES ASSUME Clear_buff' PROVE pc' \in {"init", "check", "reset"}
    OBVIOUS
  <2>2. quiet = 0 /\ ~w /\ ~r /\ pc \in {"init", "check", "reset"}
    BY <1>1, <1>9, <2>1, <1>3 DEF OutputSteps, CommandsInStep, Commands
  <2>3. pc' = pc \/ pc' = "reset"
    BY <1>3, <2>2 DEF Move, Single, Waits, Dies
  <2>4. QED
    BY <2>2, <2>3
<1>11. cmd' # "NO_CMD" \/ Clear_buff' => ~held' /\ ~write' /\ ~watchdog_rx_trigger'
  BY <1>1, <1>2, <1>4, <1>5, <1>9 DEF RxFlagSteps
<1>12. Clear_buff' => quiet' <= 1
  BY <1>2, <1>3, <1>9
<1>13. /\ cmd' = "INIT" => state' = "OFFLINE"
       /\ cmd' = "UPLOAD" => state' = "IDLE"
       /\ cmd' = "ACK" => state' = "WAIT_ACK"
  BY <1>5, <1>7, <1>8 DEF SoftwareInStep
<1>14. QED
  BY <1>1, <1>2, <1>6, <1>7, <1>10, <1>11, <1>12, <1>13 DEF CommandsInStep

LEMMA BusKept ==
  ASSUME TypeOK, CommandsInStep, BusInStep,
         NEW w, NEW d, NEW r, NEW c, Move(w, d, r, c)
  PROVE  BusInStep'
<1>1. RxFlagSteps(w) /\ RxCountSteps(w, d)
  BY Edges
<1>2. /\ w \in BOOLEAN /\ r \in BOOLEAN
      /\ w => /\ pc \in Writing /\ ~r
              /\ held \/ quiet > 0
      /\ r => pc \in {"header", "words"} /\ (held \/ quiet > 0)
      /\ w \/ r => quiet' = IF held' THEN quiet ELSE 0
      /\ ~w /\ ~r => ~held /\ ~held'
      /\ quiet' = 0 \/ (quiet' = quiet + 1 /\ pc' = pc) \/ (quiet' = quiet /\ pc' = pc)
  BY PortMoves
<1>3. quiet \in Nat /\ BUS_GAP \in Nat /\ BUS_GAP >= 2
  BY Constants DEF TypeOK
<1>4. write' => w
  BY <1>1 DEF RxFlagSteps
<1>5. watchdog_rx_trigger' \/ write_fall' => write
  BY <1>1, FlagTypes DEF RxCountSteps, RxFlagSteps
<1>6. ASSUME w
      PROVE  /\ held' => pc' = pc
             /\ ~held' => quiet' = 0 /\ pc' \in Writing \union {"columns_ready", "check"}
  BY <1>2, <1>6 DEF Move, Puts, Beats, Writing
<1>7. write' => \/ pc' \in Writing /\ (held' \/ quiet' = 0)
                \/ pc' \in {"columns_ready", "check", "reset"} /\ ~held' /\ quiet' = 0
  BY <1>2, <1>4, <1>6
<1>8. ASSUME watchdog_rx_trigger' \/ write_fall'
      PROVE  \/ pc' \in Writing /\ (held' \/ quiet' <= 1)
             \/ pc' \in {"columns_ready", "check", "reset"} /\ ~held' /\ quiet' <= 1
  <2>1. \/ pc \in Writing /\ (held \/ quiet = 0)
        \/ pc \in {"columns_ready", "check", "reset"} /\ ~held /\ quiet = 0
    BY <1>5, <1>8 DEF BusInStep
  <2>2. CASE w
    BY <1>2, <1>6, <2>2
  <2>3. CASE ~w
    <3>1. ~r /\ ~held /\ ~held' /\ quiet = 0
      BY <1>2, <2>1, <2>3, <1>3 DEF Writing
    <3>2. pc' = pc \/ pc' = "reset"
      BY <1>2, <1>3, <2>3, <3>1 DEF Move, Single, Waits, Dies
    <3>3. QED
      BY <1>2, <1>3, <2>1, <3>1, <3>2
  <2>4. QED
    BY <1>2, <2>2, <2>3
<1>9. QED
  BY <1>7, <1>8 DEF BusInStep

\* The results are not done before the software has read them.
LEMMA NotDone ==
  ASSUME TypeOK, SoftwareInStep, TxCalm, TxHeader, TxWords, TxReads,
         pc \in Reading \/ (pc = "check" /\ quiet > 0), state = "WAIT_TX"
  PROVE  ~(headcount = send_line_count /\ read_reg_1)
<1>1. /\ headcount \in Nat /\ send_line_count \in Nat /\ read_count \in 0 .. 3
      /\ word \in Nat /\ beat \in 0 .. 3 /\ quiet \in Nat
  BY DEF TypeOK
<1>2. CASE HeaderOpen
  BY <1>1, <1>2 DEF TxHeader
<1>3. CASE ~HeaderOpen
  <2>1. SUFFICES ASSUME read_reg_1, headcount = send_line_count PROVE FALSE
    OBVIOUS
  <2>2. send_line_count > 0 /\ quiet = 0
    BY <1>1, <1>3, <2>1 DEF TxWords, TxCalm
  <2>3. Taken = READS * (send_line_count + 1) + read_count
    BY <2>1 DEF Taken
  <2>4. read_count = 0
    BY <1>3, <2>1 DEF TxWords
  <2>5. pc = "words"
    BY <1>1, <2>1, <2>2, <2>3, <2>4 DEF TxReads, Reading
  <2>6. QED
    BY <1>1, <2>1, <2>3, <2>4, <2>5 DEF TxReads, SoftwareInStep
<1>4. QED
  BY <1>2, <1>3

LEMMA SoftwareKept ==
  ASSUME TypeOK, Control, TxCalm, TxHeader, TxWords, TxReads,
         NEW w, NEW d, NEW r, NEW c, Move(w, d, r, c)
  PROVE  SoftwareInStep'
<1> USE DEF Control
<1>1. /\ OutputSteps /\ StateSteps(r) /\ DataSteps /\ cmd' = c
  BY Edges
<1>2. /\ state \in States /\ cmd \in Commands /\ quiet \in Nat /\ pc \in Places
      /\ BUS_GAP \in Nat /\ BUS_GAP >= 2 /\ IMAGE_RAM_DEPTH \in Nat /\ strip_width \in Nat
      /\ word \in Nat /\ beat \in 0 .. 3 /\ headcount \in Nat
  BY Constants DEF TypeOK
<1>3. ~watchdog_tx_trigger
  BY DEF TxCalm
<1>4. ASSUME pc \in {"init", "upload", "ack", "breakpoints_ready"} \union Reading
      PROVE  ~watchdog_rx_trigger /\ ~write_fall
  BY <1>4 DEF BusInStep, Writing, Reading
<1>5. ASSUME quiet = BUS_GAP, ~held
      PROVE  cmd = "NO_CMD" /\ ~watchdog_rx_trigger /\ ~Clear_buff
  BY <1>2, <1>5 DEF BusInStep, CommandsInStep
<1>6. pc' = "init" => cmd' = "RESET" \/ state' = "OFFLINE"
  <2>1. SUFFICES ASSUME pc' = "init", cmd' # "RESET" PROVE state' = "OFFLINE"
    OBVIOUS
  <2>2. pc = "init"
    BY <1>1, <2>1 DEF Move, Single, Waits, Dies, Puts, Gets, Beats, checkStatus,
       waitForOutReady, waitForInValid, Wait
  <2>3. cmd = "RESET" \/ (state = "OFFLINE" /\ cmd # "INIT" /\ ~Fault)
    BY <1>2, <1>3, <1>4, <2>2 DEF SoftwareInStep, CommandsInStep, Fault
  <2>4. QED
    BY <1>1, <2>3 DEF StateSteps, Overruled
<1>7. pc' = "upload" => state' = "IDLE"
  <2>1. SUFFICES ASSUME pc' = "upload" PROVE state' = "IDLE"
    OBVIOUS
  <2>2. \/ pc = "upload"
        \/ pc = "check" /\ state = "IDLE" /\ quiet = BUS_GAP /\ ~held
    BY <2>1 DEF Move, Single, Waits, Dies, Puts, Gets, Beats, checkStatus,
       waitForOutReady, waitForInValid, Wait
  <2>3. state = "IDLE" /\ cmd \notin {"RESET", "UPLOAD"} /\ ~Fault
    BY <1>2, <1>3, <1>4, <1>5, <2>2 DEF SoftwareInStep, CommandsInStep, Fault
  <2>4. QED
    BY <1>1, <2>3 DEF StateSteps, Overruled
<1>8. pc' = "ack" => state' = "WAIT_ACK"
  <2>1. SUFFICES ASSUME pc' = "ack" PROVE state' = "WAIT_ACK"
    OBVIOUS
  <2>2. \/ pc = "ack"
        \/ pc = "check" /\ state = "WAIT_ACK" /\ quiet = BUS_GAP /\ ~held
    BY <2>1 DEF Move, Single, Waits, Dies, Puts, Gets, Beats, checkStatus,
       waitForOutReady, waitForInValid, Wait
  <2>3. state = "WAIT_ACK" /\ cmd \notin {"RESET", "ACK"} /\ ~Fault
    BY <1>2, <1>3, <1>4, <1>5, <2>2 DEF SoftwareInStep, CommandsInStep, Fault
  <2>4. QED
    BY <1>1, <2>3 DEF StateSteps, Overruled
<1>9. pc' = "breakpoints_ready" => cmd' = "UPLOAD" \/ state' \in {"ACK_BP", "ERROR"}
  <2>1. SUFFICES ASSUME pc' = "breakpoints_ready", cmd' # "UPLOAD"
                 PROVE  state' \in {"ACK_BP", "ERROR"}
    OBVIOUS
  <2>2. pc = "breakpoints_ready"
    BY <1>1, <2>1 DEF Move, Single, Waits, Dies, Puts, Gets, Beats, checkStatus,
       waitForOutReady, waitForInValid, Wait
  <2>3. cmd # "RESET" /\ (cmd = "UPLOAD" => state = "IDLE")
    BY <2>2 DEF CommandsInStep
  <2>4. cmd = "UPLOAD" \/ state \in {"ACK_BP", "ERROR"}
    BY <2>2 DEF SoftwareInStep
  <2>5. ~RX_done(expected_packages)
    BY <1>4, <2>2 DEF RX_done
  <2>6. QED
    BY <1>1, <2>3, <2>4, <2>5 DEF StateSteps, Overruled
<1>10. pc' \in Reading => state' = "WAIT_TX"
  <2>1. SUFFICES ASSUME pc' \in Reading PROVE state' = "WAIT_TX"
    OBVIOUS
  <2>2. \/ pc \in Reading
        \/ pc = "check" /\ state = "WAIT_TX" /\ quiet = BUS_GAP /\ ~held
    BY <2>1 DEF Move, Single, Waits, Dies, Puts, Gets, Beats, checkStatus,
       waitForOutReady, waitForInValid, Wait, Reading
  <2>3. state = "WAIT_TX" /\ cmd # "RESET" /\ ~Fault
    BY <1>2, <1>3, <1>4, <1>5, <2>2 DEF SoftwareInStep, CommandsInStep, Fault, Reading
  <2>4. ~(headcount = send_line_count /\ read_reg_1)
    BY <1>2, <2>2, <2>3, NotDone
  <2>5. QED
    BY <1>1, <2>3, <2>4 DEF StateSteps, Overruled
<1>11. /\ pc' \in {"breakpoints_ready", "columns_ready"} \union Writing => upload' \in Uploads
       /\ cmd' = "UPLOAD" => upload' \in Uploads
       /\ state' \in {"ACK_BP", "ACK_STRIP", "PROCESS_IMAGE"} => upload' \in Uploads
  <2>1. CASE c = "UPLOAD"
    <3>1. upload' \in Uploads
      BY <2>1 DEF Move, Single
    <3>2. QED
      BY <3>1
  <2>2. CASE c # "UPLOAD"
    <3>1. upload' = upload
      BY <2>2 DEF Move, Single, Waits, Dies, Puts, Gets, Beats
    <3>2. pc' \in {"breakpoints_ready", "columns_ready"} \union Writing =>
            pc \in {"breakpoints_ready", "columns_ready"} \union Writing
      BY <2>2 DEF Move, Single, Waits, Dies, Puts, Gets, Beats, checkStatus,
         waitForOutReady, waitForInValid, Wait, Writing
    <3>3. state' \in {"ACK_BP", "ACK_STRIP", "PROCESS_IMAGE"} =>
            state \in {"ACK_BP", "ACK_STRIP", "PROCESS_IMAGE"} \/ cmd = "UPLOAD"
      BY <1>1, <1>2 DEF StateSteps, Overruled, States
    <3>4. QED
      BY <1>1, <2>2, <3>1, <3>2, <3>3 DEF SoftwareInStep
  <2>3. QED
    BY <2>1, <2>2
<1>12. pc' = "header" => word' = 0
  <2>1. CASE pc = "header"
    <3>1. word = 0
      BY <2>1 DEF SoftwareInStep
    <3>2. (word + 1) % 1 = 0
      BY <3>1
    <3>3. QED
      BY <2>1, <3>1, <3>2 DEF Move, Single, Waits, Dies, Puts, Gets, Beats
  <2>2. CASE pc # "header"
    BY <2>2 DEF Move, Single, Waits, Dies, Puts, Gets, Beats, checkStatus,
       waitForOutReady, waitForInValid, Wait
  <2>3. QED
    BY <2>1, <2>2
<1>13. pc' = "words" => word' < headcount'
  <2>1. SUFFICES ASSUME pc' = "words" PROVE word' < headcount'
    OBVIOUS
  <2>2. \/ pc = "words"
        \/ pc = "words_ready" /\ word' = 0
    BY <2>1 DEF Move, Single, Waits, Dies, Puts, Gets, Beats, checkStatus,
       waitForOutReady, waitForInValid, Wait
  <2>3. state = "WAIT_TX"
    BY <2>2 DEF SoftwareInStep, Reading
  <2>4. headcount > 0
    BY <2>3 DEF TxHeader, TxWords
  <2>5. headcount' = headcount
    BY <1>1, <2>3 DEF DataSteps, OutputsInStep
  <2>6. CASE pc = "words"
    <3>1. word < headcount
      BY <2>6 DEF SoftwareInStep
    <3>2. (word + 1) % headcount = IF word + 1 = headcount THEN 0 ELSE word + 1
      BY <1>2, <3>1, NextInBurst
    <3>3. \/ word' = word \/ word' = 0 \/ word' = (word + 1) % headcount
      BY <2>6 DEF Move, Single, Waits, Dies, Puts, Gets, Beats
    <3>4. word' < headcount
      BY <1>2, <2>4, <3>1, <3>2, <3>3
    <3>5. QED
      BY <2>5, <3>4
  <2>7. QED
    BY <1>2, <2>2, <2>4, <2>5, <2>6
<1>14. strip_width' > IMAGE_RAM_DEPTH => state' \in {"ACK_BP", "ERROR"}
  <2>1. CASE cmd = "RESET"
    BY <1>1, <1>2, <2>1 DEF DataSteps
  <2>2. CASE cmd = "UPLOAD"
    <3>1. state = "IDLE" /\ ~Fault
      BY <1>2, <1>3, <2>2 DEF CommandsInStep, SoftwareInStep, Fault
    <3>2. QED
      BY <1>1, <2>2, <3>1 DEF StateSteps, Overruled
  <2>3. CASE cmd \notin {"RESET", "UPLOAD"}
    BY <1>1, <2>3 DEF DataSteps, StateSteps, Fault
  <2>4. QED
    BY <2>1, <2>2, <2>3
<1>15. QED
  BY <1>6, <1>7, <1>8, <1>9, <1>10, <1>11, <1>12, <1>13, <1>14 DEF SoftwareInStep

LEMMA ControlKept ==
  ASSUME TypeOK, Control, TxCalm, TxHeader, TxWords, TxReads,
         NEW w, NEW d, NEW r, NEW c, Move(w, d, r, c)
  PROVE  Control'
<1>1. OutputsInStep'
  BY OutputsKept DEF Control
<1>2. CommandsInStep'
  BY CommandsKept DEF Control
<1>3. BusInStep'
  BY BusKept DEF Control
<1>4. SoftwareInStep'
  BY SoftwareKept
<1>5. QED
  BY <1>1, <1>2, <1>3, <1>4 DEF Control

-----------------------------------------------------------------------------
(* The types. *)

RxTypes ==
  /\ {write, write_reg_1, write_fall, rx_en_reg_1, first_rx_en, waitrequest_out, valid_write,
      watchdog_rx_trigger} \subseteq BOOLEAN
  /\ PIO_OUT \in Beat /\ write_count \in 0 .. BEATS - 1
  /\ burst_count \in Nat /\ addr_reg \in Nat /\ rx_watchdog_counter \in 0 .. watchdog_rx_conf

TxTypes ==
  /\ {valid_read, read_reg_1, en_reg_1, en_rise_reg, header_sent_reg, valid_data_0,
      valid_data_1, valid_data_2, valid_data_3, watchdog_tx_trigger} \subseteq BOOLEAN
  /\ read_count \in 0 .. READS - 1 /\ send_line_count \in 0 .. MaxWords
  /\ {addr_out, addr_out_reg, filo_q} \subseteq 0 .. MaxWords
  /\ tx_watchdog_counter \in 0 .. watchdog_tx_conf /\ avs_readdata \in Results

CtrlTypes ==
  /\ cmd \in Commands /\ state \in States
  /\ out \subseteq {"rx_en", "tx_en", "select_mode", "Clear_buff"}
  /\ strip_width \in Nat /\ breakpoint_count \in Nat /\ expected_packages \in Nat
  /\ headcount \in 0 .. MaxWords

SoftwareTypes ==
  /\ pc \in Places /\ upload \in Uploads \union {NoUpload}
  /\ word \in Nat /\ beat \in 0 .. BEATS - 1 /\ received \in Seq(Results)
  /\ {held, cut} \subseteq BOOLEAN /\ quiet \in 0 .. BUS_GAP /\ kills \in 0 .. MaxKills
  /\ stored \in Seq([ram : {"breakpoint", "image"}, addr : Nat, data : Beat])
  /\ held => pc \in {"breakpoints", "columns", "words"}

LEMMA RxTypesKept ==
  ASSUME TypeOK, NEW w, NEW d, NEW r, NEW c, Move(w, d, r, c)
  PROVE  RxTypes'
<1>1. /\ w \in BOOLEAN /\ d \in Beat /\ RxEdge(w, d, rx_en, Clear_buff)
      /\ RxCountSteps(w, d)
  BY Edges DEF Move, Clock
<1>2. /\ write' \in BOOLEAN /\ write_reg_1' \in BOOLEAN /\ write_fall' \in BOOLEAN
      /\ rx_en_reg_1' \in BOOLEAN /\ first_rx_en' \in BOOLEAN
  BY <1>1, FlagTypes DEF RxEdge
<1>3. /\ waitrequest_out' \in BOOLEAN /\ valid_write' \in BOOLEAN
      /\ watchdog_rx_trigger' \in BOOLEAN
  BY <1>1, FlagTypes, Zenon DEF RxEdge, RxWatchdogEdge
<1>4. /\ PIO_OUT \in Beat /\ write_count \in 0 .. 3 /\ burst_count \in Nat /\ addr_reg \in Nat
      /\ rx_watchdog_counter \in 0 .. watchdog_rx_conf
      /\ watchdog_rx_conf \in Nat
  BY Constants DEF TypeOK
<1>5. PIO_OUT' \in Beat /\ write_count' \in 0 .. 3
  BY <1>1, <1>4, Counted DEF RxCountSteps
<1>6. /\ burst_count' \in Nat /\ addr_reg' \in Nat
      /\ rx_watchdog_counter' \in 0 .. watchdog_rx_conf
  BY <1>1, <1>4, FlagTypes DEF RxCountSteps
<1>7. QED
  BY <1>2, <1>3, <1>5, <1>6 DEF RxTypes

LEMMA TxTypesKept ==
  ASSUME TypeOK, TxCalm, NEW w, NEW d, NEW r, NEW c, Move(w, d, r, c)
  PROVE  TxTypes'
<1>1. /\ r \in BOOLEAN /\ TxEdge(r, tx_en, headcount, Clear_buff)
      /\ TxCountSteps(r)
  BY Edges DEF Move, Clock
<1>2. /\ valid_read' \in BOOLEAN /\ read_reg_1' \in BOOLEAN
      /\ en_reg_1' \in BOOLEAN /\ en_rise_reg' \in BOOLEAN /\ header_sent_reg' \in BOOLEAN
  <2>1. valid_read' \in BOOLEAN
    BY <1>1 DEF TxEdge
  <2>2. CASE Clear_buff
    BY <1>1, <2>1, <2>2 DEF TxEdge
  <2>3. CASE ~Clear_buff
    <3>1. HandshakeEdge(r, tx_en, headcount, at_read_count /\ r)
      BY Zenon, <1>1, <2>3 DEF TxEdge
    <3>2. read_reg_1' \in BOOLEAN /\ en_reg_1' \in BOOLEAN
      BY <3>1 DEF HandshakeEdge
    <3>3. en_rise_reg' \in BOOLEAN /\ header_sent_reg' \in BOOLEAN
      BY <3>1 DEF HandshakeEdge
    <3>4. QED
      BY <2>1, <3>2, <3>3
  <2>4. QED
    BY <2>2, <2>3
<1>3. /\ valid_data_0' \in BOOLEAN /\ valid_data_1' \in BOOLEAN /\ valid_data_2' \in BOOLEAN
      /\ valid_data_3' \in BOOLEAN /\ watchdog_tx_trigger' \in BOOLEAN
  BY <1>1, FlagTypes, Zenon DEF TxEdge, HandshakeEdge, TxWatchdogEdge, valid_data, valid_data_next
<1>4. /\ read_count \in 0 .. 3 /\ send_line_count \in 0 .. MaxWords
      /\ addr_out \in 0 .. MaxWords /\ addr_out_reg \in 0 .. MaxWords /\ filo_q \in 0 .. MaxWords
      /\ tx_watchdog_counter \in 0 .. watchdog_tx_conf
      /\ headcount \in 0 .. MaxWords /\ MaxWords \in Nat /\ watchdog_tx_conf \in Nat
  BY Constants DEF TypeOK
<1>5. send_line_count <= headcount /\ addr_out <= headcount
  BY DEF TxCalm
<1>6. read_count < 3 => (read_count + 1) % 8 = read_count + 1
  BY <1>4
<1>7. read_count' \in 0 .. 3
  BY <1>1, <1>4, <1>6, Counted DEF TxCountSteps
<1>8. /\ send_line_count' \in 0 .. MaxWords
      /\ addr_out' \in 0 .. MaxWords /\ addr_out_reg' \in 0 .. MaxWords /\ filo_q' \in 0 .. MaxWords
  BY <1>1, <1>4, <1>5 DEF TxCountSteps, at_head_count
<1>9. tx_watchdog_counter' \in 0 .. watchdog_tx_conf
  BY <1>1, <1>4, FlagTypes DEF TxCountSteps
<1>10. avs_readdata' \in Results
  BY <1>1, <1>4 DEF TxCountSteps, Results
<1>11. QED
  BY <1>2, <1>3, <1>7, <1>8, <1>9, <1>10 DEF TxTypes

LEMMA CtrlTypesKept ==
  ASSUME TypeOK, SoftwareInStep, NEW w, NEW d, NEW r, NEW c, Move(w, d, r, c)
  PROVE  CtrlTypes'
<1>1. OutputSteps /\ StateSteps(r) /\ DataSteps /\ cmd' = c /\ c \in Commands
  BY Edges DEF Move
<1>2. /\ state \in States /\ strip_width \in Nat /\ breakpoint_count \in Nat
      /\ headcount \in 0 .. MaxWords /\ MaxWords \in Nat
  BY Constants DEF TypeOK
<1>3. state' \in States
  BY <1>1, <1>2 DEF StateSteps, Overruled, States
<1>4. strip_width' \in Nat /\ breakpoint_count' \in Nat
  <2>1. cmd = "UPLOAD" => upload.columns \in Nat /\ upload.images \in Nat
    BY UploadSizes DEF SoftwareInStep
  <2>2. QED
    BY <1>1, <1>2, <2>1 DEF DataSteps
<1>5. expected_packages' \in Nat
  BY <1>1, <1>2, WordCount DEF OutputSteps
<1>6. headcount' \in 0 .. MaxWords
  BY <1>1, <1>2 DEF DataSteps
<1>7. out' \subseteq {"rx_en", "tx_en", "select_mode", "Clear_buff"}
  BY <1>1 DEF OutputSteps
<1>8. QED
  BY <1>1, <1>3, <1>4, <1>5, <1>6, <1>7 DEF CtrlTypes

LEMMA BusFlags ==
  ASSUME TypeOK, Next
  PROVE  held' \in BOOLEAN /\ cut' \in BOOLEAN
<1>0. /\ held \in BOOLEAN /\ cut \in BOOLEAN
      /\ waitrequest_out \in BOOLEAN /\ waitrequest_in(tx_en) \in BOOLEAN
  BY FlagTypes DEF waitrequest_in
<1>1. ASSUME NEW c, Access(c)
      PROVE  held' \in BOOLEAN /\ cut' \in BOOLEAN
  BY <1>0, <1>1, Zenon DEF Access
<1>2. ASSUME NEW t, NEW n, NEW x \in BOOLEAN, Burst(t, n, x)
      PROVE  held' \in BOOLEAN /\ cut' \in BOOLEAN
  BY <1>0, <1>2, Zenon DEF Burst
<1>3. CASE Pause \/ Kill
  BY <1>0, <1>3, Zenon DEF Pause, Kill
<1>4. CASE sendReset \/ sendInit \/ sendAck \/ cmdUpload
  BY <1>1, <1>4, Zenon DEF sendReset, sendInit, sendAck, cmdUpload, Command
<1>5. CASE checkStatus \/ waitForOutReady \/ waitForInValid
  BY <1>1, <1>5, Zenon DEF checkStatus, waitForOutReady, waitForInValid, Wait
<1>6. CASE writeBurst128 \/ read128 \/ readBurst128
  BY <1>0, <1>2, <1>6, Zenon DEF writeBurst128, Write, read128, readBurst128, Read
<1>7. QED
  BY <1>3, <1>4, <1>5, <1>6, Zenon DEF Next, Software

LEMMA SoftwareTypesKept ==
  ASSUME TypeOK, Control, TxReads, Next, NEW w, NEW d, NEW r, NEW c, Move(w, d, r, c)
  PROVE  SoftwareTypes'
<1> USE DEF Control
<1>1. /\ pc \in Places /\ upload \in Uploads \union {NoUpload}
      /\ word \in Nat /\ beat \in 0 .. 3 /\ received \in Seq(Results)
      /\ quiet \in 0 .. BUS_GAP /\ kills \in 0 .. MaxKills
      /\ stored \in Seq([ram : {"breakpoint", "image"}, addr : Nat, data : Beat])
      /\ headcount \in Nat /\ BUS_GAP \in Nat /\ MaxKills \in Nat
      /\ addr_reg \in Nat /\ PIO_OUT \in Beat /\ avs_readdata \in Results
  BY Constants DEF TypeOK
<1>2. held' \in BOOLEAN /\ cut' \in BOOLEAN
  BY BusFlags
<1>3. pc' \in Places
  <2>1. CASE ~w /\ ~r /\ Single(c)
    BY <1>1, <2>1 DEF Single, checkStatus, waitForOutReady, waitForInValid, Wait, Places
  <2>2. CASE Waits \/ Dies
    BY <1>1, <2>2 DEF Waits, Dies, Places
  <2>3. CASE Puts(d) \/ Gets
    BY <1>1, <2>3 DEF Puts, Gets, Beats, Places
  <2>4. QED
    BY <2>1, <2>2, <2>3 DEF Move
<1>4. upload' \in Uploads \union {NoUpload}
  BY <1>1 DEF Move, Single, Waits, Dies, Puts, Gets, Beats
<1>5. word' \in Nat /\ beat' \in 0 .. 3
  <2>1. CASE ~w /\ ~r
    BY <1>1, <2>1 DEF Move, Single, Waits, Dies
  <2>2. CASE Puts(d)
    <3>1. upload \in Uploads
      BY <2>2 DEF Puts, SoftwareInStep, Writing
    <3>2. /\ Words \in Nat /\ Words > 0
          /\ upload.columns \in Nat /\ upload.columns > 0
      BY <3>1, UploadSizes, WordCount DEF Words
    <3>3. (word + 1) % Words \in Nat /\ (word + 1) % upload.columns \in Nat
      BY <1>1, <3>2
    <3>4. QED
      BY <1>1, <2>2, <3>3 DEF Puts, Beats
  <2>3. CASE Gets
    <3>1. pc = "words" => headcount > 0
      BY <1>1 DEF SoftwareInStep
    <3>2. /\ (word + 1) % 1 \in Nat
          /\ headcount > 0 => (word + 1) % headcount \in Nat
      BY <1>1
    <3>3. QED
      BY <1>1, <2>3, <3>1, <3>2 DEF Gets, Beats
  <2>4. QED
    BY <2>1, <2>2, <2>3 DEF Move
<1>6. received' \in Seq(Results)
  <2>1. <<>> \in Seq(Results)
    OBVIOUS
  <2>2. /\ Append(received, avs_readdata) \in Seq(Results)
        /\ Append(<<>>, avs_readdata) \in Seq(Results)
    BY <1>1, <2>1
  <2>3. QED
    BY <1>1, <2>2 DEF Move, Single, Waits, Dies, Puts, Gets
<1>7. quiet' \in 0 .. BUS_GAP
  BY <1>1 DEF Move, Single, Waits, Dies, Puts, Gets, Beats
<1>8. kills' \in 0 .. MaxKills
  BY <1>1 DEF Move, Single, Waits, Dies, Puts, Gets, Beats
<1>9. stored' \in Seq([ram : {"breakpoint", "image"}, addr : Nat, data : Beat])
  <2>1. Filed \in [ram : {"breakpoint", "image"}, addr : Nat, data : Beat]
    BY <1>1 DEF Filed
  <2>2. stored' \in {<<>>, stored, Append(stored, Filed)}
    BY Edges
  <2>3. Append(stored, Filed) \in Seq([ram : {"breakpoint", "image"}, addr : Nat, data : Beat])
    BY <1>1, <2>1
  <2>4. <<>> \in Seq([ram : {"breakpoint", "image"}, addr : Nat, data : Beat])
    OBVIOUS
  <2>5. QED
    BY <1>1, <2>2, <2>3, <2>4
<1>10. held' => pc' \in {"breakpoints", "columns", "words"}
  <2>1. CASE ~w /\ ~r
    BY <2>1, PortMoves
  <2>2. CASE Puts(d)
    BY <2>2 DEF Puts, Beats
  <2>3. CASE Gets
    <3>1. pc = "header" => valid_data_3 /\ tx_en
      BY DEF SoftwareInStep, OutputsInStep, TxReads, Reading
    <3>2. QED
      BY <2>3, <3>1 DEF Gets, Beats, waitrequest_in
  <2>4. QED
    BY <2>1, <2>2, <2>3 DEF Move
<1>11. QED
  BY <1>2, <1>3, <1>4, <1>5, <1>6, <1>7, <1>8, <1>9, <1>10 DEF SoftwareTypes

LEMMA TypesKept ==
  ASSUME TypeOK, Control, TxCalm, TxReads, Next,
         NEW w, NEW d, NEW r, NEW c, Move(w, d, r, c)
  PROVE  TypeOK'
<1>1. RxTypes' /\ TxTypes'
  BY RxTypesKept, TxTypesKept
<1>2. CtrlTypes' /\ SoftwareTypes'
  BY CtrlTypesKept, SoftwareTypesKept DEF Control
<1>3. QED
  BY <1>1, <1>2 DEF RxTypes, TxTypes, CtrlTypes, SoftwareTypes, TypeOK

-----------------------------------------------------------------------------
(* TX_UNIT: what a cycle preserves. *)

\* A beat is read only in WAIT_TX, from a word the unit offers or will offer.
LEMMA ReadBeat ==
  ASSUME TypeOK, Control, TxCalm, TxHeader, TxWords, TxReads,
         NEW w, NEW d, NEW r, NEW c, Move(w, d, r, c), r
  PROVE  /\ state = "WAIT_TX" /\ state' = "WAIT_TX" /\ tx_en /\ ~Clear_buff
         /\ pc \in {"header", "words"} /\ ~read_reg_1 /\ headcount' = headcount
         /\ waitrequest_in(tx_en) <=> ~valid_data_3
         /\ read_count = 3 => valid_data_3
         /\ pc = "header" => HeaderOpen /\ valid_data_3 /\ read_count = beat
         /\ pc = "words" => ~HeaderOpen /\ send_line_count = word /\ read_count = beat
<1> USE DEF Control
<1>1. OutputSteps /\ StateSteps(r) /\ DataSteps
  BY Edges
<1>2. pc \in {"header", "words"} /\ (held \/ quiet > 0)
  BY PortMoves
<1>3. /\ read_count \in 0 .. 3 /\ word \in Nat /\ beat \in 0 .. 3 /\ send_line_count \in Nat
      /\ quiet \in Nat /\ cmd \in Commands /\ strip_width \in Nat /\ IMAGE_RAM_DEPTH \in Nat
  BY Constants DEF TypeOK
<1>4. state = "WAIT_TX" /\ tx_en /\ ~Clear_buff
  BY <1>2 DEF SoftwareInStep, OutputsInStep, Reading
<1>5. ~read_reg_1
  BY <1>2, <1>3 DEF TxCalm
<1>6. waitrequest_in(tx_en) <=> ~valid_data_3
  BY <1>4, FlagTypes DEF TxCalm, waitrequest_in
<1>7. ~Overruled
  BY <1>2, <1>3, <1>4 DEF Overruled, Fault, CommandsInStep, SoftwareInStep, BusInStep, TxCalm,
     Writing
<1>8. state' = "WAIT_TX"
  BY <1>1, <1>4, <1>5, <1>7 DEF StateSteps
<1>9. headcount' = headcount
  BY <1>1, <1>4 DEF DataSteps
<1>10. read_count = 3 => valid_data_3
  BY <1>4 DEF TxHeader, TxWords
<1>11. ASSUME pc = "header"
       PROVE  HeaderOpen /\ valid_data_3 /\ read_count = beat
  <2>1. Taken = beat /\ valid_data_3
    BY <1>4, <1>11 DEF TxReads
  <2>2. HeaderOpen
    BY <1>3, <1>5, <2>1 DEF Taken
  <2>3. QED
    BY <1>5, <2>1, <2>2 DEF Taken
<1>12. ASSUME pc = "words"
       PROVE  ~HeaderOpen /\ send_line_count = word /\ read_count = beat
  <2>1. Taken = 4 * (word + 1) + beat
    BY <1>4, <1>12 DEF TxReads
  <2>2. ~HeaderOpen
    BY <1>3, <1>5, <2>1 DEF Taken
  <2>3. 4 * (word + 1) + beat = 4 * (send_line_count + 1) + read_count
    BY <2>1, <2>2 DEF Taken
  <2>4. QED
    BY <1>3, <2>2, <2>3
<1>13. QED
  BY <1>2, <1>4, <1>5, <1>6, <1>8, <1>9, <1>10, <1>11, <1>12

\* Where WAIT_TX comes from.
LEMMA OfferedBefore ==
  ASSUME TypeOK, Control, NEW w, NEW d, NEW r, NEW c, Move(w, d, r, c), state' = "WAIT_TX"
  PROVE  /\ ~Overruled /\ ~Clear_buff
         /\ \/ /\ state = "PROCESS_IMAGE" /\ ~tx_en /\ headcount' \in 1 .. MaxWords
            \/ /\ state = "WAIT_TX" /\ tx_en /\ headcount' = headcount
               /\ ~(headcount = send_line_count /\ ~r /\ read_reg_1)
<1> USE DEF Control
<1>1. OutputSteps /\ StateSteps(r) /\ DataSteps
  BY Edges
<1>2. state \in States
  BY DEF TypeOK
<1>3. ~Overruled
  BY <1>1 DEF StateSteps, Overruled
<1>4. \/ state = "PROCESS_IMAGE"
      \/ state = "WAIT_TX" /\ ~(headcount = send_line_count /\ ~r /\ read_reg_1)
  BY <1>1, <1>2, <1>3 DEF StateSteps, States
<1>5. ~Clear_buff
  BY <1>4 DEF OutputsInStep
<1>6. QED
  BY <1>1, <1>3, <1>4, <1>5 DEF DataSteps, OutputsInStep

LEMMA TxClearKept ==
  ASSUME TypeOK, TxCalm, NEW w, NEW d, NEW r, NEW c, Move(w, d, r, c),
         ~r, Clear_buff \/ (TxClear /\ ~tx_en)
  PROVE  TxClear'
<1>1. TxFlagSteps(r) /\ TxCountSteps(r)
  BY Edges
<1>2. CASE Clear_buff
  BY <1>1, <1>2 DEF TxFlagSteps, TxCountSteps, TxClear
<1>3. CASE ~Clear_buff
  BY <1>1, <1>3 DEF TxFlagSteps, TxCountSteps, TxClear, TxCalm
<1>4. QED
  BY <1>2, <1>3

LEMMA TxIdleKept ==
  ASSUME TypeOK, Control, Transmit, NEW w, NEW d, NEW r, NEW c, Move(w, d, r, c)
  PROVE  TxIdle'
<1> USE DEF Control, Transmit
<1>1. /\ OutputSteps /\ StateSteps(r) /\ cmd' = c
      /\ addr_out_reg' = addr_out /\ filo_q' = addr_out_reg
  BY Edges DEF TxCountSteps
<1>2. /\ state \in States /\ cmd \in Commands /\ quiet \in Nat
      /\ BUS_GAP \in Nat /\ BUS_GAP >= 2 /\ r \in BOOLEAN
  BY Constants DEF TypeOK, Move
<1>3. r => state = "WAIT_TX" /\ state' = "WAIT_TX"
  BY <1>2, ReadBeat
<1>4. ASSUME state' \in {"OFFLINE", "IDLE"}, ~Clear_buff'
      PROVE  TxClear'
  <2>1. state \in {"OFFLINE", "IDLE"} /\ cmd # "RESET"
    BY <1>1, <1>2, <1>4 DEF OutputSteps, StateSteps, Overruled, States
  <2>2. Clear_buff \/ (TxClear /\ ~tx_en)
    BY <2>1 DEF TxIdle, OutputsInStep
  <2>3. QED
    BY <1>3, <2>1, <2>2, TxClearKept
<1>5. ASSUME state' \in {"ACK_BP", "ACK_STRIP", "PROCESS_IMAGE"}
      PROVE  TxClear' /\ addr_out_reg' = 0 /\ filo_q' = 0
  <2>1. \/ state \in {"ACK_BP", "ACK_STRIP", "PROCESS_IMAGE"}
        \/ state = "IDLE" /\ cmd = "UPLOAD"
    BY <1>1, <1>2, <1>5 DEF StateSteps, Overruled, States
  <2>2. TxClear /\ ~tx_en /\ addr_out_reg = 0
    BY <2>1 DEF TxIdle, OutputsInStep, CommandsInStep
  <2>3. QED
    BY <1>1, <1>3, <2>1, <2>2, TxClearKept DEF TxClear
<1>6. pc = "upload" => addr_out = 0 /\ addr_out_reg = 0 /\ ~Clear_buff
  BY DEF SoftwareInStep, TxIdle, TxClear
<1>7. ASSUME pc' = "upload"
      PROVE  ~Clear_buff' /\ addr_out_reg' = 0 /\ (quiet' > 0 => filo_q' = 0)
  <2>1. \/ pc = "upload"
        \/ pc = "check" /\ state = "IDLE" /\ quiet = BUS_GAP /\ quiet' = 0
    BY <1>7 DEF Move, Single, Waits, Dies, Puts, Gets, Beats, checkStatus,
       waitForOutReady, waitForInValid, Wait
  <2>2. ~Clear_buff' /\ ~Clear_buff
    BY <1>1, <1>2, <2>1 DEF OutputSteps, CommandsInStep
  <2>3. addr_out = 0
    BY <1>6, <2>1, <2>2 DEF TxIdle, TxClear
  <2>4. QED
    BY <1>1, <1>2, <1>6, <2>1, <2>2, <2>3
<1>8. ASSUME cmd' = "UPLOAD"
      PROVE  addr_out_reg' = 0 /\ filo_q' = 0
  <2>1. pc = "upload"
    BY <1>1, <1>8 DEF Move, Single
  <2>2. QED
    BY <1>1, <1>6, <2>1
<1>9. QED
  BY <1>4, <1>5, <1>7, <1>8 DEF TxIdle

LEMMA TxCalmKept ==
  ASSUME TypeOK, Control, Transmit, NEW w, NEW d, NEW r, NEW c, Move(w, d, r, c)
  PROVE  TxCalm'
<1> USE DEF Control, Transmit
<1>1. /\ TxFlagSteps(r) /\ TxCountSteps(r) /\ DataSteps
  BY Edges
<1>2. /\ read_count \in 0 .. 3 /\ send_line_count \in Nat /\ addr_out \in Nat
      /\ headcount \in Nat /\ MaxWords \in Nat /\ quiet \in Nat
      /\ tx_watchdog_counter \in 0 .. watchdog_tx_conf
      /\ watchdog_tx_conf \in Nat /\ watchdog_tx_conf >= 3 /\ r \in BOOLEAN
  BY Constants DEF TypeOK, Move
<1>3. r => /\ state' = "WAIT_TX" /\ tx_en /\ ~Clear_buff
           /\ pc \in {"header", "words"} /\ ~read_reg_1 /\ headcount' = headcount
           /\ waitrequest_in(tx_en) <=> ~valid_data_3
           /\ read_count = 3 => valid_data_3
           /\ pc = "header" => valid_data_3
           /\ pc = "words" => ~HeaderOpen /\ state = "WAIT_TX"
  BY <1>2, ReadBeat
<1>4. r => /\ held' <=> ~valid_data_3
           /\ ~held' => quiet' = 0
           /\ held' => pc' = pc
  <2>1. r => Gets
    BY DEF Move
  <2>2. QED
    BY <1>3, <2>1 DEF Gets, Beats
<1>5. valid_read' <=> read_reg_1'
  BY <1>1, <1>3 DEF TxFlagSteps
<1>6. read_reg_1' => r /\ read_count = 3
  BY <1>1, Counted DEF TxFlagSteps
<1>7. read_reg_1' => state' = "WAIT_TX" /\ quiet' = 0 /\ ~held'
  BY <1>3, <1>4, <1>6
<1>8. r /\ ~valid_data_3 =>
        /\ pc = "words"
        /\ ~valid_data_3 /\ (valid_data_0 \/ valid_data_1 \/ valid_data_2)
        /\ tx_watchdog_counter <= IF valid_data_1 THEN 1 ELSE IF valid_data_2 THEN 2 ELSE 0
  <2>1. r /\ ~valid_data_3 => pc = "words" /\ ~HeaderOpen /\ state = "WAIT_TX" /\ ~read_reg_1
    BY <1>3
  <2>2. QED
    BY <1>2, <2>1 DEF TxWords, TxCalm
<1>9. ~watchdog_tx_trigger'
  <2>1. CASE Clear_buff
    BY <1>1, <2>1 DEF TxFlagSteps
  <2>2. CASE ~Clear_buff
    <3>1. CASE (valid_data_3 /\ tx_en) \/ ~r
      BY <1>1, <2>2, <3>1 DEF TxCountSteps
    <3>2. CASE ~(valid_data_3 /\ tx_en) /\ r
      <4>1. tx_watchdog_counter # watchdog_tx_conf
        BY <1>2, <1>3, <1>8, <3>2
      <4>2. QED
        BY <1>1, <2>2, <3>2, <4>1 DEF TxCountSteps, TxCalm
    <3>3. QED
      BY <3>1, <3>2
  <2>3. QED
    BY <2>1, <2>2
<1>10. tx_watchdog_counter' = 0 \/ (r /\ ~valid_data_3 /\ ~Clear_buff
         /\ tx_watchdog_counter' = tx_watchdog_counter + 1)
  <2>1. CASE Clear_buff
    BY <1>1, <2>1 DEF TxCountSteps
  <2>2. CASE ~Clear_buff
    <3>1. CASE (valid_data_3 /\ tx_en) \/ ~r
      BY <1>1, <2>2, <3>1 DEF TxCountSteps
    <3>2. CASE ~(valid_data_3 /\ tx_en) /\ r
      <4>1. tx_watchdog_counter # watchdog_tx_conf
        BY <1>2, <1>3, <1>8, <3>2
      <4>2. QED
        BY <1>1, <1>3, <2>2, <3>2, <4>1 DEF TxCountSteps
    <3>3. QED
      BY <3>1, <3>2
  <2>3. QED
    BY <2>1, <2>2
<1>11. tx_watchdog_counter' > 0 => pc' = "words" /\ held'
  BY <1>4, <1>8, <1>10
<1>12. tx_watchdog_counter' <= IF valid_data_1' THEN 1 ELSE IF valid_data_2' THEN 2
                               ELSE IF valid_data_3' THEN 3 ELSE 0
  <2>1. CASE tx_watchdog_counter' = 0
    BY <2>1
  <2>2. CASE /\ r /\ ~valid_data_3 /\ ~Clear_buff
             /\ tx_watchdog_counter' = tx_watchdog_counter + 1
    <3>1. ~HeaderOpen /\ state = "WAIT_TX" /\ ~read_reg_1 /\ ~en_rise_reg
      BY <1>3, <1>8, <2>2 DEF HeaderOpen
    <3>2. /\ valid_data_1' <=> valid_data_0
          /\ valid_data_2' <=> valid_data_1
          /\ valid_data_3' <=> valid_data_2
      BY <1>1, <2>2, <3>1 DEF TxFlagSteps
    <3>3. \/ valid_data_0 /\ ~valid_data_1 /\ ~valid_data_2
          \/ ~valid_data_0 /\ valid_data_1 /\ ~valid_data_2
          \/ ~valid_data_0 /\ ~valid_data_1 /\ valid_data_2
      BY <2>2, <3>1 DEF TxWords
    <3>4. QED
      BY <1>2, <1>8, <2>2, <3>2, <3>3
  <2>3. QED
    BY <1>10, <2>1, <2>2
<1>13. send_line_count' <= headcount' /\ addr_out' <= headcount'
  <2>1. CASE Clear_buff
    BY <1>1, <2>1 DEF TxCountSteps, DataSteps
  <2>2. CASE ~Clear_buff /\ state = "PROCESS_IMAGE" /\ state' = "WAIT_TX"
    <3>1. TxClear /\ ~tx_en /\ ~r
      BY <1>3, <2>2 DEF TxIdle, OutputsInStep, SoftwareInStep, Reading
    <3>2. TxClear'
      BY <3>1, TxClearKept
    <3>3. QED
      BY <1>1, <1>2, <2>2, <3>2 DEF TxClear, DataSteps
  <2>3. CASE ~Clear_buff /\ ~(state = "PROCESS_IMAGE" /\ state' = "WAIT_TX")
    <3>1. headcount' = headcount
      BY <1>1, <2>3 DEF DataSteps
    <3>2. send_line_count <= headcount /\ addr_out <= headcount
      BY DEF TxCalm
    <3>3. QED
      BY <1>1, <1>2, <2>3, <3>1, <3>2 DEF TxCountSteps, at_head_count
  <2>4. QED
    BY <2>1, <2>2, <2>3
<1>14. QED
  BY <1>5, <1>7, <1>9, <1>11, <1>12, <1>13 DEF TxCalm

\* The first cycle of an offer.
LEMMA OfferBegins ==
  ASSUME TypeOK, Control, Transmit, NEW w, NEW d, NEW r, NEW c, Move(w, d, r, c),
         state = "PROCESS_IMAGE", state' = "WAIT_TX"
  PROVE  /\ TxClear' /\ addr_out_reg' = 0 /\ filo_q' = 0 /\ headcount' > 0 /\ ~r
         /\ HeaderOpen' /\ Taken' = 0
<1> USE DEF Control, Transmit
<1>1. ~r
  BY ReadBeat DEF Move
<1>2. TxClear /\ addr_out_reg = 0 /\ ~tx_en
  BY DEF TxIdle, OutputsInStep
<1>3. TxClear'
  BY <1>1, <1>2, TxClearKept
<1>4. addr_out_reg' = 0 /\ filo_q' = 0
  BY <1>2, Edges DEF TxCountSteps, TxClear
<1>5. headcount' > 0
  <2>1. headcount' \in 1 .. MaxWords /\ MaxWords \in Nat
    BY OfferedBefore, Constants
  <2>2. QED
    BY <2>1
<1>6. HeaderOpen'
  BY <1>3 DEF TxClear, HeaderOpen
<1>7. Taken' = 0
  BY <1>3, <1>6 DEF Taken, TxClear
<1>8. QED
  BY <1>1, <1>3, <1>4, <1>5, <1>6, <1>7

LEMMA TxHeaderKept ==
  ASSUME TypeOK, Control, Transmit, NEW w, NEW d, NEW r, NEW c, Move(w, d, r, c)
  PROVE  TxHeader'
<1> USE DEF Control, Transmit
<1>1. SUFFICES ASSUME state' = "WAIT_TX", HeaderOpen'
               PROVE  TxHeader'
  BY DEF TxHeader
<1>2. CASE state = "PROCESS_IMAGE"
  <2>1. TxClear' /\ addr_out_reg' = 0 /\ filo_q' = 0 /\ headcount' > 0
    BY <1>1, <1>2, OfferBegins
  <2>2. QED
    BY <2>1 DEF TxHeader, TxClear
<1>3. CASE state = "WAIT_TX" /\ tx_en /\ ~Clear_buff /\ headcount' = headcount
  <2>1. TxFlagSteps(r) /\ TxCountSteps(r)
    BY Edges
  <2>2. r => ~read_reg_1 /\ (waitrequest_in(tx_en) <=> ~valid_data_3)
             /\ (read_count = 3 => valid_data_3)
    BY ReadBeat DEF Move
  <2>3. en_reg_1' /\ en_rise_reg'
    BY <1>1, <1>3, <2>1 DEF TxFlagSteps, HeaderOpen
  <2>4. HeaderOpen /\ (r \/ ~read_reg_1)
    BY <1>3, <2>1, <2>3 DEF TxFlagSteps, HeaderOpen
  <2>5. /\ headcount > 0 /\ ~header_sent_reg /\ send_line_count = 0 /\ addr_out = 0
        /\ addr_out_reg = 0 /\ ~valid_data_0 /\ ~valid_data_1 /\ ~valid_data_2
        /\ ~en_reg_1 => ~en_rise_reg /\ ~valid_data_3
        /\ ~valid_data_3 => ~read_reg_1 /\ read_count = 0
        /\ read_reg_1 => read_count = 0
    BY <1>3, <2>4 DEF TxHeader
  <2>6. /\ headcount' > 0 /\ ~header_sent_reg' /\ send_line_count' = 0 /\ addr_out' = 0
        /\ addr_out_reg' = 0 /\ filo_q' = 0
        /\ ~valid_data_0' /\ ~valid_data_1' /\ ~valid_data_2'
    BY <1>3, <2>1, <2>4, <2>5 DEF TxFlagSteps, TxCountSteps
  <2>7. ~en_reg_1 => ~valid_data_3' /\ ~read_reg_1' /\ read_count' = 0
    BY <1>3, <2>1, <2>2, <2>5, Counted DEF TxFlagSteps, TxCountSteps
  <2>8. en_reg_1 => en_rise_reg /\ valid_data_3' /\ avs_readdata' = Header
    BY <1>3, <2>1, <2>4 DEF TxFlagSteps, TxCountSteps, HeaderOpen
  <2>9. read_reg_1' => read_count' = 0
    BY <1>3, <2>1 DEF TxFlagSteps, TxCountSteps
  <2>10. QED
    BY <2>3, <2>6, <2>7, <2>8, <2>9 DEF TxHeader
<1>4. QED
  BY <1>1, <1>2, <1>3, OfferedBefore

LEMMA TxWordsKept ==
  ASSUME TypeOK, Control, Transmit, NEW w, NEW d, NEW r, NEW c, Move(w, d, r, c)
  PROVE  TxWords'
<1> USE DEF Control, Transmit
<1>1. SUFFICES ASSUME state' = "WAIT_TX", ~HeaderOpen'
               PROVE  TxWords'
  BY DEF TxWords
<1>2. state # "PROCESS_IMAGE"
  BY <1>1, OfferBegins
<1>3. /\ state = "WAIT_TX" /\ tx_en /\ ~Clear_buff /\ headcount' = headcount
      /\ ~(headcount = send_line_count /\ ~r /\ read_reg_1)
  BY <1>1, <1>2, OfferedBefore
<1>4. TxFlagSteps(r) /\ TxCountSteps(r)
  BY Edges
<1>5. /\ read_count \in 0 .. 3 /\ send_line_count \in Nat /\ addr_out \in Nat
      /\ headcount \in Nat /\ r \in BOOLEAN
      /\ send_line_count <= headcount /\ addr_out <= headcount
  BY DEF TypeOK, Move, TxCalm
<1>6. r => ~read_reg_1 /\ (waitrequest_in(tx_en) <=> ~valid_data_3)
           /\ (read_count = 3 => valid_data_3)
  BY <1>5, ReadBeat
<1>7. valid_read <=> read_reg_1
  BY DEF TxCalm
<1>8. en_reg_1' /\ ~en_rise_reg'
  BY <1>1 DEF HeaderOpen
<1>9. CASE HeaderOpen
  <2>1. en_reg_1 /\ en_rise_reg /\ ~r /\ read_reg_1
    <3>1. ~r /\ read_reg_1
      BY <1>3, <1>4, <1>8, <1>9 DEF TxFlagSteps, HeaderOpen
    <3>2. QED
      BY <1>3, <1>9, <3>1 DEF TxHeader, HeaderOpen
  <2>2. /\ headcount > 0 /\ ~header_sent_reg /\ send_line_count = 0 /\ addr_out = 0
        /\ addr_out_reg = 0 /\ filo_q = 0 /\ ~valid_data_0 /\ ~valid_data_1 /\ ~valid_data_2
        /\ read_count = 0
    BY <1>3, <1>9, <2>1 DEF TxHeader
  <2>3. /\ header_sent_reg' /\ ~read_reg_1' /\ ~valid_data_0' /\ ~valid_data_1'
        /\ ~valid_data_2' /\ valid_data_3'
    BY <1>3, <1>4, <2>1, <2>2 DEF TxFlagSteps
  <2>4. /\ send_line_count' = 0 /\ addr_out' = 0 /\ addr_out_reg' = 0 /\ filo_q' = 0
        /\ avs_readdata' = Word(0)
    BY <1>3, <1>4, <2>1, <2>2 DEF TxCountSteps
  <2>5. QED
    BY <1>3, <2>2, <2>3, <2>4 DEF TxWords
<1>10. CASE ~HeaderOpen
  <2>1. en_reg_1 /\ ~en_rise_reg /\ headcount > 0 /\ header_sent_reg
    BY <1>3, <1>10 DEF HeaderOpen, TxWords
  <2>2. header_sent_reg'
    BY <1>3, <1>4, <2>1 DEF TxFlagSteps
  <2>3. ASSUME ~valid_data_3
        PROVE  ~read_reg_1' /\ read_count' = 0 /\ send_line_count' = send_line_count
    <3>1. read_count = 0
      BY <1>3, <1>10, <2>3 DEF TxWords
    <3>2. ~at_read_count
      BY <3>1, Counted
    <3>3. QED
      BY <1>3, <1>4, <1>6, <2>3, <3>1, <3>2 DEF TxFlagSteps, TxCountSteps
  <2>4. CASE read_reg_1
    <3>1. /\ ~valid_data_0 /\ ~valid_data_1 /\ ~valid_data_2 /\ ~valid_data_3
          /\ send_line_count = addr_out + 1 /\ ~r
      BY <1>3, <1>6, <1>10, <2>4 DEF TxWords
    <3>2. valid_data_0' /\ ~valid_data_1' /\ ~valid_data_2' /\ ~valid_data_3'
      BY <1>3, <1>4, <1>7, <2>1, <2>4, <3>1 DEF TxFlagSteps
    <3>3. addr_out' = send_line_count /\ send_line_count < headcount
      BY <1>3, <1>4, <1>5, <1>7, <2>1, <2>4, <3>1 DEF TxCountSteps, at_head_count
    <3>4. QED
      BY <1>3, <2>1, <2>2, <2>3, <3>1, <3>2, <3>3 DEF TxWords
  <2>5. CASE ~read_reg_1
    <3>1. send_line_count < headcount /\ send_line_count = addr_out
      BY <1>3, <1>10, <2>5 DEF TxWords
    <3>2. /\ ~valid_data_0' /\ addr_out' = addr_out
          /\ addr_out_reg' = addr_out /\ filo_q' = addr_out_reg
          /\ avs_readdata' = Word(filo_q)
      BY <1>3, <1>4, <1>7, <2>1, <2>5 DEF TxFlagSteps, TxCountSteps
    <3>3. /\ valid_data_1' <=> valid_data_0
          /\ valid_data_2' <=> valid_data_1
          /\ valid_data_3' <=> valid_data_2 \/ (valid_data_3 /\ ~(at_read_count /\ r))
      BY <1>3, <1>4, <2>1 DEF TxFlagSteps
    <3>4. CASE valid_data_0
      <4>1. ~valid_data_1 /\ ~valid_data_2 /\ ~valid_data_3
        BY <1>3, <1>10, <2>5, <3>4 DEF TxWords
      <4>2. QED
        BY <1>3, <2>1, <2>2, <2>3, <3>1, <3>2, <3>3, <3>4, <4>1 DEF TxWords
    <3>5. CASE valid_data_1
      <4>1. ~valid_data_0 /\ ~valid_data_2 /\ ~valid_data_3 /\ addr_out_reg = addr_out
        BY <1>3, <1>10, <2>5, <3>5 DEF TxWords
      <4>2. QED
        BY <1>3, <2>1, <2>2, <2>3, <3>1, <3>2, <3>3, <3>5, <4>1 DEF TxWords
    <3>6. CASE valid_data_2
      <4>1. /\ ~valid_data_0 /\ ~valid_data_1 /\ ~valid_data_3 /\ addr_out_reg = addr_out
            /\ filo_q = addr_out
        BY <1>3, <1>10, <2>5, <3>6 DEF TxWords
      <4>2. QED
        BY <1>3, <2>1, <2>2, <2>3, <3>1, <3>2, <3>3, <3>6, <4>1 DEF TxWords
    <3>7. CASE valid_data_3
      <4>1. /\ ~valid_data_0 /\ ~valid_data_1 /\ ~valid_data_2 /\ addr_out_reg = addr_out
            /\ filo_q = addr_out
        BY <1>3, <1>10, <2>5, <3>7 DEF TxWords
      <4>2. read_reg_1' <=> at_read_count /\ r
        BY <1>3, <1>4 DEF TxFlagSteps
      <4>3. CASE at_read_count /\ r
        <5>1. send_line_count' = send_line_count + 1 /\ read_count' = 0
          BY <1>3, <1>4, <1>5, <2>1, <3>1, <3>7, <4>3 DEF TxCountSteps, at_head_count
        <5>2. QED
          BY <1>3, <2>1, <2>2, <3>1, <3>2, <3>3, <4>1, <4>2, <4>3, <5>1 DEF TxWords
      <4>4. CASE ~(at_read_count /\ r)
        <5>1. send_line_count' = send_line_count
          BY <1>3, <1>4, <4>4 DEF TxCountSteps
        <5>2. QED
          BY <1>3, <2>1, <2>2, <3>1, <3>2, <3>3, <3>7, <4>1, <4>2, <4>4, <5>1 DEF TxWords
      <4>5. QED
        BY <4>3, <4>4
    <3>8. QED
      BY <1>3, <1>10, <2>5, <3>4, <3>5, <3>6, <3>7 DEF TxWords
  <2>6. QED
    BY <2>4, <2>5
<1>11. QED
  BY <1>9, <1>10

\* A beat taken from a word that is offered is one beat more; nothing else counts.
LEMMA TakenSteps ==
  ASSUME TypeOK, Control, Transmit, NEW w, NEW d, NEW r, NEW c, Move(w, d, r, c),
         state = "WAIT_TX", state' = "WAIT_TX"
  PROVE  Taken' = IF r /\ valid_data_3 THEN Taken + 1 ELSE Taken
<1> USE DEF Control, Transmit
<1>1. /\ tx_en /\ ~Clear_buff /\ headcount' = headcount
      /\ ~(headcount = send_line_count /\ ~r /\ read_reg_1)
  BY OfferedBefore
<1>2. TxFlagSteps(r) /\ TxCountSteps(r)
  BY Edges
<1>3. /\ read_count \in 0 .. 3 /\ send_line_count \in Nat /\ headcount \in Nat /\ r \in BOOLEAN
  BY DEF TypeOK, Move
<1>4. r => ~read_reg_1 /\ (waitrequest_in(tx_en) <=> ~valid_data_3)
           /\ (read_count = 3 => valid_data_3)
  BY <1>3, ReadBeat
<1>5. read_count < 3 => (read_count + 1) % 8 = read_count + 1
  BY <1>3
<1>6. /\ read_reg_1' <=> read_count = 3 /\ r
      /\ read_count' = IF r /\ valid_data_3 THEN IF read_count = 3 THEN 0 ELSE read_count + 1
                       ELSE read_count
  BY <1>1, <1>2, <1>3, <1>4, <1>5, Counted DEF TxFlagSteps, TxCountSteps
<1>7. /\ en_reg_1'
      /\ en_rise_reg' <=> /\ r \/ ~read_reg_1
                          /\ en_rise_reg \/ ~en_reg_1
  BY <1>1, <1>2 DEF TxFlagSteps
<1>8. send_line_count' =
        IF /\ read_count = 3 /\ r /\ valid_data_3 /\ header_sent_reg
           /\ headcount # send_line_count
        THEN send_line_count + 1 ELSE send_line_count
  BY <1>1, <1>2, Counted DEF TxCountSteps, at_head_count
<1>9. CASE HeaderOpen
  <2>1. /\ send_line_count = 0 /\ ~header_sent_reg
        /\ ~valid_data_3 => ~read_reg_1 /\ read_count = 0
        /\ read_reg_1 => read_count = 0
    BY <1>9 DEF TxHeader
  <2>2. send_line_count' = 0
    BY <1>8, <2>1
  <2>3. HeaderOpen' <=> r \/ ~read_reg_1
    BY <1>7, <1>9 DEF HeaderOpen
  <2>4. CASE read_reg_1
    <3>1. ~r /\ read_count = 0 /\ ~HeaderOpen' /\ read_count' = 0
      BY <1>4, <1>6, <2>1, <2>3, <2>4
    <3>2. Taken = 4 /\ Taken' = 4
      BY <1>9, <2>1, <2>2, <2>4, <3>1 DEF Taken
    <3>3. QED
      BY <3>1, <3>2
  <2>5. CASE ~read_reg_1
    <3>1. Taken = read_count /\ HeaderOpen'
      BY <1>9, <2>3, <2>5 DEF Taken
    <3>2. Taken' = IF read_reg_1' THEN 4 * (0 + 1) + read_count' ELSE read_count'
      BY <2>2, <3>1 DEF Taken
    <3>3. QED
      BY <1>3, <1>4, <1>6, <3>1, <3>2
  <2>6. QED
    BY <2>4, <2>5
<1>10. CASE ~HeaderOpen
  <2>1. /\ header_sent_reg
        /\ ~valid_data_3 => read_count = 0
        /\ ~read_reg_1 => send_line_count < headcount
    BY <1>10 DEF TxWords
  <2>2. ~HeaderOpen'
    BY <1>7, <1>10 DEF HeaderOpen
  <2>3. Taken = 4 * (send_line_count + 1) + read_count
    BY <1>10 DEF Taken
  <2>4. Taken' = 4 * (send_line_count' + 1) + read_count'
    BY <2>2 DEF Taken
  <2>5. CASE r /\ valid_data_3
    <3>1. send_line_count # headcount
      BY <1>3, <1>4, <2>1, <2>5
    <3>2. CASE read_count = 3
      <4>1. send_line_count' = send_line_count + 1 /\ read_count' = 0
        BY <1>6, <1>8, <2>1, <2>5, <3>1, <3>2
      <4>2. QED
        BY <1>3, <2>3, <2>4, <2>5, <3>2, <4>1
    <3>3. CASE read_count # 3
      <4>1. send_line_count' = send_line_count /\ read_count' = read_count + 1
        BY <1>6, <1>8, <2>5, <3>3
      <4>2. QED
        BY <1>3, <2>3, <2>4, <2>5, <4>1
    <3>4. QED
      BY <3>2, <3>3
  <2>6. CASE ~(r /\ valid_data_3)
    <3>1. send_line_count' = send_line_count /\ read_count' = read_count
      BY <1>6, <1>8, <2>6
    <3>2. QED
      BY <2>3, <2>4, <2>6, <3>1
  <2>7. QED
    BY <2>5, <2>6
<1>11. QED
  BY <1>9, <1>10

\* The software reads: the beat is one of the word that is offered, or waits for it.
LEMMA TxReadsGet ==
  ASSUME TypeOK, Control, Transmit, NEW w, NEW d, NEW r, NEW c, Move(w, d, r, c), r
  PROVE  TxReads'
<1> USE DEF Control, Transmit
<1>1. /\ state = "WAIT_TX" /\ state' = "WAIT_TX" /\ headcount' = headcount
      /\ pc \in {"header", "words"} /\ ~read_reg_1
      /\ waitrequest_in(tx_en) <=> ~valid_data_3
      /\ pc = "header" => HeaderOpen /\ valid_data_3 /\ read_count = beat
      /\ pc = "words" => ~HeaderOpen /\ send_line_count = word /\ read_count = beat
  BY ReadBeat
<1>2. Taken' = IF valid_data_3 THEN Taken + 1 ELSE Taken
  BY <1>1, TakenSteps
<1>3. /\ word \in Nat /\ beat \in 0 .. 3 /\ headcount \in Nat /\ read_count \in 0 .. 3
      /\ received \in Seq(Results) /\ avs_readdata \in Results /\ r \in BOOLEAN
  BY DEF TypeOK, Move
<1>4. Gets /\ cmd' = c /\ TxFlagSteps(r) /\ TxCountSteps(r)
  BY Edges DEF Move
<1>5. ~valid_data_3 => /\ received' = received /\ pc' = pc /\ word' = word /\ beat' = beat
  BY <1>1, <1>4 DEF Gets, Beats
<1>6. Taken > 0 => Len(received) = Taken
  BY <1>1 DEF TxReads
<1>7. CASE pc = "header"
  <2>1. Taken = beat /\ valid_data_3 /\ Taken' = beat + 1
    BY <1>1, <1>2, <1>7 DEF TxReads
  <2>2. /\ beat' = IF beat = 3 THEN 0 ELSE beat + 1
        /\ pc' = IF beat = 3 /\ word = 1 - 1 THEN "words_ready" ELSE pc
        /\ received' = IF beat = 0 THEN Append(<<>>, avs_readdata)
                       ELSE Append(received, avs_readdata)
    BY <1>1, <1>4, <1>7, <2>1 DEF Gets, Beats
  <2>3. Len(received') = beat + 1
    <3>1. <<>> \in Seq(Results) /\ Len(<<>>) = 0
      OBVIOUS
    <3>2. /\ Len(Append(<<>>, avs_readdata)) = 1
          /\ Len(Append(received, avs_readdata)) = Len(received) + 1
      BY <1>3, <3>1
    <3>3. QED
      BY <1>3, <1>6, <2>1, <2>2, <3>2
  <2>4. pc' = IF beat = 3 THEN "words_ready" ELSE "header"
    BY <1>7, <2>2 DEF SoftwareInStep
  <2>5. beat # 3 => valid_data_3' /\ ~read_reg_1'
    <3>1. en_reg_1 => valid_data_3' \/ at_read_count
      BY <1>1, <1>4, <1>7, <2>1 DEF TxFlagSteps, OutputsInStep
    <3>2. beat # 3 => ~at_read_count
      BY <1>1, <1>7, Counted
    <3>3. en_reg_1
      BY <1>1, <1>7 DEF TxHeader
    <3>4. QED
      BY <1>1, <1>4, <3>1, <3>2, <3>3 DEF TxFlagSteps, OutputsInStep
  <2>6. QED
    BY <1>3, <2>1, <2>2, <2>3, <2>4, <2>5 DEF TxReads, Reading
<1>8. CASE pc = "words"
  <2>1. Taken = 4 * (word + 1) + beat /\ word < headcount
    BY <1>1, <1>8 DEF TxReads, SoftwareInStep
  <2>2. CASE ~valid_data_3
    BY <1>1, <1>2, <1>3, <1>5, <1>6, <1>8, <2>1, <2>2 DEF TxReads, Reading
  <2>3. CASE valid_data_3
    <3>1. /\ beat' = IF beat = 3 THEN 0 ELSE beat + 1
          /\ word' = IF beat = 3 THEN (word + 1) % headcount ELSE word
          /\ pc' = IF beat = 3 /\ word = headcount - 1 THEN "check" ELSE "words"
          /\ received' = Append(received, avs_readdata)
      BY <1>1, <1>4, <1>8, <2>3 DEF Gets, Beats
    <3>2. Taken' = 4 * (word + 1) + beat + 1
      BY <1>2, <2>1, <2>3
    <3>3. Len(received') = Taken'
      BY <1>2, <1>3, <1>6, <2>1, <2>3, <3>1
    <3>4. pc' = "words" => Taken' = 4 * (word' + 1) + beat'
      <4>1. (word + 1) % headcount = IF word + 1 = headcount THEN 0 ELSE word + 1
        BY <1>3, <2>1, NextInBurst
      <4>2. QED
        BY <1>3, <2>1, <3>1, <3>2, <4>1
    <3>5. pc' = "check" => read_reg_1' /\ send_line_count' = headcount'
      <4>1. SUFFICES ASSUME pc' = "check" PROVE read_reg_1' /\ send_line_count' = headcount'
        OBVIOUS
      <4>2. beat = 3 /\ word = headcount - 1
        BY <3>1, <4>1
      <4>3. at_read_count /\ send_line_count = headcount - 1
        BY <1>1, <1>8, <4>2, Counted
      <4>4. header_sent_reg /\ ~Clear_buff
        BY <1>1, <1>8 DEF TxWords, OutputsInStep
      <4>5. send_line_count' = send_line_count + 1
        BY <1>3, <1>4, <2>3, <4>3, <4>4 DEF TxCountSteps, at_head_count
      <4>6. QED
        BY <1>1, <1>3, <1>4, <4>3, <4>4, <4>5 DEF TxFlagSteps
    <3>6. pc' \in {"words", "check"}
      BY <3>1
    <3>7. QED
      BY <3>3, <3>4, <3>5, <3>6 DEF TxReads, Reading
  <2>4. QED
    BY <2>2, <2>3
<1>9. QED
  BY <1>1, <1>7, <1>8

LEMMA TxReadsRest ==
  ASSUME TypeOK, Control, Transmit, NEW w, NEW d, NEW r, NEW c, Move(w, d, r, c), ~r
  PROVE  TxReads'
<1> USE DEF Control, Transmit
<1>1. SUFFICES ASSUME state' = "WAIT_TX"
               PROVE  TxReads'
  BY DEF TxReads
<1>2. /\ ~Overruled
      /\ \/ state = "PROCESS_IMAGE"
         \/ /\ state = "WAIT_TX" /\ tx_en /\ ~Clear_buff
            /\ ~(headcount = send_line_count /\ ~r /\ read_reg_1)
  BY <1>1, OfferedBefore
<1>3. /\ quiet \in Nat /\ BUS_GAP \in Nat /\ BUS_GAP >= 2 /\ cmd' = c
      /\ beat \in 0 .. 3 /\ word \in Nat
  BY Edges, Constants DEF TypeOK
<1>4. CASE state = "PROCESS_IMAGE"
  <2>1. Taken' = 0
    BY <1>1, <1>4, OfferBegins
  <2>2. pc \notin Reading
    BY <1>4 DEF SoftwareInStep
  <2>3. pc' \notin Reading
    BY <1>4, <2>2 DEF Move, Single, Waits, Dies, Puts, Gets, Beats, checkStatus,
       waitForOutReady, waitForInValid, Wait, Reading
  <2>4. QED
    BY <2>1, <2>3 DEF TxReads, Reading
<1>5. CASE state = "WAIT_TX"
  <2>1. Taken' = Taken
    BY <1>1, <1>5, TakenSteps
  <2>2. received' = received
    BY DEF Move, Single, Waits, Dies, Puts
  <2>3. cmd # "RESET" /\ tx_en /\ ~Clear_buff /\ ~watchdog_tx_trigger
    BY <1>2, <1>5 DEF Overruled, TxCalm
  <2>4. pc = "check" => Taken = 0
    BY <1>2, <1>5 DEF TxReads
  <2>5. pc \notin Reading \union {"check", "reset"} => Taken = 0
    BY <1>5, <2>3 DEF TxReads
  <2>6. pc' = "header_ready" => pc \in {"header_ready", "check"}
    BY DEF Move, Single, Waits, Dies, Puts, Beats, checkStatus, waitForOutReady,
       waitForInValid, Wait
  <2>7. pc' = "header" => /\ \/ pc = "header" /\ beat' = beat
                             \/ pc = "header_ready" /\ beat' = 0 /\ ~waitrequest_in(tx_en)
    BY DEF Move, Single, Waits, Dies, Puts, Beats, checkStatus, waitForOutReady,
       waitForInValid, Wait
  <2>8. pc' = "words_ready" => pc = "words_ready"
    BY DEF Move, Single, Waits, Dies, Puts, Beats, checkStatus, waitForOutReady,
       waitForInValid, Wait
  <2>9. pc' = "words" => /\ \/ pc = "words" /\ word' = word /\ beat' = beat
                            \/ pc = "words_ready" /\ word' = 0 /\ beat' = 0
    BY DEF Move, Single, Waits, Dies, Puts, Beats, checkStatus, waitForOutReady,
       waitForInValid, Wait
  <2>10. pc' = "check" => pc \notin Reading \union {"reset"}
    BY <1>5 DEF Move, Single, Waits, Dies, Puts, Beats, checkStatus, waitForOutReady,
       waitForInValid, Wait, Reading
  <2>11. pc \in Reading => pc' \in Reading \union {"reset"}
    BY <1>5 DEF Move, Single, Waits, Dies, Puts, Beats, checkStatus, waitForOutReady,
       waitForInValid, Wait, Reading
  <2>12. pc = "reset" => pc' = "reset" \/ cmd' = "RESET"
    BY <1>3 DEF Move, Single, Waits, Dies, Puts, Beats, checkStatus, waitForOutReady,
       waitForInValid, Wait
  <2>13. ~waitrequest_in(tx_en) => valid_data_3
    BY <2>3, FlagTypes DEF waitrequest_in
  <2>14. /\ valid_data_3 => valid_data_3'
         /\ ~read_reg_1'
    BY <2>3, Edges DEF TxFlagSteps
  <2>15. pc = "header" => Taken = beat /\ valid_data_3
    BY <1>5 DEF TxReads
  <2>16. pc = "header_ready" => Taken = 0
    BY <1>5 DEF TxReads
  <2>17. pc = "words_ready" => Taken = 4
    BY <1>5 DEF TxReads
  <2>18. pc = "words" => Taken = 4 * (word + 1) + beat
    BY <1>5 DEF TxReads
  <2>19. pc' = "header" => Taken' = beat' /\ valid_data_3' /\ ~read_reg_1'
    BY <2>1, <2>7, <2>13, <2>14, <2>15, <2>16
  <2>20. pc' = "words" => Taken' = 4 * (word' + 1) + beat'
    BY <1>3, <2>1, <2>9, <2>17, <2>18
  <2>21. pc' = "check" => Taken' = 0
    BY <2>1, <2>4, <2>5, <2>10 DEF Reading
  <2>22. pc' \in Reading \union {"check", "reset"} \/ cmd' = "RESET" \/ Taken' = 0
    BY <2>1, <2>4, <2>5, <2>11, <2>12
  <2>23. Taken' > 0 => Len(received') = Taken'
    BY <1>5, <2>1, <2>2 DEF TxReads
  <2>24. /\ pc' = "header_ready" => Taken' = 0
         /\ pc' = "words_ready" => Taken' = 4
    BY <2>1, <2>4, <2>6, <2>8, <2>16, <2>17
  <2>25. QED
    BY <2>19, <2>20, <2>21, <2>22, <2>23, <2>24 DEF TxReads
<1>6. QED
  BY <1>2, <1>4, <1>5

\* What is read is appended where it belongs.
LEMMA ReceivedKept ==
  ASSUME TypeOK, Control, Transmit, NEW w, NEW d, NEW r, NEW c, Move(w, d, r, c)
  PROVE  Received'
<1> USE DEF Control, Transmit
<1>1. /\ received \in Seq(Results) /\ avs_readdata \in Results /\ beat \in 0 .. 3
      /\ word \in Nat /\ send_line_count \in Nat /\ read_count \in 0 .. 3 /\ r \in BOOLEAN
  BY DEF TypeOK, Move
<1>2. CASE received' = received
  BY <1>2 DEF Received
<1>3. CASE r /\ valid_data_3 /\ received' # received
  <2>1. /\ state = "WAIT_TX" /\ ~read_reg_1
        /\ pc \in {"header", "words"}
        /\ pc = "header" => HeaderOpen /\ read_count = beat
        /\ pc = "words" => ~HeaderOpen /\ send_line_count = word /\ read_count = beat
    BY <1>3, ReadBeat
  <2>2. Taken > 0 => Len(received) = Taken
    BY <2>1 DEF TxReads
  <2>3. Gets
    BY <1>3 DEF Move
  <2>4. CASE pc = "header" /\ beat = 0
    <3>1. received' = Append(<<>>, avs_readdata)
      BY <1>3, <2>3, <2>4 DEF Gets
    <3>2. avs_readdata = Header
      BY <1>3, <2>1, <2>4 DEF TxHeader
    <3>3. <<>> \in Seq(Results)
      OBVIOUS
    <3>4. Len(received') = 1 /\ received'[1] = Header
      BY <1>1, <3>1, <3>2, <3>3
    <3>5. QED
      BY <3>4 DEF Received
  <2>5. CASE ~(pc = "header" /\ beat = 0)
    <3>1. received' = Append(received, avs_readdata)
      BY <1>3, <2>1, <2>3, <2>5 DEF Gets
    <3>2. /\ Len(received') = Len(received) + 1
          /\ received'[Len(received) + 1] = avs_readdata
          /\ \A i \in 1 .. Len(received) : received'[i] = received[i]
          /\ Len(received) \in Nat
      BY <1>1, <3>1
    <3>3. avs_readdata = IF Len(received) + 1 <= READS THEN Header
                         ELSE Word((Len(received) + 1 - 1) \div READS - 1)
      <4>1. CASE pc = "header"
        <5>1. avs_readdata = Header
          BY <1>3, <2>1, <4>1 DEF TxHeader
        <5>2. Taken = beat /\ beat > 0
          BY <1>1, <2>1, <2>5, <4>1 DEF TxReads
        <5>3. QED
          BY <1>1, <2>2, <5>1, <5>2
      <4>2. CASE pc = "words"
        <5>1. avs_readdata = Word(send_line_count)
          BY <1>3, <2>1, <4>2 DEF TxWords
        <5>2. Taken = 4 * (send_line_count + 1) + read_count
          BY <2>1, <4>2 DEF Taken
        <5>3. Len(received) = 4 * (send_line_count + 1) + read_count
          BY <1>1, <2>2, <5>2
        <5>4. (Len(received) + 1 - 1) \div 4 = send_line_count + 1
          BY <1>1, <5>3
        <5>5. (Len(received) + 1 - 1) \div 4 - 1 = send_line_count
          BY <1>1, <5>4
        <5>6. Len(received) + 1 > 4
          BY <1>1, <5>3
        <5>7. QED
          BY <3>2, <5>1, <5>5, <5>6
      <4>3. QED
        BY <2>1, <4>1, <4>2
    <3>4. QED
      BY <3>2, <3>3 DEF Received
  <2>6. QED
    BY <2>4, <2>5
<1>4. received' # received => r /\ valid_data_3
  <2>1. received' # received => r /\ Gets
    BY DEF Move, Single, Waits, Dies, Puts
  <2>2. Gets /\ received' # received => ~waitrequest_in(tx_en)
    BY DEF Gets
  <2>3. r => (waitrequest_in(tx_en) <=> ~valid_data_3)
    BY <1>1, ReadBeat
  <2>4. QED
    BY <2>1, <2>2, <2>3, FlagTypes
<1>5. QED
  BY <1>2, <1>3, <1>4

LEMMA TransmitKept ==
  ASSUME TypeOK, Control, Transmit, NEW w, NEW d, NEW r, NEW c, Move(w, d, r, c)
  PROVE  Transmit'
<1>1. TxIdle' /\ TxCalm' /\ TxHeader' /\ TxWords'
  BY TxIdleKept, TxCalmKept, TxHeaderKept, TxWordsKept
<1>2. TxReads'
  BY TxReadsGet, TxReadsRest
<1>3. Received'
  BY ReceivedKept
<1>4. QED
  BY <1>1, <1>2, <1>3 DEF Transmit

-----------------------------------------------------------------------------
(* RX_UNIT: what a cycle preserves, as long as no word is cut off. *)

LEMMA UploadKept ==
  ASSUME TypeOK, Control, NEW w, NEW d, NEW r, NEW c, Move(w, d, r, c),
         state \in {"ACK_BP", "ACK_STRIP", "PROCESS_IMAGE"} \/ cmd = "UPLOAD"
  PROVE  upload' = upload /\ Words' = Words /\ Expected' = Expected
<1>1. c # "UPLOAD"
  <2>1. c = "UPLOAD" => pc = "upload" /\ quiet = BUS_GAP
    BY DEF Move, Single
  <2>2. BUS_GAP > 0
    BY Constants
  <2>3. QED
    BY <2>1, <2>2 DEF Control, SoftwareInStep, CommandsInStep
<1>2. upload' = upload
  BY <1>1 DEF Move, Single, Waits, Dies, Puts, Gets, Beats
<1>3. QED
  BY <1>2 DEF Words, Expected, WordsFor

\* Where the open states come from.
LEMMA OpenBefore ==
  ASSUME TypeOK, Control, NEW w, NEW d, NEW r, NEW c, Move(w, d, r, c),
         state' \in {"ACK_BP", "ACK_STRIP"}
  PROVE  /\ ~Overruled /\ ~Clear_buff
         /\ \/ /\ state = "IDLE" /\ cmd = "UPLOAD" /\ state' = "ACK_BP"
               /\ ~rx_en /\ rx_en' /\ ~select_mode'
            \/ /\ state = "ACK_BP" /\ state' = "ACK_BP" /\ ~RX_done(expected_packages)
               /\ rx_en /\ ~select_mode /\ rx_en' /\ ~select_mode'
            \/ /\ state = "ACK_BP" /\ state' = "ACK_STRIP" /\ RX_done(expected_packages)
               /\ rx_en /\ ~select_mode /\ ~rx_en' /\ ~select_mode'
            \/ /\ state = "ACK_STRIP" /\ state' = "ACK_STRIP" /\ ~RX_done(expected_packages)
               /\ rx_en' /\ select_mode'
<1> USE DEF Control
<1>1. OutputSteps /\ StateSteps(r)
  BY Edges
<1>2. state \in States
  BY DEF TypeOK
<1>3. ~Overruled
  BY <1>1 DEF StateSteps, Overruled
<1>4. \/ state = "IDLE" /\ cmd = "UPLOAD" /\ state' = "ACK_BP"
      \/ state = "ACK_BP" /\ state' = "ACK_BP" /\ ~RX_done(expected_packages)
      \/ state = "ACK_BP" /\ state' = "ACK_STRIP" /\ RX_done(expected_packages)
      \/ state = "ACK_STRIP" /\ state' = "ACK_STRIP" /\ ~RX_done(expected_packages)
  BY <1>1, <1>2, <1>3 DEF StateSteps, States
<1>5. ~Clear_buff
  BY <1>4 DEF OutputsInStep, CommandsInStep
<1>6. QED
  BY <1>1, <1>3, <1>4, <1>5 DEF OutputSteps, OutputsInStep

LEMMA BeatNumber ==
  ASSUME NEW word_1 \in Nat, NEW beat_1 \in 0 .. 3, NEW word_2 \in Nat, NEW beat_2 \in 0 .. 3,
         NEW n \in {0, 1}, 4 * word_1 + beat_1 = 4 * word_2 + beat_2 + n
  PROVE  /\ n = 0 => word_1 = word_2 /\ beat_1 = beat_2
         /\ n = 1 /\ beat_2 < 3 => word_1 = word_2 /\ beat_1 = beat_2 + 1
         /\ n = 1 /\ beat_2 = 3 => word_1 = word_2 + 1 /\ beat_1 = 0
OBVIOUS

\* Where the software is in its burst, by the unit's counts.
LEMMA InBurst ==
  ASSUME TypeOK, Control, Receive, ~cut,
         (state = "ACK_BP" /\ pc = "breakpoints") \/ (state = "ACK_STRIP" /\ pc = "columns")
  PROVE  /\ rx_en /\ expected_packages > burst_count
         /\ ~write => word = burst_count /\ beat = write_count
         /\ write /\ write_count < 3 => word = burst_count /\ beat = write_count + 1
         /\ write /\ write_count = 3 => word = burst_count + 1 /\ beat = 0
         /\ state = "ACK_BP" => /\ rx_en_reg_1 /\ word < Words
                                /\ expected_packages = Words
         /\ state = "ACK_STRIP" => /\ word < upload.columns /\ (quiet > 0 => rx_en_reg_1)
                                   /\ expected_packages = upload.columns
<1> USE DEF Control, Receive
<1>1. /\ word \in Nat /\ beat \in 0 .. 3 /\ burst_count \in Nat /\ write_count \in 0 .. 3
      /\ Words \in Nat /\ upload.columns \in Nat
  <2>1. upload \in Uploads
    BY DEF SoftwareInStep
  <2>2. Words \in Nat /\ upload.columns \in Nat
    BY <2>1, UploadSizes, WordCount DEF Words
  <2>3. QED
    BY <2>2 DEF TypeOK
<1>2. /\ rx_en
      /\ 4 * word + beat = 4 * burst_count + write_count + (IF write THEN 1 ELSE 0)
      /\ state = "ACK_BP" => /\ rx_en_reg_1 /\ word < Words
                             /\ expected_packages = Words
      /\ state = "ACK_STRIP" => /\ word < upload.columns /\ (quiet > 0 => rx_en_reg_1)
                                /\ expected_packages = upload.columns
  BY DEF BreakpointsSent, BreakpointsStored, ColumnsSent, ColumnsStored, OutputsInStep
<1>3. ~write => word = burst_count /\ beat = write_count
  BY <1>1, <1>2, BeatNumber
<1>4. write => /\ write_count < 3 => word = burst_count /\ beat = write_count + 1
               /\ write_count = 3 => word = burst_count + 1 /\ beat = 0
  BY <1>1, <1>2, BeatNumber
<1>5. burst_count <= word
  BY <1>1, <1>3, <1>4
<1>6. QED
  BY <1>1, <1>2, <1>3, <1>4, <1>5

\* What a step that cuts no word off rests on.
LEMMA Uncut ==
  ASSUME TypeOK, Control, Transmit, Receive,
         NEW w, NEW d, NEW r, NEW c, Move(w, d, r, c), ~cut'
  PROVE  /\ ~cut /\ (write => rx_en) /\ ~watchdog_rx_trigger /\ ~watchdog_tx_trigger
         /\ w => /\ ~write /\ pc \in Writing /\ cmd # "RESET" /\ Puts(d)
                 /\ \/ state = "ACK_BP" /\ pc = "breakpoints" /\ rx_en_reg_1
                    \/ state = "ACK_STRIP" /\ pc = "columns" /\ rx_en_reg_1
                    \/ state = "ERROR" /\ pc = "breakpoints"
                 /\ state # "ERROR" => ~waitrequest_out /\ ~held' /\ rx_en
<1> USE DEF Control, Transmit, Receive
<1>1. /\ ~cut /\ ~(write /\ ~rx_en)
      /\ w => pc \in Writing /\ (held' <=> waitrequest_out) /\ (held \/ quiet > 0)
  BY PortMoves
<1>2. ~watchdog_rx_trigger /\ ~watchdog_tx_trigger
  BY <1>1 DEF RxIdle, TxCalm
<1>3. ASSUME w
      PROVE  /\ pc \in Writing /\ cmd # "RESET" /\ Puts(d)
             /\ \/ state = "ACK_BP" /\ pc = "breakpoints"
                \/ state = "ACK_STRIP" /\ pc = "columns"
                \/ state = "ERROR" /\ pc = "breakpoints"
  <2>1. pc \in Writing /\ cmd # "RESET" /\ Puts(d)
    BY <1>1, <1>3 DEF CommandsInStep, Writing, Move
  <2>2. pc = "breakpoints" => state \in {"ACK_BP", "ERROR"}
    BY <1>1 DEF RxIdle
  <2>3. pc = "columns" => state = "ACK_STRIP"
    BY <1>1, <2>1 DEF RxIdle, BreakpointsSent
  <2>4. QED
    BY <2>1, <2>2, <2>3 DEF Writing
<1>4. ASSUME w, state # "ERROR"
      PROVE  rx_en /\ rx_en_reg_1 /\ ~waitrequest_out /\ quiet > 0 /\ ~held
  <2>1. ~held /\ quiet > 0
    BY <1>1, <1>3, <1>4 DEF RxIdle, Writing
  <2>2. rx_en /\ rx_en_reg_1
    BY <1>1, <1>3, <1>4, <2>1, InBurst
  <2>3. ~waitrequest_out
    BY <1>1, <1>3, <1>4, <2>2 DEF RxOpen
  <2>4. QED
    BY <2>1, <2>2, <2>3
<1>5. ASSUME w
      PROVE  ~write
  <2>1. CASE state = "ERROR"
    BY <1>1, <1>3, <1>5, <2>1 DEF RxIdle
  <2>2. CASE state # "ERROR"
    <3>1. quiet > 0 /\ ~held
      BY <1>4, <1>5, <2>2
    <3>2. quiet \in Nat
      BY DEF TypeOK
    <3>3. QED
      BY <3>1, <3>2 DEF BusInStep
  <2>3. QED
    BY <2>1, <2>2
<1>6. QED
  BY <1>1, <1>2, <1>3, <1>4, <1>5

\* A unit that is done has no burst at hand.
LEMMA DoneAtRest ==
  ASSUME TypeOK, Control, Receive, ~cut, state \in {"ACK_BP", "ACK_STRIP"},
         RX_done(expected_packages)
  PROVE  /\ pc \notin Writing /\ ~write /\ write_count = 0 /\ valid_write
         /\ rx_en /\ rx_en_reg_1
         /\ state = "ACK_BP" => burst_count = Words
         /\ state = "ACK_STRIP" => burst_count = upload.columns
<1> USE DEF Control, Receive
<1>1. write_fall /\ burst_count = expected_packages /\ burst_count \in Nat
  BY DEF RX_done, TypeOK
<1>2. rx_en
  BY <1>1 DEF OutputsInStep, ColumnsStored
<1>3. pc \notin Writing
  <2>1. SUFFICES ASSUME pc \in Writing PROVE FALSE
    OBVIOUS
  <2>2. (state = "ACK_BP" /\ pc = "breakpoints") \/ (state = "ACK_STRIP" /\ pc = "columns")
    BY <2>1 DEF RxIdle, BreakpointsSent, Writing, CommandsInStep
  <2>3. QED
    BY <1>1, <2>2, InBurst
<1>4. ~write
  BY <1>1 DEF RxOpen
<1>5. write_count = 0
  BY <1>3, <1>4 DEF RxOpen
<1>6. valid_write /\ rx_en_reg_1
  BY <1>1, <1>5 DEF RxOpen
<1>7. QED
  BY <1>1, <1>2, <1>3, <1>4, <1>5, <1>6 DEF BreakpointsStored, ColumnsStored

\* The unit's registers while it is switched on.
LEMMA OpenSteps ==
  ASSUME TypeOK, Control, Transmit, Receive,
         NEW w, NEW d, NEW r, NEW c, Move(w, d, r, c), ~cut',
         state \in {"ACK_BP", "ACK_STRIP"}, rx_en
  PROVE  /\ write' <=> w
         /\ valid_write' <=> write /\ write_count = 3
         /\ write_fall' <=> write
         /\ rx_en_reg_1' /\ (first_rx_en' <=> ~rx_en_reg_1) /\ ~waitrequest_out'
         /\ burst_count' = IF write /\ write_count = 3 THEN burst_count + 1 ELSE burst_count
         /\ write_count' = IF write /\ write_count = 3 THEN 0
                           ELSE IF write THEN write_count + 1 ELSE write_count
         /\ addr_reg' = IF first_rx_en THEN 0 ELSE IF valid_write THEN addr_reg + 1 ELSE addr_reg
         /\ PIO_OUT' = IF w THEN d ELSE PIO_OUT
         /\ stored' = IF valid_write THEN Append(stored, Filed) ELSE stored
<1> USE DEF Control, Receive
<1>1. /\ RxFlagSteps(w) /\ RxCountSteps(w, d)
      /\ stored' = IF valid_write THEN Append(stored, Filed) ELSE stored
  BY Edges, Uncut
<1>2. ~Clear_buff /\ ~cut
  BY Uncut DEF OutputsInStep
<1>3. write => ~write_reg_1
  BY <1>2 DEF RxOpen
<1>4. ~waitrequest_out'
  BY <1>1, <1>2 DEF RxFlagSteps
<1>5. QED
  BY <1>1, <1>2, <1>3, <1>4, Counted DEF RxFlagSteps, RxCountSteps

\* The unit's registers while it is switched off and nobody writes.
LEMMA ShutSteps ==
  ASSUME TypeOK, Control, Transmit, Receive,
         NEW w, NEW d, NEW r, NEW c, Move(w, d, r, c), ~cut', ~rx_en
  PROVE  /\ ~write /\ ~valid_write' /\ ~write_fall' /\ write_count' = write_count
         /\ burst_count' = 0 /\ ~rx_en_reg_1' /\ ~first_rx_en' /\ (write' <=> w)
         /\ state \notin {"IDLE", "ACK_BP"} /\ ~valid_write => stored' = stored
<1>1. RxFlagSteps(w) /\ RxCountSteps(w, d) /\ ~write /\ ~cut
  BY Edges, Uncut
<1>2. state \notin {"IDLE", "ACK_BP"} /\ ~valid_write => stored' = stored
  BY <1>1, Edges
<1>3. QED
  BY <1>1, <1>2, Counted DEF RxFlagSteps, RxCountSteps

\* The beat that comes is the one the unit waits for.
LEMMA PutBeat ==
  ASSUME TypeOK, Control, Transmit, Receive,
         NEW w, NEW d, NEW r, NEW c, Move(w, d, r, c), ~cut', w,
         state \in {"ACK_BP", "ACK_STRIP"}
  PROVE  /\ rx_en /\ rx_en_reg_1 /\ ~write /\ word = burst_count /\ beat = write_count
         /\ quiet' = 0 /\ beat' = IF beat = 3 THEN 0 ELSE beat + 1
         /\ state = "ACK_BP" =>
              /\ pc = "breakpoints"
              /\ word < Words
              /\ word' = IF beat = 3 THEN (word + 1) % Words ELSE word
              /\ pc' = IF beat = 3 /\ word = Words - 1 THEN "columns_ready" ELSE "breakpoints"
         /\ state = "ACK_STRIP" =>
              /\ pc = "columns"
              /\ word < upload.columns
              /\ word' = IF beat = 3 THEN (word + 1) % upload.columns ELSE word
              /\ pc' = IF beat = 3 /\ word = upload.columns - 1 THEN "check" ELSE "columns"
<1>1. /\ ~cut /\ ~write /\ Puts(d)
      /\ \/ state = "ACK_BP" /\ pc = "breakpoints" /\ rx_en_reg_1
         \/ state = "ACK_STRIP" /\ pc = "columns" /\ rx_en_reg_1
      /\ ~waitrequest_out /\ rx_en /\ rx_en_reg_1
  BY Uncut
<1>2. /\ word = burst_count /\ beat = write_count
      /\ state = "ACK_BP" => word < Words
      /\ state = "ACK_STRIP" => word < upload.columns
  BY <1>1, InBurst
<1>3. CASE pc = "breakpoints" /\ state = "ACK_BP"
  <2>1. Beats(Words, "columns_ready", waitrequest_out)
    BY <1>1, <1>3 DEF Puts
  <2>2. /\ quiet' = 0 /\ beat' = IF beat = 3 THEN 0 ELSE beat + 1
        /\ word' = IF beat = 3 THEN (word + 1) % Words ELSE word
        /\ pc' = IF beat = 3 /\ word = Words - 1 THEN "columns_ready" ELSE pc
    BY <1>1, <2>1 DEF Beats
  <2>3. QED
    BY <1>1, <1>2, <1>3, <2>2
<1>4. CASE pc = "columns" /\ state = "ACK_STRIP"
  <2>1. Beats(upload.columns, "check", waitrequest_out)
    BY <1>1, <1>4 DEF Puts
  <2>2. /\ quiet' = 0 /\ beat' = IF beat = 3 THEN 0 ELSE beat + 1
        /\ word' = IF beat = 3 THEN (word + 1) % upload.columns ELSE word
        /\ pc' = IF beat = 3 /\ word = upload.columns - 1 THEN "check" ELSE pc
    BY <1>1, <2>1 DEF Beats
  <2>3. QED
    BY <1>1, <1>2, <1>4, <2>2
<1>5. QED
  BY <1>1, <1>3, <1>4

LEMMA RxOpenKept ==
  ASSUME TypeOK, Control, Transmit, Receive,
         NEW w, NEW d, NEW r, NEW c, Move(w, d, r, c)
  PROVE  RxOpen'
<1>1. SUFFICES ASSUME ~cut', state' \in {"ACK_BP", "ACK_STRIP"}
               PROVE  RxOpen'
  BY DEF RxOpen
<1>2. /\ ~cut /\ (write => rx_en)
      /\ w => ~write /\ pc \in Writing /\ Puts(d)
              /\ \/ state = "ACK_BP" /\ pc = "breakpoints" /\ rx_en_reg_1
                 \/ state = "ACK_STRIP" /\ pc = "columns" /\ rx_en_reg_1
                 \/ state = "ERROR"
  BY <1>1, Uncut
<1>3. /\ write_count \in 0 .. 3 /\ burst_count \in Nat /\ beat \in 0 .. 3 /\ word \in Nat
      /\ w \in BOOLEAN /\ r \in BOOLEAN
  BY DEF TypeOK, Move
<1>4. CASE state = "IDLE" /\ ~rx_en
  <2>1. /\ ~w /\ ~write' /\ ~valid_write' /\ ~write_fall' /\ write_count' = write_count
        /\ burst_count' = 0 /\ ~rx_en_reg_1' /\ ~first_rx_en'
    BY <1>1, <1>2, <1>4, ShutSteps
  <2>2. write_count = 0
    BY <1>2, <1>4 DEF Receive, RxIdle
  <2>3. QED
    BY <2>1, <2>2 DEF RxOpen
<1>5. CASE state \in {"ACK_BP", "ACK_STRIP"} /\ RX_done(expected_packages) /\ ~rx_en'
  <2>1. /\ pc \notin Writing /\ ~write /\ write_count = 0 /\ rx_en /\ rx_en_reg_1
    BY <1>2, <1>5, DoneAtRest
  <2>2. /\ ~w /\ ~write' /\ ~valid_write' /\ ~write_fall' /\ write_count' = 0 /\ ~first_rx_en'
    BY <1>1, <1>2, <1>5, <2>1, OpenSteps
  <2>3. QED
    BY <1>5, <2>2 DEF RxOpen
<1>6. CASE state = "ACK_STRIP" /\ ~rx_en
  <2>1. /\ ~write /\ ~valid_write' /\ ~write_fall' /\ write_count' = write_count
        /\ burst_count' = 0 /\ ~rx_en_reg_1' /\ ~first_rx_en' /\ (write' <=> w)
    BY <1>1, <1>6, ShutSteps
  <2>2. pc \notin Writing
    BY <1>2, <1>6 DEF Receive, ColumnsSent, Writing
  <2>3. write_count = 0
    BY <1>2, <1>6, <2>1, <2>2 DEF Receive, RxOpen
  <2>4. QED
    BY <1>2, <2>1, <2>2, <2>3 DEF RxOpen
<1>7. CASE state \in {"ACK_BP", "ACK_STRIP"} /\ rx_en /\ rx_en'
  <2>1. /\ write' <=> w
        /\ valid_write' <=> write /\ write_count = 3
        /\ write_fall' <=> write
        /\ rx_en_reg_1' /\ (first_rx_en' <=> ~rx_en_reg_1) /\ ~waitrequest_out'
        /\ burst_count' = IF write /\ write_count = 3 THEN burst_count + 1 ELSE burst_count
        /\ write_count' = IF write /\ write_count = 3 THEN 0
                          ELSE IF write THEN write_count + 1 ELSE write_count
    BY <1>1, <1>7, OpenSteps
  <2>2. /\ write => rx_en_reg_1 /\ ~first_rx_en
        /\ write /\ pc \notin Writing => write_count = 3
        /\ ~write /\ pc \notin Writing => write_count = 0
        /\ ~rx_en_reg_1 => burst_count = 0 /\ write_count = 0
    BY <1>2, <1>7 DEF Receive, RxOpen
  <2>3. w => ~write /\ rx_en_reg_1
    BY <1>2, <1>7
  <2>4. write_reg_1' <=> write
    BY Edges DEF RxFlagSteps
  <2>5. ASSUME w, pc' \notin Writing
        PROVE  write_count = 3
    BY <1>1, <1>7, <2>5, PutBeat DEF Writing
  <2>6. ASSUME ~w, pc' \notin Writing
        PROVE  write_count' = 0
    <3>1. CASE pc \notin Writing
      BY <2>1, <2>2, <3>1
    <3>2. CASE pc \in Writing
      <4>1. Dies
        BY <2>6, <3>2 DEF Move, Single, Waits, Gets, checkStatus, waitForOutReady,
           waitForInValid, Wait, Writing
      <4>2. beat = 0
        BY <1>1, <1>3, <3>2, <4>1 DEF Dies
      <4>3. (state = "ACK_BP" /\ pc = "breakpoints") \/ (state = "ACK_STRIP" /\ pc = "columns")
        BY <1>2, <1>7, <3>2 DEF Receive, RxIdle, BreakpointsSent, Writing, Control, CommandsInStep
      <4>4. IF write THEN write_count = 3 ELSE write_count = 0
        BY <1>2, <1>3, <4>2, <4>3, InBurst DEF Control
      <4>5. QED
        BY <2>1, <4>4
    <3>3. QED
      BY <3>1, <3>2
  <2>7. valid_write' <=> write_fall' /\ write_count' = 0
    BY <1>3, <2>1
  <2>8. valid_write' => rx_en_reg_1' /\ ~first_rx_en' /\ ~write' /\ rx_en'
    BY <1>7, <2>1, <2>2, <2>3, <1>3
  <2>9. write' => /\ rx_en' /\ rx_en_reg_1' /\ ~first_rx_en' /\ ~write_reg_1' /\ ~write_fall'
    BY <1>7, <2>1, <2>3, <2>4
  <2>10. write' /\ pc' \notin Writing => write_count' = 3
    BY <2>1, <2>3, <2>5
  <2>11. ~write' /\ pc' \notin Writing => write_count' = 0
    BY <2>1, <2>6, <1>3
  <2>12. first_rx_en' => burst_count' = 0 /\ write_count' = 0
    BY <2>1, <2>2
  <2>13. QED
    BY <2>1, <2>7, <2>8, <2>9, <2>10, <2>11, <2>12 DEF RxOpen
<1>8. QED
  BY <1>1, <1>4, <1>5, <1>6, <1>7, OpenBefore

LEMMA RxIdleKept ==
  ASSUME TypeOK, Control, Transmit, Receive,
         NEW w, NEW d, NEW r, NEW c, Move(w, d, r, c)
  PROVE  RxIdle'
<1> USE DEF Control
<1>1. SUFFICES ASSUME ~cut'
               PROVE  RxIdle'
  BY DEF RxIdle
<1>2. /\ ~cut /\ (write => rx_en) /\ ~watchdog_rx_trigger /\ ~watchdog_tx_trigger
      /\ w => /\ ~write /\ pc \in Writing /\ cmd # "RESET" /\ Puts(d)
              /\ \/ state = "ACK_BP" /\ pc = "breakpoints" /\ rx_en_reg_1
                 \/ state = "ACK_STRIP" /\ pc = "columns" /\ rx_en_reg_1
                 \/ state = "ERROR" /\ pc = "breakpoints"
              /\ state # "ERROR" => ~waitrequest_out /\ ~held' /\ rx_en
  BY <1>1, Uncut
<1>3. /\ OutputSteps /\ StateSteps(r) /\ DataSteps
      /\ RxFlagSteps(w) /\ RxCountSteps(w, d) /\ cmd' = c
  BY Edges
<1>4. /\ state \in States /\ cmd \in Commands /\ quiet \in Nat /\ beat \in 0 .. 3
      /\ strip_width \in Nat /\ IMAGE_RAM_DEPTH \in Nat /\ write_count \in 0 .. 3
      /\ BUS_GAP \in Nat /\ BUS_GAP >= 2 /\ w \in BOOLEAN /\ r \in BOOLEAN
  BY Constants DEF TypeOK, Move
<1>5. Overruled <=> cmd = "RESET" \/ strip_width > IMAGE_RAM_DEPTH
  BY <1>2 DEF Overruled, Fault
<1>6. RxIdle /\ RxOpen
  BY DEF Receive
<1>7. state \in {"ACK_BP", "ACK_STRIP"} /\ RX_done(expected_packages) =>
        pc \notin Writing /\ ~write /\ write_count = 0
  BY <1>2, DoneAtRest
<1>8. state = "ACK_BP" /\ strip_width > IMAGE_RAM_DEPTH =>
        /\ ~rx_en_reg_1 /\ ~write /\ quiet <= 1
        /\ pc \in {"breakpoints_ready", "reset", "init"}
  <2>1. SUFFICES ASSUME state = "ACK_BP", strip_width > IMAGE_RAM_DEPTH
                 PROVE  /\ ~rx_en_reg_1 /\ ~write /\ quiet <= 1
                        /\ pc \in {"breakpoints_ready", "reset"} \/ cmd = "RESET"
    BY DEF CommandsInStep
  <2>2. ~rx_en_reg_1
    BY <1>2, <1>4, <2>1 DEF Receive, BreakpointsStored
  <2>3. ~write /\ quiet <= 1
    BY <1>2, <1>4, <2>1, <2>2 DEF Receive, BreakpointsStored, RxOpen
  <2>4. pc \notin {"breakpoints", "columns_ready"}
    BY <1>2, <2>1, <2>2, <2>3 DEF Receive, BreakpointsSent, RxOpen
  <2>5. QED
    BY <1>2, <2>1, <2>2, <2>3, <2>4 DEF Receive, BreakpointsSent
<1>9. ~watchdog_rx_trigger'
  BY <1>2, <1>3, <1>4, FlagTypes DEF RxCountSteps
<1>10. ASSUME state' \in {"ACK_BP", "ACK_STRIP", "PROCESS_IMAGE"}
       PROVE  strip_width' = upload'.columns /\ breakpoint_count' = upload'.images
  <2>1. \/ state \in {"ACK_BP", "ACK_STRIP", "PROCESS_IMAGE"} /\ cmd \notin {"RESET", "UPLOAD"}
        \/ state = "IDLE" /\ cmd = "UPLOAD"
    BY <1>3, <1>4, <1>10 DEF StateSteps, Overruled, States, CommandsInStep, SoftwareInStep
  <2>2. upload' = upload
    BY <2>1, UploadKept
  <2>3. QED
    BY <1>2, <1>3, <1>6, <2>1, <2>2 DEF RxIdle, DataSteps
<1>11. ASSUME pc' = "breakpoints"
       PROVE  state' \in {"ACK_BP", "ERROR"}
  <2>1. \/ pc = "breakpoints"
        \/ pc = "breakpoints_ready" /\ quiet = BUS_GAP
    BY <1>11 DEF Move, Single, Waits, Dies, Puts, Gets, Beats, checkStatus,
       waitForOutReady, waitForInValid, Wait
  <2>2. state \in {"ACK_BP", "ERROR"} /\ cmd # "RESET"
    BY <1>2, <1>4, <1>6, <2>1 DEF RxIdle, SoftwareInStep, CommandsInStep
  <2>3. ~RX_done(expected_packages) \/ state = "ERROR"
    <3>1. CASE pc = "breakpoints"
      BY <1>7, <2>2, <3>1 DEF Writing
    <3>2. CASE pc = "breakpoints_ready"
      BY <3>2 DEF BusInStep, RX_done, Writing
    <3>3. QED
      BY <2>1, <3>1, <3>2
  <2>4. QED
    BY <1>3, <2>2, <2>3 DEF StateSteps, Overruled
<1>12. ASSUME pc' \in {"columns_ready", "columns"}
       PROVE  state' \in {"ACK_BP", "ACK_STRIP"}
  <2>1. \/ pc \in {"columns_ready", "columns"}
        \/ pc = "breakpoints" /\ w /\ beat = 3
    BY <1>4, <1>12 DEF Move, Single, Waits, Dies, Puts, Gets, Beats, checkStatus,
       waitForOutReady, waitForInValid, Wait
  <2>2. state \in {"ACK_BP", "ACK_STRIP"} /\ cmd # "RESET"
    <3>1. CASE pc \in {"columns_ready", "columns"}
      BY <1>2, <1>6, <3>1 DEF RxIdle, CommandsInStep
    <3>2. CASE pc = "breakpoints" /\ w /\ beat = 3
      BY <1>2, <1>6, <3>2 DEF RxIdle
    <3>3. QED
      BY <2>1, <3>1, <3>2
  <2>3. ~Overruled
    BY <1>4, <1>5, <1>8, <2>1, <2>2 DEF SoftwareInStep
  <2>4. state = "ACK_STRIP" => ~RX_done(expected_packages)
    <3>1. SUFFICES ASSUME state = "ACK_STRIP", RX_done(expected_packages) PROVE FALSE
      OBVIOUS
    <3>2. pc = "columns_ready" /\ rx_en /\ burst_count = upload.columns
      BY <1>2, <1>6, <2>1, <3>1, DoneAtRest DEF Writing
    <3>3. burst_count = 0 /\ upload \in Uploads
      BY <1>2, <3>1, <3>2 DEF Receive, ColumnsSent, SoftwareInStep
    <3>4. upload.columns > 0
      BY <3>3, UploadSizes
    <3>5. QED
      BY <3>2, <3>3, <3>4
  <2>5. QED
    BY <1>3, <2>2, <2>3, <2>4 DEF StateSteps
<1>13. ASSUME state' \notin {"ACK_BP", "ACK_STRIP", "ERROR"}
       PROVE  ~write'
  <2>1. SUFFICES ASSUME w PROVE FALSE
    BY <1>3, <1>4 DEF RxFlagSteps
  <2>2. state \in {"ACK_BP", "ACK_STRIP"} => ~RX_done(expected_packages)
    BY <1>2, <1>7, <2>1
  <2>3. QED
    BY <1>2, <1>3, <1>13, <2>1, <2>2 DEF StateSteps, Overruled
<1>14. ASSUME state' \notin {"ACK_BP", "ACK_STRIP"}
       PROVE  write_count' = 0 /\ ~valid_write'
  <2>1. write_count = 0 /\ ~write
    <3>1. CASE state \in {"ACK_BP", "ACK_STRIP"}
      <4>1. CASE RX_done(expected_packages)
        BY <1>7, <3>1, <4>1
      <4>2. CASE cmd = "RESET"
        BY <1>2, <1>6, <3>1, <4>2 DEF CommandsInStep, RxOpen, Writing
      <4>3. CASE strip_width > IMAGE_RAM_DEPTH
        <5>1. state = "ACK_BP"
          BY <3>1, <4>3 DEF SoftwareInStep
        <5>2. ~rx_en_reg_1 /\ ~write /\ rx_en
          BY <1>8, <4>3, <5>1 DEF OutputsInStep
        <5>3. QED
          BY <1>2, <1>6, <5>1, <5>2 DEF RxOpen
      <4>4. QED
        BY <1>3, <1>5, <1>14, <3>1, <4>1, <4>2, <4>3 DEF StateSteps
    <3>2. CASE state \notin {"ACK_BP", "ACK_STRIP"}
      BY <1>2, <1>6, <3>2 DEF RxIdle
    <3>3. QED
      BY <3>1, <3>2
  <2>2. QED
    BY <1>3, <2>1, Counted, FlagTypes DEF RxFlagSteps, RxCountSteps
<1>15. ASSUME state' = "IDLE"
       PROVE  /\ ~write_fall' /\ ~write_reg_1' /\ ~rx_en_reg_1' /\ ~first_rx_en'
              /\ burst_count' = 0
  <2>1. \/ state = "OFFLINE" /\ cmd = "INIT"
        \/ state = "IDLE"
        \/ state = "WAIT_ACK"
    BY <1>3, <1>4, <1>15 DEF StateSteps, Overruled, States
  <2>2. ~rx_en /\ ~write
    BY <1>2, <1>6, <2>1 DEF OutputsInStep, CommandsInStep, RxIdle
  <2>3. QED
    BY <1>1, <1>3, <2>2, ShutSteps DEF RxFlagSteps
<1>16. ASSUME state' = "ERROR"
       PROVE  /\ strip_width' > IMAGE_RAM_DEPTH
              /\ rx_en' => ~write' /\ pc' # "breakpoints"
              /\ pc' = "breakpoints" => beat' = 0 \/ (beat' = 1 /\ write')
  <2>1. state \in {"ACK_BP", "ERROR"} /\ strip_width > IMAGE_RAM_DEPTH /\ cmd # "RESET"
    BY <1>2, <1>3, <1>4, <1>5, <1>6, <1>16 DEF StateSteps, RxIdle, SoftwareInStep, States
  <2>2. strip_width' > IMAGE_RAM_DEPTH
    BY <1>3, <1>4, <2>1 DEF DataSteps, CommandsInStep, SoftwareInStep
  <2>3. CASE state = "ACK_BP"
    <3>1. ~w /\ quiet <= 1 /\ pc \in {"breakpoints_ready", "reset", "init"}
      BY <1>2, <1>8, <2>1, <2>3 DEF Writing
    <3>2. pc' # "breakpoints"
      BY <1>4, <3>1 DEF Move, Single, Waits, Dies, Puts, Gets, Beats
    <3>3. ~write'
      BY <1>3, <3>1 DEF RxFlagSteps
    <3>4. QED
      BY <2>2, <3>2, <3>3
  <2>4. CASE state = "ERROR"
    <3>1. ~rx_en' /\ ~write
      BY <1>2, <1>3, <1>6, <2>4 DEF OutputSteps, RxIdle
    <3>2. pc = "breakpoints" => beat = 0
      BY <1>2, <1>6, <2>4, <3>1 DEF RxIdle
    <3>3. pc' = "breakpoints" => beat' = 0 \/ (beat' = 1 /\ w)
      BY <1>2, <1>4, <3>2 DEF Move, Single, Waits, Dies, Puts, Gets, Beats, checkStatus,
         waitForOutReady, waitForInValid, Wait
    <3>4. QED
      BY <1>3, <2>2, <3>1, <3>3 DEF RxFlagSteps
  <2>5. QED
    BY <2>1, <2>3, <2>4
<1>17. ASSUME held'
       PROVE  pc' = "words" \/ state' = "ERROR"
  <2>1. CASE ~w
    <3>1. Gets
      BY <1>17, <2>1, PortMoves DEF Move
    <3>2. r
      BY <1>17, <2>1, PortMoves
    <3>3. /\ waitrequest_in(tx_en) <=> ~valid_data_3
          /\ pc = "header" => valid_data_3
      BY <3>2, ReadBeat DEF Transmit
    <3>4. QED
      BY <1>17, <3>1, <3>3 DEF Gets, Beats
  <2>2. CASE w
    <3>1. state = "ERROR" /\ cmd # "RESET"
      BY <1>2, <1>17, <2>2
    <3>2. QED
      BY <1>3, <3>1 DEF StateSteps, Overruled
  <2>3. QED
    BY <1>4, <2>1, <2>2
<1>18. QED
  BY <1>9, <1>10, <1>11, <1>12, <1>13, <1>14, <1>15, <1>16, <1>17 DEF RxIdle

LEMMA StoredTypes ==
  TypeOK => /\ stored \in Seq([ram : {"breakpoint", "image"}, addr : Nat, data : Beat])
            /\ Len(stored) \in Nat /\ burst_count \in Nat /\ addr_reg \in Nat
            /\ write_count \in 0 .. 3 /\ beat \in 0 .. 3 /\ word \in Nat /\ quiet \in Nat
            /\ Filed \in [ram : {"breakpoint", "image"}, addr : Nat, data : Beat]
            /\ Len(Append(stored, Filed)) = Len(stored) + 1
<1>1. ASSUME TypeOK
      PROVE  /\ stored \in Seq([ram : {"breakpoint", "image"}, addr : Nat, data : Beat])
             /\ burst_count \in Nat /\ addr_reg \in Nat /\ PIO_OUT \in Beat
             /\ write_count \in 0 .. 3 /\ beat \in 0 .. 3 /\ word \in Nat /\ quiet \in Nat
  BY <1>1, Constants DEF TypeOK
<1>2. ASSUME TypeOK
      PROVE  Filed \in [ram : {"breakpoint", "image"}, addr : Nat, data : Beat]
  BY <1>1, <1>2 DEF Filed
<1>3. ASSUME TypeOK
      PROVE  Len(stored) \in Nat /\ Len(Append(stored, Filed)) = Len(stored) + 1
  BY <1>1, <1>2, <1>3
<1>4. QED
  BY <1>1, <1>2, <1>3

LEMMA UploadWords ==
  ASSUME upload \in Uploads
  PROVE  Words \in Nat /\ Words > 0 /\ upload.columns \in Nat /\ upload.columns > 0
BY UploadSizes, WordCount DEF Words

LEMMA BreakpointsStoredKept ==
  ASSUME TypeOK, Control, Transmit, Receive,
         NEW w, NEW d, NEW r, NEW c, Move(w, d, r, c)
  PROVE  BreakpointsStored'
<1> USE DEF Control
<1>1. SUFFICES ASSUME ~cut', state' = "ACK_BP"
               PROVE  BreakpointsStored'
  BY DEF BreakpointsStored
<1>2. /\ ~cut /\ (w => ~write)
  BY <1>1, Uncut
<1>3. /\ Len(stored) \in Nat /\ burst_count \in Nat /\ addr_reg \in Nat /\ write_count \in 0 .. 3
      /\ quiet \in Nat /\ Len(Append(stored, Filed)) = Len(stored) + 1
  BY StoredTypes
<1>4. /\ upload' = upload /\ Words' = Words /\ upload \in Uploads
  BY <1>1, UploadKept, OpenBefore DEF SoftwareInStep
<1>5. Words \in Nat /\ Words > 0
  BY <1>4, UploadWords
<1>6. CASE state = "IDLE" /\ cmd = "UPLOAD" /\ ~rx_en
  <2>1. /\ ~w /\ ~write' /\ ~valid_write' /\ burst_count' = 0 /\ ~rx_en_reg_1'
    BY <1>1, <1>6, ShutSteps, Uncut
  <2>2. Len(stored') = 0
    <3>1. stored' = <<>>
      BY <1>1, <1>6, Edges
    <3>2. QED
      BY <3>1
  <2>3. quiet' \in {0, 1}
    BY <1>3, <1>6, PortMoves DEF CommandsInStep
  <2>4. QED
    BY <1>4, <1>5, <2>1, <2>2, <2>3 DEF BreakpointsStored
<1>7. CASE /\ state = "ACK_BP" /\ ~RX_done(expected_packages) /\ ~Overruled
           /\ rx_en /\ ~select_mode'
  <2>1. /\ write' <=> w
        /\ valid_write' <=> write /\ write_count = 3
        /\ rx_en_reg_1' /\ (first_rx_en' <=> ~rx_en_reg_1)
        /\ burst_count' = IF write /\ write_count = 3 THEN burst_count + 1 ELSE burst_count
        /\ write_count' = IF write /\ write_count = 3 THEN 0
                          ELSE IF write THEN write_count + 1 ELSE write_count
        /\ addr_reg' = IF first_rx_en THEN 0 ELSE IF valid_write THEN addr_reg + 1 ELSE addr_reg
        /\ PIO_OUT' = IF w THEN d ELSE PIO_OUT
        /\ stored' = IF valid_write THEN Append(stored, Filed) ELSE stored
    BY <1>1, <1>7, OpenSteps
  <2>2. /\ burst_count <= Words
        /\ Len(stored) + (IF valid_write THEN 1 ELSE 0) = burst_count
        /\ rx_en_reg_1 /\ ~first_rx_en => addr_reg = Len(stored)
        /\ rx_en_reg_1 => expected_packages = Words
        /\ write => burst_count < Words /\ PIO_OUT = BreakpointBeat(burst_count, write_count)
        /\ burst_count = Words => valid_write
    BY <1>2, <1>7 DEF Receive, BreakpointsStored
  <2>3. /\ first_rx_en => burst_count = 0
        /\ valid_write => rx_en_reg_1 /\ ~first_rx_en /\ write_fall
    BY <1>2, <1>7 DEF Receive, RxOpen
  <2>4. Len(stored') = burst_count
    BY <1>3, <2>1, <2>2
  <2>5. /\ burst_count' <= Words
        /\ Len(stored') + (IF valid_write' THEN 1 ELSE 0) = burst_count'
    <3>1. CASE write /\ write_count = 3
      BY <1>3, <1>5, <2>1, <2>2, <2>4, <3>1
    <3>2. CASE ~(write /\ write_count = 3)
      <4>1. ~valid_write' /\ burst_count' = burst_count
        BY <2>1, <3>2
      <4>2. Len(stored') + 0 = burst_count /\ burst_count <= Words
        BY <1>3, <2>2, <2>4
      <4>3. QED
        BY <4>1, <4>2
    <3>3. QED
      BY <3>1, <3>2
  <2>6. rx_en_reg_1 => addr_reg' = Len(stored')
    BY <1>3, <2>1, <2>2, <2>3, <2>4
  <2>7. expected_packages' = Words
    BY <1>2, <1>7, Edges DEF OutputSteps, Receive, RxIdle, Words
  <2>8. strip_width' <= IMAGE_RAM_DEPTH
    <3>1. /\ strip_width \in Nat /\ IMAGE_RAM_DEPTH \in Nat
      BY Constants DEF TypeOK
    <3>2. strip_width' = strip_width /\ ~(strip_width > IMAGE_RAM_DEPTH)
      BY <1>7, Edges DEF DataSteps, Overruled, Fault, CommandsInStep
    <3>3. QED
      BY <3>1, <3>2
  <2>9. ASSUME w
        PROVE  burst_count' < Words /\ PIO_OUT' = BreakpointBeat(burst_count', write_count')
    <3>1. /\ ~write /\ word = burst_count /\ word < Words
          /\ d = BreakpointBeat(burst_count, write_count)
      <4>1. state = "ACK_BP" /\ w /\ ~cut'
        BY <1>1, <1>7, <2>9
      <4>2. /\ ~write /\ word = burst_count
            /\ word < Words /\ d = BreakpointBeat(burst_count, write_count)
        <5>1. ~write /\ word = burst_count
          BY <4>1, PutBeat
        <5>2. word < Words
          BY <4>1, PutBeat
        <5>3. d = BreakpointBeat(word, beat) /\ beat = write_count
          <6>1. pc = "breakpoints" /\ beat = write_count
            BY <4>1, PutBeat
          <6>2. Puts(d)
            BY <4>1, Uncut
          <6>3. QED
            BY <6>1, <6>2 DEF Puts
        <5>4. QED
          BY <5>1, <5>2, <5>3
      <4>3. QED
        BY <4>2
    <3>2. burst_count' = burst_count /\ write_count' = write_count /\ PIO_OUT' = d
      BY <2>1, <2>9, <3>1
    <3>3. QED
      BY <3>1, <3>2
  <2>10. ASSUME valid_write'
         PROVE  PIO_OUT' = BreakpointBeat(burst_count' - 1, 3)
    <3>1. write /\ write_count = 3 /\ ~w
      BY <1>2, <2>1, <2>10
    <3>2. PIO_OUT' = BreakpointBeat(burst_count, 3)
      BY <2>1, <2>2, <3>1
    <3>3. burst_count' - 1 = burst_count
      BY <1>3, <2>1, <3>1
    <3>4. QED
      BY <3>2, <3>3
  <2>11. ASSUME burst_count' = Words
         PROVE  valid_write'
    <3>1. SUFFICES ASSUME burst_count = Words PROVE FALSE
      BY <2>1, <2>11
    <3>2. valid_write /\ write_fall /\ expected_packages = Words
      BY <2>2, <2>3, <3>1
    <3>3. QED
      BY <1>7, <3>1, <3>2 DEF RX_done
  <2>12. QED
    BY <1>4, <2>1, <2>5, <2>6, <2>7, <2>8, <2>9, <2>10, <2>11 DEF BreakpointsStored
<1>8. QED
  BY <1>1, <1>6, <1>7, OpenBefore

LEMMA BreakpointsSentKept ==
  ASSUME TypeOK, Control, Transmit, Receive,
         NEW w, NEW d, NEW r, NEW c, Move(w, d, r, c)
  PROVE  BreakpointsSent'
<1> USE DEF Control
<1>1. SUFFICES ASSUME ~cut', state' = "ACK_BP"
               PROVE  BreakpointsSent'
  BY DEF BreakpointsSent
<1>2. /\ ~cut /\ (w => ~write)
  BY <1>1, Uncut
<1>3. /\ burst_count \in Nat /\ write_count \in 0 .. 3 /\ beat \in 0 .. 3 /\ word \in Nat
      /\ quiet \in Nat /\ BUS_GAP \in Nat /\ BUS_GAP >= 2 /\ cmd' = c
      /\ w \in BOOLEAN /\ r \in BOOLEAN
  BY StoredTypes, Constants, Edges DEF Move
<1>4. /\ upload' = upload /\ Words' = Words /\ upload \in Uploads
  BY <1>1, UploadKept, OpenBefore DEF SoftwareInStep
<1>5. Words \in Nat /\ Words > 0
  BY <1>4, UploadWords
<1>6. CASE state = "IDLE" /\ cmd = "UPLOAD" /\ ~rx_en
  <2>1. /\ ~w /\ ~write' /\ burst_count' = 0
    BY <1>1, <1>6, ShutSteps, Uncut
  <2>2. quiet = 0 /\ ~held /\ pc \in {"breakpoints_ready", "reset"}
    BY <1>6 DEF CommandsInStep
  <2>3. pc' \in {"breakpoints_ready", "reset"}
    BY <1>3, <2>2 DEF Move, Single, Waits, Dies, Puts, Gets, Beats
  <2>4. QED
    BY <2>1, <2>3 DEF BreakpointsSent
<1>7. CASE /\ state = "ACK_BP" /\ ~RX_done(expected_packages) /\ ~Overruled
           /\ rx_en /\ ~select_mode'
  <2>1. /\ write' <=> w
        /\ valid_write' <=> write /\ write_count = 3
        /\ rx_en_reg_1'
        /\ burst_count' = IF write /\ write_count = 3 THEN burst_count + 1 ELSE burst_count
        /\ write_count' = IF write /\ write_count = 3 THEN 0
                          ELSE IF write THEN write_count + 1 ELSE write_count
    BY <1>1, <1>7, OpenSteps
  <2>2. pc \in {"breakpoints_ready", "breakpoints", "columns_ready", "reset"}
    BY <1>2, <1>7 DEF Receive, BreakpointsSent, Overruled
  <2>3. ~held
    BY <1>2, <1>7, <2>2 DEF Receive, RxIdle
  <2>4. CASE w
    <3>1. /\ ~write /\ word = burst_count /\ beat = write_count
          /\ beat' = IF beat = 3 THEN 0 ELSE beat + 1
          /\ pc = "breakpoints" /\ word < Words /\ quiet' = 0
          /\ word' = IF beat = 3 THEN (word + 1) % Words ELSE word
          /\ pc' = IF beat = 3 /\ word = Words - 1 THEN "columns_ready" ELSE "breakpoints"
      BY <1>1, <1>7, <2>4, PutBeat
    <3>2. (word + 1) % Words = IF word + 1 = Words THEN 0 ELSE word + 1
      BY <1>3, <1>5, <3>1, NextInBurst
    <3>3. burst_count' = burst_count /\ write_count' = write_count /\ write'
      BY <2>1, <2>4, <3>1
    <3>4. pc' = "breakpoints" =>
            word' < Words /\ 4 * word' + beat' = 4 * burst_count' + write_count' + 1
      BY <1>3, <1>5, <3>1, <3>2, <3>3
    <3>5. pc' = "columns_ready" => write' /\ quiet' = 0 /\ burst_count' = Words - 1
      BY <3>1, <3>3
    <3>6. pc' \in {"breakpoints", "columns_ready"}
      BY <3>1
    <3>7. QED
      BY <1>4, <2>1, <3>3, <3>4, <3>5, <3>6 DEF BreakpointsSent
  <2>5. CASE ~w
    <3>0. ~r /\ ~write'
      BY <2>1, <2>2, <2>5, PortMoves
    <3>1. CASE pc = "breakpoints_ready"
      <4>1. ~write /\ burst_count = 0
        BY <1>2, <1>7, <3>1 DEF Receive, BreakpointsSent
      <4>2. write_count = 0
        BY <1>2, <1>7, <3>1, <4>1 DEF Receive, RxOpen, Writing
      <4>3. burst_count' = 0 /\ write_count' = 0
        BY <2>1, <4>1, <4>2
      <4>4. /\ pc' \in {"breakpoints_ready", "breakpoints", "reset"}
            /\ pc' = "breakpoints" => word' = 0 /\ beat' = 0
        BY <1>7, <2>5, <3>0, <3>1 DEF Move, Single, Waits, Dies, checkStatus,
           waitForOutReady, waitForInValid, Wait
      <4>5. QED
        BY <1>4, <1>5, <2>1, <3>0, <4>3, <4>4 DEF BreakpointsSent
    <3>2. CASE pc = "breakpoints"
      <4>1. /\ word < Words
            /\ 4 * word + beat = 4 * burst_count + write_count + (IF write THEN 1 ELSE 0)
        BY <1>2, <1>7, <3>2 DEF Receive, BreakpointsSent
      <4>2. \/ pc' = "breakpoints" /\ word' = word /\ beat' = beat
            \/ pc' = "reset"
        BY <2>5, <3>0, <3>2 DEF Move, Single, Waits, Dies, checkStatus, waitForOutReady,
           waitForInValid, Wait
      <4>3. 4 * burst_count' + write_count'
              = 4 * burst_count + write_count + (IF write THEN 1 ELSE 0)
        BY <1>3, <2>1
      <4>4. QED
        BY <1>3, <1>4, <2>1, <3>0, <4>1, <4>2, <4>3 DEF BreakpointsSent
    <3>3. CASE pc = "columns_ready"
      <4>1. \/ write /\ quiet = 0 /\ burst_count = Words - 1
            \/ valid_write /\ quiet = 1 /\ burst_count = Words
        BY <1>2, <1>7, <3>3 DEF Receive, BreakpointsSent
      <4>2. ~(valid_write /\ burst_count = Words)
        <5>1. valid_write => write_fall /\ rx_en_reg_1
          BY <1>2, <1>7 DEF Receive, RxOpen
        <5>2. rx_en_reg_1 => expected_packages = Words
          BY <1>2, <1>7 DEF Receive, BreakpointsStored
        <5>3. QED
          BY <1>7, <5>1, <5>2 DEF RX_done
      <4>3. write /\ quiet = 0 /\ burst_count = Words - 1 /\ write_count = 3
        BY <1>2, <1>7, <3>3, <4>1, <4>2 DEF Receive, RxOpen, Writing
      <4>4. valid_write' /\ burst_count' = Words
        BY <1>5, <2>1, <4>3
      <4>5. \/ pc' = "columns_ready" /\ quiet' = 1
            \/ pc' = "reset"
        BY <1>3, <2>5, <3>0, <3>3, <4>3 DEF Move, Single, Waits, Dies
      <4>6. QED
        BY <1>4, <4>4, <4>5 DEF BreakpointsSent
    <3>4. CASE pc = "reset"
      <4>1. pc' = "reset" \/ (cmd' = "RESET" /\ pc' = "init")
        <5>1. CASE Single(c)
          BY <1>3, <3>4, <5>1 DEF Single, checkStatus, waitForOutReady, waitForInValid, Wait
        <5>2. CASE Waits \/ Dies
          BY <3>4, <5>2 DEF Waits, Dies
        <5>3. QED
          BY <2>5, <3>0, <5>1, <5>2 DEF Move
      <4>2. QED
        BY <4>1 DEF BreakpointsSent
    <3>5. QED
      BY <2>2, <3>1, <3>2, <3>3, <3>4
  <2>6. QED
    BY <1>3, <2>4, <2>5
<1>8. QED
  BY <1>1, <1>6, <1>7, OpenBefore

LEMMA ColumnsStoredKept ==
  ASSUME TypeOK, Control, Transmit, Receive,
         NEW w, NEW d, NEW r, NEW c, Move(w, d, r, c)
  PROVE  ColumnsStored'
<1> USE DEF Control
<1>1. SUFFICES ASSUME ~cut', state' = "ACK_STRIP"
               PROVE  ColumnsStored'
  BY DEF ColumnsStored
<1>2. /\ ~cut /\ (w => ~write)
  BY <1>1, Uncut
<1>3. /\ Len(stored) \in Nat /\ burst_count \in Nat /\ addr_reg \in Nat /\ write_count \in 0 .. 3
      /\ Len(Append(stored, Filed)) = Len(stored) + 1
  BY StoredTypes
<1>4. /\ upload' = upload /\ Words' = Words /\ upload \in Uploads
  BY <1>1, UploadKept, OpenBefore DEF SoftwareInStep
<1>5. Words \in Nat /\ upload.columns \in Nat /\ upload.columns > 0
  BY <1>4, UploadWords
<1>6. CASE state = "ACK_BP" /\ RX_done(expected_packages) /\ ~rx_en'
  <2>1. /\ ~write /\ pc \notin Writing /\ valid_write /\ rx_en /\ burst_count = Words
    BY <1>2, <1>6, DoneAtRest
  <2>2. ~w
    BY <2>1, PortMoves
  <2>3. /\ ~write' /\ ~valid_write' /\ ~write_fall'
        /\ stored' = Append(stored, Filed)
    BY <1>1, <1>6, <2>1, <2>2, OpenSteps
  <2>4. Len(stored) + 1 = burst_count
    BY <1>2, <1>6, <2>1 DEF Receive, BreakpointsStored
  <2>5. Len(stored') = Words
    BY <1>3, <2>1, <2>3, <2>4
  <2>6. QED
    BY <1>4, <1>6, <2>3, <2>5 DEF ColumnsStored
<1>7. CASE state = "ACK_STRIP" /\ ~Overruled /\ ~rx_en /\ rx_en' /\ select_mode'
  <2>1. /\ pc # "breakpoints" /\ pc # "columns" /\ ~valid_write /\ Len(stored) = Words
    BY <1>2, <1>7 DEF Receive, ColumnsSent, ColumnsStored
  <2>2. ~w
    BY <2>1, PortMoves DEF Writing
  <2>3. /\ ~write' /\ ~valid_write' /\ burst_count' = 0 /\ ~rx_en_reg_1' /\ stored' = stored
    BY <1>1, <1>7, <2>1, <2>2, ShutSteps
  <2>4. expected_packages' = upload.columns
    BY <1>2, <1>7, Edges DEF OutputSteps, Receive, RxIdle
  <2>5. QED
    BY <1>4, <1>5, <1>7, <2>1, <2>3, <2>4 DEF ColumnsStored
<1>8. CASE /\ state = "ACK_STRIP" /\ ~RX_done(expected_packages) /\ ~Overruled
           /\ rx_en /\ rx_en' /\ select_mode'
  <2>1. /\ write' <=> w
        /\ valid_write' <=> write /\ write_count = 3
        /\ rx_en_reg_1' /\ (first_rx_en' <=> ~rx_en_reg_1)
        /\ burst_count' = IF write /\ write_count = 3 THEN burst_count + 1 ELSE burst_count
        /\ write_count' = IF write /\ write_count = 3 THEN 0
                          ELSE IF write THEN write_count + 1 ELSE write_count
        /\ addr_reg' = IF first_rx_en THEN 0 ELSE IF valid_write THEN addr_reg + 1 ELSE addr_reg
        /\ PIO_OUT' = IF w THEN d ELSE PIO_OUT
        /\ stored' = IF valid_write THEN Append(stored, Filed) ELSE stored
    BY <1>1, <1>8, OpenSteps
  <2>2. /\ burst_count <= upload.columns
        /\ Len(stored) + (IF valid_write THEN 1 ELSE 0) = Words + burst_count
        /\ rx_en_reg_1 /\ ~first_rx_en => addr_reg + Words = Len(stored)
        /\ expected_packages = upload.columns
        /\ write => burst_count < upload.columns /\ PIO_OUT = ColumnBeat(burst_count, write_count)
        /\ burst_count = upload.columns => valid_write
    BY <1>2, <1>8 DEF Receive, ColumnsStored
  <2>3. /\ first_rx_en => burst_count = 0
        /\ valid_write => rx_en_reg_1 /\ ~first_rx_en /\ write_fall
    BY <1>2, <1>8 DEF Receive, RxOpen
  <2>4. Len(stored') = Words + burst_count
    BY <1>3, <1>5, <2>1, <2>2
  <2>5. /\ burst_count' <= upload.columns
        /\ Len(stored') + (IF valid_write' THEN 1 ELSE 0) = Words + burst_count'
    <3>1. CASE write /\ write_count = 3
      <4>1. valid_write' /\ burst_count' = burst_count + 1
        BY <2>1, <3>1
      <4>2. burst_count < upload.columns
        BY <2>2, <3>1
      <4>3. QED
        BY <1>3, <1>5, <2>4, <4>1, <4>2
    <3>2. CASE ~(write /\ write_count = 3)
      <4>1. ~valid_write' /\ burst_count' = burst_count
        BY <2>1, <3>2
      <4>2. Len(stored') + 0 = Words + burst_count /\ burst_count <= upload.columns
        BY <1>3, <1>5, <2>2, <2>4
      <4>3. QED
        BY <4>1, <4>2
    <3>3. QED
      BY <3>1, <3>2
  <2>6. rx_en_reg_1 => addr_reg' + Words = Len(stored')
    BY <1>3, <1>5, <2>1, <2>2, <2>3, <2>4
  <2>7. expected_packages' = upload.columns
    BY <1>2, <1>8, Edges DEF OutputSteps, Receive, RxIdle
  <2>8. ASSUME w
        PROVE  burst_count' < upload.columns /\ PIO_OUT' = ColumnBeat(burst_count', write_count')
    <3>1. state = "ACK_STRIP" /\ w /\ ~cut'
      BY <1>1, <1>8, <2>8
    <3>2. ~write /\ word = burst_count /\ beat = write_count
      BY <3>1, PutBeat
    <3>3. word < upload.columns /\ pc = "columns"
      BY <3>1, PutBeat
    <3>4. Puts(d)
      BY <3>1, Uncut
    <3>5. d = ColumnBeat(word, beat)
      BY <3>3, <3>4 DEF Puts
    <3>6. burst_count' = burst_count /\ write_count' = write_count /\ PIO_OUT' = d
      BY <2>1, <2>8, <3>2
    <3>7. QED
      BY <3>2, <3>3, <3>5, <3>6
  <2>9. ASSUME valid_write'
        PROVE  PIO_OUT' = ColumnBeat(burst_count' - 1, 3)
    <3>1. write /\ write_count = 3 /\ ~w
      BY <1>2, <2>1, <2>9
    <3>2. PIO_OUT' = ColumnBeat(burst_count, 3)
      BY <2>1, <2>2, <3>1
    <3>3. burst_count' - 1 = burst_count
      BY <1>3, <2>1, <3>1
    <3>4. QED
      BY <3>2, <3>3
  <2>10. ASSUME burst_count' = upload.columns
         PROVE  valid_write'
    <3>1. SUFFICES ASSUME burst_count = upload.columns PROVE FALSE
      BY <2>1, <2>10
    <3>2. valid_write /\ write_fall /\ expected_packages = upload.columns
      BY <2>2, <2>3, <3>1
    <3>3. QED
      BY <1>8, <3>1, <3>2 DEF RX_done
  <2>11. QED
    BY <1>4, <1>8, <2>1, <2>5, <2>6, <2>7, <2>8, <2>9, <2>10 DEF ColumnsStored
<1>9. QED
  BY <1>1, <1>6, <1>7, <1>8, OpenBefore

LEMMA ColumnsSentKept ==
  ASSUME TypeOK, Control, Transmit, Receive,
         NEW w, NEW d, NEW r, NEW c, Move(w, d, r, c)
  PROVE  ColumnsSent'
<1> USE DEF Control
<1>1. SUFFICES ASSUME ~cut', state' = "ACK_STRIP"
               PROVE  ColumnsSent'
  BY DEF ColumnsSent
<1>2. /\ ~cut /\ (w => ~write)
  BY <1>1, Uncut
<1>3. /\ burst_count \in Nat /\ write_count \in 0 .. 3 /\ beat \in 0 .. 3 /\ word \in Nat
      /\ quiet \in Nat /\ BUS_GAP \in Nat /\ BUS_GAP >= 2 /\ cmd' = c
      /\ w \in BOOLEAN /\ r \in BOOLEAN
  BY StoredTypes, Constants, Edges DEF Move
<1>4. /\ upload' = upload /\ upload \in Uploads
  BY <1>1, UploadKept, OpenBefore DEF SoftwareInStep
<1>5. upload.columns \in Nat /\ upload.columns > 0
  BY <1>4, UploadWords
<1>6. CASE state = "ACK_BP" /\ RX_done(expected_packages) /\ ~rx_en'
  <2>1. /\ ~write /\ pc \notin Writing /\ valid_write /\ burst_count = Words /\ write_fall
    BY <1>2, <1>6, DoneAtRest DEF RX_done
  <2>2. pc \in {"columns_ready", "reset"} \/ cmd = "RESET"
    <3>1. pc # "breakpoints_ready"
      BY <2>1 DEF BusInStep, Writing
    <3>2. QED
      BY <1>2, <1>6, <2>1, <3>1 DEF Receive, BreakpointsSent, Writing
  <2>3. pc = "columns_ready" => quiet = 1
    BY <1>2, <1>6, <2>1 DEF Receive, BreakpointsSent
  <2>4. pc \in {"columns_ready", "reset", "init"} /\ ~w /\ ~r
    BY <2>2, PortMoves DEF CommandsInStep, Writing
  <2>5. /\ pc' \notin {"breakpoints", "columns"}
        /\ pc' = "columns_ready" => quiet' = 2
    BY <1>3, <2>3, <2>4 DEF Move, Single, Waits, Dies, checkStatus, waitForOutReady,
       waitForInValid, Wait
  <2>6. QED
    BY <1>6, <2>5 DEF ColumnsSent
<1>7. CASE state = "ACK_STRIP" /\ rx_en'
  <2>1. pc' # "breakpoints"
    <3>1. pc # "breakpoints"
      BY <1>2, <1>7 DEF Receive, ColumnsSent
    <3>2. pc = "breakpoints_ready" => cmd = "UPLOAD" /\ state = "IDLE"
      BY <1>7 DEF SoftwareInStep, CommandsInStep
    <3>3. QED
      BY <1>7, <3>1, <3>2 DEF Move, Single, Waits, Dies, Puts, Gets, Beats, checkStatus,
         waitForOutReady, waitForInValid, Wait
  <2>2. CASE ~rx_en
    <3>1. pc \notin Writing
      BY <1>2, <1>7, <2>2 DEF Receive, ColumnsSent, Writing
    <3>2. ~w
      BY <3>1, PortMoves
    <3>3. /\ ~write' /\ burst_count' = 0 /\ write_count' = write_count /\ ~write
      BY <1>1, <2>2, <3>2, ShutSteps
    <3>4. write_count = 0
      BY <1>2, <1>7, <3>1, <3>3 DEF Receive, RxOpen
    <3>5. pc' = "columns" => quiet' = 0 /\ word' = 0 /\ beat' = 0
      BY <3>1 DEF Move, Single, Waits, Dies, Puts, Gets, Beats, checkStatus,
         waitForOutReady, waitForInValid, Wait, Writing
    <3>6. QED
      BY <1>4, <1>5, <1>7, <2>1, <3>3, <3>4, <3>5 DEF ColumnsSent
  <2>3. CASE rx_en
    <3>1. /\ write' <=> w
          /\ rx_en_reg_1'
          /\ burst_count' = IF write /\ write_count = 3 THEN burst_count + 1 ELSE burst_count
          /\ write_count' = IF write /\ write_count = 3 THEN 0
                            ELSE IF write THEN write_count + 1 ELSE write_count
      BY <1>1, <1>7, <2>3, OpenSteps
    <3>2. CASE w
      <4>0. state = "ACK_STRIP" /\ w /\ ~cut'
        BY <1>1, <1>7, <3>2
      <4>1. /\ ~write /\ word = burst_count /\ beat = write_count
            /\ beat' = IF beat = 3 THEN 0 ELSE beat + 1
            /\ pc = "columns" /\ word < upload.columns
            /\ word' = IF beat = 3 THEN (word + 1) % upload.columns ELSE word
            /\ pc' = IF beat = 3 /\ word = upload.columns - 1 THEN "check" ELSE "columns"
        BY <4>0, PutBeat
      <4>2. (word + 1) % upload.columns = IF word + 1 = upload.columns THEN 0 ELSE word + 1
        BY <1>3, <1>5, <4>1, NextInBurst
      <4>3. burst_count' = burst_count /\ write_count' = write_count /\ write'
        BY <3>1, <3>2, <4>1
      <4>4. ASSUME pc' = "columns"
            PROVE  /\ word' < upload.columns
                   /\ 4 * word' + beat' = 4 * burst_count' + write_count' + 1
        <5>1. CASE beat = 3
          <6>1. word # upload.columns - 1
            BY <4>1, <4>4, <5>1
          <6>2. word' = word + 1 /\ beat' = 0
            BY <1>3, <1>5, <4>1, <4>2, <5>1, <6>1
          <6>3. QED
            BY <1>3, <1>5, <4>1, <4>3, <5>1, <6>1, <6>2
        <5>2. CASE beat # 3
          <6>1. word' = word /\ beat' = beat + 1
            BY <4>1, <5>2
          <6>2. QED
            BY <1>3, <1>5, <4>1, <4>3, <6>1
        <5>3. QED
          BY <5>1, <5>2
      <4>5. pc' \in {"columns", "check"}
        BY <4>1
      <4>6. QED
        BY <1>4, <1>7, <3>1, <4>3, <4>4, <4>5 DEF ColumnsSent
    <3>3. CASE ~w
      <4>0. ~write'
        BY <3>1, <3>3
      <4>1. CASE pc = "columns_ready"
        <5>1. ~write /\ burst_count = 0
          BY <1>2, <1>7, <2>3, <4>1 DEF Receive, ColumnsSent
        <5>2. write_count = 0
          BY <1>2, <1>7, <4>1, <5>1 DEF Receive, RxOpen, Writing
        <5>3. burst_count' = 0 /\ write_count' = 0
          BY <3>1, <5>1, <5>2
        <5>4. pc' = "columns" => word' = 0 /\ beat' = 0
          BY <4>1 DEF Move, Single, Waits, Dies, Puts, Gets, Beats, checkStatus,
             waitForOutReady, waitForInValid, Wait
        <5>5. QED
          BY <1>4, <1>5, <1>7, <2>1, <3>1, <4>0, <5>3, <5>4 DEF ColumnsSent
      <4>2. CASE pc = "columns"
        <5>1. /\ word < upload.columns
              /\ 4 * word + beat = 4 * burst_count + write_count + (IF write THEN 1 ELSE 0)
          BY <1>2, <1>7, <2>3, <4>2 DEF Receive, ColumnsSent
        <5>2. \/ pc' = "columns" /\ word' = word /\ beat' = beat
              \/ pc' = "reset"
          BY <3>3, <4>2 DEF Move, Single, Waits, Dies, Gets, checkStatus, waitForOutReady,
             waitForInValid, Wait
        <5>3. 4 * burst_count' + write_count'
                = 4 * burst_count + write_count + (IF write THEN 1 ELSE 0)
          BY <1>3, <3>1
        <5>4. QED
          BY <1>3, <1>4, <1>7, <3>1, <4>0, <5>1, <5>2, <5>3 DEF ColumnsSent
      <4>3. CASE pc \notin {"columns_ready", "columns"}
        <5>1. pc' \notin {"columns_ready", "columns"}
          BY <3>3, <4>3 DEF Move, Single, Waits, Dies, Gets, Beats, checkStatus,
             waitForOutReady, waitForInValid, Wait
        <5>2. QED
          BY <1>7, <2>1, <5>1 DEF ColumnsSent
      <4>4. QED
        BY <4>1, <4>2, <4>3
    <3>4. QED
      BY <1>3, <3>2, <3>3
  <2>4. QED
    BY <2>2, <2>3
<1>8. QED
  BY <1>1, <1>6, <1>7, OpenBefore

\* The words in order: those for the breakpoint RAM, then those for the image RAM.
StoredWords == [ram : {"breakpoint", "image"}, addr : Nat, data : Beat]

Entry(ram, n) == [ram |-> ram, addr |-> n, data |-> [ram |-> ram, word |-> n, beat |-> 3]]

LEMMA Table ==
  ASSUME NEW S, NEW n \in Nat, NEW f \in [1 .. n -> S]
  PROVE  f \in Seq(S) /\ Len(f) = n
<1>1. f \in Seq(S)
  BY SeqDef
<1>2. Len(f) \in Nat /\ DOMAIN f = 1 .. Len(f)
  BY <1>1, LenProperties
<1>3. 1 .. Len(f) = 1 .. n
  BY <1>2
<1>4. QED
  BY <1>1, <1>2, <1>3

LEMMA ExpectedWords ==
  ASSUME upload \in Uploads
  PROVE  /\ Expected \in Seq(StoredWords) /\ Len(Expected) = Words + upload.columns
         /\ \A n \in Nat : n < Words =>
              Expected[n + 1] = [ram |-> "breakpoint", addr |-> n, data |-> BreakpointBeat(n, 3)]
         /\ \A n \in Nat : n < upload.columns =>
              Expected[Words + n + 1] = [ram |-> "image", addr |-> n, data |-> ColumnBeat(n, 3)]
<1> DEFINE breakpoints == [i \in 1 .. WordsFor(upload.images) |->
                             [ram |-> "breakpoint", addr |-> i - 1,
                              data |-> [ram |-> "breakpoint", word |-> i - 1, beat |-> 3]]]
           columns     == [i \in 1 .. upload.columns |->
                             [ram |-> "image", addr |-> i - 1,
                              data |-> [ram |-> "image", word |-> i - 1, beat |-> 3]]]
<1>1. Words \in Nat /\ upload.columns \in Nat
  BY UploadWords
<1>2. \A i \in Nat : i > 0 => i - 1 \in Nat
  OBVIOUS
<1>3. \A n \in Nat, ram \in {"breakpoint", "image"} :
        Entry(ram, n) \in StoredWords
  BY DEF StoredWords, Beat, Entry
<1>4. breakpoints \in Seq(StoredWords) /\ Len(breakpoints) = Words
  <2>1. breakpoints = [i \in 1 .. Words |-> Entry("breakpoint", i - 1)]
    BY Zenon DEF Words, Entry
  <2>2. \A i \in 1 .. Words : Entry("breakpoint", i - 1) \in StoredWords
    BY <1>1, <1>2, <1>3
  <2>3. breakpoints \in [1 .. Words -> StoredWords]
    BY Zenon, <2>1, <2>2
  <2>4. QED
    BY <1>1, <2>3, Table
<1>5. columns \in Seq(StoredWords) /\ Len(columns) = upload.columns
  <2>1. columns = [i \in 1 .. upload.columns |-> Entry("image", i - 1)]
    BY Zenon DEF Entry
  <2>2. \A i \in 1 .. upload.columns : Entry("image", i - 1) \in StoredWords
    BY <1>1, <1>2, <1>3
  <2>3. columns \in [1 .. upload.columns -> StoredWords]
    BY Zenon, <2>1, <2>2
  <2>4. QED
    BY <1>1, <2>3, Table
<1>6. \A n \in Nat : n < Words =>
        breakpoints[n + 1] = [ram |-> "breakpoint", addr |-> n, data |-> BreakpointBeat(n, 3)]
  BY <1>1 DEF Words, BreakpointBeat
<1>7. \A n \in Nat : n < upload.columns =>
        columns[n + 1] = [ram |-> "image", addr |-> n, data |-> ColumnBeat(n, 3)]
  BY <1>1 DEF ColumnBeat
<1>8. Expected = breakpoints \o columns
  <2>1. 4 - 1 = 3
    OBVIOUS
  <2>2. QED
    BY <2>1 DEF Expected
<1> HIDE DEF breakpoints, columns
<1>9. /\ Expected \in Seq(StoredWords) /\ Len(Expected) = Words + upload.columns
      /\ \A i \in 1 .. Words : Expected[i] = breakpoints[i]
      /\ \A i \in 1 .. upload.columns : Expected[Words + i] = columns[i]
  <2>1. /\ Expected \in Seq(StoredWords) /\ Len(Expected) = Words + upload.columns
        /\ \A i \in 1 .. Words + upload.columns :
             Expected[i] = IF i <= Words THEN breakpoints[i] ELSE columns[i - Words]
    <3>1. /\ breakpoints \o columns \in Seq(StoredWords)
          /\ Len(breakpoints \o columns) = Len(breakpoints) + Len(columns)
          /\ \A i \in 1 .. Len(breakpoints) + Len(columns) :
               (breakpoints \o columns)[i]
                 = IF i <= Len(breakpoints) THEN breakpoints[i] ELSE columns[i - Len(breakpoints)]
      BY Zenon, <1>4, <1>5, ConcatProperties
    <3>2. QED
      BY Zenon, <1>4, <1>5, <1>8, <3>1
  <2>2. \A i \in 1 .. upload.columns : /\ (Words + i) - Words = i /\ ~(Words + i <= Words)
                                       /\ Words + i \in 1 .. Words + upload.columns
    BY <1>1
  <2>3. \A i \in 1 .. Words : i <= Words /\ i \in 1 .. Words + upload.columns
    BY <1>1
  <2>4. QED
    BY Zenon, <2>1, <2>2, <2>3
<1>10. ASSUME NEW n \in Nat, n < Words
       PROVE  n + 1 \in 1 .. Words
  BY <1>1, <1>10
<1>11. ASSUME NEW n \in Nat, n < upload.columns
       PROVE  n + 1 \in 1 .. upload.columns /\ Words + n + 1 = Words + (n + 1)
  BY <1>1, <1>11
<1>12. QED
  BY <1>6, <1>7, <1>9, <1>10, <1>11

\* One more word that belongs there keeps the order.
LEMMA NextInOrder ==
  ASSUME NEW S, NEW s \in Seq(S), NEW e \in Seq(S), NEW x \in S,
         \A i \in 1 .. Len(s) : s[i] = e[i], x = e[Len(s) + 1]
  PROVE  \A i \in 1 .. Len(Append(s, x)) : Append(s, x)[i] = e[i]
<1>1. Len(Append(s, x)) = Len(s) + 1 /\ Len(s) \in Nat
  OBVIOUS
<1>2. SUFFICES ASSUME NEW i \in 1 .. Len(s) + 1
               PROVE  Append(s, x)[i] = e[i]
  BY <1>1
<1>3. CASE i = Len(s) + 1
  BY <1>1, <1>3
<1>4. CASE i # Len(s) + 1
  <2>1. i \in 1 .. Len(s)
    BY <1>1, <1>4
  <2>2. QED
    BY <2>1
<1>5. QED
  BY <1>3, <1>4

\* The word that is written is the one that belongs next.
LEMMA FiledInOrder ==
  ASSUME TypeOK, Control, Receive, ~cut, state \in {"ACK_BP", "ACK_STRIP"}, valid_write
  PROVE  Filed = Expected[Len(stored) + 1] /\ Len(stored) + 1 <= Words + upload.columns
<1> USE DEF Control
<1>1. /\ Len(stored) \in Nat /\ burst_count \in Nat /\ addr_reg \in Nat
      /\ upload \in Uploads /\ Words \in Nat /\ upload.columns \in Nat
  BY StoredTypes, UploadWords DEF SoftwareInStep
<1>2. rx_en_reg_1 /\ ~first_rx_en /\ rx_en
  BY DEF Receive, RxOpen
<1>3. CASE state = "ACK_BP"
  <2>1. /\ Len(stored) + 1 = burst_count /\ burst_count <= Words /\ addr_reg = Len(stored)
        /\ PIO_OUT = BreakpointBeat(burst_count - 1, 3)
    BY <1>2, <1>3 DEF Receive, BreakpointsStored
  <2>2. burst_count - 1 = Len(stored) /\ Len(stored) < Words
    BY <1>1, <2>1
  <2>3. Filed = [ram |-> "breakpoint", addr |-> Len(stored),
                 data |-> BreakpointBeat(Len(stored), 3)]
    BY <1>3, <2>1, <2>2 DEF OutputsInStep, Filed
  <2>4. QED
    BY <1>1, <2>2, <2>3, ExpectedWords
<1>4. CASE state = "ACK_STRIP"
  <2>1. /\ Len(stored) + 1 = Words + burst_count /\ burst_count <= upload.columns
        /\ addr_reg + Words = Len(stored)
        /\ PIO_OUT = ColumnBeat(burst_count - 1, 3)
    BY <1>2, <1>4 DEF Receive, ColumnsStored
  <2>2. /\ burst_count - 1 = addr_reg /\ addr_reg < upload.columns
        /\ Len(stored) + 1 = Words + addr_reg + 1
    BY <1>1, <2>1
  <2>3. Filed = [ram |-> "image", addr |-> addr_reg, data |-> ColumnBeat(addr_reg, 3)]
    BY <1>2, <1>4, <2>1, <2>2 DEF OutputsInStep, Filed
  <2>4. Expected[Words + addr_reg + 1]
          = [ram |-> "image", addr |-> addr_reg, data |-> ColumnBeat(addr_reg, 3)]
    BY <1>1, <2>2, ExpectedWords
  <2>5. QED
    BY <1>1, <2>1, <2>2, <2>3, <2>4
<1>5. QED
  BY <1>3, <1>4

LEMMA InOrderKept ==
  ASSUME TypeOK, Control, Transmit, Receive,
         NEW w, NEW d, NEW r, NEW c, Move(w, d, r, c)
  PROVE  InOrder'
<1> USE DEF Control
<1>1. SUFFICES ASSUME ~cut', state' \in {"ACK_BP", "ACK_STRIP", "PROCESS_IMAGE"}
               PROVE  InOrder'
  BY DEF InOrder
<1>2. ~cut
  BY <1>1, Uncut
<1>3. /\ StateSteps(r)
      /\ stored' = IF state = "IDLE" /\ state' = "ACK_BP" THEN <<>>
                   ELSE IF valid_write THEN Append(stored, Filed) ELSE stored
  BY <1>2, Edges
<1>4. \/ state = "IDLE" /\ cmd = "UPLOAD" /\ state' = "ACK_BP"
      \/ state \in {"ACK_BP", "ACK_STRIP"} /\ state' \in {"ACK_BP", "ACK_STRIP"}
      \/ state = "ACK_STRIP" /\ state' = "PROCESS_IMAGE" /\ RX_done(expected_packages)
      \/ state = "PROCESS_IMAGE" /\ state' = "PROCESS_IMAGE"
  <2>1. state \in States
    BY DEF TypeOK
  <2>2. QED
    BY <1>1, <1>3, <2>1 DEF StateSteps, States, Overruled
<1>5. upload' = upload /\ Words' = Words /\ Expected' = Expected /\ upload \in Uploads
  BY <1>4, UploadKept DEF SoftwareInStep
<1>6. CASE state = "IDLE" /\ state' = "ACK_BP"
  <2>1. stored' = <<>>
    BY <1>3, <1>6
  <2>2. Len(stored') = 0
    BY <2>1
  <2>3. QED
    BY <1>6, <2>2 DEF InOrder
<1>7. CASE state \in {"ACK_BP", "ACK_STRIP"}
  <2>1. /\ Len(stored) \in Nat /\ stored \in Seq(StoredWords) /\ Filed \in StoredWords
        /\ Expected \in Seq(StoredWords) /\ Len(Append(stored, Filed)) = Len(stored) + 1
    BY <1>5, StoredTypes, ExpectedWords DEF StoredWords
  <2>2. \A i \in 1 .. Len(stored) : stored[i] = Expected[i]
    BY <1>2, <1>7 DEF Receive, InOrder
  <2>3. \A i \in 1 .. Len(stored') : stored'[i] = Expected[i]
    <3>1. CASE valid_write
      <4>1. Filed = Expected[Len(stored) + 1]
        BY <1>2, <1>7, <3>1, FiledInOrder
      <4>2. stored' = Append(stored, Filed)
        BY <1>3, <1>7, <3>1
      <4>3. QED
        BY <2>1, <2>2, <4>1, <4>2, NextInOrder
    <3>2. CASE ~valid_write
      BY <1>3, <1>7, <2>2, <3>2
    <3>3. QED
      BY <3>1, <3>2
  <2>4. ASSUME state' = "PROCESS_IMAGE"
        PROVE  Len(stored') = Words + upload.columns
    <3>1. state = "ACK_STRIP" /\ RX_done(expected_packages)
      BY <1>4, <1>7, <2>4
    <3>2. valid_write /\ rx_en /\ burst_count = upload.columns
      BY <1>2, <3>1, DoneAtRest
    <3>3. Len(stored) + 1 = Words + upload.columns
      BY <1>2, <3>1, <3>2 DEF Receive, ColumnsStored
    <3>4. stored' = Append(stored, Filed)
      BY <1>3, <3>1, <3>2
    <3>5. QED
      BY <2>1, <3>3, <3>4
  <2>5. QED
    BY <1>5, <2>3, <2>4 DEF InOrder
<1>8. CASE state = "PROCESS_IMAGE" /\ state' = "PROCESS_IMAGE"
  <2>1. ~valid_write
    BY <1>2, <1>8 DEF Receive, RxIdle
  <2>2. stored' = stored
    BY <1>3, <1>8, <2>1
  <2>3. QED
    BY <1>2, <1>5, <1>8, <2>2 DEF Receive, InOrder
<1>9. QED
  BY <1>4, <1>6, <1>7, <1>8

LEMMA ReceiveKept ==
  ASSUME TypeOK, Control, Transmit, Receive,
         NEW w, NEW d, NEW r, NEW c, Move(w, d, r, c)
  PROVE  Receive'
<1>1. RxIdle' /\ RxOpen'
  BY RxIdleKept, RxOpenKept
<1>2. BreakpointsStored' /\ BreakpointsSent'
  BY BreakpointsStoredKept, BreakpointsSentKept
<1>3. ColumnsStored' /\ ColumnsSent'
  BY ColumnsStoredKept, ColumnsSentKept
<1>4. InOrder'
  BY InOrderKept
<1>5. QED
  BY <1>1, <1>2, <1>3, <1>4 DEF Receive

-----------------------------------------------------------------------------
(* The invariant and what follows from it. *)

LEMMA InitialInvariant == Init => IInv
<1> SUFFICES ASSUME Init PROVE IInv
  OBVIOUS
<1> USE DEF Init, RxInit, TxInit
<1>1. TypeOK
  <2>1. NoData \in Beat /\ Word(0) \in Results
    BY Constants DEF NoData, Beat, Results
  <2>2. <<>> \in Seq(Results)
        /\ <<>> \in Seq([ram : {"breakpoint", "image"}, addr : Nat, data : Beat])
    OBVIOUS
  <2>3. RxTypes
    <3>1. {write, write_reg_1, write_fall, rx_en_reg_1, first_rx_en, waitrequest_out,
           valid_write, watchdog_rx_trigger} \subseteq BOOLEAN
      BY Zenon
    <3>2. write_count = 0 /\ burst_count = 0 /\ addr_reg = 0 /\ rx_watchdog_counter = 0
          /\ PIO_OUT \in Beat
      BY <2>1
    <3>3. QED
      BY <3>1, <3>2, Constants DEF RxTypes
  <2>4. TxTypes
    <3>1. {valid_read, read_reg_1, en_reg_1, en_rise_reg, header_sent_reg, valid_data_0,
           valid_data_1, valid_data_2, valid_data_3, watchdog_tx_trigger} \subseteq BOOLEAN
      BY Zenon
    <3>2. /\ read_count = 0 /\ send_line_count = 0 /\ addr_out = 0 /\ addr_out_reg = 0
          /\ filo_q = 0 /\ tx_watchdog_counter = 0 /\ avs_readdata \in Results
      BY <2>1
    <3>3. QED
      BY <3>1, <3>2, Constants DEF TxTypes
  <2>5. CtrlTypes
    BY Constants DEF CtrlTypes, Commands, States
  <2>6. SoftwareTypes
    <3>1. {held, cut} \subseteq BOOLEAN
      BY Zenon
    <3>2. /\ pc = "reset" /\ upload = NoUpload /\ word = 0 /\ beat = 0 /\ quiet = 0 /\ kills = 0
          /\ received = <<>> /\ stored = <<>> /\ ~held
      OBVIOUS
    <3>3. QED
      BY <2>2, <3>1, <3>2, Constants DEF SoftwareTypes, Places
  <2>7. QED
    BY <2>3, <2>4, <2>5, <2>6 DEF TypeOK, RxTypes, TxTypes, CtrlTypes, SoftwareTypes
<1>2. Control
  BY Constants DEF Control, OutputsInStep, CommandsInStep, SoftwareInStep, BusInStep,
     Writing, Reading
<1>3. Transmit
  <2>1. Received
    <3>1. Len(received) = 0
      OBVIOUS
    <3>2. QED
      BY <3>1 DEF Received
  <2>2. QED
    BY <2>1 DEF Transmit, TxIdle, TxClear, TxCalm, TxHeader, TxWords, TxReads
<1>4. Receive
  BY DEF Receive, RxIdle, RxOpen, BreakpointsStored, BreakpointsSent, ColumnsStored,
     ColumnsSent, InOrder
<1>5. QED
  BY <1>1, <1>2, <1>3, <1>4 DEF IInv

LEMMA InvariantKept == IInv /\ [Next]_vars => IInv'
<1> SUFFICES ASSUME IInv, [Next]_vars PROVE IInv'
  OBVIOUS
<1>1. TypeOK /\ Control /\ Transmit /\ Receive
  BY DEF IInv
<1>2. CASE Next
  <2>1. PICK w \in BOOLEAN, r \in BOOLEAN, d \in Beat, c \in Commands : Move(w, d, r, c)
    BY <1>1, <1>2, Moves
  <2>2. TxCalm /\ TxHeader /\ TxWords /\ TxReads
    BY <1>1 DEF Transmit
  <2>3. TypeOK'
    BY <1>1, <1>2, <2>1, <2>2, TypesKept
  <2>4. Control'
    BY <1>1, <2>1, <2>2, ControlKept
  <2>5. Transmit'
    BY <1>1, <2>1, TransmitKept
  <2>6. Receive'
    BY <1>1, <2>1, ReceiveKept
  <2>7. QED
    BY <2>3, <2>4, <2>5, <2>6 DEF IInv
<1>3. CASE UNCHANGED vars
  <2>1. UNCHANGED <<rxVars, txVars, ctrlVars, swVars, busVars, stored, cut, kills>>
    BY <1>3 DEF vars
  <2>2. /\ UNCHANGED <<write, PIO_OUT, write_reg_1, write_fall, rx_en_reg_1, first_rx_en,
                       waitrequest_out, write_count, valid_write, burst_count, addr_reg,
                       rx_watchdog_counter, watchdog_rx_trigger>>
        /\ UNCHANGED <<valid_read, read_reg_1, read_count, en_reg_1, en_rise_reg,
                       header_sent_reg, valid_data_0, valid_data_1, valid_data_2,
                       valid_data_3, send_line_count, tx_watchdog_counter,
                       watchdog_tx_trigger, addr_out, addr_out_reg, filo_q, avs_readdata>>
        /\ UNCHANGED <<cmd, state, out, strip_width, breakpoint_count, expected_packages,
                       headcount>>
        /\ UNCHANGED <<pc, upload, word, beat, received, held, quiet, stored, cut, kills>>
    BY <2>1 DEF rxVars, txVars, ctrlVars, swVars, busVars
  <2>3. TypeOK'
    BY <1>1, <2>2 DEF TypeOK
  <2>4. Control'
    BY <1>1, <2>2 DEF Control, OutputsInStep, CommandsInStep, SoftwareInStep, BusInStep
  <2>5. Transmit'
    BY <1>1, <2>2 DEF Transmit, TxIdle, TxClear, TxCalm, TxHeader, TxWords, TxReads, Received,
       HeaderOpen, Taken
  <2>6. Receive'
    <3>1. Words' = Words /\ Expected' = Expected
      BY <2>2 DEF Words, Expected
    <3>2. RxIdle' /\ RxOpen'
      BY <1>1, <2>2 DEF Receive, RxIdle, RxOpen
    <3>3. BreakpointsStored' /\ BreakpointsSent'
      BY <1>1, <2>2, <3>1 DEF Receive, BreakpointsStored, BreakpointsSent
    <3>4. ColumnsStored' /\ ColumnsSent'
      BY <1>1, <2>2, <3>1 DEF Receive, ColumnsStored, ColumnsSent
    <3>5. InOrder'
      BY <1>1, <2>2, <3>1 DEF Receive, InOrder
    <3>6. QED
      BY <3>2, <3>3, <3>4, <3>5 DEF Receive
  <2>7. QED
    BY <2>3, <2>4, <2>5, <2>6 DEF IInv
<1>4. QED
  BY <1>2, <1>3

LEMMA Invariance == Spec => []IInv
<1>1. Init => IInv
  BY InitialInvariant
<1>2. IInv /\ [Next]_vars => IInv'
  BY InvariantKept
<1> HIDE DEF IInv, Init, Next, vars
<1>3. QED
  BY <1>1, <1>2, PTL DEF Spec

\* The variables keep their types: the counters of both units stay in their range.
THEOREM Typing == Spec => []TypeOK
<1>1. IInv => TypeOK
  BY DEF IInv
<1>2. QED
  BY <1>1, Invariance, PTL

\* Unless a word was cut off, RX_UNIT has stored a prefix of what the software uploads, every
\* word in its RAM and at its address, and a strip that is worked off is all there.
THEOREM UploadsStored == Spec => []UploadStored
<1>1. IInv => UploadStored
  <2>1. SUFFICES ASSUME IInv, ~cut, state \in {"ACK_BP", "ACK_STRIP", "PROCESS_IMAGE"}
                 PROVE  /\ IsPrefix(stored, Expected)
                        /\ state = "PROCESS_IMAGE" => stored = Expected
    BY DEF UploadStored
  <2>2. TypeOK /\ Control /\ Receive
    BY <2>1 DEF IInv
  <2>3. upload \in Uploads
    BY <2>1, <2>2 DEF Control, SoftwareInStep
  <2>4. /\ stored \in Seq(StoredWords) /\ Expected \in Seq(StoredWords)
        /\ Len(Expected) = Words + upload.columns /\ Words \in Nat /\ upload.columns \in Nat
    BY <2>2, <2>3, StoredTypes, ExpectedWords, UploadWords DEF StoredWords
  <2>5. \A i \in 1 .. Len(stored) : stored[i] = Expected[i]
    BY <2>1, <2>2 DEF Receive, InOrder
  <2>6. Len(stored) <= Len(Expected)
    <3>1. CASE state = "ACK_BP"
      <4>1. Len(stored) <= burst_count /\ burst_count <= Words
        BY <2>1, <2>2, <3>1, StoredTypes DEF Receive, BreakpointsStored
      <4>2. QED
        BY <2>2, <2>4, <4>1, StoredTypes
    <3>2. CASE state = "ACK_STRIP" /\ rx_en
      <4>1. /\ Len(stored) + (IF valid_write THEN 1 ELSE 0) = Words + burst_count
            /\ burst_count <= upload.columns
        BY <2>1, <2>2, <3>2 DEF Receive, ColumnsStored
      <4>2. QED
        BY <2>2, <2>4, <4>1, StoredTypes
    <3>3. CASE state = "ACK_STRIP" /\ ~rx_en
      <4>1. Len(stored) = Words
        BY <2>1, <2>2, <3>3 DEF Receive, ColumnsStored
      <4>2. QED
        BY <2>4, <4>1
    <3>4. CASE state = "PROCESS_IMAGE"
      <4>1. Len(stored) = Words + upload.columns
        BY <2>1, <2>2, <3>4 DEF Receive, InOrder
      <4>2. QED
        BY <2>4, <4>1
    <3>5. QED
      BY <2>1, <3>1, <3>2, <3>3, <3>4
  <2>7. IsPrefix(stored, Expected)
    BY <2>4, <2>5, <2>6 DEF IsPrefix
  <2>8. ASSUME state = "PROCESS_IMAGE"
        PROVE  stored = Expected
    <3>1. Len(stored) = Len(Expected)
      BY <2>1, <2>2, <2>4, <2>8 DEF Receive, InOrder
    <3>2. QED
      BY <2>4, <2>5, <3>1, SeqEqual
  <2>9. QED
    BY <2>7, <2>8
<1>2. QED
  BY <1>1, Invariance, PTL

\* RX_UNIT and TX_UNIT report their last word only while the controller has them switched on.
THEOREM DoneWhileEnabled == Spec => []DoneOnlyEnabled
<1>1. IInv => DoneOnlyEnabled
  <2>1. SUFFICES ASSUME IInv PROVE DoneOnlyEnabled
    OBVIOUS
  <2>2. TypeOK /\ Control /\ Receive /\ TxCalm
    BY <2>1 DEF IInv, Transmit
  <2>3. ASSUME state \in {"ACK_BP", "ACK_STRIP"}, rx_done, ~cut
        PROVE  rx_en
    BY <2>2, <2>3, DoneAtRest DEF rx_done
  <2>4. read_reg_1 => tx_en
    BY <2>2 DEF TxCalm, Control, OutputsInStep
  <2>5. QED
    BY <2>3, <2>4 DEF DoneOnlyEnabled
<1>2. QED
  BY <1>1, Invariance, PTL

\* One look at the status is enough for a whole burst: only the port of a controller that has
\* refused a strip too long for the image RAM holds a beat up.
THEOREM BurstsFlow == Spec => []NoBeatHeld
<1>1. IInv => NoBeatHeld
  BY DEF IInv, Receive, RxIdle, NoBeatHeld
<1>2. QED
  BY <1>1, Invariance, PTL

\* The software reads the header and then every result word, once and in order.
THEOREM ResultsInOrder == Spec => []ResultsRead
<1>1. IInv => ResultsRead
  BY DEF IInv, Transmit, Received, ResultsRead
<1>2. QED
  BY <1>1, Invariance, PTL

\* The controller leaves WAIT_TX with the last word read, never earlier.
THEOREM ResultsToTheLast == Spec => ResultsComplete
<1>1. IInv /\ [Next]_vars =>
        [state = "WAIT_TX" /\ state' = "WAIT_ACK" => Len(received) = READS * (headcount + 1)]_vars
  <2>1. SUFFICES ASSUME IInv, Next, state = "WAIT_TX", state' = "WAIT_ACK"
                 PROVE  Len(received) = READS * (headcount + 1)
    OBVIOUS
  <2>2. TypeOK /\ Control /\ TxCalm /\ TxHeader /\ TxWords /\ TxReads
    BY <2>1 DEF IInv, Transmit
  <2>3. PICK w \in BOOLEAN, r \in BOOLEAN, d \in Beat, c \in Commands : Move(w, d, r, c)
    BY <2>1, <2>2, Moves
  <2>4. headcount = send_line_count /\ read_reg_1
    <3>1. StateSteps(r)
      BY <2>2, <2>3, Edges
    <3>2. ~Overruled
      BY <2>1, <3>1 DEF StateSteps, Overruled
    <3>3. QED
      BY <2>1, <3>1, <3>2 DEF StateSteps
  <2>5. ~HeaderOpen /\ read_count = 0
    <3>1. headcount \in Nat
      BY <2>2, Constants DEF TypeOK
    <3>2. ~HeaderOpen
      BY <2>1, <2>2, <2>4, <3>1 DEF TxHeader
    <3>3. ~valid_data_3
      BY <2>1, <2>2, <2>4, <3>2 DEF TxWords
    <3>4. QED
      BY <2>1, <2>2, <3>2, <3>3 DEF TxWords
  <2>6. Taken = 4 * (headcount + 1) /\ Taken > 0
    BY <2>2, <2>4, <2>5, Constants DEF Taken, TypeOK
  <2>7. QED
    BY <2>1, <2>2, <2>6 DEF TxReads
<1> HIDE DEF IInv, Next, vars
<1>2. QED
  BY <1>1, Invariance, PTL DEF Spec, ResultsComplete
=============================================================================
