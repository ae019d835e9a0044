------------------------------ MODULE AhimCore ------------------------------
(***************************************************************************)
(* The AHIM core controller (ahim_core_controller.sv): the FSM that        *)
(* decodes the HPS commands, walks the accelerator through the images of a *)
(* strip and hands the results over.  One step is one clock cycle.         *)
(*                                                                         *)
(* The controller's registers are modelled one for one.  Around it, as far *)
(* as its inputs need them: the command register the HPS writes, the       *)
(* breakpoint RAM with its two-cycle read latency, the OCR accelerator     *)
(* (which may take any time, or never answer) and the line counter of      *)
(* OCR_RX_UNIT.  RX_UNIT and TX_UNIT are reduced to the pulses they send.   *)
(***************************************************************************)
EXTENDS Naturals, FiniteSets

CONSTANTS
  IMAGE_RAM_DEPTH,   \* columns the image RAM holds (7812 in the build)
  MIN_STRIP_SIZE,    \* shortest strip ACK_BP accepts (20)
  T_RAM_STORE,       \* cycles granted to the result RAM (5)
  BP_RAM_SIZE,       \* breakpoints the RAM holds (256): bp_addr wraps there
  OCR_WD_UNIT,       \* watchdog_ocr counts in units of so many cycles (2^12)
  InitPayloads,      \* the INIT payloads the HPS may send
  UploadPayloads,    \* the UPLOAD payloads the HPS may send
  DigitCounts,       \* values of output_dig_detect
  MaxLines           \* bound of this model: result words of one batch

InitPayload == [max_digits : 0..15, min_digits : 0..15, watchdog_ocr : 0..255,
                ocr_break : BOOLEAN, ignore_invalid_cmd : BOOLEAN]

UploadPayload == [strip_width : Nat, breakpoint_count : 0 .. BP_RAM_SIZE - 1]

ASSUME SizesAssumption ==
  /\ IMAGE_RAM_DEPTH \in Nat /\ MIN_STRIP_SIZE \in Nat /\ MaxLines \in Nat
  /\ T_RAM_STORE \in Nat /\ T_RAM_STORE > 1
  /\ BP_RAM_SIZE \in Nat /\ BP_RAM_SIZE > 1
  /\ OCR_WD_UNIT \in Nat \ {0}

ASSUME PayloadsAssumption ==
  /\ InitPayloads \subseteq InitPayload
  /\ UploadPayloads \subseteq UploadPayload
  /\ DigitCounts \subseteq Nat

ErrorStates == {"ERROR_RX", "ERROR_TX", "ERROR_COM", "ERROR_OCR", "ERROR_OVERFLOW"}

\* cu_fsm_state_e.
States == ErrorStates \union
  {"OFFLINE", "IDLE", "ACK_BP", "ACK_STRIP", "PROCESS_IMAGE", "NEXT_IMAGE",
   "NEXT_IMAGE_VALID", "WAIT_POST_RX", "WAIT_RAM_STORED", "WAIT_TX", "WAIT_ACK"}

\* cu_cmd_e; "MANY" stands for the opcodes with more than one bit set.
Opcodes == {"NO_CMD", "INIT", "UPLOAD", "ACK", "RESET", "MANY"}

\* The one-bit outputs the FSM registers.
Outputs == {"rx_en", "tx_en", "select_mode", "image_loaded", "CU_rst",
            "Clear_buff", "final_image", "error_flag", "busy"}

VARIABLES
  PIO_CMD,                 \* opcode in the HPS command register
  cmd_prev, cmd_raw,       \* the one-shot of that register
  valid_cmd_1,             \* the command the previous state accepted
  cfg,                     \* what INIT latched
  strip_width, breakpoint_count,
  state,
  out,                     \* the registered outputs that are high
  image_processed, images_with_digits,
  bp_addr, start_addr, end_addr,
  ram_count, headcount, ocr_rx_done_1,
  ocr_watchdog_counter, watchdog_ocr_trigger,
  bp_ram, bp_rd, breakpoint,           \* breakpoint RAM, its two read registers
  ocr, ocr_age, ocr_digits, Pixel_addr, \* the accelerator
  Result_LC                            \* words OCR_RX_UNIT has pushed

cmdVars   == <<PIO_CMD, cmd_prev, cmd_raw, valid_cmd_1>>
cfgVars   == <<cfg, strip_width, breakpoint_count>>
batchVars == <<image_processed, images_with_digits, bp_addr, start_addr, end_addr,
               ram_count, headcount, ocr_rx_done_1>>
wdVars    == <<ocr_watchdog_counter, watchdog_ocr_trigger>>
bpVars    == <<bp_ram, bp_rd, breakpoint>>
ocrVars   == <<ocr, ocr_age, ocr_digits, Pixel_addr>>
vars      == <<cmdVars, cfgVars, state, out, batchVars, wdVars, bpVars, ocrVars, Result_LC>>

NoConfig == [max_digits |-> 0, min_digits |-> 0, watchdog_ocr |-> 0,
             ocr_break |-> FALSE, ignore_invalid_cmd |-> FALSE]

Init ==
  /\ PIO_CMD = "NO_CMD" /\ cmd_prev = "NO_CMD" /\ cmd_raw = "NO_CMD"
  /\ valid_cmd_1 = "INIT"
  /\ cfg = [NoConfig EXCEPT !.watchdog_ocr = 10]
  /\ strip_width = 0 /\ breakpoint_count = 0
  /\ state = "OFFLINE" /\ out = {}
  /\ image_processed = 0 /\ images_with_digits = 0
  /\ bp_addr = 0 /\ start_addr = 0 /\ end_addr = 0
  /\ ram_count = 0 /\ headcount = 0 /\ ocr_rx_done_1 = FALSE
  /\ ocr_watchdog_counter = 0 /\ watchdog_ocr_trigger = FALSE
  /\ bp_ram = [a \in 0 .. BP_RAM_SIZE - 1 |-> 0] /\ bp_rd = 0 /\ breakpoint = 0
  /\ ocr = "idle" /\ ocr_age = 0 /\ ocr_digits = 0 /\ Pixel_addr = 0
  /\ Result_LC = 0

-----------------------------------------------------------------------------
(* Combinational signals.  A definition named <definition>_<fault> is that     *)
(* definition with a bug a maintainer could introduce; no action uses it.      *)
(* The mutation runs put it in the place of the definition below it to show    *)
(* that the properties notice.                                                 *)

\* decode_cmd: RESET is always accepted, the others only when the state of
\* the cycle before offered them.
cmd == IF cmd_raw \in {"NO_CMD", "RESET", valid_cmd_1} THEN cmd_raw ELSE "INVALID"

at_breakpoint_count == breakpoint_count = image_processed
stip_has_LPs        == images_with_digits # 0
at_ram_count        == ram_count + 1 = T_RAM_STORE
watchdog_ocr_conf   == cfg.watchdog_ocr * OCR_WD_UNIT
ocr_done            == ocr = "done"

\* bp_addr is just wide enough for the RAM.
bp_addr_plus_1_Unbounded == bp_addr + 1
bp_addr_plus_1 == (bp_addr + 1) % BP_RAM_SIZE

\* Result_LC moves one cycle after ocr_rx_done, hence the delayed copy.
headcount_latch_Early(push) == push = "done"
headcount_latch(push) == ocr_rx_done_1

valid_output == /\ ocr_done
                /\ cfg.min_digits <= ocr_digits
                /\ ocr_digits <= cfg.max_digits

overflow_flag == strip_width > IMAGE_RAM_DEPTH \/ Pixel_addr >= IMAGE_RAM_DEPTH

\* The priority chain that ends the FSM's always_comb.  fault is the watchdog
\* pulse of RX_UNIT or TX_UNIT; when both are high RX_UNIT's wins.
Override(fault) ==
  IF cmd = "INVALID" /\ ~cfg.ignore_invalid_cmd THEN "ERROR_COM"
  ELSE IF cmd = "RESET" THEN "OFFLINE"
  ELSE IF fault # "none" THEN fault
  ELSE IF watchdog_ocr_trigger /\ cfg.ocr_break THEN "ERROR_OCR"
  ELSE IF overflow_flag THEN "ERROR_OVERFLOW"
  ELSE "none"

OverrideOutputs_KeepsOcr(o) ==
  IF o = "none" THEN {} ELSE IF o = "OFFLINE" THEN {"CU_rst", "Clear_buff"}
  ELSE {"error_flag"}

\* Every override stops the accelerator.
OverrideOutputs(o) ==
  IF o = "none" THEN {} ELSE IF o = "OFFLINE" THEN {"CU_rst", "Clear_buff"}
  ELSE {"CU_rst", "error_flag"}

Faults == {"none", "ERROR_RX", "ERROR_TX"}

-----------------------------------------------------------------------------
(* The registers and the environment, each as it moves at a clock edge. *)

\* The HPS changes the command register at most every third cycle: a write
\* over the lightweight bridge takes longer.  The opcode passes the one-shot
\* only when it differs from the one before.
CommandEdge ==
  /\ \/ PIO_CMD' = PIO_CMD
     \/ /\ PIO_CMD = cmd_prev /\ cmd_raw = "NO_CMD"
        /\ PIO_CMD' \in Opcodes \ {PIO_CMD}
  /\ cmd_prev' = PIO_CMD
  /\ cmd_raw' = IF PIO_CMD # cmd_prev THEN PIO_CMD ELSE "NO_CMD"

\* INIT replaces values the hardware could not work with.  The default of
\* max_digits is the constant 10 cast to three bits (mod 8), that of min_digits is
\* taken only when max_digits is 0 as well.
Latched(p) ==
  [max_digits         |-> IF p.max_digits > 1 THEN p.max_digits ELSE 10 % 8,
   min_digits         |-> IF p.min_digits > 0 \/ p.max_digits > p.min_digits
                          THEN p.min_digits ELSE 1,
   watchdog_ocr       |-> IF p.watchdog_ocr > 0 THEN p.watchdog_ocr ELSE 1,
   ocr_break          |-> p.ocr_break,
   ignore_invalid_cmd |-> p.ignore_invalid_cmd]

ConfigEdge ==
  \/ /\ cmd = "RESET"
     /\ cfg' = NoConfig /\ strip_width' = 0 /\ breakpoint_count' = 0
  \/ /\ cmd = "INIT"
     /\ \E p \in InitPayloads : cfg' = Latched(p)
     /\ UNCHANGED <<strip_width, breakpoint_count>>
  \/ /\ cmd = "UPLOAD"
     /\ \E p \in UploadPayloads :
          /\ strip_width' = p.strip_width
          /\ breakpoint_count' = p.breakpoint_count
     /\ UNCHANGED cfg
  \/ /\ cmd \notin {"RESET", "INIT", "UPLOAD"}
     /\ UNCHANGED cfgVars

\* Counters and image window.  pulses are the FSM's unregistered strobes of
\* this cycle; Clear_buff overrules them.
BatchEdge(pulses, push) ==
  /\ ocr_rx_done_1' = (push = "done")
  /\ \/ /\ "Clear_buff" \in out
        /\ image_processed' = 0 /\ images_with_digits' = 0
        /\ bp_addr' = 0 /\ start_addr' = 0 /\ end_addr' = 0
        /\ ram_count' = 0 /\ headcount' = 0
     \/ /\ "Clear_buff" \notin out
        /\ headcount' = IF headcount_latch(push) THEN Result_LC ELSE headcount
        /\ image_processed' = IF "image_processed_add" \in pulses
                              THEN image_processed + 1 ELSE image_processed
        /\ images_with_digits' = IF "images_with_digits_add" \in pulses
                                 THEN images_with_digits + 1 ELSE images_with_digits
        /\ IF pulses \intersect {"update_img_addr", "read_next_bp"} # {}
           THEN end_addr' = breakpoint /\ bp_addr' = bp_addr_plus_1
           ELSE UNCHANGED <<end_addr, bp_addr>>
        /\ start_addr' = IF "update_img_addr" \in pulses THEN end_addr + 1 ELSE start_addr
        /\ ram_count' = IF "set_ram_count" \notin pulses THEN 0
                        ELSE IF at_ram_count THEN ram_count ELSE ram_count + 1

\* The OCR watchdog runs from image_loaded to ocr_done or CU_rst.
WatchdogCleared_ByAnswerOnly == ocr_done /\ ~watchdog_ocr_trigger
WatchdogCleared == "CU_rst" \in out \/ (ocr_done /\ ~watchdog_ocr_trigger)

WatchdogEdge ==
  \/ /\ WatchdogCleared
     /\ ocr_watchdog_counter' = 0 /\ watchdog_ocr_trigger' = FALSE
  \/ /\ ~WatchdogCleared
     /\ IF "image_loaded" \in out \/ ocr_watchdog_counter > 0
        THEN /\ watchdog_ocr_trigger' = (ocr_watchdog_counter = watchdog_ocr_conf)
             /\ ocr_watchdog_counter' = IF ocr_watchdog_counter = watchdog_ocr_conf
                                        THEN 0 ELSE ocr_watchdog_counter + 1
        ELSE UNCHANGED wdVars

\* The breakpoints the software computes for an upload: the last column of
\* each image, ascending, the last one the last column of the strip.  The
\* entries beyond them keep what an earlier batch left there.
Breakpoints(count, width) ==
  {b \in [0 .. count - 1 -> 0 .. width - 1] :
     /\ b[count - 1] = width - 1
     /\ \A i \in 1 .. count - 1 : b[i - 1] < b[i]}

BreakpointEdge(pulses) ==
  /\ bp_rd' = bp_addr
  /\ breakpoint' = bp_ram[bp_rd]
  /\ IF "bp_loaded" \in pulses
     THEN \E b \in Breakpoints(breakpoint_count, strip_width) :
            bp_ram' = [a \in DOMAIN bp_ram |->
                         IF a < breakpoint_count THEN b[a] ELSE bp_ram[a]]
     ELSE UNCHANGED bp_ram

\* The accelerator: idle until image_loaded, done for one cycle, idle again;
\* CU_rst stops it.  The number of cycles it takes is open.  Pixel_addr shows
\* ADDR_PIXEL_START while it idles and moves up to ADDR_PIXEL_END in between.
OcrEdge ==
  /\ \/ /\ "CU_rst" \in out \/ ocr_done \/ (ocr = "idle" /\ "image_loaded" \notin out)
        /\ ocr' = "idle" /\ ocr_age' = 0 /\ ocr_digits' = 0
     \/ /\ "CU_rst" \notin out /\ ocr = "idle" /\ "image_loaded" \in out
        /\ ocr' = "run" /\ ocr_age' = 1 /\ ocr_digits' = 0
     \/ /\ "CU_rst" \notin out /\ ocr = "run"
        /\ ocr_age' = ocr_age + 1
        /\ \/ ocr' = "run" /\ ocr_digits' = 0
           \/ ocr' = "done" /\ ocr_digits' \in DigitCounts
  /\ IF ocr = "run" THEN Pixel_addr' \in {Pixel_addr, end_addr}
                    ELSE Pixel_addr' = start_addr

\* OCR_RX_UNIT pushes words while plates are shifted in, and the closing one
\* ("done") only under final_image.
ResultEdge(push) ==
  /\ push # "none" => /\ Result_LC < MaxLines
                      /\ state \in {"PROCESS_IMAGE", "NEXT_IMAGE", "NEXT_IMAGE_VALID",
                                    "WAIT_POST_RX"}
  /\ push = "done" => "final_image" \in out
  /\ Result_LC' = IF "Clear_buff" \in out THEN 0
                  ELSE IF push = "none" THEN Result_LC ELSE Result_LC + 1

\* One clock edge with FSM decision (to, outs), accepted command valid and
\* strobes pulses, unless the priority chain overrules it.  An invalid command
\* leaves valid_cmd as the state chose it.
Edge(to, outs, valid, pulses, fault, push) ==
  LET o == Override(fault) IN
  /\ state' = IF o = "none" THEN to ELSE o
  /\ out' = outs \union OverrideOutputs(o)
  /\ valid_cmd_1' = IF o \in {"none", "ERROR_COM"} THEN valid
                    ELSE IF o = "OFFLINE" THEN "INIT" ELSE "RESET"
  /\ CommandEdge /\ ConfigEdge
  /\ BatchEdge(pulses, push)
  /\ WatchdogEdge
  /\ BreakpointEdge(pulses)
  /\ OcrEdge
  /\ ResultEdge(push)

\* An edge at which OCR_RX_UNIT closes no word: the states after the results
\* are stored and those before the first image.
Quiet(to, outs, valid, pulses, fault) == Edge(to, outs, valid, pulses, fault, "none")

-----------------------------------------------------------------------------
(* The FSM, one action per state. *)

Offline(fault) ==
  /\ state = "OFFLINE"
  /\ \/ cmd = "INIT" /\ Quiet("IDLE", {}, "NO_CMD", {}, fault)
     \/ cmd # "INIT" /\ Quiet("OFFLINE", {}, "INIT", {}, fault)

Idle(fault) ==
  /\ state = "IDLE"
  /\ \/ cmd = "UPLOAD" /\ Quiet("ACK_BP", {"rx_en"}, "NO_CMD", {}, fault)
     \/ cmd # "UPLOAD" /\ Quiet("IDLE", {}, "UPLOAD", {}, fault)

\* RX_UNIT reports its last word (rx_done) only while rx_en is high.
AckBp(fault) ==
  /\ state = "ACK_BP"
  /\ \/ /\ breakpoint_count = 0 \/ strip_width < MIN_STRIP_SIZE
        /\ Quiet("ERROR_COM", {"error_flag"}, "NO_CMD", {}, fault)
     \/ /\ breakpoint_count # 0 /\ strip_width >= MIN_STRIP_SIZE
        /\ \/ /\ "rx_en" \in out
              /\ Quiet("ACK_STRIP", {}, "NO_CMD", {"bp_loaded"}, fault)
           \/ Quiet("ACK_BP", {"rx_en"}, "NO_CMD", {}, fault)

AckStrip_NoPrefetch(fault) ==
  /\ state = "ACK_STRIP"
  /\ \/ /\ "rx_en" \in out
        /\ Quiet("PROCESS_IMAGE", {"image_loaded"}, "NO_CMD", {}, fault)
     \/ Quiet("ACK_STRIP", {"rx_en", "select_mode"}, "NO_CMD", {}, fault)

AckStrip(fault) ==
  /\ state = "ACK_STRIP"
  /\ \/ /\ "rx_en" \in out
        /\ Quiet("PROCESS_IMAGE", {"image_loaded"}, "NO_CMD", {"read_next_bp"}, fault)
     \/ Quiet("ACK_STRIP", {"rx_en", "select_mode"}, "NO_CMD", {}, fault)

\* The image is over when the accelerator answers or, without ocr_break, when
\* its watchdog fires.
ImageOver == ocr_done \/ (watchdog_ocr_trigger /\ ~cfg.ocr_break)

ProcessImage(fault, push) ==
  /\ state = "PROCESS_IMAGE"
  /\ \/ /\ valid_output
        /\ Edge("NEXT_IMAGE_VALID", {"CU_rst"}, "NO_CMD",
                {"update_img_addr", "images_with_digits_add", "image_processed_add"},
                fault, push)
     \/ /\ ~valid_output
        /\ ImageOver
        /\ Edge("NEXT_IMAGE", {"CU_rst"}, "NO_CMD",
                {"update_img_addr", "image_processed_add"}, fault, push)
     \/ /\ ~ImageOver
        /\ Edge("PROCESS_IMAGE", {"busy"}, "NO_CMD", {}, fault, push)

NextImage_NoElse(fault, push) ==
  /\ state = "NEXT_IMAGE"
  /\ \/ /\ at_breakpoint_count /\ stip_has_LPs
        /\ Edge("WAIT_POST_RX", {"final_image"}, "NO_CMD", {}, fault, push)
     \/ /\ at_breakpoint_count /\ ~stip_has_LPs
        /\ Edge("WAIT_ACK", {}, "NO_CMD", {}, fault, push)
     \/ /\ ~at_breakpoint_count
        /\ Edge("NEXT_IMAGE", {}, "NO_CMD", {}, fault, push)

NextImage_NoPlateCheck(fault, push) ==
  /\ state = "NEXT_IMAGE"
  /\ \/ /\ at_breakpoint_count
        /\ Edge("WAIT_POST_RX", {"final_image"}, "NO_CMD", {}, fault, push)
     \/ /\ ~at_breakpoint_count
        /\ Edge("PROCESS_IMAGE", {"image_loaded"}, "NO_CMD", {}, fault, push)

NextImage(fault, push) ==
  /\ state = "NEXT_IMAGE"
  /\ \/ /\ at_breakpoint_count /\ stip_has_LPs
        /\ Edge("WAIT_POST_RX", {"final_image"}, "NO_CMD", {}, fault, push)
     \/ /\ at_breakpoint_count /\ ~stip_has_LPs
        /\ Edge("WAIT_ACK", {}, "NO_CMD", {}, fault, push)
     \/ /\ ~at_breakpoint_count
        /\ Edge("PROCESS_IMAGE", {"image_loaded"}, "NO_CMD", {}, fault, push)

NextImageValid(fault, push) ==
  /\ state = "NEXT_IMAGE_VALID"
  /\ \/ /\ at_breakpoint_count
        /\ Edge("WAIT_POST_RX", {"final_image"}, "NO_CMD", {}, fault, push)
     \/ /\ ~at_breakpoint_count
        /\ Edge("PROCESS_IMAGE", {"image_loaded"}, "NO_CMD", {}, fault, push)

WaitPostRx(fault, push) ==
  /\ state = "WAIT_POST_RX"
  /\ \/ /\ push = "done"
        /\ Edge("WAIT_RAM_STORED", {}, "NO_CMD", {"set_ram_count"}, fault, push)
     \/ /\ push # "done"
        /\ Edge("WAIT_POST_RX", {"final_image"}, "NO_CMD", {}, fault, push)

WaitRamStored(fault) ==
  /\ state = "WAIT_RAM_STORED"
  /\ \/ at_ram_count /\ Quiet("WAIT_TX", {"tx_en"}, "NO_CMD", {}, fault)
     \/ ~at_ram_count /\ Quiet("WAIT_RAM_STORED", {}, "NO_CMD", {"set_ram_count"}, fault)

WaitTx(fault) ==
  /\ state = "WAIT_TX"
  /\ \/ Quiet("WAIT_ACK", {}, "NO_CMD", {}, fault)           \* tx_done
     \/ Quiet("WAIT_TX", {"CU_rst", "tx_en"}, "NO_CMD", {}, fault)

WaitAck_KeepsBuffers(fault) ==
  /\ state = "WAIT_ACK"
  /\ \/ cmd = "ACK" /\ Quiet("IDLE", {}, "NO_CMD", {}, fault)
     \/ cmd # "ACK" /\ Quiet("WAIT_ACK", {}, "ACK", {}, fault)

WaitAck(fault) ==
  /\ state = "WAIT_ACK"
  /\ \/ cmd = "ACK" /\ Quiet("IDLE", {"Clear_buff"}, "NO_CMD", {}, fault)
     \/ cmd # "ACK" /\ Quiet("WAIT_ACK", {}, "ACK", {}, fault)

Error_AcceptsInit(fault) ==
  /\ state \in ErrorStates
  /\ \/ cmd = "INIT" /\ Quiet("IDLE", {}, "NO_CMD", {}, fault)
     \/ cmd # "INIT" /\ Quiet(state, {"error_flag"}, "INIT", {}, fault)

Error(fault) ==
  /\ state \in ErrorStates
  /\ Quiet(state, {"error_flag"}, "RESET", {}, fault)

Next ==
  \E fault \in Faults :
    \/ Offline(fault) \/ Idle(fault) \/ AckBp(fault) \/ AckStrip(fault)
    \/ \E push \in {"none", "push", "done"} :
         \/ ProcessImage(fault, push) \/ NextImage(fault, push)
         \/ NextImageValid(fault, push) \/ WaitPostRx(fault, push)
    \/ WaitRamStored(fault) \/ WaitTx(fault) \/ WaitAck(fault) \/ Error(fault)

Spec == Init /\ [][Next]_vars

\* The clock does not stop; nothing is assumed of the HPS or the accelerator.
FairSpec == Spec /\ WF_vars(Next)

-----------------------------------------------------------------------------
(* Properties. *)

BatchStates == {"ACK_BP", "ACK_STRIP", "PROCESS_IMAGE", "NEXT_IMAGE", "NEXT_IMAGE_VALID",
                "WAIT_POST_RX", "WAIT_RAM_STORED", "WAIT_TX", "WAIT_ACK"}

TypeOK ==
  /\ PIO_CMD \in Opcodes /\ cmd_prev \in Opcodes /\ cmd_raw \in Opcodes
  /\ valid_cmd_1 \in Opcodes \ {"MANY"}
  /\ cfg \in InitPayload
  /\ strip_width \in Nat /\ breakpoint_count \in 0 .. BP_RAM_SIZE - 1
  /\ state \in States /\ out \subseteq Outputs
  /\ image_processed \in Nat /\ images_with_digits \in Nat
  /\ bp_addr \in 0 .. BP_RAM_SIZE - 1 /\ start_addr \in Nat /\ end_addr \in Nat
  /\ ram_count \in Nat /\ headcount \in Nat /\ ocr_rx_done_1 \in BOOLEAN
  /\ ocr_watchdog_counter \in Nat /\ watchdog_ocr_trigger \in BOOLEAN
  /\ bp_ram \in [0 .. BP_RAM_SIZE - 1 -> Nat]
  /\ bp_rd \in 0 .. BP_RAM_SIZE - 1 /\ breakpoint \in Nat
  /\ ocr \in {"idle", "run", "done"} /\ ocr_age \in Nat /\ ocr_digits \in Nat
  /\ Pixel_addr \in Nat /\ Result_LC \in 0 .. MaxLines

\* The counters of a batch.  No image is counted twice or skipped: the FSM ends
\* a batch only where the count is met exactly (==), so running past it once
\* would go on through stale breakpoints; and results are announced only when
\* all images are done and at least one had digits.
BatchCounters ==
  /\ state \in {"ACK_BP", "ACK_STRIP"} => image_processed = 0 /\ images_with_digits = 0
  /\ state \in BatchStates =>
       images_with_digits <= image_processed /\ image_processed <= breakpoint_count
  /\ state = "PROCESS_IMAGE" => image_processed < breakpoint_count
  /\ state \in {"WAIT_POST_RX", "WAIT_RAM_STORED", "WAIT_TX", "WAIT_ACK"} =>
       image_processed = breakpoint_count
  /\ state \in {"NEXT_IMAGE_VALID", "WAIT_POST_RX", "WAIT_RAM_STORED", "WAIT_TX"} =>
       images_with_digits > 0

\* The accelerator is always shown the columns of the image the FSM counts
\* next, although the window is read through a RAM with two cycles of latency
\* and one read ahead: image n runs from the column after breakpoint n-1 to
\* breakpoint n.
ImageWindow ==
  state = "PROCESS_IMAGE" =>
    /\ start_addr = IF image_processed = 0 THEN 0 ELSE bp_ram[image_processed - 1] + 1
    /\ end_addr = bp_ram[image_processed]

\* The accelerator works exactly when the FSM waits for it: in PROCESS_IMAGE it
\* has been started or is running, and whatever takes the FSM out of
\* PROCESS_IMAGE (an answer, a watchdog, a command, an error) stops it.
OcrInStep ==
  /\ state = "PROCESS_IMAGE" => ("image_loaded" \in out) # (ocr # "idle")
  /\ ocr # "idle" /\ state # "PROCESS_IMAGE" => "CU_rst" \in out

\* An image is given up only after its own full watchdog time: no count left
\* over from the image before is held against it.
WatchdogFull ==
  state = "PROCESS_IMAGE" /\ watchdog_ocr_trigger => ocr_age > watchdog_ocr_conf

\* The header TX_UNIT sends is the number of words that were pushed, for as
\* long as it may be read: the latch follows the last push in time.
HeadcountCurrent == "tx_en" \in out => headcount = Result_LC

\* A halted controller leaves its error states only for another of them or,
\* on RESET, for OFFLINE.
HaltedUntilReset ==
  [][(state \in ErrorStates) =>
       \/ state' \in ErrorStates
       \/ cmd = "RESET" /\ state' = "OFFLINE" /\ "Clear_buff" \in out']_vars

\* The protocol's description of a watchdog without ocr_break: the plate is
\* skipped.  The accelerator may still answer in the cycle in which CU_rst
\* reaches it, and valid_output does not ask for the state: OCR_RX_UNIT takes the
\* plate the FSM has just skipped.
SkippedPlateNotTaken == valid_output => state # "NEXT_IMAGE"

\* The protocol the controller implements, register transfers and pipelines
\* hidden: ACK_BP's and ACK_STRIP's counts and the leftovers of an aborted batch
\* do not exist in it.
CountedStates == {"PROCESS_IMAGE", "NEXT_IMAGE", "NEXT_IMAGE_VALID", "WAIT_POST_RX",
                  "WAIT_RAM_STORED", "WAIT_TX", "WAIT_ACK"}

ProtocolPhase == IF state \in ErrorStates THEN "ERROR"
                 ELSE IF state = "NEXT_IMAGE_VALID" THEN "NEXT_IMAGE"
                 ELSE IF state = "WAIT_RAM_STORED" THEN "WAIT_POST_RX"
                 ELSE state

AnnouncedImages == IF state \in BatchStates THEN breakpoint_count ELSE 0
ImageEnds       == IF state \in BatchStates \ {"ACK_BP"}
                   THEN [i \in 0 .. breakpoint_count - 1 |-> bp_ram[i]] ELSE <<>>
ImagesDone      == IF state \in CountedStates THEN image_processed ELSE 0
ImagesHit       == IF state \in CountedStates THEN images_with_digits ELSE 0
WindowShown     == IF state = "PROCESS_IMAGE" THEN <<start_addr, end_addr>> ELSE <<0, 0>>
WordsPushed     == IF state \in CountedStates THEN Result_LC ELSE 0
HeaderOffered   == IF state = "WAIT_TX" THEN headcount ELSE 0

Protocol == INSTANCE AhimProtocol WITH
  phase <- ProtocolPhase, images <- AnnouncedImages, ends <- ImageEnds,
  done <- ImagesDone, hits <- ImagesHit, window <- WindowShown,
  words <- WordsPushed, header <- HeaderOffered

\* The controller, clock cycle by clock cycle, does nothing the protocol does not
\* allow: every image in its own window, one after the other; results closed,
\* counted and offered once; a batch that fails leaves nothing to the next one.
ImplementsProtocol == Protocol!Spec

\* A strip that was accepted is worked off, or given up in an error or by a
\* RESET, even if the accelerator never answers: the OCR watchdog sees to it.
BatchTerminates ==
  state = "PROCESS_IMAGE" ~>
    state \in ErrorStates \union {"WAIT_POST_RX", "WAIT_ACK", "OFFLINE"}
=============================================================================
