--------------------------- MODULE AhimCoreProofs ---------------------------
(* What holds of AhimCore for all sizes and payloads. *)
EXTENDS AhimCore, TLAPS

Valids == Opcodes \ {"MANY"}
Pushes == {"none", "push", "done"}
StrobeSets == SUBSET {"image_processed_add", "images_with_digits_add", "update_img_addr",
                      "read_next_bp", "set_ram_count", "bp_loaded"}

-----------------------------------------------------------------------------
(* Types.  Every state's step is one clock edge, so it is enough that an edge  *)
(* keeps the types; the edge is taken apart group of registers by group.       *)

LEMMA LatchedType ==
  ASSUME NEW p \in InitPayloads
  PROVE  Latched(p) \in InitPayload
<1>1. p \in InitPayload
  BY PayloadsAssumption
<1>2. 10 % 8 \in 0..15
  OBVIOUS
<1>3. QED
  BY <1>1, <1>2 DEF Latched, InitPayload

LEMMA CommandEdgeType ==
  ASSUME TypeOK, CommandEdge
  PROVE  PIO_CMD' \in Opcodes /\ cmd_prev' \in Opcodes /\ cmd_raw' \in Opcodes
BY DEF TypeOK, CommandEdge, Opcodes

LEMMA ConfigEdgeType ==
  ASSUME TypeOK, ConfigEdge
  PROVE  /\ cfg' \in InitPayload
         /\ strip_width' \in Nat /\ breakpoint_count' \in 0 .. BP_RAM_SIZE - 1
<1>1. CASE cmd = "RESET" /\ cfg' = NoConfig /\ strip_width' = 0 /\ breakpoint_count' = 0
  BY <1>1, SizesAssumption DEF NoConfig, InitPayload
<1>2. CASE (\E p \in InitPayloads : cfg' = Latched(p)) /\ UNCHANGED <<strip_width, breakpoint_count>>
  BY <1>2, LatchedType DEF TypeOK
<1>3. CASE /\ \E p \in UploadPayloads :
                strip_width' = p.strip_width /\ breakpoint_count' = p.breakpoint_count
           /\ UNCHANGED cfg
  BY <1>3, PayloadsAssumption DEF TypeOK, UploadPayload
<1>4. CASE UNCHANGED cfgVars
  BY <1>4 DEF cfgVars, TypeOK
<1>5. QED
  BY <1>1, <1>2, <1>3, <1>4 DEF ConfigEdge

LEMMA BatchEdgeType ==
  ASSUME TypeOK, NEW pulses, NEW push, BatchEdge(pulses, push)
  PROVE  /\ image_processed' \in Nat /\ images_with_digits' \in Nat
         /\ bp_addr' \in 0 .. BP_RAM_SIZE - 1 /\ start_addr' \in Nat /\ end_addr' \in Nat
         /\ ram_count' \in Nat /\ headcount' \in Nat /\ ocr_rx_done_1' \in BOOLEAN
<1>1. bp_addr_plus_1 \in 0 .. BP_RAM_SIZE - 1
  BY SizesAssumption DEF TypeOK, bp_addr_plus_1
<1>2. ocr_rx_done_1' \in BOOLEAN
  BY DEF BatchEdge
<1>3. CASE "Clear_buff" \in out
  BY <1>2, <1>3, SizesAssumption DEF BatchEdge
<1>4. CASE "Clear_buff" \notin out
  <2>1. image_processed' \in Nat /\ images_with_digits' \in Nat
    BY <1>4 DEF TypeOK, BatchEdge
  <2>2. bp_addr' \in 0 .. BP_RAM_SIZE - 1 /\ end_addr' \in Nat
    BY <1>1, <1>4 DEF TypeOK, BatchEdge
  <2>3. start_addr' \in Nat /\ ram_count' \in Nat
    BY <1>4 DEF TypeOK, BatchEdge
  <2>4. headcount' \in Nat
    BY <1>4, SizesAssumption DEF TypeOK, BatchEdge
  <2>5. QED
    BY <1>2, <2>1, <2>2, <2>3, <2>4
<1>5. QED
  BY <1>3, <1>4

LEMMA WatchdogEdgeType ==
  ASSUME TypeOK, WatchdogEdge
  PROVE  ocr_watchdog_counter' \in Nat /\ watchdog_ocr_trigger' \in BOOLEAN
<1>1. ocr_watchdog_counter' \in Nat
  BY DEF TypeOK, WatchdogEdge, wdVars
<1>2. watchdog_ocr_trigger' \in BOOLEAN
  BY Zenon DEF TypeOK, WatchdogEdge, wdVars
<1>3. QED
  BY <1>1, <1>2

LEMMA BreakpointEdgeType ==
  ASSUME TypeOK, NEW pulses, BreakpointEdge(pulses)
  PROVE  /\ bp_ram' \in [0 .. BP_RAM_SIZE - 1 -> Nat]
         /\ bp_rd' \in 0 .. BP_RAM_SIZE - 1 /\ breakpoint' \in Nat
<1>1. bp_rd' \in 0 .. BP_RAM_SIZE - 1 /\ breakpoint' \in Nat
  BY DEF TypeOK, BreakpointEdge
<1>2. ASSUME NEW b \in Breakpoints(breakpoint_count, strip_width)
      PROVE  [a \in DOMAIN bp_ram |-> IF a < breakpoint_count THEN b[a] ELSE bp_ram[a]]
               \in [0 .. BP_RAM_SIZE - 1 -> Nat]
  <2>1. DOMAIN bp_ram = 0 .. BP_RAM_SIZE - 1
    BY DEF TypeOK
  <2>2. \A a \in 0 .. BP_RAM_SIZE - 1 :
          (IF a < breakpoint_count THEN b[a] ELSE bp_ram[a]) \in Nat
    BY SizesAssumption DEF TypeOK, Breakpoints
  <2>3. QED
    BY <2>1, <2>2
<1>3. QED
  BY <1>1, <1>2 DEF BreakpointEdge, TypeOK

LEMMA OcrEdgeType ==
  ASSUME TypeOK, OcrEdge
  PROVE  /\ ocr' \in {"idle", "run", "done"} /\ ocr_age' \in Nat /\ ocr_digits' \in Nat
         /\ Pixel_addr' \in Nat
<1>1. ocr' \in {"idle", "run", "done"} /\ ocr_age' \in Nat
  BY DEF TypeOK, OcrEdge
<1>2. ocr_digits' \in {0} \union DigitCounts
  BY DEF OcrEdge
<1>3. Pixel_addr' \in Nat
  BY DEF TypeOK, OcrEdge
<1>4. QED
  BY <1>1, <1>2, <1>3, PayloadsAssumption

LEMMA ResultEdgeType ==
  ASSUME TypeOK, NEW push, ResultEdge(push)
  PROVE  Result_LC' \in 0 .. MaxLines
BY SizesAssumption DEF TypeOK, ResultEdge

LEMMA EdgeType ==
  ASSUME TypeOK,
         NEW to \in States, NEW outs \in SUBSET Outputs, NEW valid \in Valids,
         NEW pulses, NEW fault \in Faults, NEW push,
         Edge(to, outs, valid, pulses, fault, push)
  PROVE  TypeOK'
<1>1. state' \in States /\ out' \subseteq Outputs /\ valid_cmd_1' \in Valids
  BY DEF Edge, Override, OverrideOutputs, Faults, States, ErrorStates, Outputs, Valids, Opcodes
<1>2. /\ CommandEdge /\ ConfigEdge /\ BatchEdge(pulses, push) /\ WatchdogEdge
      /\ BreakpointEdge(pulses) /\ OcrEdge /\ ResultEdge(push)
  BY DEF Edge
<1>3. QED
  BY <1>1, <1>2, CommandEdgeType, ConfigEdgeType, BatchEdgeType, WatchdogEdgeType,
     BreakpointEdgeType, OcrEdgeType, ResultEdgeType DEF TypeOK, Valids

LEMMA NextType ==
  ASSUME TypeOK, Next
  PROVE  TypeOK'
<1> USE DEF Valids, Opcodes, States, ErrorStates, Outputs
<1> SUFFICES ASSUME NEW fault \in Faults,
                    \/ Offline(fault) \/ Idle(fault) \/ AckBp(fault) \/ AckStrip(fault)
                    \/ \E push \in Pushes :
                         \/ ProcessImage(fault, push) \/ NextImage(fault, push)
                         \/ NextImageValid(fault, push) \/ WaitPostRx(fault, push)
                    \/ WaitRamStored(fault) \/ WaitTx(fault) \/ WaitAck(fault) \/ Error(fault)
             PROVE  TypeOK'
  BY DEF Next, Pushes
<1>1. CASE Offline(fault)
  BY <1>1, EdgeType DEF Offline, Quiet
<1>2. CASE Idle(fault)
  BY <1>2, EdgeType DEF Idle, Quiet
<1>3. CASE AckBp(fault)
  BY <1>3, EdgeType DEF AckBp, Quiet
<1>4. CASE AckStrip(fault)
  BY <1>4, EdgeType DEF AckStrip, Quiet
<1>5. ASSUME NEW push \in Pushes, ProcessImage(fault, push)
      PROVE  TypeOK'
  BY <1>5, EdgeType DEF ProcessImage
<1>6. ASSUME NEW push \in Pushes, NextImage(fault, push)
      PROVE  TypeOK'
  BY <1>6, EdgeType DEF NextImage
<1>7. ASSUME NEW push \in Pushes, NextImageValid(fault, push)
      PROVE  TypeOK'
  BY <1>7, EdgeType DEF NextImageValid
<1>8. ASSUME NEW push \in Pushes, WaitPostRx(fault, push)
      PROVE  TypeOK'
  BY <1>8, EdgeType DEF WaitPostRx
<1>9. CASE WaitRamStored(fault)
  BY <1>9, EdgeType DEF WaitRamStored, Quiet
<1>10. CASE WaitTx(fault)
  BY <1>10, EdgeType DEF WaitTx, Quiet
<1>11. CASE WaitAck(fault)
  BY <1>11, EdgeType DEF WaitAck, Quiet
<1>12. CASE Error(fault)
  BY <1>12, EdgeType DEF Error, Quiet
<1>13. QED
  BY <1>1, <1>2, <1>3, <1>4, <1>5, <1>6, <1>7, <1>8, <1>9, <1>10, <1>11, <1>12

\* All registers keep their types (and the breakpoint address its width).
THEOREM Typing == Spec => []TypeOK
<1>1. Init => TypeOK
  <2> SUFFICES ASSUME Init PROVE TypeOK
    OBVIOUS
  <2>1. cfg \in InitPayload
    <3>1. NoConfig \in InitPayload
      BY DEF NoConfig, InitPayload
    <3>2. cfg = [NoConfig EXCEPT !.watchdog_ocr = 10] /\ 10 \in 0..255
      BY DEF Init
    <3>3. QED
      BY <3>1, <3>2 DEF InitPayload
  <2>2. bp_ram \in [0 .. BP_RAM_SIZE - 1 -> Nat]
    BY DEF Init
  <2>3. ocr_rx_done_1 \in BOOLEAN /\ watchdog_ocr_trigger \in BOOLEAN
    BY Zenon DEF Init
  <2>4. QED
    BY <2>1, <2>2, <2>3, SizesAssumption
       DEF Init, TypeOK, Opcodes, States, ErrorStates, Outputs
<1>2. TypeOK /\ [Next]_vars => TypeOK'
  <2> SUFFICES ASSUME TypeOK, [Next]_vars PROVE TypeOK'
    OBVIOUS
  <2>1. CASE Next
    BY <2>1, NextType
  <2>2. CASE UNCHANGED vars
    BY <2>2 DEF TypeOK, vars, cmdVars, cfgVars, batchVars, wdVars, bpVars, ocrVars
  <2>3. QED
    BY <2>1, <2>2
<1>3. QED
  BY <1>1, <1>2, PTL DEF Spec

-----------------------------------------------------------------------------
(* The inductive invariant.  The properties relate registers that move one or  *)
(* two cycles apart, so each part says where in the pipeline a value is.       *)

BufferCleared ==
  /\ image_processed = 0 /\ images_with_digits = 0
  /\ bp_addr = 0 /\ start_addr = 0 /\ end_addr = 0
  /\ Result_LC = 0

\* Which outputs go with which state, as far as the rest needs it.
OutputsInStep ==
  /\ "Clear_buff" \in out => state \in {"OFFLINE", "IDLE"} \union ErrorStates
  /\ "image_loaded" \in out => state = "PROCESS_IMAGE" \/ "CU_rst" \in out
  /\ state = "PROCESS_IMAGE" => "CU_rst" \notin out
  /\ state \in {"NEXT_IMAGE", "NEXT_IMAGE_VALID"} => "CU_rst" \in out
  /\ state = "WAIT_TX" => "tx_en" \in out

\* A batch is uploaded only into cleared buffers, and its configuration stays:
\* what the state accepted a cycle ago is no longer UPLOAD or INIT.
CommandsInStep ==
  /\ state \in BatchStates => valid_cmd_1 \in {"NO_CMD", "ACK"}
  /\ state = "IDLE" /\ "Clear_buff" \in out => valid_cmd_1 = "NO_CMD"
  /\ state \in {"OFFLINE", "IDLE"} => "Clear_buff" \in out \/ BufferCleared
  /\ state \in {"ACK_BP", "ACK_STRIP"} => BufferCleared
  /\ state = "ACK_STRIP" => breakpoint_count > 0
  /\ state \in BatchStates \union {"IDLE"} => cfg.watchdog_ocr > 0

\* The read port of the breakpoint RAM runs one image ahead of the FSM.
PrefetchInStep ==
  /\ state \in {"ACK_BP", "ACK_STRIP"} => bp_rd = 0
  /\ state = "ACK_STRIP" /\ "rx_en" \in out => breakpoint = bp_ram[0]
  /\ state \in {"PROCESS_IMAGE", "NEXT_IMAGE", "NEXT_IMAGE_VALID"} =>
       /\ image_processed < BP_RAM_SIZE - 1 => bp_addr = image_processed + 1
       /\ start_addr = IF image_processed = 0 THEN 0 ELSE bp_ram[image_processed - 1] + 1
       /\ end_addr = bp_ram[image_processed]
  /\ state = "PROCESS_IMAGE" /\ "image_loaded" \notin out => bp_rd = bp_addr
  /\ state = "PROCESS_IMAGE" /\ ocr_age > 1 => breakpoint = bp_ram[bp_addr]

\* The accelerator and its watchdog count the same cycles.
WatchdogInStep ==
  /\ ocr = "idle" => ocr_age = 0
  /\ ocr = "run" => ocr_age > 0
  /\ ocr = "done" => ocr_age > 1
  /\ state = "PROCESS_IMAGE" /\ ~watchdog_ocr_trigger => ocr_watchdog_counter = ocr_age
  /\ state # "PROCESS_IMAGE" /\ "CU_rst" \notin out =>
       ocr_watchdog_counter = 0 /\ ~watchdog_ocr_trigger

HeadcountInStep ==
  state = "WAIT_RAM_STORED" => ocr_rx_done_1 \/ headcount = Result_LC

IInv ==
  /\ OutputsInStep /\ CommandsInStep /\ BatchCounters /\ PrefetchInStep
  /\ WatchdogInStep /\ OcrInStep /\ WatchdogFull
  /\ HeadcountInStep /\ HeadcountCurrent

-----------------------------------------------------------------------------
(* A clock edge either follows the FSM's decision or is overruled.             *)

Smooth(to, outs, valid) ==
  /\ state' = to /\ out' = outs /\ valid_cmd_1' = valid
  /\ cmd # "RESET"
  /\ watchdog_ocr_trigger => ~cfg.ocr_break

Aborted(outs) ==
  /\ state' \in ErrorStates \union {"OFFLINE"}
  /\ "CU_rst" \in out'
  /\ state' = "OFFLINE" => "Clear_buff" \in out'
  /\ "tx_en" \in out' => "tx_en" \in outs

LEMMA EdgeCases ==
  ASSUME NEW to, NEW outs, NEW valid, NEW pulses, NEW fault \in Faults, NEW push,
         Edge(to, outs, valid, pulses, fault, push)
  PROVE  Smooth(to, outs, valid) \/ Aborted(outs)
<1>1. CASE Override(fault) = "none"
  BY <1>1 DEF Edge, Override, OverrideOutputs, Smooth, Faults
<1>2. CASE Override(fault) # "none"
  BY <1>2 DEF Edge, Override, OverrideOutputs, Aborted, Faults, ErrorStates
<1>3. QED
  BY <1>1, <1>2

\* The age of the accelerator's work says where it is.
LEMMA OcrAges ==
  ASSUME TypeOK, WatchdogInStep, OcrEdge
  PROVE  /\ ocr' = "idle" => ocr_age' = 0
         /\ ocr' = "run" => ocr_age' > 0
         /\ ocr' = "done" => ocr_age' > 1
BY DEF TypeOK, WatchdogInStep, OcrEdge

\* Outside PROCESS_IMAGE nothing starts the accelerator or its watchdog.
LEMMA AccelOutside ==
  ASSUME TypeOK, IInv, state # "PROCESS_IMAGE", OcrEdge, WatchdogEdge
  PROVE  /\ ocr' = "idle" /\ ocr_age' = 0
         /\ ocr_watchdog_counter' = 0 /\ watchdog_ocr_trigger' = FALSE
<1>1. ocr' = "idle" /\ ocr_age' = 0
  BY DEF TypeOK, IInv, OutputsInStep, OcrInStep, OcrEdge, ocr_done
<1>2. ocr_watchdog_counter' = 0 /\ ~watchdog_ocr_trigger'
  BY DEF TypeOK, IInv, OutputsInStep, WatchdogInStep, WatchdogEdge, WatchdogCleared, wdVars
<1>3. watchdog_ocr_trigger' \in BOOLEAN
  BY WatchdogEdgeType
<1>4. QED
  BY <1>1, <1>2, <1>3

\* An overruled edge keeps the invariant, provided the header stays right.
LEMMA AbortedStep ==
  ASSUME TypeOK, IInv, NEW outs, Aborted(outs), OcrEdge,
         "tx_en" \in outs => headcount' = Result_LC'
  PROVE  IInv'
<1>1. OutputsInStep' /\ CommandsInStep'
  BY DEF Aborted, ErrorStates, OutputsInStep, CommandsInStep, BatchStates
<1>2. BatchCounters' /\ PrefetchInStep'
  BY DEF Aborted, ErrorStates, BatchCounters, BatchStates, PrefetchInStep
<1>3. WatchdogInStep' /\ OcrInStep' /\ WatchdogFull'
  BY OcrAges DEF IInv, Aborted, ErrorStates, WatchdogInStep, OcrInStep, WatchdogFull
<1>4. HeadcountInStep' /\ HeadcountCurrent'
  BY DEF Aborted, ErrorStates, HeadcountInStep, HeadcountCurrent
<1>5. QED
  BY <1>1, <1>2, <1>3, <1>4 DEF IInv

\* A smooth edge outside PROCESS_IMAGE: the accelerator's part of the invariant
\* follows from the outputs, the rest has to be shown.
LEMMA SmoothOutside ==
  ASSUME TypeOK, IInv, state # "PROCESS_IMAGE", OcrEdge, WatchdogEdge,
         state' = "PROCESS_IMAGE" => "image_loaded" \in out'
  PROVE  WatchdogInStep' /\ OcrInStep' /\ WatchdogFull'
BY AccelOutside DEF WatchdogInStep, OcrInStep, WatchdogFull

\* INIT and UPLOAD pass only where the FSM offered them.
LEMMA ConfigKept ==
  ASSUME ConfigEdge, cmd # "RESET", valid_cmd_1 \in {"NO_CMD", "ACK"}
  PROVE  UNCHANGED <<cfg, strip_width, breakpoint_count>>
BY DEF ConfigEdge, cmd, cfgVars

LEMMA WatchdogConfigured ==
  ASSUME ConfigEdge, cmd # "RESET", cfg.watchdog_ocr > 0 \/ cmd = "INIT"
  PROVE  cfg'.watchdog_ocr > 0
<1>1. ASSUME NEW p \in InitPayloads PROVE Latched(p).watchdog_ocr > 0
  BY PayloadsAssumption DEF Latched, InitPayload
<1>2. QED
  BY <1>1 DEF ConfigEdge, cfgVars

\* Without strobes and without Clear_buff the batch registers stand still.
LEMMA BatchKept ==
  ASSUME NEW pulses \in SUBSET {"set_ram_count", "bp_loaded"}, NEW push,
         BatchEdge(pulses, push), "Clear_buff" \notin out
  PROVE  UNCHANGED <<image_processed, images_with_digits, bp_addr, start_addr, end_addr>>
BY DEF BatchEdge

LEMMA BuffersCleared ==
  ASSUME NEW pulses \in SUBSET {"set_ram_count", "bp_loaded"},
         BatchEdge(pulses, "none"), ResultEdge("none"), "Clear_buff" \in out \/ BufferCleared
  PROVE  BufferCleared'
BY DEF BatchEdge, ResultEdge, BufferCleared

\* Once no more words come, the latched headcount is theirs.
LEMMA HeadcountKept ==
  ASSUME NEW pulses, BatchEdge(pulses, "none"), ResultEdge("none"),
         "Clear_buff" \notin out, ocr_rx_done_1 \/ headcount = Result_LC
  PROVE  headcount' = Result_LC'
BY DEF BatchEdge, ResultEdge, headcount_latch

\* What an edge gives, without its decision.
LEMMA EdgeParts ==
  ASSUME NEW to, NEW outs, NEW valid, NEW pulses, NEW fault, NEW push,
         Edge(to, outs, valid, pulses, fault, push)
  PROVE  /\ ConfigEdge /\ BatchEdge(pulses, push) /\ WatchdogEdge
         /\ BreakpointEdge(pulses) /\ OcrEdge /\ ResultEdge(push)
BY DEF Edge

-----------------------------------------------------------------------------
(* One lemma per state of the FSM. *)

LEMMA OfflineKeeps ==
  ASSUME TypeOK, TypeOK', IInv, NEW fault \in Faults, Offline(fault)
  PROVE  IInv'
<1>1. PICK to \in {"OFFLINE", "IDLE"}, valid \in {"NO_CMD", "INIT"} :
        /\ Edge(to, {}, valid, {}, fault, "none")
        /\ to = "IDLE" => cmd = "INIT"
  BY DEF Offline, Quiet
<1>2. /\ ConfigEdge /\ BatchEdge({}, "none") /\ ResultEdge("none") /\ WatchdogEdge /\ OcrEdge
      /\ state = "OFFLINE"
  BY <1>1, EdgeParts DEF Offline
<1>3. CASE Aborted({})
  BY <1>2, <1>3, AbortedStep
<1>4. CASE Smooth(to, {}, valid)
  <2>1. BufferCleared'
    BY <1>2, BuffersCleared DEF IInv, CommandsInStep
  <2>2. state' = "IDLE" => cfg'.watchdog_ocr > 0
    BY <1>1, <1>2, <1>4, WatchdogConfigured DEF Smooth
  <2>3. OutputsInStep' /\ CommandsInStep'
    BY <1>4, <2>1, <2>2 DEF Smooth, ErrorStates, OutputsInStep, CommandsInStep, BatchStates
  <2>4. BatchCounters' /\ PrefetchInStep'
    BY <1>4 DEF Smooth, BatchCounters, BatchStates, PrefetchInStep
  <2>5. WatchdogInStep' /\ OcrInStep' /\ WatchdogFull'
    BY <1>2, <1>4, SmoothOutside DEF Smooth
  <2>6. HeadcountInStep' /\ HeadcountCurrent'
    BY <1>4 DEF Smooth, HeadcountInStep, HeadcountCurrent
  <2>7. QED
    BY <2>3, <2>4, <2>5, <2>6 DEF IInv
<1>5. QED
  BY <1>1, <1>3, <1>4, EdgeCases

LEMMA IdleKeeps ==
  ASSUME TypeOK, TypeOK', IInv, NEW fault \in Faults, Idle(fault)
  PROVE  IInv'
<1>1. PICK to \in {"IDLE", "ACK_BP"}, outs \in {{}, {"rx_en"}},
           valid \in {"NO_CMD", "UPLOAD"} :
        /\ Edge(to, outs, valid, {}, fault, "none")
        /\ to = "ACK_BP" => cmd = "UPLOAD" /\ valid = "NO_CMD"
  BY DEF Idle, Quiet
<1>2. /\ ConfigEdge /\ BatchEdge({}, "none") /\ ResultEdge("none") /\ WatchdogEdge /\ OcrEdge
      /\ BreakpointEdge({}) /\ state = "IDLE"
  BY <1>1, EdgeParts DEF Idle
<1>3. CASE Aborted(outs)
  BY <1>2, <1>3, AbortedStep
<1>4. CASE Smooth(to, outs, valid)
  <2>1. BufferCleared'
    BY <1>2, BuffersCleared DEF IInv, CommandsInStep
  <2>2. cfg'.watchdog_ocr > 0
    BY <1>2, <1>4, WatchdogConfigured DEF Smooth, IInv, CommandsInStep
  <2>3. state' = "ACK_BP" => bp_rd' = 0
    <3>1. cmd = "UPLOAD" => valid_cmd_1 = "UPLOAD"
      BY DEF cmd
    <3>2. QED
      BY <1>1, <1>2, <1>4, <3>1
         DEF Smooth, IInv, CommandsInStep, BufferCleared, BreakpointEdge
  <2>4. OutputsInStep' /\ CommandsInStep'
    BY <1>1, <1>4, <2>1, <2>2
       DEF Smooth, ErrorStates, OutputsInStep, CommandsInStep, BatchStates
  <2>5. BatchCounters' /\ PrefetchInStep'
    <3>1. state' \in {"IDLE", "ACK_BP"}
      BY <1>4 DEF Smooth
    <3>2. breakpoint_count' >= 0
      BY DEF TypeOK
    <3>3. BatchCounters'
      BY <2>1, <3>1, <3>2 DEF BatchCounters, BufferCleared
    <3>4. PrefetchInStep'
      BY <2>3, <3>1 DEF PrefetchInStep
    <3>5. QED
      BY <3>3, <3>4
  <2>6. WatchdogInStep' /\ OcrInStep' /\ WatchdogFull'
    BY <1>2, <1>4, SmoothOutside DEF Smooth
  <2>7. HeadcountInStep' /\ HeadcountCurrent'
    BY <1>4 DEF Smooth, HeadcountInStep, HeadcountCurrent
  <2>8. QED
    BY <2>4, <2>5, <2>6, <2>7 DEF IInv
<1>5. QED
  BY <1>1, <1>3, <1>4, EdgeCases

LEMMA AckBpKeeps ==
  ASSUME TypeOK, TypeOK', IInv, NEW fault \in Faults, AckBp(fault)
  PROVE  IInv'
<1>1. PICK to \in {"ERROR_COM", "ACK_STRIP", "ACK_BP"},
           outs \in {{"error_flag"}, {}, {"rx_en"}}, pulses \in {{}, {"bp_loaded"}} :
        /\ Edge(to, outs, "NO_CMD", pulses, fault, "none")
        /\ to = "ACK_STRIP" => breakpoint_count # 0 /\ outs = {}
  BY DEF AckBp, Quiet
<1>2. /\ ConfigEdge /\ BatchEdge(pulses, "none") /\ ResultEdge("none") /\ WatchdogEdge /\ OcrEdge
      /\ BreakpointEdge(pulses) /\ state = "ACK_BP"
  BY <1>1, EdgeParts DEF AckBp
<1>3. CASE Aborted(outs)
  BY <1>2, <1>3, AbortedStep
<1>4. CASE Smooth(to, outs, "NO_CMD")
  <2>1. BufferCleared'
    BY <1>2, BuffersCleared DEF IInv, CommandsInStep
  <2>2. UNCHANGED <<cfg, strip_width, breakpoint_count>>
    BY <1>2, <1>4, ConfigKept DEF Smooth, IInv, CommandsInStep, BatchStates
  <2>3. bp_rd' = 0
    BY <1>2 DEF IInv, CommandsInStep, BufferCleared, BreakpointEdge
  <2>4. state' = "ACK_STRIP" => breakpoint_count' > 0
    BY <1>1, <1>4, <2>2 DEF Smooth, TypeOK
  <2>5. OutputsInStep' /\ CommandsInStep'
    BY <1>2, <1>4, <2>1, <2>2, <2>4
       DEF Smooth, IInv, ErrorStates, OutputsInStep, CommandsInStep, BatchStates
  <2>6. BatchCounters'
    <3>1. state' \in {"ERROR_COM", "ACK_STRIP", "ACK_BP"}
      BY <1>4 DEF Smooth
    <3>2. breakpoint_count' >= 0
      BY DEF TypeOK
    <3>3. QED
      BY <2>1, <3>1, <3>2 DEF BatchCounters, BufferCleared, BatchStates
  <2>7. PrefetchInStep'
    BY <1>1, <1>4, <2>3 DEF Smooth, PrefetchInStep
  <2>8. WatchdogInStep' /\ OcrInStep' /\ WatchdogFull'
    BY <1>2, <1>4, SmoothOutside DEF Smooth
  <2>9. HeadcountInStep' /\ HeadcountCurrent'
    BY <1>4 DEF Smooth, HeadcountInStep, HeadcountCurrent
  <2>10. QED
    BY <2>5, <2>6, <2>7, <2>8, <2>9 DEF IInv
<1>5. QED
  BY <1>1, <1>3, <1>4, EdgeCases

\* The first image: its window comes from the read that ACK_STRIP starts.
LEMMA AckStripKeeps ==
  ASSUME TypeOK, TypeOK', IInv, NEW fault \in Faults, AckStrip(fault)
  PROVE  IInv'
<1> DEFINE Loaded == /\ "rx_en" \in out
                     /\ Edge("PROCESS_IMAGE", {"image_loaded"}, "NO_CMD", {"read_next_bp"},
                             fault, "none")
           Waiting == Edge("ACK_STRIP", {"rx_en", "select_mode"}, "NO_CMD", {}, fault, "none")
<1>1. Loaded \/ Waiting
  BY DEF AckStrip, Quiet
<1>2. state = "ACK_STRIP" /\ ConfigEdge /\ WatchdogEdge /\ OcrEdge
  BY <1>1, EdgeParts DEF AckStrip
<1>3. "Clear_buff" \notin out /\ BufferCleared /\ bp_rd = 0 /\ breakpoint_count > 0
  BY <1>2 DEF IInv, OutputsInStep, CommandsInStep, PrefetchInStep, ErrorStates
<1>4. CASE Aborted({"image_loaded"}) \/ Aborted({"rx_en", "select_mode"})
  BY <1>2, <1>4, AbortedStep
<1>5. ASSUME cmd # "RESET"
      PROVE  UNCHANGED <<cfg, strip_width, breakpoint_count>>
  BY <1>2, <1>5, ConfigKept DEF IInv, CommandsInStep, BatchStates
<1>6. CASE Loaded /\ Smooth("PROCESS_IMAGE", {"image_loaded"}, "NO_CMD")
  <2>1. BatchEdge({"read_next_bp"}, "none") /\ BreakpointEdge({"read_next_bp"})
    BY <1>6, EdgeParts
  <2>2. /\ image_processed' = 0 /\ images_with_digits' = 0 /\ start_addr' = 0
        /\ end_addr' = breakpoint /\ bp_addr' = bp_addr_plus_1
    BY <1>3, <2>1 DEF BatchEdge, BufferCleared
  <2>3. bp_addr' = 1
    BY <1>3, <2>2, SizesAssumption DEF bp_addr_plus_1, BufferCleared
  <2>4. end_addr' = bp_ram'[0]
    BY <1>2, <1>6, <2>1, <2>2 DEF IInv, PrefetchInStep, BreakpointEdge
  <2>5. ocr_age' = 0
    BY <1>2, AccelOutside
  <2>6. UNCHANGED <<cfg, strip_width, breakpoint_count>>
    BY <1>5, <1>6 DEF Smooth
  <2>7. OutputsInStep' /\ CommandsInStep'
    BY <1>2, <1>6, <2>6
       DEF Smooth, IInv, ErrorStates, OutputsInStep, CommandsInStep, BatchStates
  <2>8. BatchCounters'
    BY <1>3, <1>6, <2>2, <2>6 DEF Smooth, TypeOK, BatchCounters
  <2>9. PrefetchInStep'
    BY <1>6, <2>2, <2>3, <2>4, <2>5 DEF Smooth, PrefetchInStep
  <2>10. WatchdogInStep' /\ OcrInStep' /\ WatchdogFull'
    BY <1>2, <1>6, SmoothOutside DEF Smooth
  <2>11. HeadcountInStep' /\ HeadcountCurrent'
    BY <1>6 DEF Smooth, HeadcountInStep, HeadcountCurrent
  <2>12. QED
    BY <2>7, <2>8, <2>9, <2>10, <2>11 DEF IInv
<1>7. CASE Waiting /\ Smooth("ACK_STRIP", {"rx_en", "select_mode"}, "NO_CMD")
  <2>1. BatchEdge({}, "none") /\ ResultEdge("none") /\ BreakpointEdge({})
    BY <1>7, EdgeParts
  <2>2. BufferCleared'
    BY <1>3, <2>1, BuffersCleared
  <2>3. bp_rd' = 0 /\ breakpoint' = bp_ram'[0]
    BY <1>3, <2>1 DEF BreakpointEdge, BufferCleared
  <2>4. UNCHANGED <<cfg, strip_width, breakpoint_count>>
    BY <1>5, <1>7 DEF Smooth
  <2>5. OutputsInStep' /\ CommandsInStep'
    BY <1>2, <1>3, <1>7, <2>2, <2>4
       DEF Smooth, IInv, ErrorStates, OutputsInStep, CommandsInStep, BatchStates
  <2>6. BatchCounters'
    BY <1>7, <2>2 DEF Smooth, TypeOK, BatchCounters, BufferCleared, BatchStates
  <2>7. PrefetchInStep'
    BY <1>7, <2>3 DEF Smooth, PrefetchInStep
  <2>8. WatchdogInStep' /\ OcrInStep' /\ WatchdogFull'
    BY <1>2, <1>7, SmoothOutside DEF Smooth
  <2>9. HeadcountInStep' /\ HeadcountCurrent'
    BY <1>7 DEF Smooth, HeadcountInStep, HeadcountCurrent
  <2>10. QED
    BY <2>5, <2>6, <2>7, <2>8, <2>9 DEF IInv
<1>8. QED
  BY <1>1, <1>4, <1>6, <1>7, EdgeCases

LEMMA WatchdogTime ==
  ASSUME TypeOK, IInv, state = "PROCESS_IMAGE"
  PROVE  watchdog_ocr_conf \in Nat \ {0}
<1>1. cfg \in InitPayload
  BY DEF TypeOK
<1>2. cfg.watchdog_ocr \in 0..255
  BY <1>1 DEF InitPayload
<1>3. cfg.watchdog_ocr > 0
  BY DEF IInv, CommandsInStep, BatchStates
<1>4. \A m, n \in Nat : m > 0 /\ n > 0 => m * n \in Nat /\ m * n > 0
  OBVIOUS
<1>5. QED
  BY <1>2, <1>3, <1>4, SizesAssumption DEF watchdog_ocr_conf

\* While the FSM waits for the accelerator, the OCR watchdog counts its cycles,
\* from zero.
LEMMA ProcessingStays ==
  ASSUME TypeOK, IInv, state = "PROCESS_IMAGE", cmd # "RESET",
         watchdog_ocr_trigger => ~cfg.ocr_break, ~ImageOver,
         UNCHANGED cfg, WatchdogEdge, OcrEdge,
         state' = "PROCESS_IMAGE", "image_loaded" \notin out'
  PROVE  WatchdogInStep' /\ OcrInStep' /\ WatchdogFull'
<1>1. ~watchdog_ocr_trigger /\ ocr # "done" /\ "CU_rst" \notin out
  BY DEF IInv, OutputsInStep, ImageOver, ocr_done
<1>2. ocr_watchdog_counter = ocr_age /\ ~WatchdogCleared
  BY <1>1 DEF IInv, WatchdogInStep, WatchdogCleared, ocr_done
<1>3. watchdog_ocr_conf \in Nat \ {0} /\ watchdog_ocr_conf' = watchdog_ocr_conf
  BY WatchdogTime DEF watchdog_ocr_conf
<1>4. ocr' # "idle" /\ ocr_age' = ocr_age + 1
  BY <1>1 DEF TypeOK, IInv, OcrInStep, WatchdogInStep, OcrEdge, ocr_done
<1>5. /\ watchdog_ocr_trigger' = (ocr_watchdog_counter = watchdog_ocr_conf)
      /\ ocr_watchdog_counter' = IF ocr_watchdog_counter = watchdog_ocr_conf
                                 THEN 0 ELSE ocr_watchdog_counter + 1
  <2>1. "image_loaded" \in out \/ ocr_watchdog_counter > 0
    BY <1>1, <1>2 DEF TypeOK, IInv, OcrInStep, WatchdogInStep
  <2>2. QED
    BY <1>2, <2>1, Zenon DEF WatchdogEdge
<1>6. watchdog_ocr_trigger' <=> ocr_age = watchdog_ocr_conf
  BY <1>2, <1>5, Zenon
<1>7. ocr_age \in Nat
  BY DEF TypeOK
<1>8. WatchdogInStep'
  <2>1. ~watchdog_ocr_trigger' => ocr_watchdog_counter' = ocr_age'
    BY <1>2, <1>4, <1>5, <1>6
  <2>2. QED
    BY <2>1, OcrAges DEF IInv, WatchdogInStep
<1>9. OcrInStep' /\ WatchdogFull'
  BY <1>3, <1>4, <1>6, <1>7 DEF OcrInStep, WatchdogFull
<1>10. QED
  BY <1>8, <1>9

\* An image is over only when the accelerator has worked for two cycles, which
\* is when the breakpoint read ahead has arrived.
LEMMA ImageOverSettled ==
  ASSUME TypeOK, IInv, state = "PROCESS_IMAGE", ImageOver
  PROVE  ocr_age > 1
<1>1. CASE ocr_done
  BY <1>1 DEF IInv, WatchdogInStep, ocr_done
<1>2. CASE watchdog_ocr_trigger
  <2>1. ocr_age > watchdog_ocr_conf /\ ocr_age \in Nat
    BY <1>2 DEF TypeOK, IInv, WatchdogFull
  <2>2. QED
    BY <2>1, WatchdogTime
<1>3. QED
  BY <1>1, <1>2 DEF ImageOver

LEMMA ProcessImageKeeps ==
  ASSUME TypeOK, TypeOK', IInv, NEW fault \in Faults, NEW push, ProcessImage(fault, push)
  PROVE  IInv'
<1> DEFINE Counting == {"update_img_addr", "image_processed_add"}
           Over(to, pulses) ==
             ImageOver /\ Edge(to, {"CU_rst"}, "NO_CMD", pulses, fault, push)
           Busy == ~ImageOver /\ Edge("PROCESS_IMAGE", {"busy"}, "NO_CMD", {}, fault, push)
<1>1. \/ Over("NEXT_IMAGE_VALID", Counting \union {"images_with_digits_add"})
      \/ Over("NEXT_IMAGE", Counting)
      \/ Busy
  <2>1. valid_output => ImageOver
    BY DEF valid_output, ImageOver
  <2>2. Counting \union {"images_with_digits_add"} =
          {"update_img_addr", "images_with_digits_add", "image_processed_add"}
    OBVIOUS
  <2>3. QED
    BY <2>1, <2>2 DEF ProcessImage
<1>2. /\ ConfigEdge /\ WatchdogEdge /\ OcrEdge /\ state = "PROCESS_IMAGE"
  BY <1>1, EdgeParts DEF ProcessImage
<1>3. "Clear_buff" \notin out
  BY <1>2 DEF IInv, OutputsInStep, ErrorStates
<1>4. CASE Aborted({"CU_rst"}) \/ Aborted({"busy"})
  BY <1>2, <1>4, AbortedStep
<1>5. ASSUME cmd # "RESET"
      PROVE  UNCHANGED <<cfg, strip_width, breakpoint_count>>
  BY <1>2, <1>5, ConfigKept DEF IInv, CommandsInStep, BatchStates
<1>6. ASSUME NEW to \in {"NEXT_IMAGE", "NEXT_IMAGE_VALID"}, NEW pulses,
             pulses \in {Counting, Counting \union {"images_with_digits_add"}},
             to = "NEXT_IMAGE_VALID" => "images_with_digits_add" \in pulses,
             Over(to, pulses), Smooth(to, {"CU_rst"}, "NO_CMD")
      PROVE  IInv'
  <2>1. BatchEdge(pulses, push) /\ BreakpointEdge(pulses)
    BY <1>6, EdgeParts
  <2>2. UNCHANGED <<cfg, strip_width, breakpoint_count>>
    BY <1>5, <1>6 DEF Smooth
  <2>3. /\ image_processed' = image_processed + 1
        /\ end_addr' = breakpoint /\ bp_addr' = bp_addr_plus_1
        /\ start_addr' = end_addr + 1
    BY <1>3, <1>6, <2>1 DEF BatchEdge
  <2>4. images_with_digits' = IF "images_with_digits_add" \in pulses
                              THEN images_with_digits + 1 ELSE images_with_digits
    BY <1>3, <2>1 DEF BatchEdge
  <2>5. /\ image_processed \in Nat /\ images_with_digits \in Nat
        /\ bp_addr \in Nat /\ BP_RAM_SIZE \in Nat
        /\ image_processed < breakpoint_count /\ images_with_digits <= image_processed
        /\ breakpoint_count \in Nat /\ breakpoint_count <= BP_RAM_SIZE - 1
    BY <1>2, SizesAssumption DEF TypeOK, IInv, BatchCounters, BatchStates
  <2>6. /\ image_processed < BP_RAM_SIZE - 1 => bp_addr = image_processed + 1
         /\ end_addr = bp_ram[image_processed]
    BY <1>2 DEF IInv, PrefetchInStep
  <2>7. bp_ram' = bp_ram
    BY <1>6, <2>1 DEF BreakpointEdge
  <2>8. end_addr' = bp_ram'[image_processed']
    <3>1. breakpoint = bp_ram[bp_addr]
      BY <1>2, <1>6, ImageOverSettled DEF IInv, PrefetchInStep
    <3>2. bp_addr = image_processed + 1
      BY <2>5, <2>6
    <3>3. QED
      BY <2>3, <2>7, <3>1, <3>2
  <2>9. start_addr' = bp_ram'[image_processed' - 1] + 1 /\ image_processed' # 0
    <3>1. image_processed' - 1 = image_processed
      BY <2>3, <2>5
    <3>2. QED
      BY <2>3, <2>5, <2>7, <2>6, <3>1
  <2>10. image_processed' < BP_RAM_SIZE - 1 => bp_addr' = image_processed' + 1
    <3>1. ASSUME image_processed + 1 < BP_RAM_SIZE - 1
          PROVE  bp_addr = image_processed + 1 /\ bp_addr + 1 < BP_RAM_SIZE
      BY <2>5, <2>6, <3>1
    <3>2. \A n, m \in Nat : n < m => n % m = n
      OBVIOUS
    <3>3. QED
      BY <2>3, <2>5, <3>1, <3>2 DEF bp_addr_plus_1
  <2>11. OutputsInStep' /\ CommandsInStep'
    BY <1>2, <1>6, <2>2
       DEF Smooth, IInv, ErrorStates, OutputsInStep, CommandsInStep, BatchStates
  <2>12. BatchCounters'
    BY <1>6, <2>2, <2>3, <2>4, <2>5 DEF Smooth, BatchCounters
  <2>13. PrefetchInStep'
    BY <1>6, <2>8, <2>9, <2>10 DEF Smooth, PrefetchInStep
  <2>14. WatchdogInStep' /\ OcrInStep' /\ WatchdogFull'
    BY <1>6, <1>2, OcrAges DEF IInv, Smooth, WatchdogInStep, OcrInStep, WatchdogFull
  <2>15. HeadcountInStep' /\ HeadcountCurrent'
    BY <1>6 DEF Smooth, HeadcountInStep, HeadcountCurrent
  <2>16. QED
    BY <2>11, <2>12, <2>13, <2>14, <2>15 DEF IInv
<1>7. CASE Busy /\ Smooth("PROCESS_IMAGE", {"busy"}, "NO_CMD")
  <2>1. BatchEdge({}, push) /\ BreakpointEdge({})
    BY <1>7, EdgeParts
  <2>2. UNCHANGED <<cfg, strip_width, breakpoint_count>>
    BY <1>5, <1>7 DEF Smooth
  <2>3. UNCHANGED <<image_processed, images_with_digits, bp_addr, start_addr, end_addr>>
    BY <1>3, <2>1, BatchKept
  <2>4. bp_rd' = bp_addr' /\ bp_ram' = bp_ram
    BY <2>1, <2>3 DEF BreakpointEdge
  <2>5. ocr_age' > 1 => breakpoint' = bp_ram'[bp_addr']
    <3>1. ocr_age' > 1 => ocr_age > 0
      <4>1. ocr_age \in Nat
        BY DEF TypeOK
      <4>2. QED
        BY <1>2, <4>1 DEF OcrEdge
    <3>2. ocr_age > 0 => "image_loaded" \notin out
      BY <1>2 DEF IInv, OcrInStep, WatchdogInStep
    <3>3. "image_loaded" \notin out => bp_rd = bp_addr
      BY <1>2 DEF IInv, PrefetchInStep
    <3>4. breakpoint' = bp_ram[bp_rd]
      BY <2>1 DEF BreakpointEdge
    <3>5. QED
      BY <2>3, <2>4, <3>1, <3>2, <3>3, <3>4
  <2>6. OutputsInStep' /\ CommandsInStep'
    BY <1>2, <1>7, <2>2
       DEF Smooth, IInv, ErrorStates, OutputsInStep, CommandsInStep, BatchStates
  <2>7. BatchCounters'
    BY <1>2, <1>7, <2>2, <2>3 DEF Smooth, IInv, BatchCounters, BatchStates
  <2>8. PrefetchInStep'
    BY <1>2, <1>7, <2>3, <2>4, <2>5 DEF Smooth, IInv, PrefetchInStep
  <2>9. WatchdogInStep' /\ OcrInStep' /\ WatchdogFull'
    BY <1>2, <1>7, <2>2, ProcessingStays DEF Smooth
  <2>10. HeadcountInStep' /\ HeadcountCurrent'
    BY <1>7 DEF Smooth, HeadcountInStep, HeadcountCurrent
  <2>11. QED
    BY <2>6, <2>7, <2>8, <2>9, <2>10 DEF IInv
<1>8. QED
  <2>1. CASE Over("NEXT_IMAGE_VALID", Counting \union {"images_with_digits_add"})
    BY <2>1, <1>4, <1>6, EdgeCases
  <2>2. CASE Over("NEXT_IMAGE", Counting)
    BY <2>2, <1>4, <1>6, EdgeCases
  <2>3. CASE Busy
    BY <2>3, <1>4, <1>7, EdgeCases
  <2>4. QED
    BY <1>1, <2>1, <2>2, <2>3

\* After the last answer of an image the batch registers stand still until the
\* next batch: what remains to be shown of a step is its decision.
LEMMA SettledStep ==
  ASSUME TypeOK, TypeOK', IInv, NEW to, NEW outs, NEW valid \in {"NO_CMD", "ACK"},
         NEW pulses \in SUBSET {"set_ram_count"}, NEW fault \in Faults, NEW push,
         Edge(to, outs, valid, pulses, fault, push),
         state \in BatchStates \ {"ACK_BP", "ACK_STRIP", "PROCESS_IMAGE"},
         to \in {"PROCESS_IMAGE", "WAIT_POST_RX", "WAIT_RAM_STORED", "WAIT_TX", "WAIT_ACK"},
         "Clear_buff" \notin outs,
         "image_loaded" \in outs <=> to = "PROCESS_IMAGE",
         "CU_rst" \in outs => to = "WAIT_TX",
         to = "WAIT_TX" => "tx_en" \in outs,
         to = "PROCESS_IMAGE" => /\ state \in {"NEXT_IMAGE", "NEXT_IMAGE_VALID"}
                                 /\ image_processed # breakpoint_count,
         to # "PROCESS_IMAGE" => image_processed = breakpoint_count,
         to \in {"WAIT_POST_RX", "WAIT_RAM_STORED", "WAIT_TX"} => images_with_digits > 0,
         to = "WAIT_RAM_STORED" => ocr_rx_done_1' \/ headcount' = Result_LC',
         "tx_en" \in outs => headcount' = Result_LC'
  PROVE  IInv'
<1>1. /\ ConfigEdge /\ BatchEdge(pulses, push) /\ WatchdogEdge /\ OcrEdge
      /\ BreakpointEdge(pulses) /\ state # "PROCESS_IMAGE"
  BY EdgeParts
<1>2. CASE Aborted(outs)
  BY <1>1, <1>2, AbortedStep
<1>3. CASE Smooth(to, outs, valid)
  <2>1. "Clear_buff" \notin out
    BY DEF IInv, OutputsInStep, ErrorStates, BatchStates
  <2>2. UNCHANGED <<image_processed, images_with_digits, bp_addr, start_addr, end_addr>>
    BY <1>1, <2>1, BatchKept
  <2>3. UNCHANGED <<cfg, strip_width, breakpoint_count>>
    BY <1>1, <1>3, ConfigKept DEF Smooth, IInv, CommandsInStep
  <2>4. bp_ram' = bp_ram
    BY <1>1 DEF BreakpointEdge
  <2>5. ocr_age' = 0
    BY <1>1, AccelOutside
  <2>6. OutputsInStep' /\ CommandsInStep'
    BY <1>3, <2>3 DEF Smooth, IInv, ErrorStates, OutputsInStep, CommandsInStep, BatchStates
  <2>7. BatchCounters'
    <3>1. /\ images_with_digits <= image_processed /\ image_processed <= breakpoint_count
          /\ image_processed \in Nat /\ breakpoint_count \in Nat
      BY DEF TypeOK, IInv, BatchCounters
    <3>2. QED
      BY <1>3, <2>2, <2>3, <3>1 DEF Smooth, BatchCounters
  <2>8. PrefetchInStep'
    BY <1>3, <2>2, <2>4, <2>5 DEF Smooth, IInv, PrefetchInStep
  <2>9. WatchdogInStep' /\ OcrInStep' /\ WatchdogFull'
    BY <1>1, <1>3, SmoothOutside DEF Smooth
  <2>10. HeadcountInStep' /\ HeadcountCurrent'
    BY <1>3 DEF Smooth, HeadcountInStep, HeadcountCurrent
  <2>11. QED
    BY <2>6, <2>7, <2>8, <2>9, <2>10 DEF IInv
<1>4. QED
  BY <1>2, <1>3, EdgeCases

LEMMA NextImageKeeps ==
  ASSUME TypeOK, TypeOK', IInv, NEW fault \in Faults, NEW push,
         NextImage(fault, push) \/ NextImageValid(fault, push)
  PROVE  IInv'
<1>1. state \in {"NEXT_IMAGE", "NEXT_IMAGE_VALID"}
  BY DEF NextImage, NextImageValid
<1>2. CASE /\ image_processed = breakpoint_count /\ images_with_digits > 0
           /\ Edge("WAIT_POST_RX", {"final_image"}, "NO_CMD", {}, fault, push)
  BY <1>1, <1>2, SettledStep DEF BatchStates
<1>3. CASE /\ image_processed = breakpoint_count
           /\ Edge("WAIT_ACK", {}, "NO_CMD", {}, fault, push)
  BY <1>1, <1>3, SettledStep DEF BatchStates
<1>4. CASE /\ image_processed # breakpoint_count
           /\ Edge("PROCESS_IMAGE", {"image_loaded"}, "NO_CMD", {}, fault, push)
  BY <1>1, <1>4, SettledStep DEF BatchStates
<1>5. state = "NEXT_IMAGE_VALID" => images_with_digits > 0
  BY DEF IInv, BatchCounters
<1>6. images_with_digits \in Nat
  BY DEF TypeOK
<1>7. CASE NextImage(fault, push)
  BY <1>2, <1>3, <1>4, <1>6, <1>7 DEF NextImage, at_breakpoint_count, stip_has_LPs
<1>8. CASE NextImageValid(fault, push)
  BY <1>2, <1>4, <1>5, <1>8 DEF NextImageValid, at_breakpoint_count
<1>9. QED
  BY <1>7, <1>8

\* The last word is pushed in the cycle in which WAIT_POST_RX ends; the headcount
\* is latched one cycle into WAIT_RAM_STORED.
LEMMA WaitPostRxKeeps ==
  ASSUME TypeOK, TypeOK', IInv, NEW fault \in Faults, NEW push, WaitPostRx(fault, push)
  PROVE  IInv'
<1>1. state = "WAIT_POST_RX"
  BY DEF WaitPostRx
<1>2. image_processed = breakpoint_count /\ images_with_digits > 0
  BY <1>1 DEF IInv, BatchCounters
<1>3. CASE /\ push = "done"
           /\ Edge("WAIT_RAM_STORED", {}, "NO_CMD", {"set_ram_count"}, fault, push)
  <2>1. ocr_rx_done_1'
    BY <1>3, EdgeParts DEF BatchEdge
  <2>2. QED
    BY <1>1, <1>2, <1>3, <2>1, SettledStep DEF BatchStates
<1>4. CASE Edge("WAIT_POST_RX", {"final_image"}, "NO_CMD", {}, fault, push)
  BY <1>1, <1>2, <1>4, SettledStep DEF BatchStates
<1>5. QED
  BY <1>3, <1>4 DEF WaitPostRx

LEMMA WaitRamStoredKeeps ==
  ASSUME TypeOK, TypeOK', IInv, NEW fault \in Faults, WaitRamStored(fault)
  PROVE  IInv'
<1>1. state = "WAIT_RAM_STORED"
  BY DEF WaitRamStored
<1>2. /\ image_processed = breakpoint_count /\ images_with_digits > 0
      /\ "Clear_buff" \notin out
      /\ ocr_rx_done_1 \/ headcount = Result_LC
  BY <1>1 DEF IInv, BatchCounters, OutputsInStep, ErrorStates, HeadcountInStep
<1>3. CASE Edge("WAIT_TX", {"tx_en"}, "NO_CMD", {}, fault, "none")
  <2>1. headcount' = Result_LC'
    BY <1>2, <1>3, EdgeParts, HeadcountKept
  <2>2. QED
    BY <1>1, <1>2, <1>3, <2>1, SettledStep DEF BatchStates
<1>4. CASE Edge("WAIT_RAM_STORED", {}, "NO_CMD", {"set_ram_count"}, fault, "none")
  <2>1. headcount' = Result_LC'
    BY <1>2, <1>4, EdgeParts, HeadcountKept
  <2>2. QED
    BY <1>1, <1>2, <1>4, <2>1, SettledStep DEF BatchStates
<1>5. QED
  BY <1>3, <1>4 DEF WaitRamStored, Quiet

LEMMA WaitTxKeeps ==
  ASSUME TypeOK, TypeOK', IInv, NEW fault \in Faults, WaitTx(fault)
  PROVE  IInv'
<1>1. state = "WAIT_TX"
  BY DEF WaitTx
<1>2. /\ image_processed = breakpoint_count /\ images_with_digits > 0
      /\ "Clear_buff" \notin out /\ headcount = Result_LC
  BY <1>1 DEF IInv, BatchCounters, OutputsInStep, ErrorStates, HeadcountCurrent
<1>3. CASE Edge("WAIT_ACK", {}, "NO_CMD", {}, fault, "none")
  BY <1>1, <1>2, <1>3, SettledStep DEF BatchStates
<1>4. CASE Edge("WAIT_TX", {"CU_rst", "tx_en"}, "NO_CMD", {}, fault, "none")
  <2>1. headcount' = Result_LC'
    BY <1>2, <1>4, EdgeParts, HeadcountKept
  <2>2. QED
    BY <1>1, <1>2, <1>4, <2>1, SettledStep DEF BatchStates
<1>5. QED
  BY <1>3, <1>4 DEF WaitTx, Quiet

\* ACK clears the buffers: the FSM is in IDLE a cycle before they are empty.
LEMMA WaitAckKeeps ==
  ASSUME TypeOK, TypeOK', IInv, NEW fault \in Faults, WaitAck(fault)
  PROVE  IInv'
<1>1. state = "WAIT_ACK"
  BY DEF WaitAck
<1>2. image_processed = breakpoint_count
  BY <1>1 DEF IInv, BatchCounters
<1>3. CASE Edge("WAIT_ACK", {}, "ACK", {}, fault, "none")
  BY <1>1, <1>2, <1>3, SettledStep DEF BatchStates
<1>4. CASE Edge("IDLE", {"Clear_buff"}, "NO_CMD", {}, fault, "none")
  <2>1. ConfigEdge /\ WatchdogEdge /\ OcrEdge
    BY <1>4, EdgeParts
  <2>2. CASE Aborted({"Clear_buff"})
    BY <2>1, <2>2, AbortedStep
  <2>3. CASE Smooth("IDLE", {"Clear_buff"}, "NO_CMD")
    <3>1. UNCHANGED <<cfg, strip_width, breakpoint_count>>
      BY <1>1, <2>1, <2>3, ConfigKept DEF Smooth, IInv, CommandsInStep, BatchStates
    <3>2. OutputsInStep' /\ CommandsInStep'
      BY <1>1, <2>3, <3>1
         DEF Smooth, IInv, OutputsInStep, CommandsInStep, BatchStates
    <3>3. BatchCounters' /\ PrefetchInStep'
      BY <2>3 DEF Smooth, BatchCounters, BatchStates, PrefetchInStep
    <3>4. WatchdogInStep' /\ OcrInStep' /\ WatchdogFull'
      BY <1>1, <2>1, <2>3, SmoothOutside DEF Smooth
    <3>5. HeadcountInStep' /\ HeadcountCurrent'
      BY <2>3 DEF Smooth, HeadcountInStep, HeadcountCurrent
    <3>6. QED
      BY <3>2, <3>3, <3>4, <3>5 DEF IInv
  <2>4. QED
    BY <1>4, <2>2, <2>3, EdgeCases
<1>5. QED
  BY <1>3, <1>4 DEF WaitAck, Quiet

LEMMA ErrorKeeps ==
  ASSUME TypeOK, TypeOK', IInv, NEW fault \in Faults, Error(fault)
  PROVE  IInv'
<1>1. /\ Edge(state, {"error_flag"}, "RESET", {}, fault, "none") /\ state \in ErrorStates
      /\ state # "PROCESS_IMAGE"
  BY DEF Error, Quiet, ErrorStates
<1>2. ConfigEdge /\ WatchdogEdge /\ OcrEdge
  BY <1>1, EdgeParts
<1>3. CASE Aborted({"error_flag"})
  BY <1>2, <1>3, AbortedStep
<1>4. CASE Smooth(state, {"error_flag"}, "RESET")
  <2>1. OutputsInStep' /\ CommandsInStep' /\ BatchCounters' /\ PrefetchInStep'
    BY <1>1, <1>4 DEF Smooth, ErrorStates, OutputsInStep, CommandsInStep, BatchStates,
                      BatchCounters, PrefetchInStep
  <2>2. WatchdogInStep' /\ OcrInStep' /\ WatchdogFull'
    BY <1>1, <1>2, <1>4, SmoothOutside DEF Smooth
  <2>3. HeadcountInStep' /\ HeadcountCurrent'
    BY <1>1, <1>4 DEF Smooth, ErrorStates, HeadcountInStep, HeadcountCurrent
  <2>4. QED
    BY <2>1, <2>2, <2>3 DEF IInv
<1>5. QED
  BY <1>1, <1>3, <1>4, EdgeCases

-----------------------------------------------------------------------------
(* The theorems. *)

LEMMA InitIInv ==
  ASSUME Init
  PROVE  IInv
<1>1. OutputsInStep /\ CommandsInStep /\ BatchCounters /\ PrefetchInStep
  BY DEF Init, OutputsInStep, CommandsInStep, BufferCleared, BatchStates, BatchCounters,
         PrefetchInStep
<1>2. WatchdogInStep /\ OcrInStep /\ WatchdogFull /\ HeadcountInStep /\ HeadcountCurrent
  BY DEF Init, WatchdogInStep, OcrInStep, WatchdogFull, HeadcountInStep, HeadcountCurrent
<1>3. QED
  BY <1>1, <1>2 DEF IInv

LEMMA NextIInv ==
  ASSUME TypeOK, TypeOK', IInv, Next
  PROVE  IInv'
<1>1. PICK fault \in Faults :
        \/ Offline(fault) \/ Idle(fault) \/ AckBp(fault) \/ AckStrip(fault)
        \/ \E push \in {"none", "push", "done"} :
             \/ ProcessImage(fault, push) \/ NextImage(fault, push)
             \/ NextImageValid(fault, push) \/ WaitPostRx(fault, push)
        \/ WaitRamStored(fault) \/ WaitTx(fault) \/ WaitAck(fault) \/ Error(fault)
  BY Zenon DEF Next
<1>2. CASE Offline(fault) \/ Idle(fault) \/ AckBp(fault) \/ AckStrip(fault)
  BY <1>2, OfflineKeeps, IdleKeeps, AckBpKeeps, AckStripKeeps
<1>3. ASSUME NEW push,
             \/ ProcessImage(fault, push) \/ NextImage(fault, push)
             \/ NextImageValid(fault, push) \/ WaitPostRx(fault, push)
      PROVE  IInv'
  BY <1>3, ProcessImageKeeps, NextImageKeeps, WaitPostRxKeeps
<1>4. CASE WaitRamStored(fault) \/ WaitTx(fault) \/ WaitAck(fault) \/ Error(fault)
  BY <1>4, WaitRamStoredKeeps, WaitTxKeeps, WaitAckKeeps, ErrorKeeps
<1>5. QED
  BY <1>1, <1>2, <1>3, <1>4

\* Outputs, commands, counters, prefetch pipeline, watchdog and header latch keep
\* in step with the FSM: the strengthening the theorems below follow from.
THEOREM Invariance == Spec => []IInv
<1>1. Init => IInv
  BY InitIInv
<1>2. TypeOK /\ TypeOK' /\ IInv /\ [Next]_vars => IInv'
  <2> SUFFICES ASSUME TypeOK, TypeOK', IInv, [Next]_vars PROVE IInv'
    OBVIOUS
  <2>1. CASE Next
    BY <2>1, NextIInv
  <2>2. CASE UNCHANGED vars
    <3>1. UNCHANGED <<PIO_CMD, cmd_prev, cmd_raw, valid_cmd_1, cfg, strip_width,
                      breakpoint_count, state, out>>
      BY <2>2 DEF vars, cmdVars, cfgVars
    <3>2. UNCHANGED <<image_processed, images_with_digits, bp_addr, start_addr, end_addr,
                      ram_count, headcount, ocr_rx_done_1, Result_LC>>
      BY <2>2 DEF vars, batchVars
    <3>3. UNCHANGED <<ocr_watchdog_counter, watchdog_ocr_trigger, bp_ram, bp_rd, breakpoint,
                      ocr, ocr_age, ocr_digits, Pixel_addr>>
      BY <2>2 DEF vars, wdVars, bpVars, ocrVars
    <3>4. OutputsInStep' /\ CommandsInStep' /\ BatchCounters' /\ PrefetchInStep'
      BY <3>1, <3>2, <3>3 DEF IInv, OutputsInStep, CommandsInStep, BufferCleared,
                              BatchCounters, PrefetchInStep
    <3>5. WatchdogInStep' /\ OcrInStep' /\ WatchdogFull'
      BY <3>1, <3>3 DEF IInv, WatchdogInStep, OcrInStep, WatchdogFull, watchdog_ocr_conf
    <3>6. HeadcountInStep' /\ HeadcountCurrent'
      BY <3>1, <3>2 DEF IInv, HeadcountInStep, HeadcountCurrent
    <3>7. QED
      BY <3>4, <3>5, <3>6 DEF IInv
  <2>3. QED
    BY <2>1, <2>2
<1>3. QED
  BY <1>1, <1>2, Typing, PTL DEF Spec

\* No image of a strip is skipped or counted twice, and results are announced
\* only after the last image and only if there are any.
THEOREM CountersExact == Spec => []BatchCounters
<1>1. IInv => BatchCounters
  BY DEF IInv
<1>2. QED
  BY <1>1, Invariance, PTL

\* The accelerator always works on the image the FSM counts next, although
\* the window is read ahead through a RAM with two cycles of latency.
THEOREM WindowExact == Spec => []ImageWindow
<1>1. IInv => ImageWindow
  BY DEF IInv, PrefetchInStep, ImageWindow
<1>2. QED
  BY <1>1, Invariance, PTL

\* The accelerator is at work exactly when the FSM waits for it.
THEOREM AcceleratorInStep == Spec => []OcrInStep
<1>1. IInv => OcrInStep
  BY DEF IInv
<1>2. QED
  BY <1>1, Invariance, PTL

\* Every image gets its full watchdog time.
THEOREM WatchdogExact == Spec => []WatchdogFull
<1>1. IInv => WatchdogFull
  BY DEF IInv
<1>2. QED
  BY <1>1, Invariance, PTL

\* The header TX_UNIT reads is the number of words pushed.
THEOREM HeaderExact == Spec => []HeadcountCurrent
<1>1. IInv => HeadcountCurrent
  BY DEF IInv
<1>2. QED
  BY <1>1, Invariance, PTL

\* An error state is left for OFFLINE, on RESET, or for another error only.
THEOREM Halted == Spec => HaltedUntilReset
<1>1. [Next]_vars =>
        [(state \in ErrorStates) =>
           \/ state' \in ErrorStates
           \/ cmd = "RESET" /\ state' = "OFFLINE" /\ "Clear_buff" \in out']_vars
  <2> SUFFICES ASSUME Next, state \in ErrorStates
               PROVE  \/ state' \in ErrorStates
                      \/ cmd = "RESET" /\ state' = "OFFLINE" /\ "Clear_buff" \in out'
    OBVIOUS
  <2>1. PICK fault \in Faults : Error(fault)
    BY DEF Next, ErrorStates, Offline, Idle, AckBp, AckStrip, ProcessImage, NextImage,
           NextImageValid, WaitPostRx, WaitRamStored, WaitTx, WaitAck
  <2>2. Edge(state, {"error_flag"}, "RESET", {}, fault, "none")
    BY <2>1 DEF Error, Quiet
  <2>3. QED
    BY <2>2 DEF Edge, Override, OverrideOutputs, Faults, ErrorStates
<1>2. QED
  BY <1>1, PTL DEF Spec, HaltedUntilReset
=============================================================================
