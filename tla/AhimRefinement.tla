--------------------------- MODULE AhimRefinement ---------------------------
(* AhimCore implements AhimProtocol, for all sizes and payloads. *)
EXTENDS AhimCoreProofs

Idling == {"OFFLINE", "IDLE"} \union ErrorStates

-----------------------------------------------------------------------------
(* The mapping, state by state. *)

LEMMA NothingMapped ==
  ASSUME state \in Idling
  PROVE  /\ AnnouncedImages = 0 /\ ImageEnds = <<>> /\ ImagesDone = 0 /\ ImagesHit = 0
         /\ WindowShown = <<0, 0>> /\ WordsPushed = 0 /\ HeaderOffered = 0
BY DEF Idling, ErrorStates, BatchStates, CountedStates, AnnouncedImages, ImageEnds,
       ImagesDone, ImagesHit, WindowShown, WordsPushed, HeaderOffered

LEMMA NothingMappedNext ==
  ASSUME state' \in Idling
  PROVE  Protocol!Cleared
BY DEF Idling, ErrorStates, BatchStates, CountedStates, AnnouncedImages, ImageEnds,
       ImagesDone, ImagesHit, WindowShown, WordsPushed, HeaderOffered, Protocol!Cleared,
       Protocol!NoEnds, Protocol!NoWindow

\* An overruled edge is a failure or a reset of the protocol; between two error
\* states, or from OFFLINE to OFFLINE, nothing happens there.
LEMMA AbortedRefines ==
  ASSUME TypeOK, NEW outs, Aborted(outs)
  PROVE  [Protocol!Next]_Protocol!vars
<1>1. Protocol!Cleared
  BY NothingMappedNext DEF Aborted, Idling
<1>2. ProtocolPhase' = IF state' \in ErrorStates THEN "ERROR" ELSE "OFFLINE"
  BY DEF Aborted, ProtocolPhase, ErrorStates
<1>3. CASE ProtocolPhase' # ProtocolPhase
  BY <1>1, <1>2, <1>3 DEF Protocol!Next, Protocol!Fail, Protocol!Reset
<1>4. CASE ProtocolPhase' = ProtocolPhase
  <2>1. state \in Idling
    BY <1>2, <1>4 DEF TypeOK, States, ProtocolPhase, Idling, ErrorStates
  <2>2. QED
    BY <1>1, <1>4, <2>1, NothingMapped
       DEF Protocol!Cleared, Protocol!NoEnds, Protocol!NoWindow, Protocol!vars
<1>5. QED
  BY <1>3, <1>4

\* While images are counted, the mapped batch is what the registers say.
LEMMA BatchMapped ==
  ASSUME state \in CountedStates
  PROVE  /\ AnnouncedImages = breakpoint_count
         /\ ImageEnds = [i \in 0 .. breakpoint_count - 1 |-> bp_ram[i]]
         /\ ImagesDone = image_processed /\ ImagesHit = images_with_digits
         /\ WordsPushed = Result_LC
BY DEF CountedStates, BatchStates, AnnouncedImages, ImageEnds, ImagesDone, ImagesHit,
       WordsPushed

LEMMA BatchMappedNext ==
  ASSUME state' \in CountedStates
  PROVE  /\ AnnouncedImages' = breakpoint_count'
         /\ ImageEnds' = [i \in 0 .. breakpoint_count' - 1 |-> bp_ram'[i]]
         /\ ImagesDone' = image_processed' /\ ImagesHit' = images_with_digits'
         /\ WordsPushed' = Result_LC'
BY DEF CountedStates, BatchStates, AnnouncedImages, ImageEnds, ImagesDone, ImagesHit,
       WordsPushed

\* A smooth edge between two counted states keeps the announcement and produces
\* at most one word.
LEMMA CountedStep ==
  ASSUME TypeOK, IInv, NEW to, NEW outs, NEW valid, NEW pulses, NEW fault, NEW push,
         Edge(to, outs, valid, pulses, fault, push), Smooth(to, outs, valid),
         "bp_loaded" \notin pulses, state \in CountedStates, to \in CountedStates
  PROVE  /\ AnnouncedImages' = AnnouncedImages /\ ImageEnds' = ImageEnds
         /\ Protocol!Produce
         /\ push = "none" => WordsPushed' = WordsPushed
<1>1. ConfigEdge /\ BreakpointEdge(pulses) /\ ResultEdge(push)
  BY EdgeParts
<1>2. breakpoint_count' = breakpoint_count
  BY <1>1, ConfigKept DEF Smooth, IInv, CommandsInStep, BatchStates, CountedStates
<1>3. bp_ram' = bp_ram
  BY <1>1 DEF BreakpointEdge
<1>4. "Clear_buff" \notin out
  BY DEF IInv, OutputsInStep, ErrorStates, CountedStates
<1>5. Result_LC' \in {Result_LC, Result_LC + 1} /\ (push = "none" => Result_LC' = Result_LC)
  BY <1>1, <1>4 DEF ResultEdge
<1>6. state' \in CountedStates
  BY DEF Smooth
<1>7. QED
  BY <1>2, <1>3, <1>5, <1>6, BatchMapped, BatchMappedNext DEF Protocol!Produce

-----------------------------------------------------------------------------
(* One lemma per state of the FSM: its edge is a step of the protocol or none. *)

LEMMA OfflineRefines ==
  ASSUME TypeOK, NEW fault \in Faults, Offline(fault)
  PROVE  [Protocol!Next]_Protocol!vars
<1>1. PICK to, valid :
        /\ to \in {"OFFLINE", "IDLE"}
        /\ Edge(to, {}, valid, {}, fault, "none")
  BY DEF Offline, Quiet
<1>2. CASE Smooth(to, {}, valid)
  <2>1. Protocol!Cleared /\ state = "OFFLINE"
    BY <1>1, <1>2, NothingMappedNext DEF Offline, Smooth, Idling
  <2>2. ProtocolPhase = "OFFLINE" /\ ProtocolPhase' = to
    BY <1>1, <1>2, <2>1 DEF Smooth, ProtocolPhase, ErrorStates
  <2>3. CASE to = "IDLE"
    BY <2>1, <2>2, <2>3 DEF Protocol!Next, Protocol!Connect
  <2>4. CASE to = "OFFLINE"
    BY <2>1, <2>2, <2>4, NothingMapped
       DEF Idling, Protocol!Cleared, Protocol!NoEnds, Protocol!NoWindow, Protocol!vars
  <2>5. QED
    BY <1>1, <2>3, <2>4
<1>3. QED
  BY <1>1, <1>2, EdgeCases, AbortedRefines

LEMMA IdleRefines ==
  ASSUME TypeOK, TypeOK', NEW fault \in Faults, Idle(fault)
  PROVE  [Protocol!Next]_Protocol!vars
<1>1. PICK to, outs, valid :
        /\ to \in {"IDLE", "ACK_BP"}
        /\ Edge(to, outs, valid, {}, fault, "none")
  BY DEF Idle, Quiet
<1>2. CASE Smooth(to, outs, valid)
  <2>1. state = "IDLE" /\ ProtocolPhase = "IDLE" /\ ProtocolPhase' = to /\ state' = to
    BY <1>1, <1>2 DEF Idle, Smooth, ProtocolPhase, ErrorStates
  <2>2. CASE to = "ACK_BP"
    <3>1. /\ AnnouncedImages' \in Nat /\ ImageEnds' = <<>> /\ ImagesDone' = 0
          /\ ImagesHit' = 0 /\ WindowShown' = <<0, 0>> /\ WordsPushed' = 0
          /\ HeaderOffered' = 0
      BY <2>1, <2>2 DEF TypeOK, BatchStates, CountedStates, AnnouncedImages, ImageEnds,
           ImagesDone, ImagesHit, WindowShown, WordsPushed, HeaderOffered
    <3>2. QED
      BY <2>1, <2>2, <3>1, NothingMapped DEF Idling, Protocol!Next, Protocol!Upload
  <2>3. CASE to = "IDLE"
    BY <2>1, <2>3, NothingMapped, NothingMappedNext
       DEF Idling, Protocol!Cleared, Protocol!NoEnds, Protocol!NoWindow, Protocol!vars
  <2>4. QED
    BY <1>1, <2>2, <2>3
<1>3. QED
  BY <1>1, <1>2, EdgeCases, AbortedRefines

LEMMA AckBpRefines ==
  ASSUME TypeOK, TypeOK', IInv, NEW fault \in Faults, AckBp(fault)
  PROVE  [Protocol!Next]_Protocol!vars
<1>1. PICK to, outs, pulses :
        /\ to \in {"ERROR_COM", "ACK_STRIP", "ACK_BP"}
        /\ Edge(to, outs, "NO_CMD", pulses, fault, "none")
        /\ to = "ACK_STRIP" => breakpoint_count # 0
  BY DEF AckBp, Quiet
<1>2. CASE Smooth(to, outs, "NO_CMD")
  <2>1. state = "ACK_BP" /\ state' = to
    BY <1>2 DEF AckBp, Smooth
  <2>2. breakpoint_count' = breakpoint_count
    BY <1>1, <1>2, <2>1, EdgeParts, ConfigKept DEF Smooth, IInv, CommandsInStep, BatchStates
  <2>3. /\ ProtocolPhase = "ACK_BP" /\ AnnouncedImages = breakpoint_count
        /\ ImageEnds = <<>> /\ ImagesDone = 0 /\ ImagesHit = 0 /\ WindowShown = <<0, 0>>
        /\ WordsPushed = 0 /\ HeaderOffered = 0
    BY <2>1 DEF ErrorStates, BatchStates, CountedStates, ProtocolPhase, AnnouncedImages,
         ImageEnds, ImagesDone, ImagesHit, WindowShown, WordsPushed, HeaderOffered
  <2>4. to # "ERROR_COM" =>
          /\ ProtocolPhase' = to /\ AnnouncedImages' = breakpoint_count
          /\ ImagesDone' = 0 /\ ImagesHit' = 0 /\ WindowShown' = <<0, 0>>
          /\ WordsPushed' = 0 /\ HeaderOffered' = 0
          /\ ImageEnds' = IF to = "ACK_BP" THEN <<>>
                          ELSE [i \in 0 .. breakpoint_count - 1 |-> bp_ram'[i]]
    BY <1>1, <2>1, <2>2 DEF ErrorStates, BatchStates, CountedStates, ProtocolPhase,
         AnnouncedImages, ImageEnds, ImagesDone, ImagesHit, WindowShown, WordsPushed,
         HeaderOffered
  <2>5. CASE to = "ACK_BP"
    BY <2>3, <2>4, <2>5 DEF Protocol!vars
  <2>6. CASE to = "ACK_STRIP"
    <3>1. [i \in 0 .. breakpoint_count - 1 |-> bp_ram'[i]]
            \in [0 .. breakpoint_count - 1 -> Nat]
      <4>1. breakpoint_count \in Nat /\ breakpoint_count <= BP_RAM_SIZE - 1
        BY SizesAssumption DEF TypeOK
      <4>2. \A i \in 0 .. BP_RAM_SIZE - 1 : bp_ram'[i] \in Nat
        BY DEF TypeOK
      <4>3. \A i \in 0 .. breakpoint_count - 1 : i \in 0 .. BP_RAM_SIZE - 1
        BY <4>1, SizesAssumption
      <4>4. QED
        BY <4>2, <4>3
    <3>2. breakpoint_count > 0
      BY <1>1, <2>6 DEF TypeOK
    <3>3. QED
      BY <2>3, <2>4, <2>6, <3>1, <3>2 DEF Protocol!Next, Protocol!TakeBreakpoints
  <2>7. CASE to = "ERROR_COM"
    <3>1. Protocol!Cleared /\ ProtocolPhase' = "ERROR"
      BY <2>1, <2>7, NothingMappedNext DEF Idling, ErrorStates, ProtocolPhase
    <3>2. QED
      BY <2>3, <3>1 DEF Protocol!Next, Protocol!Fail
  <2>8. QED
    BY <1>1, <2>5, <2>6, <2>7
<1>3. QED
  BY <1>1, <1>2, EdgeCases, AbortedRefines

\* The window of the first image is right because IInv holds after the step.
LEMMA AckStripRefines ==
  ASSUME TypeOK, TypeOK', IInv, IInv', NEW fault \in Faults, AckStrip(fault)
  PROVE  [Protocol!Next]_Protocol!vars
<1>1. PICK to, outs, pulses :
        /\ to \in {"PROCESS_IMAGE", "ACK_STRIP"}
        /\ Edge(to, outs, "NO_CMD", pulses, fault, "none")
        /\ pulses \in {{}, {"read_next_bp"}}
  BY DEF AckStrip, Quiet
<1>2. CASE Smooth(to, outs, "NO_CMD")
  <2>1. /\ state = "ACK_STRIP" /\ state' = to
        /\ "Clear_buff" \notin out /\ BufferCleared /\ breakpoint_count > 0
    BY <1>2 DEF AckStrip, Smooth, IInv, OutputsInStep, CommandsInStep, ErrorStates
  <2>2. breakpoint_count' = breakpoint_count /\ bp_ram' = bp_ram
    BY <1>1, <1>2, <2>1, EdgeParts, ConfigKept
       DEF Smooth, IInv, CommandsInStep, BatchStates, BreakpointEdge
  <2>3. image_processed' = 0 /\ images_with_digits' = 0 /\ Result_LC' = 0
    BY <1>1, <2>1, EdgeParts DEF BatchEdge, ResultEdge, BufferCleared
  <2>4. /\ ProtocolPhase = "ACK_STRIP" /\ AnnouncedImages = breakpoint_count
        /\ ImageEnds = [i \in 0 .. breakpoint_count - 1 |-> bp_ram[i]]
        /\ ImagesDone = 0 /\ ImagesHit = 0 /\ WindowShown = <<0, 0>>
        /\ WordsPushed = 0 /\ HeaderOffered = 0
    BY <2>1 DEF ErrorStates, BatchStates, CountedStates, ProtocolPhase, AnnouncedImages,
         ImageEnds, ImagesDone, ImagesHit, WindowShown, WordsPushed, HeaderOffered
  <2>5. /\ ProtocolPhase' = to /\ AnnouncedImages' = breakpoint_count
        /\ ImageEnds' = [i \in 0 .. breakpoint_count - 1 |-> bp_ram[i]]
        /\ ImagesDone' = 0 /\ ImagesHit' = 0
        /\ WindowShown' = IF to = "PROCESS_IMAGE" THEN <<start_addr', end_addr'>> ELSE <<0, 0>>
        /\ WordsPushed' = 0 /\ HeaderOffered' = 0
    BY <1>1, <2>1, <2>2, <2>3 DEF ErrorStates, BatchStates, CountedStates, ProtocolPhase,
         AnnouncedImages, ImageEnds, ImagesDone, ImagesHit, WindowShown, WordsPushed,
         HeaderOffered
  <2>6. CASE to = "ACK_STRIP"
    BY <2>4, <2>5, <2>6 DEF Protocol!vars
  <2>7. CASE to = "PROCESS_IMAGE"
    <3>1. start_addr' = 0 /\ end_addr' = bp_ram[0]
      BY <2>1, <2>2, <2>3, <2>7 DEF IInv, PrefetchInStep
    <3>2. ImageEnds[0] = bp_ram[0]
      BY <2>1, <2>4 DEF TypeOK
    <3>3. WindowShown' = Protocol!WindowOf(ImageEnds, 0)
      BY <2>5, <2>7, <3>1, <3>2 DEF Protocol!WindowOf
    <3>4. QED
      BY <2>4, <2>5, <2>7, <3>3 DEF Protocol!Next, Protocol!TakeStrip
  <2>8. QED
    BY <1>1, <2>6, <2>7
<1>3. QED
  BY <1>1, <1>2, EdgeCases, AbortedRefines

LEMMA ProcessImageRefines ==
  ASSUME TypeOK, IInv, NEW fault \in Faults, NEW push, ProcessImage(fault, push)
  PROVE  [Protocol!Next]_Protocol!vars
<1>1. PICK to, outs, pulses :
        /\ to \in {"NEXT_IMAGE", "NEXT_IMAGE_VALID", "PROCESS_IMAGE"}
        /\ Edge(to, outs, "NO_CMD", pulses, fault, push)
        /\ "bp_loaded" \notin pulses
        /\ IF to = "PROCESS_IMAGE" THEN pulses = {}
           ELSE "image_processed_add" \in pulses
  <2>1. {"update_img_addr", "images_with_digits_add", "image_processed_add"} # {}
    OBVIOUS
  <2>2. QED
    BY DEF ProcessImage
<1>2. CASE Smooth(to, outs, "NO_CMD")
  <2>1. state = "PROCESS_IMAGE" /\ state' = to /\ "Clear_buff" \notin out
    BY <1>2 DEF ProcessImage, Smooth, IInv, OutputsInStep, ErrorStates
  <2>2. state \in CountedStates /\ state' \in CountedStates
    BY <1>1, <2>1 DEF CountedStates
  <2>3. /\ AnnouncedImages' = AnnouncedImages /\ ImageEnds' = ImageEnds
        /\ Protocol!Produce
    BY <1>1, <1>2, <2>1, <2>2, CountedStep
  <2>4. BatchEdge(pulses, push)
    BY <1>1, EdgeParts
  <2>5. /\ ProtocolPhase = "PROCESS_IMAGE"
        /\ ProtocolPhase' = IF to = "PROCESS_IMAGE" THEN to ELSE "NEXT_IMAGE"
        /\ HeaderOffered = 0 /\ HeaderOffered' = 0
    BY <1>1, <2>1 DEF ErrorStates, ProtocolPhase, HeaderOffered
  <2>6. CASE to = "PROCESS_IMAGE"
    <3>1. UNCHANGED <<image_processed, images_with_digits, start_addr, end_addr>>
      BY <1>1, <2>1, <2>4, <2>6 DEF BatchEdge
    <3>2. UNCHANGED <<ImagesDone, ImagesHit, WindowShown>>
      BY <2>1, <2>6, <3>1 DEF ImagesDone, ImagesHit, WindowShown
    <3>3. QED
      BY <2>3, <2>5, <2>6, <3>2 DEF Protocol!Next, Protocol!Work
  <2>7. CASE to # "PROCESS_IMAGE"
    <3>1. /\ image_processed' = image_processed + 1
          /\ images_with_digits' \in {images_with_digits, images_with_digits + 1}
      BY <1>1, <2>1, <2>4, <2>7 DEF BatchEdge
    <3>2. /\ ImagesDone' = ImagesDone + 1 /\ ImagesHit' \in {ImagesHit, ImagesHit + 1}
          /\ WindowShown' = <<0, 0>>
      BY <2>1, <2>2, <2>7, <3>1 DEF ImagesDone, ImagesHit, WindowShown
    <3>3. QED
      BY <2>3, <2>5, <2>7, <3>2
         DEF Protocol!Next, Protocol!EndImage, Protocol!NoWindow
  <2>8. QED
    BY <2>6, <2>7
<1>3. QED
  BY <1>1, <1>2, EdgeCases, AbortedRefines

\* The next window comes from the breakpoints of the images before and after.
LEMMA NextImageRefines ==
  ASSUME TypeOK, TypeOK', IInv, IInv', NEW fault \in Faults, NEW push,
         NextImage(fault, push) \/ NextImageValid(fault, push)
  PROVE  [Protocol!Next]_Protocol!vars
<1> state \in {"NEXT_IMAGE", "NEXT_IMAGE_VALID"}
  BY DEF NextImage, NextImageValid
<1>1. /\ images_with_digits \in Nat /\ image_processed \in Nat /\ breakpoint_count \in Nat
      /\ image_processed <= breakpoint_count
      /\ state = "NEXT_IMAGE_VALID" => images_with_digits > 0
  <2>1. images_with_digits \in Nat /\ image_processed \in Nat /\ breakpoint_count \in Nat
    BY SizesAssumption DEF TypeOK
  <2>2. /\ image_processed <= breakpoint_count
        /\ state = "NEXT_IMAGE_VALID" => images_with_digits > 0
    BY DEF IInv, BatchCounters, BatchStates
  <2>3. QED
    BY <2>1, <2>2
<1>2. PICK to, outs :
        /\ to \in {"PROCESS_IMAGE", "WAIT_POST_RX", "WAIT_ACK"}
        /\ Edge(to, outs, "NO_CMD", {}, fault, push)
        /\ IF to = "PROCESS_IMAGE" THEN image_processed < breakpoint_count
           ELSE /\ image_processed = breakpoint_count
                /\ to = IF images_with_digits > 0 THEN "WAIT_POST_RX" ELSE "WAIT_ACK"
  <2>1. CASE state = "NEXT_IMAGE"
    BY <1>1, <2>1 DEF NextImage, NextImageValid, at_breakpoint_count, stip_has_LPs
  <2>2. CASE state = "NEXT_IMAGE_VALID"
    BY <1>1, <2>2 DEF NextImage, NextImageValid, at_breakpoint_count
  <2>3. QED
    BY <1>1, <2>1, <2>2
<1>3. CASE Smooth(to, outs, "NO_CMD")
  <2>1. /\ state' = to /\ "Clear_buff" \notin out
        /\ state \in CountedStates /\ state' \in CountedStates
    BY <1>2, <1>1, <1>3 DEF Smooth, IInv, OutputsInStep, ErrorStates, CountedStates
  <2>2. /\ AnnouncedImages' = AnnouncedImages /\ ImageEnds' = ImageEnds
        /\ Protocol!Produce
    BY <1>2, <1>3, <2>1, CountedStep DEF Smooth
  <2>3. UNCHANGED <<image_processed, images_with_digits>>
    BY <1>2, <2>1, EdgeParts, BatchKept
  <2>4. /\ UNCHANGED <<ImagesDone, ImagesHit>>
        /\ ImagesDone = image_processed /\ ImagesHit = images_with_digits
        /\ AnnouncedImages = breakpoint_count
    BY <2>1, <2>3, BatchMapped, BatchMappedNext
  <2>5. /\ ProtocolPhase = "NEXT_IMAGE" /\ ProtocolPhase' = to
        /\ HeaderOffered = 0 /\ HeaderOffered' = 0 /\ WindowShown = <<0, 0>>
        /\ to # "PROCESS_IMAGE" => WindowShown' = <<0, 0>>
    BY <1>2, <1>1, <2>1 DEF ErrorStates, ProtocolPhase, HeaderOffered, WindowShown
  <2>6. CASE to = "PROCESS_IMAGE"
    <3>1. WindowShown' = <<start_addr', end_addr'>>
      BY <2>1, <2>6 DEF WindowShown
    <3>2. /\ end_addr' = bp_ram'[image_processed']
          /\ start_addr' = IF image_processed' = 0 THEN 0
                           ELSE bp_ram'[image_processed' - 1] + 1
      BY <2>1, <2>6 DEF IInv, PrefetchInStep
    <3>3. ImageEnds = [i \in 0 .. breakpoint_count - 1 |-> bp_ram[i]]
      BY <2>1, BatchMapped
    <3>4. bp_ram' = bp_ram
      BY <1>2, EdgeParts DEF BreakpointEdge
    <3>5. /\ ImageEnds[image_processed] = bp_ram[image_processed]
          /\ image_processed # 0 => ImageEnds[image_processed - 1] = bp_ram[image_processed - 1]
      BY <1>1, <1>2, <2>6, <3>3
    <3>6. WindowShown' = Protocol!WindowOf(ImageEnds, ImagesDone)
      BY <2>3, <2>4, <3>1, <3>2, <3>4, <3>5 DEF Protocol!WindowOf
    <3>7. QED
      BY <1>2, <2>2, <2>4, <2>5, <2>6, <3>6 DEF Protocol!Next, Protocol!NextImage
  <2>7. CASE to # "PROCESS_IMAGE"
    BY <1>2, <2>2, <2>4, <2>5, <2>7 DEF Protocol!Next, Protocol!LastImage
  <2>8. QED
    BY <2>6, <2>7
<1>4. QED
  BY <1>2, <1>3, EdgeCases, AbortedRefines

\* The states that close, offer and hold the results.
LEMMA ClosingStep ==
  ASSUME TypeOK, IInv, IInv', NEW to, NEW outs, NEW pulses \in SUBSET {"set_ram_count"},
         NEW fault \in Faults, NEW push, Edge(to, outs, "NO_CMD", pulses, fault, push),
         \/ state = "WAIT_POST_RX" /\ to \in {"WAIT_POST_RX", "WAIT_RAM_STORED"}
         \/ push = "none" /\ state = "WAIT_RAM_STORED" /\ to \in {"WAIT_RAM_STORED", "WAIT_TX"}
         \/ push = "none" /\ state = "WAIT_TX" /\ to \in {"WAIT_TX", "WAIT_ACK"},
         to = "WAIT_TX" => "tx_en" \in outs
  PROVE  [Protocol!Next]_Protocol!vars
<1>1. CASE Smooth(to, outs, "NO_CMD")
  <2>1. /\ state' = to /\ "Clear_buff" \notin out
        /\ state \in CountedStates /\ state' \in CountedStates
    BY <1>1 DEF Smooth, IInv, OutputsInStep, ErrorStates, CountedStates
  <2>2. /\ AnnouncedImages' = AnnouncedImages /\ ImageEnds' = ImageEnds
        /\ Protocol!Produce
        /\ push = "none" => WordsPushed' = WordsPushed
    BY <1>1, <2>1, CountedStep DEF Smooth
  <2>3. UNCHANGED <<image_processed, images_with_digits>>
    BY <2>1, EdgeParts, BatchKept
  <2>4. UNCHANGED <<ImagesDone, ImagesHit, WindowShown>>
    BY <2>1, <2>3 DEF CountedStates, ImagesDone, ImagesHit, WindowShown
  <2>5. /\ ProtocolPhase = IF state = "WAIT_TX" THEN state ELSE "WAIT_POST_RX"
        /\ ProtocolPhase' = IF to = "WAIT_RAM_STORED" THEN "WAIT_POST_RX" ELSE to
    BY <2>1 DEF ErrorStates, ProtocolPhase
  <2>6. /\ state = "WAIT_TX" => HeaderOffered = WordsPushed
        /\ state # "WAIT_TX" => HeaderOffered = 0
    BY <2>1, BatchMapped DEF IInv, OutputsInStep, HeadcountCurrent, HeaderOffered
  <2>7. /\ to = "WAIT_TX" => HeaderOffered' = WordsPushed'
        /\ to # "WAIT_TX" => HeaderOffered' = 0
    BY <2>1, BatchMappedNext DEF IInv, OutputsInStep, HeadcountCurrent, HeaderOffered
  <2>8. CASE to \in {"WAIT_POST_RX", "WAIT_RAM_STORED"}
    <3>1. state \in {"WAIT_POST_RX", "WAIT_RAM_STORED"}
      BY <2>8
    <3>2. QED
      BY <2>2, <2>4, <2>5, <2>6, <2>7, <2>8, <3>1 DEF Protocol!Next, Protocol!Work
  <2>9. CASE to = "WAIT_TX" /\ state = "WAIT_RAM_STORED"
    BY <2>2, <2>4, <2>5, <2>7, <2>9 DEF Protocol!Next, Protocol!Offer
  <2>10. CASE to = "WAIT_TX" /\ state = "WAIT_TX"
    BY <2>2, <2>4, <2>5, <2>6, <2>7, <2>10 DEF Protocol!vars
  <2>11. CASE to = "WAIT_ACK"
    BY <2>2, <2>4, <2>5, <2>7, <2>11 DEF Protocol!Next, Protocol!Fetched
  <2>12. QED
    BY <2>8, <2>9, <2>10, <2>11
<1>2. QED
  BY <1>1, EdgeCases, AbortedRefines

LEMMA ClosingRefines ==
  ASSUME TypeOK, IInv, IInv', NEW fault \in Faults, NEW push,
         WaitPostRx(fault, push) \/ WaitRamStored(fault) \/ WaitTx(fault)
  PROVE  [Protocol!Next]_Protocol!vars
<1>1. CASE WaitPostRx(fault, push)
  <2>1. state = "WAIT_POST_RX"
    BY <1>1 DEF WaitPostRx
  <2>2. CASE Edge("WAIT_RAM_STORED", {}, "NO_CMD", {"set_ram_count"}, fault, push)
    BY <2>1, <2>2, ClosingStep
  <2>3. CASE Edge("WAIT_POST_RX", {"final_image"}, "NO_CMD", {}, fault, push)
    BY <2>1, <2>3, ClosingStep
  <2>4. QED
    BY <1>1, <2>2, <2>3 DEF WaitPostRx
<1>2. CASE WaitRamStored(fault)
  <2>1. state = "WAIT_RAM_STORED"
    BY <1>2 DEF WaitRamStored
  <2>2. CASE Edge("WAIT_TX", {"tx_en"}, "NO_CMD", {}, fault, "none")
    BY <2>1, <2>2, ClosingStep
  <2>3. CASE Edge("WAIT_RAM_STORED", {}, "NO_CMD", {"set_ram_count"}, fault, "none")
    BY <2>1, <2>3, ClosingStep
  <2>4. QED
    BY <1>2, <2>2, <2>3 DEF WaitRamStored, Quiet
<1>3. CASE WaitTx(fault)
  <2>1. state = "WAIT_TX"
    BY <1>3 DEF WaitTx
  <2>2. CASE Edge("WAIT_ACK", {}, "NO_CMD", {}, fault, "none")
    BY <2>1, <2>2, ClosingStep
  <2>3. CASE Edge("WAIT_TX", {"CU_rst", "tx_en"}, "NO_CMD", {}, fault, "none")
    BY <2>1, <2>3, ClosingStep
  <2>4. QED
    BY <1>3, <2>2, <2>3 DEF WaitTx, Quiet
<1>4. QED
  BY <1>1, <1>2, <1>3

LEMMA WaitAckRefines ==
  ASSUME TypeOK, IInv, NEW fault \in Faults, WaitAck(fault)
  PROVE  [Protocol!Next]_Protocol!vars
<1>1. PICK to, outs, valid :
        /\ to \in {"IDLE", "WAIT_ACK"}
        /\ Edge(to, outs, valid, {}, fault, "none")
        /\ valid \in {"NO_CMD", "ACK"}
  BY DEF WaitAck, Quiet
<1>2. CASE Smooth(to, outs, valid)
  <2>1. /\ state = "WAIT_ACK" /\ state' = to /\ ProtocolPhase = "WAIT_ACK"
        /\ ProtocolPhase' = to
    BY <1>1, <1>2 DEF WaitAck, Smooth, ErrorStates, ProtocolPhase
  <2>2. CASE to = "IDLE"
    <3>1. Protocol!Cleared
      BY <2>1, <2>2, NothingMappedNext DEF Idling
    <3>2. QED
      BY <2>1, <2>2, <3>1 DEF Protocol!Next, Protocol!Acknowledge
  <2>3. CASE to = "WAIT_ACK"
    <3>1. UNCHANGED <<AnnouncedImages, ImageEnds, WordsPushed>>
      BY <1>1, <1>2, <2>1, <2>3, CountedStep DEF CountedStates
    <3>2. "Clear_buff" \notin out
      BY <2>1 DEF IInv, OutputsInStep, ErrorStates
    <3>3. UNCHANGED <<image_processed, images_with_digits>>
      BY <1>1, <3>2, EdgeParts, BatchKept
    <3>4. UNCHANGED <<ImagesDone, ImagesHit, WindowShown, HeaderOffered>>
      BY <2>1, <2>3, <3>3 DEF CountedStates, ImagesDone, ImagesHit, WindowShown, HeaderOffered
    <3>5. QED
      BY <2>1, <2>3, <3>1, <3>4 DEF Protocol!vars
  <2>4. QED
    BY <1>1, <2>2, <2>3
<1>3. QED
  BY <1>1, <1>2, EdgeCases, AbortedRefines

LEMMA ErrorRefines ==
  ASSUME TypeOK, NEW fault \in Faults, Error(fault)
  PROVE  [Protocol!Next]_Protocol!vars
<1>1. Edge(state, {"error_flag"}, "RESET", {}, fault, "none") /\ state \in ErrorStates
  BY DEF Error, Quiet
<1>2. CASE Smooth(state, {"error_flag"}, "RESET")
  <2>1. state \in Idling /\ state' \in Idling /\ ProtocolPhase' = ProtocolPhase
    BY <1>1, <1>2 DEF Smooth, Idling, ProtocolPhase
  <2>2. QED
    BY <2>1, NothingMapped, NothingMappedNext
       DEF Protocol!Cleared, Protocol!NoEnds, Protocol!NoWindow, Protocol!vars
<1>3. QED
  BY <1>1, <1>2, EdgeCases, AbortedRefines

-----------------------------------------------------------------------------
(* The theorem. *)

LEMMA NextRefines ==
  ASSUME TypeOK, TypeOK', IInv, IInv', Next
  PROVE  [Protocol!Next]_Protocol!vars
<1>1. PICK fault \in Faults :
        \/ Offline(fault) \/ Idle(fault) \/ AckBp(fault) \/ AckStrip(fault)
        \/ \E push \in {"none", "push", "done"} :
             \/ ProcessImage(fault, push) \/ NextImage(fault, push)
             \/ NextImageValid(fault, push) \/ WaitPostRx(fault, push)
        \/ WaitRamStored(fault) \/ WaitTx(fault) \/ WaitAck(fault) \/ Error(fault)
  BY Zenon DEF Next
<1>2. CASE Offline(fault) \/ Idle(fault) \/ AckBp(fault) \/ AckStrip(fault)
  BY <1>2, OfflineRefines, IdleRefines, AckBpRefines, AckStripRefines
<1>3. ASSUME NEW push,
             \/ ProcessImage(fault, push) \/ NextImage(fault, push)
             \/ NextImageValid(fault, push) \/ WaitPostRx(fault, push)
      PROVE  [Protocol!Next]_Protocol!vars
  BY <1>3, ProcessImageRefines, NextImageRefines, ClosingRefines
<1>4. CASE WaitRamStored(fault) \/ WaitTx(fault) \/ WaitAck(fault) \/ Error(fault)
  BY <1>4, ClosingRefines, WaitAckRefines, ErrorRefines
<1>5. QED
  BY <1>1, <1>2, <1>3, <1>4

\* The controller implements the protocol: whatever the sizes, the payloads, the
\* faults and the accelerator do, every clock cycle is a step of AhimProtocol or
\* changes nothing the protocol speaks of.
THEOREM Refinement == Spec => ImplementsProtocol
<1>1. Init => Protocol!Init
  <2> SUFFICES ASSUME Init PROVE Protocol!Init
    OBVIOUS
  <2>1. state = "OFFLINE" /\ ProtocolPhase = "OFFLINE"
    BY DEF Init, ProtocolPhase, ErrorStates
  <2>2. QED
    BY <2>1, NothingMapped DEF Idling, Protocol!Init, Protocol!NoEnds, Protocol!NoWindow
<1>2. TypeOK /\ TypeOK' /\ IInv /\ IInv' /\ [Next]_vars => [Protocol!Next]_Protocol!vars
  <2> SUFFICES ASSUME TypeOK, TypeOK', IInv, IInv', [Next]_vars
               PROVE  [Protocol!Next]_Protocol!vars
    OBVIOUS
  <2>1. CASE Next
    BY <2>1, NextRefines
  <2>2. CASE UNCHANGED vars
    <3>1. UNCHANGED <<breakpoint_count, state, image_processed, images_with_digits,
                      start_addr, end_addr, headcount, bp_ram, Result_LC>>
      BY <2>2 DEF vars, cfgVars, batchVars, bpVars
    <3>2. QED
      BY <3>1 DEF Protocol!vars, ProtocolPhase, AnnouncedImages, ImageEnds, ImagesDone,
                  ImagesHit, WindowShown, WordsPushed, HeaderOffered
  <2>3. QED
    BY <2>1, <2>2
<1>3. QED
  BY <1>1, <1>2, Typing, Invariance, PTL DEF Spec, ImplementsProtocol, Protocol!Spec
=============================================================================
