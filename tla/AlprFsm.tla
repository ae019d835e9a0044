------------------------------- MODULE AlprFsm -------------------------------
(***************************************************************************)
(* The software state machine of the ALPR service (alpr_statemachine.cpp)  *)
(* and the FPGA as the software sees it through the command and the status *)
(* register.  One step of the software is one turn of the loop in run(),   *)
(* which holds the mutex: requests from the control socket come in between.*)
(*                                                                         *)
(* Plates are numbered as they are segmented.  What the detector, the      *)
(* segmenter and the OCR make of a frame is open, and so is which bus      *)
(* access fails.  The bridge is in its safe mode (the default).            *)
(***************************************************************************)
EXTENDS Naturals, Sequences, SequencesExt

CONSTANTS
  IMAGE_RAM_DEPTH,             \* plates (all of one width) the image RAM holds
  MaxWidth,                    \* plates whose width still fits cmdUpload's 16 bits
  CountRange,                  \* values of the 8 bits that carry the number of plates
  max_fpga_persists_states,
  max_persists_empty_frames,
  demo_mode,                   \* fall back to the folder when the camera fails
  ocr_break,
  MaxPlates,                   \* bound: plates in the whole run
  MaxClips                     \* bound: plates in one frame

ASSUME SizesAssumption ==
  /\ IMAGE_RAM_DEPTH \in Nat \ {0} /\ MaxWidth \in Nat /\ CountRange \in Nat \ {0}
  /\ max_fpga_persists_states \in Nat \ {0} /\ max_persists_empty_frames \in Nat
  /\ MaxPlates \in Nat /\ MaxClips \in Nat
  /\ demo_mode \in BOOLEAN /\ ocr_break \in BOOLEAN

\* AlprStateMachine::State; RESEND_IMAGE is never used.
State == {"INIT", "FRAME_CUPTURE", "DETECTION", "SEGMENATION", "CHECK_FPGA", "SEND_IMAGE",
          "SEND_ACK", "POSTPROCESS", "RECEIVE_RESULT", "RESET_FPGA", "SPLIT_BANKS", "HALT",
          "ERROR"}

LinkErrors == {"ERROR_RX", "ERROR_TX", "ERROR_COM"}

\* The controller's states as the status register shows them; the short-lived
\* ones between two images and after the last one are represented by NEXT_IMAGE.
FsmState == LinkErrors \union
  {"OFFLINE", "IDLE", "ACK_BP", "ACK_STRIP", "PROCESS_IMAGE", "NEXT_IMAGE", "WAIT_POST_RX",
   "WAIT_TX", "WAIT_ACK", "ERROR_OCR", "ERROR_OVERFLOW"}

VARIABLES
  current_state, running, exit,          \* exit: what run() returned, or "none"
  request_stop, fsm_restart_requested,
  bridge,                                \* fpga_bridge_ is set
  run_mode, empty_frame,
  presend_images, results,
  fpga_job_pending,
  fpga_status_prev, same_state_count, try_reset,
  fpga,                                  \* the controller: state, last opcode, strip
  plates,                                \* plates segmented so far
  reported,                              \* plates that reached the log
  reset_tried, reset_unseen              \* history: a RESET since the status last changed,
                                         \* and since it was last looked at

loopVars    == <<current_state, running, exit>>
requestVars == <<request_stop, fsm_restart_requested>>
cameraVars  == <<run_mode, empty_frame>>
statusVars  == <<fpga_status_prev, same_state_count, try_reset>>
bankVars    == <<presend_images, results, plates, reported>>
historyVars == <<reset_tried, reset_unseen>>
vars == <<loopVars, requestVars, bridge, cameraVars, bankVars, fpga_job_pending,
          statusVars, fpga, historyVars>>

-----------------------------------------------------------------------------
(* The controller behind the bridge: AhimCore, reduced to what a sequence of   *)
(* commands and status reads can tell.  strip is what it has received in full, *)
(* full that this strip, read to its end, overflows the address of the images. *)

\* The opcode a state accepts and the state it leads to.
AcceptedCommands ==
  {<<"OFFLINE", "INIT", "IDLE">>, <<"IDLE", "UPLOAD", "ACK_BP">>, <<"WAIT_ACK", "ACK", "IDLE">>}

\* A command write.  The one-shot swallows an opcode that is in the register
\* already.  After the overflow of a full image RAM the address is still there when
\* RESET has come to OFFLINE: the first RESET ends in ERROR_OVERFLOW again.
Command(f, c) ==
  IF c = f.cmd THEN f
  ELSE IF c = "RESET"
    THEN [state |-> IF f.full /\ f.state = "ERROR_OVERFLOW" THEN f.state ELSE "OFFLINE",
          cmd |-> c, strip |-> <<>>, full |-> FALSE, answers |-> {}]
  ELSE LET accepted == {t \in AcceptedCommands : t[1] = f.state /\ t[2] = c} IN
       [f EXCEPT !.cmd = c,
                 !.state = IF accepted = {} THEN "ERROR_COM" ELSE (CHOOSE t \in accepted : TRUE)[3],
                 !.strip = IF c = "ACK" THEN <<>> ELSE @,
                 !.answers = IF c = "ACK" THEN {} ELSE @]

\* cmdReset and cmdInit, one after the other.
ResetInit(f) == Command(Command(f, "RESET"), "INIT")

\* The number of images UPLOAD carries: sendImageStrip casts it to 8 bits first.
ImageCount(images) == Len(images) % CountRange

\* UPLOAD with the width and the number of the images: a strip too wide for the RAM is
\* an overflow at once, a number that was cast to 0 an error.
Upload(f, images) ==
  LET g == Command(f, "UPLOAD") IN
  IF g.state # "ACK_BP" THEN g
  ELSE IF Len(images) > IMAGE_RAM_DEPTH THEN [g EXCEPT !.state = "ERROR_OVERFLOW"]
  ELSE IF ImageCount(images) = 0 THEN [g EXCEPT !.state = "ERROR_COM"]
  ELSE g

\* sendImageStrip: the possible results and what the controller makes of them.
\* Both bursts wait until the controller is ready for them; a wait may time out.
\* A burst that outlasts the controller's patience ends in ERROR_RX: if that is the
\* last one the bridge does not notice.  The controller looks at ImageCount(images) images.
SendImageStrip(f, images) ==
  IF Len(images) > MaxWidth THEN {[ok |-> FALSE, fpga |-> f]}
  ELSE LET g == Upload(f, images) IN
       IF g.state # "ACK_BP" THEN {[ok |-> FALSE, fpga |-> g]}
       ELSE {[ok |-> FALSE, fpga |-> [g EXCEPT !.state = s]] : s \in {"ACK_BP", "ACK_STRIP", "ERROR_RX"}}
            \union {[ok |-> TRUE, fpga |-> [g EXCEPT !.state = "ERROR_RX"]],
                    [ok |-> TRUE, fpga |-> [g EXCEPT !.state = "PROCESS_IMAGE",
                                                     !.strip = SubSeq(images, 1, ImageCount(images)),
                                                     !.full = ImageCount(images) = IMAGE_RAM_DEPTH]]}

\* receiveResultStrings: the header, then as many words as it says.  A read the
\* controller has nothing for ends in ERROR_TX and yields no plate; the bridge
\* does not notice.
ReceiveResultStrings(f) ==
  {[ok |-> FALSE, fpga |-> f, results |-> {}]}
    \union IF f.state # "WAIT_TX" THEN {}
           ELSE {[ok |-> TRUE, fpga |-> [f EXCEPT !.state = "WAIT_ACK"], results |-> f.answers],
                 [ok |-> TRUE, fpga |-> [f EXCEPT !.state = "ERROR_TX"], results |-> {}]}

Statuses == IF fpga.state = "PROCESS_IMAGE" THEN {"PROCESS_IMAGE", "NEXT_IMAGE"} ELSE {fpga.state}

SoftwareVars == <<loopVars, requestVars, bridge, cameraVars, bankVars, fpga_job_pending,
                  statusVars, historyVars>>

\* The controller leaves a strip: the accelerator did not answer for one of its images,
\* or the last image is done.  Then no plate could be read, or some could and it goes on
\* to close the last word, or the address of the next image is outside the image RAM.
FpgaFinish ==
  /\ fpga.state = "PROCESS_IMAGE"
  /\ \/ ocr_break /\ fpga' = [fpga EXCEPT !.state = "ERROR_OCR"]
     \/ fpga.full /\ fpga' = [fpga EXCEPT !.state = "ERROR_OVERFLOW"]
     \/ /\ ~fpga.full
        /\ \/ fpga' = [fpga EXCEPT !.state = "WAIT_ACK"]
           \/ \E a \in SUBSET ToSet(fpga.strip) \ {{}} :
                fpga' = [fpga EXCEPT !.state = "WAIT_POST_RX", !.answers = a]
  /\ UNCHANGED SoftwareVars

\* The last result word is closed.  OCR_RX_UNIT may hang before that.
FpgaStore ==
  /\ fpga.state = "WAIT_POST_RX"
  /\ fpga' = [fpga EXCEPT !.state = "WAIT_TX"]
  /\ UNCHANGED SoftwareVars

PoweredUp == [state |-> "OFFLINE", cmd |-> "NO_CMD", strip |-> <<>>, full |-> FALSE, answers |-> {}]

\* The fabric is reset or reprogrammed under the running service.
FpgaRestart ==
  /\ fpga # PoweredUp
  /\ fpga' = PoweredUp
  /\ UNCHANGED SoftwareVars

-----------------------------------------------------------------------------
(* The loop. *)

\* What an earlier process may have left in the controller when it ended, or was killed.
\* The plates of a strip it left are nobody's: INIT begins with a RESET.
LeftBehind ==
  {PoweredUp} \union
  {[PoweredUp EXCEPT !.state = t[1], !.cmd = t[2], !.full = t[3]] :
     t \in {"OFFLINE", "ERROR_OVERFLOW"} \X {"RESET"} \X {FALSE}
          \union {"IDLE", "ERROR_COM"} \X {"INIT", "ACK"} \X {FALSE}
          \union (FsmState \ {"OFFLINE", "IDLE", "NEXT_IMAGE"}) \X {"UPLOAD"} \X {FALSE}
          \union {"PROCESS_IMAGE", "ERROR_OCR", "ERROR_OVERFLOW"} \X {"UPLOAD"} \X {TRUE}}

Init ==
  /\ current_state = "INIT" /\ running = TRUE /\ exit = "none"
  /\ request_stop = FALSE /\ fsm_restart_requested = FALSE
  /\ bridge = FALSE
  /\ run_mode = "camera" /\ empty_frame = 0
  /\ presend_images = <<>> /\ results = {} /\ plates = 0 /\ reported = {}
  /\ fpga_job_pending = FALSE
  /\ fpga_status_prev = "IDLE" /\ same_state_count = 0 /\ try_reset = FALSE
  /\ fpga \in LeftBehind
  /\ reset_tried = FALSE /\ reset_unseen = FALSE

requestStop ==
  /\ exit = "none" /\ ~request_stop
  /\ request_stop' = TRUE /\ current_state' = "HALT"
  /\ UNCHANGED <<running, exit, fsm_restart_requested, bridge, cameraVars, bankVars,
                 fpga_job_pending, statusVars, fpga, historyVars>>

requestRestart ==
  /\ exit = "none" /\ ~fsm_restart_requested
  /\ fsm_restart_requested' = TRUE
  /\ UNCHANGED <<loopVars, request_stop, bridge, cameraVars, bankVars,
                 fpga_job_pending, statusVars, fpga, historyVars>>

\* The state a turn of the loop switches on.
Turn == IF request_stop THEN "HALT" ELSE IF fsm_restart_requested THEN "INIT" ELSE current_state

In(s) == exit = "none" /\ Turn = s

\* A handler that only chooses the next state of the loop, and those that leave
\* the banks or the FPGA alone.
Goto(s)     == current_state' = s /\ UNCHANGED <<running, exit, requestVars, bridge>>
SameBanks   == UNCHANGED bankVars
SameFpga    == UNCHANGED <<fpga, fpga_job_pending, historyVars>>
SameStatus  == UNCHANGED statusVars
SameCamera  == UNCHANGED cameraVars

\* The loop ends and run() returns.
Return(value) == exit' = value /\ UNCHANGED requestVars

Tried == reset_tried' = TRUE /\ reset_unseen' = TRUE

\* resetStateMachine, at the head of the turn of a requested restart: the bridge
\* is destroyed, which resets the controller.
Released == IF fsm_restart_requested /\ bridge THEN Command(fpga, "RESET") ELSE fpga

resetStateMachine_FramesKept ==
  /\ presend_images' = IF fsm_restart_requested THEN <<>> ELSE presend_images
  /\ results' = IF fsm_restart_requested THEN {} ELSE results
  /\ UNCHANGED empty_frame
\* What resetStateMachine clears.  Not the job flag, nor the counters that judge the FPGA.
resetStateMachine ==
  /\ presend_images' = IF fsm_restart_requested THEN <<>> ELSE presend_images
  /\ results' = IF fsm_restart_requested THEN {} ELSE results
  /\ empty_frame' = IF fsm_restart_requested THEN 0 ELSE empty_frame

\* INIT may fail on the way (configuration, model, camera, LCD); run() then returns
\* with running_ still set.
handleInit ==
  /\ In("INIT")
  /\ resetStateMachine
  /\ \/ /\ bridge' = TRUE /\ fpga' = ResetInit(Released) /\ Tried
        /\ run_mode' \in {"camera", "folder"}
        /\ fsm_restart_requested' = FALSE /\ current_state' = "FRAME_CUPTURE"
        /\ UNCHANGED <<running, exit, request_stop>>
     \/ /\ bridge' = FALSE /\ fpga' = Released
        /\ current_state' = "ERROR" /\ Return("false")
        /\ UNCHANGED <<running, run_mode, historyVars>>
  /\ UNCHANGED <<plates, reported, fpga_job_pending>> /\ SameStatus

handleFrameCapture ==
  /\ In("FRAME_CUPTURE")
  /\ \/ /\ run_mode = "folder"
        /\ Goto("DETECTION") \/ Goto("ERROR")          \* an image may be unreadable
        /\ SameCamera
     \/ /\ run_mode = "camera"
        /\ Goto("DETECTION")
        /\ empty_frame' = 0 /\ UNCHANGED run_mode
     \/ /\ run_mode = "camera"                         \* an empty frame
        /\ empty_frame' = empty_frame + 1
        /\ \/ /\ empty_frame' < max_persists_empty_frames
              /\ Goto("FRAME_CUPTURE") /\ UNCHANGED run_mode
           \/ /\ empty_frame' >= max_persists_empty_frames
              /\ IF demo_mode THEN Goto("FRAME_CUPTURE") /\ run_mode' = "folder"
                              ELSE Goto("ERROR") /\ UNCHANGED run_mode
  /\ SameBanks /\ SameFpga /\ SameStatus

handleDetection_Capture ==
  /\ In("DETECTION")
  /\ Goto("SEGMENATION") \/ Goto("FRAME_CUPTURE")
  /\ SameCamera /\ SameBanks /\ SameFpga /\ SameStatus

\* Without a plate in the frame the FPGA is looked at only if it has a job.
handleDetection ==
  /\ In("DETECTION")
  /\ \/ Goto("SEGMENATION")
     \/ Goto(IF fpga_job_pending THEN "CHECK_FPGA" ELSE "FRAME_CUPTURE")
  /\ SameCamera /\ SameBanks /\ SameFpga /\ SameStatus

handleSegmenation ==
  /\ In("SEGMENATION")
  /\ \E n \in 0 .. MaxClips :
       /\ plates + n <= MaxPlates
       /\ plates' = plates + n
       /\ presend_images' = presend_images \o [i \in 1 .. n |-> plates + i]
  /\ Goto("CHECK_FPGA")
  /\ UNCHANGED <<results, reported>> /\ SameCamera /\ SameFpga /\ SameStatus

\* same_state_count_ is only compared with 2 and with the maximum, so it may stop
\* growing above both.  (A restart requested while the loop is in ERROR lets it grow
\* for ever in the code.)
CountCap   == 3 + max_fpga_persists_states
Counted(n) == IF n < CountCap THEN n ELSE CountCap

\* What CHECK_FPGA makes of status s, read for the n-th time in a row: the next
\* state, and what becomes of the bank, of the counter and of try_reset_.
Steady(s, n) ==
  /\ \/ s = "IDLE" /\ Goto("SEND_IMAGE")
     \/ s = "WAIT_ACK" /\ Goto("SEND_ACK")
     \/ s = "WAIT_TX" /\ Goto("RECEIVE_RESULT")
  /\ same_state_count' = 0
  /\ UNCHANGED <<presend_images, fpga>>

Overflowed(s, n) ==
  /\ s = "ERROR_OVERFLOW"
  /\ \/ n = 2 /\ Goto("ERROR") /\ UNCHANGED presend_images
     \/ n # 2 /\ n > 0 /\ Goto("RESET_FPGA") /\ presend_images' = <<>>
     \/ n = 0 /\ Goto("SPLIT_BANKS") /\ UNCHANGED presend_images
  /\ same_state_count' = n
  /\ UNCHANGED fpga

OcrFailed(s, n) ==
  /\ s = "ERROR_OCR"
  /\ Goto(IF n > 0 THEN "ERROR" ELSE "RESET_FPGA")
  /\ same_state_count' = n
  /\ UNCHANGED <<presend_images, fpga>>

LinkFailed(s, n) ==
  /\ s \in LinkErrors
  /\ \/ n = 2 /\ Goto("ERROR") /\ UNCHANGED presend_images
     \/ n # 2 /\ n > 0 /\ Goto("RESET_FPGA") /\ presend_images' = <<>>
     \/ n = 0 /\ Goto("RESET_FPGA") /\ UNCHANGED presend_images
  /\ same_state_count' = n
  /\ UNCHANGED fpga

IsOffline(s, n) ==
  /\ s = "OFFLINE"
  /\ \/ n = max_fpga_persists_states /\ Goto("ERROR") /\ UNCHANGED fpga
     \/ n # max_fpga_persists_states /\ Goto("CHECK_FPGA") /\ fpga' = Command(fpga, "INIT")
  /\ same_state_count' = n
  /\ UNCHANGED presend_images

Busy == {"ACK_BP", "ACK_STRIP", "PROCESS_IMAGE", "NEXT_IMAGE", "WAIT_POST_RX"}

\* reset is try_reset_ as this turn sees it.
StillBusy(s, n, reset) ==
  /\ s \in Busy
  /\ Goto(IF n < max_fpga_persists_states THEN "FRAME_CUPTURE"
          ELSE IF reset THEN "ERROR" ELSE "RESET_FPGA")
  /\ same_state_count' = n
  /\ UNCHANGED <<presend_images, fpga>>

\* try_reset_ is forgotten when the status changes.
TryReset_Sticky(same) == try_reset
TryReset(same) == same /\ try_reset

Seen_Not(s) == UNCHANGED fpga_status_prev
\* fpga_status_prev_ is what this turn has seen, whatever it made of it.
Seen(s) == fpga_status_prev' = s

handleCheckFpga ==
  /\ In("CHECK_FPGA")
  /\ \E s \in Statuses :
       LET same  == s = fpga_status_prev
           n     == IF same THEN Counted(same_state_count + 1) ELSE 0
           reset == TryReset(same)
       IN
       /\ \/ Steady(s, n) \/ Overflowed(s, n) \/ OcrFailed(s, n) \/ LinkFailed(s, n)
          \/ IsOffline(s, n) \/ StillBusy(s, n, reset)
       /\ try_reset' = (reset \/ (s \in Busy /\ n >= max_fpga_persists_states))
       /\ Seen(s)
       /\ reset_tried' = (same /\ reset_tried) /\ reset_unseen' = FALSE
  /\ UNCHANGED <<results, plates, reported, fpga_job_pending>> /\ SameCamera

Sent_Unchecked(r) ==
  /\ fpga' = r.fpga
  /\ fpga_job_pending' = (r.ok \/ fpga_job_pending)
  /\ Goto(IF r.ok THEN "FRAME_CUPTURE" ELSE "SEND_IMAGE")
Sent_NotPending(r) ==
  /\ fpga' = r.fpga /\ UNCHANGED fpga_job_pending
  /\ Goto(IF r.ok THEN "FRAME_CUPTURE" ELSE "CHECK_FPGA")
\* What SEND_IMAGE and SPLIT_BANKS make of the result of sendImageStrip.
Sent(r) ==
  /\ fpga' = r.fpga
  /\ fpga_job_pending' = (r.ok \/ fpga_job_pending)
  /\ Goto(IF r.ok THEN "FRAME_CUPTURE" ELSE "CHECK_FPGA")

Unsent_All(ok) == presend_images
\* A bank that could not be sent is kept.
Unsent(ok) == IF ok THEN <<>> ELSE presend_images

handleSendImage ==
  /\ In("SEND_IMAGE")
  /\ \/ /\ presend_images = <<>>
        /\ Goto("FRAME_CUPTURE") /\ SameFpga /\ SameBanks
     \/ /\ presend_images # <<>>
        /\ \E r \in SendImageStrip(fpga, presend_images) :
             Sent(r) /\ presend_images' = Unsent(r.ok)
        /\ UNCHANGED <<results, plates, reported, historyVars>>
  /\ SameCamera /\ SameStatus

handleSendAck ==
  /\ In("SEND_ACK")
  /\ fpga' = Command(fpga, "ACK") /\ fpga_job_pending' = FALSE
  /\ Goto("SEND_IMAGE")
  /\ SameCamera /\ SameBanks /\ SameStatus /\ UNCHANGED historyVars

handleReceiveResult ==
  /\ In("RECEIVE_RESULT")
  /\ \E r \in ReceiveResultStrings(fpga) :
       /\ fpga' = r.fpga /\ results' = r.results
       /\ Goto(IF r.ok THEN "POSTPROCESS" ELSE "CHECK_FPGA")
  /\ UNCHANGED <<presend_images, plates, reported, fpga_job_pending, historyVars>>
  /\ SameCamera /\ SameStatus

\* Which of the texts are logged (no leading 0, not among the last 30) is open.
handlePostprocess ==
  /\ In("POSTPROCESS")
  /\ reported' = reported \union results /\ results' = {}
  /\ Goto("SEND_ACK")
  /\ UNCHANGED <<presend_images, plates>> /\ SameCamera /\ SameFpga /\ SameStatus

handleResetFpga ==
  /\ In("RESET_FPGA")
  /\ fpga' = ResetInit(fpga) /\ Tried
  /\ fpga_job_pending' = FALSE
  /\ Goto(IF presend_images # <<>> THEN "SEND_IMAGE" ELSE "FRAME_CUPTURE")
  /\ SameCamera /\ SameBanks /\ SameStatus

\* The second half of the bank is sent, the first half goes to a bank nobody reads.
handleSplitBanks ==
  /\ In("SPLIT_BANKS")
  /\ Tried
  /\ LET half == Len(presend_images) \div 2 IN
     \/ /\ presend_images = <<>>
        /\ fpga' = ResetInit(fpga) /\ UNCHANGED fpga_job_pending
        /\ Goto("FRAME_CUPTURE")
     \/ /\ presend_images # <<>>
        /\ \E r \in SendImageStrip(ResetInit(fpga),
                                   SubSeq(presend_images, half + 1, Len(presend_images))) :
             Sent(r)
  /\ presend_images' = <<>>
  /\ UNCHANGED <<results, plates, reported>> /\ SameCamera /\ SameStatus

\* HALT calls the bridge, which is not there before INIT or, after a restart
\* request in the same turn, no longer there.
handleHalt ==
  /\ In("HALT")
  /\ resetStateMachine
  /\ \/ /\ fsm_restart_requested \/ ~bridge
        /\ fpga' = Released /\ bridge' = FALSE
        /\ Return("crash") /\ UNCHANGED <<current_state, running>>
     \/ /\ bridge /\ ~fsm_restart_requested
        /\ fpga' = Command(fpga, "RESET") /\ running' = FALSE
        /\ Return("true") /\ UNCHANGED <<current_state, bridge>>
  /\ UNCHANGED <<plates, reported, run_mode, fpga_job_pending, historyVars>> /\ SameStatus

handleError ==
  /\ In("ERROR")
  /\ running' = FALSE
  /\ Return("true") /\ UNCHANGED <<current_state, bridge>>
  /\ SameBanks /\ SameCamera /\ SameFpga /\ SameStatus

Loop ==
  \/ handleInit \/ handleFrameCapture \/ handleDetection \/ handleSegmenation
  \/ handleCheckFpga \/ handleSendImage \/ handleSendAck \/ handleReceiveResult
  \/ handlePostprocess \/ handleResetFpga \/ handleSplitBanks \/ handleHalt \/ handleError

Next ==
  \/ Loop
  \/ requestStop \/ requestRestart
  \/ FpgaFinish \/ FpgaStore \/ FpgaRestart

Spec == Init /\ [][Next]_vars

\* The loop goes on turning while it runs, and the controller's OCR watchdog sees
\* to it that a strip is finished.  That the last word is closed is not assumed.
\* The controller is not restarted for ever, and fetching results that are there does
\* not time out for ever (the loop would retry for ever: reading WAIT_TX clears the count).
FairSpec ==
  /\ Spec /\ WF_vars(Loop) /\ WF_vars(FpgaFinish)
  /\ SF_vars(handleReceiveResult /\ current_state' = "POSTPROCESS")
  /\ <>[][~FpgaRestart]_vars

-----------------------------------------------------------------------------
(* Properties. *)

PlateIds == 1 .. MaxPlates

FpgaType ==
  [state : FsmState \ {"NEXT_IMAGE"}, cmd : {"NO_CMD", "INIT", "UPLOAD", "ACK", "RESET"},
   strip : Seq(PlateIds), full : BOOLEAN, answers : SUBSET PlateIds]

TypeOK ==
  /\ current_state \in State /\ running \in BOOLEAN
  /\ exit \in {"none", "true", "false", "crash"}
  /\ request_stop \in BOOLEAN /\ fsm_restart_requested \in BOOLEAN /\ bridge \in BOOLEAN
  /\ run_mode \in {"camera", "folder"} /\ empty_frame \in 0 .. max_persists_empty_frames + 1
  /\ presend_images \in Seq(PlateIds) /\ results \subseteq PlateIds
  /\ plates \in 0 .. MaxPlates /\ reported \subseteq PlateIds
  /\ fpga_job_pending \in BOOLEAN
  /\ fpga_status_prev \in FsmState /\ same_state_count \in 0 .. CountCap /\ try_reset \in BOOLEAN
  /\ fpga \in FpgaType
  /\ reset_tried \in BOOLEAN /\ reset_unseen \in BOOLEAN

\* No plate is recognised twice: what waits to be sent has not been sent before,
\* whatever failed and was retried, and what the controller works on has not been
\* reported yet.
NoPlateTwice ==
  /\ ToSet(presend_images) \intersect (ToSet(fpga.strip) \union results \union reported) = {}
  /\ fpga.state \in Busy \union {"WAIT_TX"} => ToSet(fpga.strip) \intersect reported = {}

\* The loop knows of every strip the controller has accepted: it looks at the
\* FPGA between frames without plates only when fpga_job_pending_ is set.
JobTracked ==
  exit = "none" /\ fpga.strip # <<>> => fpga_job_pending

\* The commands a turn of the loop may write, each with the controller as it finds it.
Writes ==
  LET reset == Command(fpga, "RESET") IN
  {w \in {<<fpga, "ACK">>} : In("SEND_ACK")}
  \union {w \in {<<fpga, "INIT">>} : In("CHECK_FPGA") /\ fpga.state = "OFFLINE"}
  \union {w \in {<<fpga, "UPLOAD">>} :
            In("SEND_IMAGE") /\ Len(presend_images) \in 1 .. MaxWidth}
  \union {w \in {<<fpga, "RESET">>, <<reset, "INIT">>} : In("RESET_FPGA") \/ In("SPLIT_BANKS")}
  \union {w \in {<<Command(reset, "INIT"), "UPLOAD">>} : In("SPLIT_BANKS")}
  \union {w \in {<<Released, "RESET">>, <<Command(Released, "RESET"), "INIT">>} : In("INIT")}

\* The controller obeys c: the opcode is new, and f accepts it.
Obeys(f, c) ==
  /\ f.cmd # c
  /\ c = "RESET" \/ \E t \in AcceptedCommands : t[1] = f.state /\ t[2] = c

\* Every command of the loop finds a controller that obeys it: none is swallowed by the
\* one-shot and none comes at the wrong time, but for four cases.  The controller is
\* OFFLINE, and the command not INIT: it was restarted behind the loop's back.  The results
\* could not be read (ERROR_TX), and the loop acknowledges them nevertheless.  A full
\* image RAM is still in ERROR_OVERFLOW after its first RESET.  An UPLOAD follows an ACK
\* or an INIT that was rejected for one of these reasons (ERROR_COM).
ProtocolRespected ==
  \A w \in Writes :
    LET f == w[1] c == w[2] IN
    \/ Obeys(f, c)
    \/ c # "INIT" /\ f.state = "OFFLINE"
    \/ c = "ACK" /\ f.state = "ERROR_TX"
    \/ c \in {"INIT", "RESET"} /\ f.state = "ERROR_OVERFLOW" /\ f.cmd = "RESET"
    \/ c = "UPLOAD" /\ f.state = "ERROR_COM" /\ f.cmd \in {"ACK", "INIT"}

\* The loop gives up on the FPGA only after a reset that did not change its status
\* (or, when it is offline, after it could not be initialised).
ResetBeforeError ==
  [][(In("CHECK_FPGA") /\ current_state' = "ERROR" /\ fpga.state # "OFFLINE") => reset_tried]_vars

\* The loop has left CHECK_FPGA and its retries: it is at the camera, or gives up.
Back == exit # "none" \/ current_state \in {"FRAME_CUPTURE", "ERROR", "HALT"}

\* Whatever the FPGA shows, the loop gets back to the camera, or gives up, unless the
\* bank has grown wider than an UPLOAD can say while the controller is ready for it:
\* sendImageStrip refuses it, and CHECK_FPGA, to which IDLE is no error, tries again.
ReturnsToFrames ==
  current_state = "CHECK_FPGA"
    ~> Back \/ (fpga.state = "IDLE" /\ Len(presend_images) > MaxWidth)

\* Results the controller offers are fetched, even if no further plate is seen.
ResultsFetched ==
  fpga.state = "WAIT_TX" ~> exit # "none" \/ fpga.state # "WAIT_TX"
=============================================================================
