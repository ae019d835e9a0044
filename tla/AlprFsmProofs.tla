--------------------------- MODULE AlprFsmProofs ---------------------------
(***************************************************************************)
(* Proofs about AlprFsm, for any sizes, any number of plates and clips and *)
(* any limits of the loop: its types, that no plate is recognised twice,   *)
(* that no job is forgotten, which commands are sent when, and that the    *)
(* loop gives up on the FPGA only after a reset.                           *)
(***************************************************************************)
EXTENDS AlprFsm, TLAPS

-----------------------------------------------------------------------------
(* The inductive invariant: its part about the controller f, which every   *)
(* command of the software keeps.                                          *)

Errors == LinkErrors \union {"ERROR_OCR", "ERROR_OVERFLOW"}

\* The opcode that is in the command register, state by state: what decides whether
\* the next one is swallowed.
OpcodeInStep(f) ==
  /\ f.state = "OFFLINE" => f.cmd \in {"NO_CMD", "RESET"}
  /\ f.state = "IDLE" => f.cmd \in {"INIT", "ACK"}
  /\ f.state = "ERROR_OVERFLOW" => f.cmd \in {"UPLOAD", "RESET"}
  /\ f.cmd = "RESET" => f.state \in {"OFFLINE", "ERROR_OVERFLOW"}
  /\ f.state \in Busy \union {"WAIT_TX", "WAIT_ACK", "ERROR_RX", "ERROR_TX", "ERROR_OCR"}
       => f.cmd = "UPLOAD"

\* There is a strip only after an UPLOAD, and answers only about its plates.
StripInStep(f) ==
  /\ f.strip # <<>> =>
       f.cmd = "UPLOAD" /\ f.state \notin {"OFFLINE", "IDLE", "ACK_BP", "ACK_STRIP"}
  /\ f.answers \subseteq ToSet(f.strip)
  /\ f.answers # {} => f.state # "PROCESS_IMAGE"

Controller(f) == f \in FpgaType /\ OpcodeInStep(f) /\ StripInStep(f)

(* The part about the loop. *)

StopHalts == request_stop => current_state = "HALT"

\* What the state of the loop says about the controller, as far as a restart of the
\* fabric leaves it.
LoopInStep ==
  /\ current_state \in {"POSTPROCESS", "SEND_ACK"}
       => fpga.state \in {"WAIT_ACK", "ERROR_TX", "OFFLINE"}
  /\ current_state = "SEND_IMAGE" =>
       \/ fpga.state \in {"IDLE", "OFFLINE"}
       \/ fpga.state = "ERROR_COM" /\ fpga.cmd \in {"ACK", "INIT"}

\* Results wait only between RECEIVE_RESULT and POSTPROCESS, when the controller is done.
ResultsInStep ==
  results # {} => /\ current_state \in {"POSTPROCESS", "HALT"}
                  /\ fpga.state \notin Busy \union {"WAIT_TX"}

\* Every plate has a number that has been given out.
Numbered ==
  ToSet(presend_images) \union ToSet(fpga.strip) \union results \union reported
    \subseteq 1 .. plates

FramesInStep ==
  /\ current_state = "INIT" => run_mode = "camera"
  /\ run_mode = "camera" /\ current_state \notin {"ERROR", "HALT"} =>
       empty_frame = 0 \/ empty_frame < max_persists_empty_frames

\* Once an error has been seen, or try_reset_ is set, there has been a reset, or there
\* will be one before the loop looks again.
ResetInStep ==
  /\ try_reset => fpga_status_prev \in Busy
  /\ fpga_status_prev \in Errors \/ try_reset =>
       reset_tried \/ current_state \in {"RESET_FPGA", "SPLIT_BANKS", "ERROR", "HALT"}

IInv ==
  /\ Controller(fpga)
  /\ StopHalts /\ LoopInStep /\ ResultsInStep /\ Numbered /\ FramesInStep /\ ResetInStep
  /\ NoPlateTwice /\ JobTracked

-----------------------------------------------------------------------------
(* Sequences of plates. *)

LEMMA ToSetEmpty == ToSet(<<>>) = {}
BY DEF ToSet

LEMMA ToSetType ==
  ASSUME NEW S, NEW s \in Seq(S)
  PROVE  /\ ToSet(s) \subseteq S
         /\ s = <<>> <=> ToSet(s) = {}
BY DEF ToSet

LEMMA ToSetConcat ==
  ASSUME NEW S, NEW s \in Seq(S), NEW t \in Seq(S)
  PROVE  /\ s \o t \in Seq(S)
         /\ ToSet(s \o t) \subseteq ToSet(s) \union ToSet(t)
BY DEF ToSet

LEMMA NewNumbers ==
  ASSUME NEW n \in Nat, NEW p \in Nat, NEW m \in Nat, p + n <= m
  PROVE  LET new == [i \in 1 .. n |-> p + i] IN
         new \in Seq(1 .. m) /\ ToSet(new) \subseteq p + 1 .. p + n
<1> DEFINE new == [i \in 1 .. n |-> p + i]
<1>1. new \in [1 .. n -> p + 1 .. p + n] /\ new \in [1 .. n -> 1 .. m]
  OBVIOUS
<1> HIDE DEF new
<1>2. new \in Seq(p + 1 .. p + n) /\ new \in Seq(1 .. m)
  BY <1>1
<1>3. QED
  BY <1>2, ToSetType DEF new

LEMMA SecondHalf ==
  ASSUME NEW S, NEW s \in Seq(S), s # <<>>
  PROVE  LET h == SubSeq(s, (Len(s) \div 2) + 1, Len(s))
         IN  h \in Seq(S) /\ ToSet(h) \subseteq ToSet(s) /\ h # <<>>
<1> DEFINE m == (Len(s) \div 2) + 1
           h == SubSeq(s, m, Len(s))
<1>1. m \in Nat /\ m >= 1 /\ m <= Len(s) /\ Len(s) \in Nat
  OBVIOUS
<1> HIDE DEF m
<1>2. /\ h \in Seq(S) /\ Len(h) = Len(s) - m + 1
      /\ \A i \in 1 .. Len(h) : h[i] = s[m + i - 1]
  BY <1>1
<1> HIDE DEF h
<1>3. h # <<>>
  BY <1>1, <1>2
<1>4. \A i \in 1 .. Len(h) : h[i] \in {s[j] : j \in DOMAIN s}
  <2>1. TAKE i \in 1 .. Len(h)
  <2>2. m + i - 1 \in DOMAIN s
    BY <1>1, <1>2
  <2>3. QED
    BY <1>2, <2>2
<1>5. ToSet(h) \subseteq ToSet(s)
  BY <1>2, <1>4 DEF ToSet
<1>6. QED
  BY <1>2, <1>3, <1>5 DEF h, m

LEMMA CountBound ==
  ASSUME NEW n \in Nat, NEW d \in Nat \ {0}
  PROVE  n % d \in 0 .. n
OBVIOUS

\* The plates the controller takes of a bank.
LEMMA FirstOnes ==
  ASSUME NEW S, NEW s \in Seq(S), NEW k \in 0 .. Len(s)
  PROVE  LET h == SubSeq(s, 1, k) IN h \in Seq(S) /\ ToSet(h) \subseteq ToSet(s)
<1> DEFINE h == SubSeq(s, 1, k)
<1>1. /\ h \in Seq(S) /\ Len(h) = k
      /\ \A i \in 1 .. Len(h) : h[i] = s[i] /\ i \in DOMAIN s
  OBVIOUS
<1> HIDE DEF h
<1>2. QED
  BY <1>1 DEF ToSet, h

-----------------------------------------------------------------------------
(* What the commands make of the controller. *)

LEMMA ChosenOnly ==
  ASSUME NEW S, NEW e, S = {e}
  PROVE  S # {} /\ (CHOOSE t \in S : TRUE) = e
<1>1. \E t \in S : TRUE
  OBVIOUS
<1>2. (CHOOSE t \in S : TRUE) \in S
  BY <1>1
<1>3. QED
  BY <1>2

\* The state a command other than RESET leads to.
LEMMA CommandResult ==
  ASSUME NEW f \in FpgaType, NEW c \in {"INIT", "UPLOAD", "ACK"}, c # f.cmd
  PROVE  LET g == Command(f, c) IN
         /\ g.state = IF f.state = "OFFLINE" /\ c = "INIT" THEN "IDLE"
                      ELSE IF f.state = "IDLE" /\ c = "UPLOAD" THEN "ACK_BP"
                      ELSE IF f.state = "WAIT_ACK" /\ c = "ACK" THEN "IDLE" ELSE "ERROR_COM"
         /\ g.cmd = c
         /\ g.full = f.full
         /\ g.strip = IF c = "ACK" THEN <<>> ELSE f.strip
         /\ g.answers = IF c = "ACK" THEN {} ELSE f.answers
         /\ g \in FpgaType
<1> DEFINE accepted == {t \in AcceptedCommands : t[1] = f.state /\ t[2] = c}
           chosen == CHOOSE t \in accepted : TRUE
           to == IF accepted = {} THEN "ERROR_COM" ELSE chosen[3]
           g == [f EXCEPT !.cmd = c, !.state = to,
                          !.strip = IF c = "ACK" THEN <<>> ELSE @,
                          !.answers = IF c = "ACK" THEN {} ELSE @]
<1>1. Command(f, c) = g
  BY DEF Command
<1>2. to = IF f.state = "OFFLINE" /\ c = "INIT" THEN "IDLE"
           ELSE IF f.state = "IDLE" /\ c = "UPLOAD" THEN "ACK_BP"
           ELSE IF f.state = "WAIT_ACK" /\ c = "ACK" THEN "IDLE" ELSE "ERROR_COM"
  <2>1. CASE f.state = "OFFLINE" /\ c = "INIT"
    <3>1. accepted = {<<"OFFLINE", "INIT", "IDLE">>}
      BY <2>1 DEF AcceptedCommands
    <3> HIDE DEF accepted
    <3>2. accepted # {} /\ chosen = <<"OFFLINE", "INIT", "IDLE">>
      BY <3>1, ChosenOnly
    <3> HIDE DEF chosen
    <3>3. QED
      BY <2>1, <3>2
  <2>2. CASE f.state = "IDLE" /\ c = "UPLOAD"
    <3>1. accepted = {<<"IDLE", "UPLOAD", "ACK_BP">>}
      BY <2>2 DEF AcceptedCommands
    <3> HIDE DEF accepted
    <3>2. accepted # {} /\ chosen = <<"IDLE", "UPLOAD", "ACK_BP">>
      BY <3>1, ChosenOnly
    <3> HIDE DEF chosen
    <3>3. QED
      BY <2>2, <3>2
  <2>3. CASE f.state = "WAIT_ACK" /\ c = "ACK"
    <3>1. accepted = {<<"WAIT_ACK", "ACK", "IDLE">>}
      BY <2>3 DEF AcceptedCommands
    <3> HIDE DEF accepted
    <3>2. accepted # {} /\ chosen = <<"WAIT_ACK", "ACK", "IDLE">>
      BY <3>1, ChosenOnly
    <3> HIDE DEF chosen
    <3>3. QED
      BY <2>3, <3>2
  <2>4. CASE /\ ~(f.state = "OFFLINE" /\ c = "INIT")
             /\ ~(f.state = "IDLE" /\ c = "UPLOAD")
             /\ ~(f.state = "WAIT_ACK" /\ c = "ACK")
    <3>1. accepted = {}
      BY <2>4 DEF AcceptedCommands
    <3>2. QED
      BY <2>4, <3>1
  <2>5. QED
    BY <2>1, <2>2, <2>3, <2>4
<1>3. /\ g.state = to /\ g.cmd = c /\ g.full = f.full
      /\ g.strip = IF c = "ACK" THEN <<>> ELSE f.strip
      /\ g.answers = IF c = "ACK" THEN {} ELSE f.answers
  BY DEF FpgaType
<1>4. to \in FsmState \ {"NEXT_IMAGE"}
  BY <1>2 DEF FsmState, LinkErrors
<1>5. g \in FpgaType
  <2> HIDE DEF to
  <2>1. <<>> \in Seq(PlateIds)
    OBVIOUS
  <2>2. QED
    BY <1>4, <2>1 DEF FpgaType
<1>6. QED
  BY <1>1, <1>2, <1>3, <1>5

\* RESET leaves nothing behind, but with a full image RAM it ends in an error.
LEMMA ResetResult ==
  ASSUME NEW f, Controller(f)
  PROVE  LET g == Command(f, "RESET") IN
         /\ Controller(g)
         /\ g.cmd = "RESET" /\ g.strip = <<>> /\ g.answers = {}
         /\ g.state = "ERROR_OVERFLOW" => f.state = "ERROR_OVERFLOW"
<1> DEFINE g == Command(f, "RESET")
<1>1. CASE f.cmd = "RESET"
  <2>1. g = f
    BY <1>1 DEF Command
  <2>2. f.strip = <<>>
    BY <1>1 DEF Controller, StripInStep
  <2>3. f.answers = {}
    BY <2>2, ToSetEmpty DEF Controller, StripInStep
  <2>4. QED
    BY <1>1, <2>1, <2>2, <2>3
<1>2. CASE f.cmd # "RESET"
  <2> DEFINE to == IF f.full /\ f.state = "ERROR_OVERFLOW" THEN f.state ELSE "OFFLINE"
  <2>1. /\ g = [state |-> to, cmd |-> "RESET", strip |-> <<>>, full |-> FALSE, answers |-> {}]
        /\ to = "OFFLINE" \/ (to = "ERROR_OVERFLOW" /\ f.state = "ERROR_OVERFLOW")
    BY <1>2 DEF Command
  <2> HIDE DEF to
  <2>2. g \in FpgaType
    <3>1. <<>> \in Seq(PlateIds) /\ {} \in SUBSET PlateIds
      OBVIOUS
    <3>2. to \in FsmState \ {"NEXT_IMAGE"}
      BY <2>1 DEF FsmState
    <3> HIDE DEF g
    <3>3. QED
      BY <2>1, <3>1, <3>2 DEF FpgaType
  <2>3. OpcodeInStep(g) /\ StripInStep(g)
    BY <2>1, ToSetEmpty DEF OpcodeInStep, StripInStep, Busy
  <2>4. QED
    BY <2>1, <2>2, <2>3 DEF Controller
<1>3. QED
  BY <1>1, <1>2

LEMMA InitOffline ==
  ASSUME NEW f, Controller(f), f.state = "OFFLINE"
  PROVE  Controller(Command(f, "INIT")) /\ Command(f, "INIT").state = "IDLE"
<1>1. f \in FpgaType /\ f.cmd # "INIT" /\ f.strip = <<>> /\ f.answers = {}
  BY ToSetEmpty DEF Controller, OpcodeInStep, StripInStep
<1>2. QED
  BY <1>1, CommandResult DEF Controller, OpcodeInStep, StripInStep, Busy

LEMMA ResetInitResult ==
  ASSUME NEW f, Controller(f)
  PROVE  LET g == ResetInit(f) IN
         /\ Controller(g)
         /\ g.state \in {"IDLE", "ERROR_COM"} /\ g.strip = <<>> /\ g.cmd = "INIT"
<1> DEFINE r == Command(f, "RESET")
<1>1. /\ Controller(r) /\ r.cmd = "RESET" /\ r.strip = <<>> /\ r.answers = {}
      /\ r.state \in {"OFFLINE", "ERROR_OVERFLOW"}
  BY ResetResult DEF Controller, OpcodeInStep
<1>2. r \in FpgaType
  BY <1>1 DEF Controller
<1> HIDE DEF r
<1>3. LET g == Command(r, "INIT") IN
      /\ g.state = IF r.state = "OFFLINE" THEN "IDLE" ELSE "ERROR_COM"
      /\ g.cmd = "INIT" /\ g.strip = <<>> /\ g.answers = {} /\ g \in FpgaType
  BY <1>1, <1>2, CommandResult
<1>4. ResetInit(f) = Command(r, "INIT")
  BY DEF ResetInit, r
<1>5. QED
  BY <1>1, <1>3, <1>4, ToSetEmpty DEF Controller, OpcodeInStep, StripInStep, Busy

\* ACK, in the states in which the loop sends it.
LEMMA AckResult ==
  ASSUME NEW f, Controller(f), f.state \in {"WAIT_ACK", "ERROR_TX", "OFFLINE"}
  PROVE  LET g == Command(f, "ACK") IN
         /\ Controller(g)
         /\ g.state \in {"IDLE", "ERROR_COM"} /\ g.strip = <<>> /\ g.cmd = "ACK"
<1>1. f \in FpgaType /\ f.cmd # "ACK"
  BY DEF Controller, OpcodeInStep
<1>2. QED
  BY <1>1, CommandResult, ToSetEmpty DEF Controller, OpcodeInStep, StripInStep, Busy

\* What sendImageStrip makes of the controller: plates of the bank are in, or it holds what
\* it held.
LEMMA SendResult ==
  ASSUME NEW f, Controller(f), f.state \in {"IDLE", "ERROR_COM", "OFFLINE"},
         NEW images \in Seq(PlateIds),
         NEW r \in SendImageStrip(f, images)
  PROVE  /\ Controller(r.fpga) /\ r.ok \in BOOLEAN
         /\ \/ /\ r.ok /\ r.fpga.state = "PROCESS_IMAGE"
               /\ ToSet(r.fpga.strip) \subseteq ToSet(images)
            \/ r.fpga.strip = f.strip /\ r.fpga.state # "PROCESS_IMAGE"
         /\ r.fpga.state \in Busy => f.state = "IDLE"
         /\ r.fpga.state # "WAIT_TX"
<1>1. CASE Len(images) > MaxWidth
  <2>1. r = [ok |-> FALSE, fpga |-> f]
    BY <1>1 DEF SendImageStrip
  <2>2. QED
    BY <2>1 DEF Busy
<1>2. CASE ~(Len(images) > MaxWidth) /\ f.state # "IDLE"
  <2>1. f \in FpgaType
    BY DEF Controller
  <2>2. Command(f, "UPLOAD") = f \/ f.cmd # "UPLOAD"
    BY DEF Command
  <2>3. /\ Command(f, "UPLOAD").state # "ACK_BP" /\ Command(f, "UPLOAD").strip = f.strip
        /\ Command(f, "UPLOAD").state \notin Busy \union {"PROCESS_IMAGE", "WAIT_TX"}
        /\ Controller(Command(f, "UPLOAD"))
    <3>1. CASE f.cmd = "UPLOAD"
      BY <1>2, <3>1 DEF Command, Busy
    <3>2. CASE f.cmd # "UPLOAD"
      BY <1>2, <2>1, <3>2, CommandResult, ToSetEmpty
      DEF Controller, OpcodeInStep, StripInStep, Busy
    <3>3. QED
      BY <3>1, <3>2
  <2>4. r = [ok |-> FALSE, fpga |-> Command(f, "UPLOAD")]
    BY <1>2, <2>3 DEF SendImageStrip, Upload
  <2>5. QED
    BY <1>2, <2>3, <2>4
<1>3. CASE ~(Len(images) > MaxWidth) /\ f.state = "IDLE"
  <2> DEFINE u == Command(f, "UPLOAD")
             taken == SubSeq(images, 1, ImageCount(images))
             fills == ImageCount(images) = IMAGE_RAM_DEPTH
  <2>1. f \in FpgaType /\ f.cmd # "UPLOAD" /\ f.strip = <<>> /\ f.answers = {}
    BY <1>3, ToSetEmpty DEF Controller, OpcodeInStep, StripInStep
  <2>2. /\ u \in FpgaType /\ u.state = "ACK_BP" /\ u.cmd = "UPLOAD"
        /\ u.strip = <<>> /\ u.answers = {} /\ u.full = f.full
    BY <1>3, <2>1, CommandResult
  <2> HIDE DEF u
  <2>3. taken \in Seq(PlateIds) /\ ToSet(taken) \subseteq ToSet(images) /\ fills \in BOOLEAN
    BY SizesAssumption, CountBound, FirstOnes DEF ImageCount
  <2> HIDE DEF taken, fills
  <2>4. \A s \in FsmState \ {"NEXT_IMAGE", "OFFLINE", "IDLE"} :
          LET v == [u EXCEPT !.state = s] IN
          /\ v \in FpgaType /\ v.state = s /\ v.cmd = "UPLOAD" /\ v.strip = <<>>
          /\ v.answers = {} /\ v.full = f.full
    BY <2>2 DEF FpgaType
  <2>5. \A s \in FsmState \ {"NEXT_IMAGE", "OFFLINE", "IDLE"} :
          LET v == [u EXCEPT !.state = s] IN Controller(v)
    BY <2>4, ToSetEmpty DEF Controller, OpcodeInStep, StripInStep
  <2>6. LET v == [u EXCEPT !.state = "PROCESS_IMAGE", !.strip = taken, !.full = fills]
        IN Controller(v) /\ v.strip = taken /\ v.state = "PROCESS_IMAGE"
    <3> DEFINE v == [u EXCEPT !.state = "PROCESS_IMAGE", !.strip = taken, !.full = fills]
    <3>1. "PROCESS_IMAGE" \in FsmState \ {"NEXT_IMAGE"}
      BY DEF FsmState
    <3>2. /\ v \in FpgaType /\ v.state = "PROCESS_IMAGE" /\ v.strip = taken
          /\ v.cmd = "UPLOAD" /\ v.answers = {}
      BY <2>2, <2>3, <3>1 DEF FpgaType
    <3> HIDE DEF v
    <3>3. Controller(v)
      BY <3>2 DEF Controller, OpcodeInStep, StripInStep
    <3>4. QED
      BY <3>2, <3>3 DEF v
  <2>7. Controller(u)
    BY <2>2, ToSetEmpty DEF Controller, OpcodeInStep, StripInStep
  <2>8. {"ERROR_OVERFLOW", "ERROR_COM", "ACK_BP", "ACK_STRIP", "ERROR_RX"}
          \subseteq FsmState \ {"NEXT_IMAGE", "OFFLINE", "IDLE"}
    BY DEF FsmState, LinkErrors
  <2>9. CASE Len(images) > IMAGE_RAM_DEPTH
    <3>1. r = [ok |-> FALSE, fpga |-> [u EXCEPT !.state = "ERROR_OVERFLOW"]]
      BY <1>3, <2>2, <2>4, <2>8, <2>9 DEF SendImageStrip, Upload, u
    <3>2. QED
      BY <1>3, <2>1, <2>4, <2>5, <2>8, <3>1
  <2>10. CASE ~(Len(images) > IMAGE_RAM_DEPTH) /\ ImageCount(images) = 0
    <3>1. r = [ok |-> FALSE, fpga |-> [u EXCEPT !.state = "ERROR_COM"]]
      BY <1>3, <2>2, <2>4, <2>8, <2>10 DEF SendImageStrip, Upload, u
    <3>2. QED
      BY <1>3, <2>1, <2>4, <2>5, <2>8, <3>1 DEF Busy
  <2>11. CASE ~(Len(images) > IMAGE_RAM_DEPTH) /\ ImageCount(images) # 0
    <3>1. \/ \E s \in {"ACK_BP", "ACK_STRIP", "ERROR_RX"} :
               r = [ok |-> FALSE, fpga |-> [u EXCEPT !.state = s]]
          \/ r = [ok |-> TRUE, fpga |-> [u EXCEPT !.state = "ERROR_RX"]]
          \/ r = [ok |-> TRUE, fpga |-> [u EXCEPT !.state = "PROCESS_IMAGE", !.strip = taken,
                                                  !.full = fills]]
      BY <1>3, <2>2, <2>11 DEF SendImageStrip, Upload, u, taken, fills
    <3>2. CASE \E s \in {"ACK_BP", "ACK_STRIP", "ERROR_RX"} :
                 r = [ok |-> FALSE, fpga |-> [u EXCEPT !.state = s]]
      <4>1. PICK s \in {"ACK_BP", "ACK_STRIP", "ERROR_RX"} :
              r = [ok |-> FALSE, fpga |-> [u EXCEPT !.state = s]]
        BY <3>2
      <4>2. r.fpga = [u EXCEPT !.state = s] /\ r.ok = FALSE
        BY <4>1
      <4>3. Controller(r.fpga) /\ r.fpga.strip = <<>> /\ r.fpga.state = s
        BY <2>4, <2>5, <2>8, <4>2
      <4>4. QED
        BY <1>3, <2>1, <4>2, <4>3
    <3>3. CASE r = [ok |-> TRUE, fpga |-> [u EXCEPT !.state = "ERROR_RX"]]
      <4>1. r.fpga = [u EXCEPT !.state = "ERROR_RX"] /\ r.ok = TRUE
        BY <3>3
      <4>2. Controller(r.fpga) /\ r.fpga.strip = <<>> /\ r.fpga.state = "ERROR_RX"
        BY <2>4, <2>5, <2>8, <4>1
      <4>3. QED
        BY <1>3, <2>1, <4>1, <4>2
    <3>4. CASE r = [ok |-> TRUE, fpga |-> [u EXCEPT !.state = "PROCESS_IMAGE", !.strip = taken,
                                                    !.full = fills]]
      <4>1. /\ r.fpga = [u EXCEPT !.state = "PROCESS_IMAGE", !.strip = taken, !.full = fills]
            /\ r.ok = TRUE
        BY <3>4
      <4>2. QED
        BY <1>3, <2>6, <2>3, <4>1
    <3>5. QED
      BY <3>1, <3>2, <3>3, <3>4
  <2>12. QED
    BY <2>9, <2>11, <2>10
<1>4. QED
  BY <1>1, <1>2, <1>3

LEMMA ReceiveResult ==
  ASSUME NEW f, Controller(f), NEW r \in ReceiveResultStrings(f)
  PROVE  /\ Controller(r.fpga) /\ r.fpga.strip = f.strip /\ r.results \subseteq ToSet(f.strip)
         /\ r.results \subseteq PlateIds
         /\ r.ok => r.fpga.state \in {"WAIT_ACK", "ERROR_TX"}
         /\ ~r.ok => r.results = {} /\ r.fpga = f
         /\ r.ok \in BOOLEAN
         /\ r.fpga.state # "ERROR_COM" \/ r.fpga.state = f.state
<1>1. CASE r = [ok |-> FALSE, fpga |-> f, results |-> {}]
  BY <1>1
<1>2. CASE f.state = "WAIT_TX" /\ r # [ok |-> FALSE, fpga |-> f, results |-> {}]
  <2>1. \A s \in {"WAIT_ACK", "ERROR_TX"} :
          LET v == [f EXCEPT !.state = s] IN
          /\ v \in FpgaType /\ v.state = s /\ v.cmd = f.cmd /\ v.strip = f.strip
          /\ v.answers = f.answers
    BY DEF Controller, FpgaType, FsmState, LinkErrors
  <2>2. f.cmd = "UPLOAD" /\ f.answers \subseteq ToSet(f.strip) /\ f.answers \subseteq PlateIds
    BY <1>2 DEF Controller, OpcodeInStep, StripInStep, FpgaType
  <2>3. \A s \in {"WAIT_ACK", "ERROR_TX"} : Controller([f EXCEPT !.state = s])
    BY <2>1, <2>2 DEF Controller, OpcodeInStep, StripInStep
  <2>4. \/ r = [ok |-> TRUE, fpga |-> [f EXCEPT !.state = "WAIT_ACK"], results |-> f.answers]
        \/ r = [ok |-> TRUE, fpga |-> [f EXCEPT !.state = "ERROR_TX"], results |-> {}]
    BY <1>2 DEF ReceiveResultStrings
  <2>5. CASE r = [ok |-> TRUE, fpga |-> [f EXCEPT !.state = "WAIT_ACK"], results |-> f.answers]
    <3>1. r.fpga = [f EXCEPT !.state = "WAIT_ACK"] /\ r.ok = TRUE /\ r.results = f.answers
      BY <2>5
    <3>2. QED
      BY <2>1, <2>2, <2>3, <3>1
  <2>6. CASE r = [ok |-> TRUE, fpga |-> [f EXCEPT !.state = "ERROR_TX"], results |-> {}]
    <3>1. r.fpga = [f EXCEPT !.state = "ERROR_TX"] /\ r.ok = TRUE /\ r.results = {}
      BY <2>6
    <3>2. QED
      BY <2>1, <2>3, <3>1
  <2>7. QED
    BY <2>4, <2>5, <2>6
<1>3. QED
  BY <1>1, <1>2 DEF ReceiveResultStrings

-----------------------------------------------------------------------------
(* Every step keeps the types and the invariant. *)

Inductive == TypeOK /\ IInv

\* Used in every leaf down to the theorems: the invariant and what the handlers share.
USE SizesAssumption
  DEF Inductive, TypeOK, IInv, StopHalts, LoopInStep, ResultsInStep, Numbered, FramesInStep,
      ResetInStep, NoPlateTwice, JobTracked, In, Turn, Goto, Return, SameBanks, SameFpga,
      SameStatus, SameCamera, loopVars, requestVars, cameraVars, statusVars, bankVars,
      historyVars

LEMMA StopKeeps ==
  ASSUME Inductive, requestStop
  PROVE  Inductive'
BY DEF requestStop, State

LEMMA RestartKeeps ==
  ASSUME Inductive, requestRestart
  PROVE  Inductive'
BY DEF requestRestart, State

LEMMA FrameCaptureKeeps ==
  ASSUME Inductive, handleFrameCapture
  PROVE  Inductive'
BY DEF handleFrameCapture, State

LEMMA DetectionKeeps ==
  ASSUME Inductive, handleDetection
  PROVE  Inductive'
BY DEF handleDetection, State

LEMMA SendAckKeeps ==
  ASSUME Inductive, handleSendAck
  PROVE  Inductive'
<1>1. /\ Controller(fpga') /\ fpga'.strip = <<>> /\ fpga'.state \in {"IDLE", "ERROR_COM"}
      /\ fpga'.cmd = "ACK"
  BY AckResult DEF handleSendAck
<1>2. QED
  BY <1>1, ToSetEmpty DEF handleSendAck, State, Controller, Busy

LEMMA PostprocessKeeps ==
  ASSUME Inductive, handlePostprocess
  PROVE  Inductive'
BY DEF handlePostprocess, State, Busy

LEMMA ResetFpgaKeeps ==
  ASSUME Inductive, handleResetFpga
  PROVE  Inductive'
<1>1. /\ Controller(fpga') /\ fpga'.strip = <<>> /\ fpga'.state \in {"IDLE", "ERROR_COM"}
      /\ fpga'.cmd = "INIT"
  BY ResetInitResult DEF handleResetFpga
<1>2. QED
  BY <1>1, ToSetEmpty DEF handleResetFpga, Tried, State, Controller, Busy

LEMMA ErrorKeeps ==
  ASSUME Inductive, handleError
  PROVE  Inductive'
<1>1. TypeOK'
  BY DEF handleError, State
<1>2. IInv'
  BY DEF handleError, State
<1>3. QED
  BY <1>1, <1>2

LEMMA HaltKeeps ==
  ASSUME Inductive, handleHalt
  PROVE  Inductive'
<1>1. /\ Controller(fpga')
      /\ \/ fpga'.strip = <<>> /\ fpga'.state \notin Busy \union {"WAIT_TX"}
         \/ fpga' = fpga
  BY ResetResult DEF handleHalt, Released, Controller, OpcodeInStep, Busy
<1>2. /\ presend_images' = <<>> \/ presend_images' = presend_images
      /\ results' = {} \/ results' = results
      /\ empty_frame' = 0 \/ empty_frame' = empty_frame
      /\ UNCHANGED <<plates, reported, run_mode, statusVars, request_stop, current_state,
                     fsm_restart_requested, fpga_job_pending, historyVars>>
      /\ current_state = "HALT" /\ exit' \in {"crash", "true"}
      /\ running' \in BOOLEAN /\ bridge' \in BOOLEAN
  BY DEF handleHalt, resetStateMachine
<1>3. TypeOK'
  <2>1. presend_images' \in Seq(PlateIds) /\ fpga' \in FpgaType
    <3>1. <<>> \in Seq(PlateIds) /\ presend_images \in Seq(PlateIds)
      OBVIOUS
    <3>2. QED
      BY <1>1, <1>2, <3>1 DEF Controller
  <2>2. QED
    BY <1>2, <2>1
<1>4. IInv'
  BY <1>1, <1>2, ToSetEmpty
<1>5. QED
  BY <1>3, <1>4

\* What the controller does by itself.
LEMMA FinishResult ==
  ASSUME Controller(fpga), FpgaFinish
  PROVE  /\ Controller(fpga') /\ fpga'.strip = fpga.strip
         /\ fpga'.state \in Busy \union {"WAIT_TX"} => fpga.state \in Busy
         /\ fpga'.state # "ERROR_COM"
         /\ fpga.state = "PROCESS_IMAGE" /\ UNCHANGED SoftwareVars
<1>1. fpga.state = "PROCESS_IMAGE" /\ fpga.cmd = "UPLOAD" /\ fpga \in FpgaType
      /\ fpga.answers = {} /\ UNCHANGED SoftwareVars
  BY DEF FpgaFinish, Controller, OpcodeInStep, StripInStep, Busy
<1>2. CASE \E s \in {"ERROR_OVERFLOW", "WAIT_ACK", "ERROR_OCR"} :
             fpga' = [fpga EXCEPT !.state = s]
  <2>1. PICK s \in {"ERROR_OVERFLOW", "WAIT_ACK", "ERROR_OCR"} :
               fpga' = [fpga EXCEPT !.state = s]
    BY <1>2
  <2>2. /\ fpga' \in FpgaType /\ fpga'.state = s /\ fpga'.cmd = "UPLOAD"
        /\ fpga'.strip = fpga.strip /\ fpga'.answers = {}
    BY <1>1, <2>1 DEF FpgaType, FsmState
  <2>3. QED
    BY <1>1, <2>2 DEF Controller, OpcodeInStep, StripInStep, Busy
<1>3. CASE \E a \in SUBSET ToSet(fpga.strip) \ {{}} :
             fpga' = [fpga EXCEPT !.state = "WAIT_POST_RX", !.answers = a]
  <2>1. PICK a \in SUBSET ToSet(fpga.strip) \ {{}} :
               fpga' = [fpga EXCEPT !.state = "WAIT_POST_RX", !.answers = a]
    BY <1>3
  <2>2. a \in SUBSET PlateIds
    BY <1>1, <2>1, ToSetType DEF FpgaType
  <2>3. /\ fpga' \in FpgaType /\ fpga'.state = "WAIT_POST_RX" /\ fpga'.cmd = "UPLOAD"
        /\ fpga'.strip = fpga.strip /\ fpga'.answers = a
    BY <1>1, <2>1, <2>2 DEF FpgaType, FsmState
  <2>4. QED
    BY <1>1, <2>1, <2>3 DEF Controller, OpcodeInStep, StripInStep, Busy
<1>4. QED
  BY <1>1, <1>2, <1>3 DEF FpgaFinish

LEMMA FinishKeeps ==
  ASSUME Inductive, FpgaFinish
  PROVE  Inductive'
<1>1. /\ Controller(fpga') /\ fpga'.strip = fpga.strip
      /\ fpga'.state \in Busy \union {"WAIT_TX"} => fpga.state \in Busy
      /\ fpga.state = "PROCESS_IMAGE" /\ UNCHANGED SoftwareVars
  BY FinishResult
<1>2. QED
  BY <1>1 DEF SoftwareVars, Controller, Busy

LEMMA StoreKeeps ==
  ASSUME Inductive, FpgaStore
  PROVE  Inductive'
<1>1. /\ Controller(fpga') /\ fpga'.strip = fpga.strip /\ fpga'.state = "WAIT_TX"
      /\ fpga.state \in Busy
  <2>1. /\ fpga \in FpgaType /\ fpga.state = "WAIT_POST_RX" /\ fpga.state \in Busy
        /\ fpga' = [fpga EXCEPT !.state = "WAIT_TX"]
    BY DEF FpgaStore, Controller, Busy
  <2>2. /\ fpga' \in FpgaType /\ fpga'.state = "WAIT_TX" /\ fpga'.cmd = fpga.cmd
        /\ fpga'.strip = fpga.strip /\ fpga'.answers = fpga.answers
    BY <2>1 DEF FpgaType, FsmState
  <2>3. QED
    BY <2>1, <2>2 DEF Controller, OpcodeInStep, StripInStep
<1>2. QED
  BY <1>1 DEF FpgaStore, SoftwareVars, Controller, Busy

LEMMA FabricRestartKeeps ==
  ASSUME Inductive, FpgaRestart
  PROVE  Inductive'
<1>1. Controller(PoweredUp) /\ PoweredUp.strip = <<>> /\ PoweredUp.state = "OFFLINE"
  BY ToSetEmpty DEF PoweredUp, Controller, FpgaType, FsmState, OpcodeInStep, StripInStep, Busy
<1>2. QED
  BY <1>1, ToSetEmpty DEF FpgaRestart, SoftwareVars, Controller, Busy

LEMMA InitKeeps ==
  ASSUME Inductive, handleInit
  PROVE  Inductive'
<1>1. Controller(Released)
  BY ResetResult DEF Released
<1>2. /\ Controller(fpga')
      /\ \/ fpga'.strip = <<>> /\ fpga'.state \notin Busy \union {"WAIT_TX"}
         \/ fpga' = fpga
  <2>1. CASE fpga' = Released
    BY <1>1, <2>1, ResetResult DEF Released, Controller, OpcodeInStep, Busy
  <2>2. CASE fpga' = ResetInit(Released)
    BY <1>1, <2>2, ResetInitResult DEF Busy
  <2>3. QED
    BY <2>1, <2>2 DEF handleInit
<1>3. /\ presend_images' = <<>> \/ presend_images' = presend_images
      /\ results' = {} \/ (results' = results /\ ~fsm_restart_requested)
      /\ UNCHANGED <<plates, reported, statusVars, request_stop, fpga_job_pending, running>>
      /\ ~request_stop
      /\ current_state = "INIT" \/ empty_frame' = 0
  BY DEF handleInit, resetStateMachine
<1>4. results' = {} /\ exit = "none"
  BY <1>3 DEF handleInit
<1>5. \/ /\ bridge' = TRUE /\ current_state' = "FRAME_CUPTURE" /\ exit' = "none"
         /\ fsm_restart_requested' = FALSE /\ reset_tried' = TRUE /\ reset_unseen' = TRUE
         /\ run_mode' \in {"camera", "folder"}
         /\ fpga'.state \in {"IDLE", "ERROR_COM"} /\ fpga'.strip = <<>>
      \/ /\ bridge' = FALSE /\ current_state' = "ERROR" /\ exit' = "false"
         /\ UNCHANGED <<fsm_restart_requested, reset_tried, reset_unseen, run_mode>>
  BY <1>1, <1>4, ResetInitResult DEF handleInit, Tried
<1>6. empty_frame' = 0 \/ (empty_frame' = empty_frame /\ current_state = "INIT")
  BY <1>3 DEF handleInit, resetStateMachine
<1>7. TypeOK'
  <2>1. presend_images' \in Seq(PlateIds) /\ fpga' \in FpgaType
    <3>1. <<>> \in Seq(PlateIds) /\ presend_images \in Seq(PlateIds)
      OBVIOUS
    <3>2. QED
      BY <1>2, <1>3, <3>1 DEF Controller
  <2>2. /\ current_state' \in State /\ exit' \in {"none", "true", "false", "crash"}
        /\ bridge' \in BOOLEAN /\ fsm_restart_requested' \in BOOLEAN
        /\ reset_tried' \in BOOLEAN /\ reset_unseen' \in BOOLEAN
        /\ run_mode' \in {"camera", "folder"}
    BY <1>5 DEF State
  <2>3. /\ plates' \in 0 .. MaxPlates /\ reported' \subseteq PlateIds
        /\ fpga_status_prev' \in FsmState /\ same_state_count' \in 0 .. CountCap
        /\ try_reset' \in BOOLEAN /\ request_stop' \in BOOLEAN /\ running' \in BOOLEAN
        /\ fpga_job_pending' \in BOOLEAN
    BY <1>3
  <2>4. results' \subseteq PlateIds /\ empty_frame' \in 0 .. max_persists_empty_frames + 1
    BY <1>4, <1>6
  <2> HIDE DEF IInv
  <2>5. QED
    BY <2>1, <2>2, <2>3, <2>4
<1>8. IInv'
  BY <1>2, <1>3, <1>4, <1>5, <1>6, ToSetEmpty DEF Busy
<1>9. QED
  BY <1>7, <1>8

LEMMA SegmenationKeeps ==
  ASSUME Inductive, handleSegmenation
  PROVE  Inductive'
<1>1. PICK n \in 0 .. MaxClips :
        /\ plates + n <= MaxPlates /\ plates' = plates + n
        /\ presend_images' = presend_images \o [i \in 1 .. n |-> plates + i]
  BY DEF handleSegmenation
<1> DEFINE new == [i \in 1 .. n |-> plates + i]
<1>2. new \in Seq(PlateIds) /\ ToSet(new) \subseteq plates + 1 .. plates'
  <2>1. plates \in Nat /\ n \in Nat /\ plates + n <= MaxPlates /\ plates' = plates + n
    BY <1>1
  <2>2. new \in Seq(1 .. MaxPlates) /\ ToSet(new) \subseteq plates + 1 .. plates + n
    BY <2>1, NewNumbers
  <2> HIDE DEF new
  <2>3. QED
    BY <2>1, <2>2 DEF PlateIds
<1>3. presend_images' = presend_images \o new
  BY <1>1
<1> HIDE DEF new
<1>4. /\ presend_images' \in Seq(PlateIds)
      /\ ToSet(presend_images') \subseteq ToSet(presend_images) \union ToSet(new)
  <2>1. presend_images \in Seq(PlateIds)
    OBVIOUS
  <2>2. QED
    BY <1>2, <1>3, <2>1, ToSetConcat
<1>5. UNCHANGED <<fpga, fpga_job_pending, historyVars, statusVars, cameraVars, results, reported,
                  running, exit, requestVars, bridge>>
      /\ current_state = "SEGMENATION" /\ current_state' = "CHECK_FPGA"
      /\ plates' \in plates .. MaxPlates
  BY <1>1 DEF handleSegmenation
<1>6. TypeOK'
  BY <1>4, <1>5 DEF State
<1>7. IInv'
  BY <1>2, <1>4, <1>5
<1>8. QED
  BY <1>6, <1>7

LEMMA SendImageKeeps ==
  ASSUME Inductive, handleSendImage
  PROVE  Inductive'
<1>1. CASE presend_images = <<>>
  BY <1>1 DEF handleSendImage, State
<1>2. CASE presend_images # <<>>
  <2>1. PICK r \in SendImageStrip(fpga, presend_images) :
          Sent(r) /\ presend_images' = Unsent(r.ok)
    BY <1>2 DEF handleSendImage
  <2>2. /\ current_state = "SEND_IMAGE" /\ exit = "none"
        /\ UNCHANGED <<results, plates, reported, historyVars, cameraVars, statusVars, running,
                       exit, requestVars, bridge>>
        /\ fpga' = r.fpga /\ fpga_job_pending' = (r.ok \/ fpga_job_pending)
        /\ presend_images' = IF r.ok THEN <<>> ELSE presend_images
        /\ current_state' = IF r.ok THEN "FRAME_CUPTURE" ELSE "CHECK_FPGA"
    BY <1>2, <2>1 DEF handleSendImage, Sent, Unsent
  <2>3. /\ Controller(r.fpga) /\ r.ok \in BOOLEAN
        /\ \/ /\ r.ok /\ r.fpga.state = "PROCESS_IMAGE"
              /\ ToSet(r.fpga.strip) \subseteq ToSet(presend_images)
           \/ r.fpga.strip = fpga.strip /\ r.fpga.state # "PROCESS_IMAGE"
        /\ r.fpga.state \in Busy => fpga.state = "IDLE"
        /\ r.fpga.state # "WAIT_TX"
    BY <1>2, <2>2, SendResult
  <2>4. fpga.state = "IDLE" => fpga.strip = <<>>
    BY DEF Controller, StripInStep
  <2>5. TypeOK'
    BY <2>2, <2>3 DEF State, Controller
  <2>6. IInv'
    BY <2>2, <2>3, <2>4, ToSetEmpty
  <2>7. QED
    BY <2>5, <2>6
<1>3. QED
  BY <1>1, <1>2

LEMMA ReceiveResultKeeps ==
  ASSUME Inductive, handleReceiveResult
  PROVE  Inductive'
<1>1. PICK r \in ReceiveResultStrings(fpga) :
        /\ fpga' = r.fpga /\ results' = r.results
        /\ Goto(IF r.ok THEN "POSTPROCESS" ELSE "CHECK_FPGA")
  BY DEF handleReceiveResult
<1>2. /\ Controller(r.fpga) /\ r.fpga.strip = fpga.strip /\ r.results \subseteq ToSet(fpga.strip)
      /\ r.results \subseteq PlateIds
      /\ r.ok => r.fpga.state \in {"WAIT_ACK", "ERROR_TX"}
      /\ ~r.ok => r.results = {} /\ r.fpga = fpga
      /\ r.ok \in BOOLEAN
  BY ReceiveResult
<1>3. QED
  BY <1>1, <1>2 DEF handleReceiveResult, State, Busy, Controller

LEMMA SplitBanksKeeps ==
  ASSUME Inductive, handleSplitBanks
  PROVE  Inductive'
<1>1. /\ current_state = "SPLIT_BANKS" /\ exit = "none" /\ presend_images' = <<>>
      /\ reset_tried' = TRUE /\ reset_unseen' = TRUE
      /\ UNCHANGED <<results, plates, reported, cameraVars, statusVars, running,
                     exit, requestVars, bridge>>
  BY DEF handleSplitBanks, Tried, Sent
<1>2. /\ Controller(ResetInit(fpga)) /\ ResetInit(fpga).state \in {"IDLE", "ERROR_COM"}
      /\ ResetInit(fpga).strip = <<>>
  BY ResetInitResult
<1>3. CASE presend_images = <<>>
  BY <1>1, <1>2, <1>3, ToSetEmpty DEF handleSplitBanks, State, Controller, Busy
<1>4. CASE presend_images # <<>>
  <2> DEFINE half == Len(presend_images) \div 2
             second == SubSeq(presend_images, half + 1, Len(presend_images))
  <2>1. second \in Seq(PlateIds) /\ ToSet(second) \subseteq ToSet(presend_images) /\ second # <<>>
    BY <1>4, SecondHalf
  <2>2. PICK r \in SendImageStrip(ResetInit(fpga), second) : Sent(r)
    BY <1>4 DEF handleSplitBanks
  <2> HIDE DEF second
  <2>3. /\ fpga' = r.fpga /\ fpga_job_pending' = (r.ok \/ fpga_job_pending)
        /\ current_state' = IF r.ok THEN "FRAME_CUPTURE" ELSE "CHECK_FPGA"
    BY <2>2 DEF Sent
  <2>4. /\ Controller(r.fpga) /\ r.ok \in BOOLEAN
        /\ \/ r.ok /\ ToSet(r.fpga.strip) \subseteq ToSet(second)
           \/ r.fpga.strip = <<>>
    BY <1>2, <2>1, SendResult
  <2>5. TypeOK'
    BY <1>1, <2>3, <2>4 DEF State, Controller
  <2>6. IInv'
    BY <1>1, <2>1, <2>3, <2>4, ToSetEmpty
  <2>7. QED
    BY <2>5, <2>6
<1>5. QED
  BY <1>3, <1>4

\* What one look at the controller makes of it, of the bank and of the counters.
LEMMA CheckFpgaEffect ==
  ASSUME Inductive, handleCheckFpga
  PROVE  /\ current_state = "CHECK_FPGA" /\ exit = "none"
         /\ UNCHANGED <<results, plates, reported, fpga_job_pending, cameraVars, running, exit,
                        requestVars, bridge>>
         /\ reset_unseen' = FALSE
         /\ \E s \in Statuses, n \in 0 .. CountCap :
              /\ n = 0 <=> s # fpga_status_prev
              /\ fpga_status_prev' = s /\ same_state_count' \in {0, n}
              /\ try_reset' = (\/ s = fpga_status_prev /\ try_reset
                               \/ s \in Busy /\ n >= max_fpga_persists_states)
              /\ reset_tried' = (s = fpga_status_prev /\ reset_tried)
              /\ presend_images' \in {<<>>, presend_images}
              /\ \/ fpga' = fpga
                 \/ s = "OFFLINE" /\ fpga' = Command(fpga, "INIT")
              /\ \/ /\ \/ s = "IDLE" /\ current_state' = "SEND_IMAGE"
                       \/ s = "WAIT_ACK" /\ current_state' = "SEND_ACK"
                       \/ s = "WAIT_TX" /\ current_state' = "RECEIVE_RESULT"
                    /\ fpga' = fpga
                 \/ /\ s = "ERROR_OVERFLOW"
                    /\ \/ n > 0 /\ current_state' = "ERROR"
                       \/ current_state' \in {"RESET_FPGA", "SPLIT_BANKS"}
                 \/ /\ s \in LinkErrors \union {"ERROR_OCR"}
                    /\ \/ n > 0 /\ current_state' = "ERROR"
                       \/ current_state' = "RESET_FPGA"
                 \/ s = "OFFLINE" /\ current_state' \in {"ERROR", "CHECK_FPGA"}
                 \/ /\ s \in Busy
                    /\ \/ /\ n < max_fpga_persists_states
                          /\ current_state' = "FRAME_CUPTURE"
                       \/ /\ n >= max_fpga_persists_states
                          /\ s = fpga_status_prev /\ try_reset /\ current_state' = "ERROR"
                       \/ /\ n >= max_fpga_persists_states
                          /\ current_state' = "RESET_FPGA"
<1> DEFINE Same(s)  == s = fpga_status_prev
           Count(s) == IF Same(s) THEN Counted(same_state_count + 1) ELSE 0
<1>1. PICK s \in Statuses :
        /\ \/ Steady(s, Count(s)) \/ Overflowed(s, Count(s)) \/ OcrFailed(s, Count(s))
           \/ LinkFailed(s, Count(s)) \/ IsOffline(s, Count(s))
           \/ StillBusy(s, Count(s), TryReset(Same(s)))
        /\ try_reset' = (\/ TryReset(Same(s))
                         \/ s \in Busy /\ Count(s) >= max_fpga_persists_states)
        /\ Seen(s)
        /\ reset_tried' = (Same(s) /\ reset_tried) /\ reset_unseen' = FALSE
  BY DEF handleCheckFpga
<1>2. Count(s) \in 0 .. CountCap /\ (Count(s) = 0 <=> s # fpga_status_prev)
  BY DEF Counted, CountCap
<1> DEFINE n == Count(s)
<1>3. /\ current_state = "CHECK_FPGA" /\ exit = "none"
      /\ UNCHANGED <<results, plates, reported, fpga_job_pending, cameraVars>>
  BY DEF handleCheckFpga
<1> HIDE DEF n, Count
<1>4. /\ UNCHANGED <<running, exit, requestVars, bridge>>
      /\ same_state_count' \in {0, n} /\ presend_images' \in {<<>>, presend_images}
      /\ fpga' = fpga \/ (s = "OFFLINE" /\ fpga' = Command(fpga, "INIT"))
  BY <1>1 DEF Steady, Overflowed, OcrFailed, LinkFailed, IsOffline, StillBusy, n
<1>5. \/ /\ \/ s = "IDLE" /\ current_state' = "SEND_IMAGE"
            \/ s = "WAIT_ACK" /\ current_state' = "SEND_ACK"
            \/ s = "WAIT_TX" /\ current_state' = "RECEIVE_RESULT"
         /\ fpga' = fpga
      \/ /\ s = "ERROR_OVERFLOW"
         /\ (n > 0 /\ current_state' = "ERROR") \/ current_state' \in {"RESET_FPGA", "SPLIT_BANKS"}
      \/ /\ s \in LinkErrors \union {"ERROR_OCR"}
         /\ (n > 0 /\ current_state' = "ERROR") \/ current_state' = "RESET_FPGA"
      \/ s = "OFFLINE" /\ current_state' \in {"ERROR", "CHECK_FPGA"}
      \/ /\ s \in Busy
         /\ \/ n < max_fpga_persists_states /\ current_state' = "FRAME_CUPTURE"
            \/ /\ n >= max_fpga_persists_states
               /\ s = fpga_status_prev /\ try_reset /\ current_state' = "ERROR"
            \/ n >= max_fpga_persists_states /\ current_state' = "RESET_FPGA"
  <2>1. CASE Steady(s, n)
    BY <2>1 DEF Steady
  <2>2. CASE Overflowed(s, n)
    BY <1>2, <2>2 DEF Overflowed, n
  <2>3. CASE OcrFailed(s, n)
    BY <1>2, <2>3 DEF OcrFailed, n
  <2>4. CASE LinkFailed(s, n)
    BY <1>2, <2>4 DEF LinkFailed, n
  <2>5. CASE IsOffline(s, n)
    BY <2>5 DEF IsOffline
  <2>6. CASE StillBusy(s, n, TryReset(Same(s)))
    BY <1>2, <2>6 DEF StillBusy, TryReset, n
  <2>7. QED
    BY <1>1, <2>1, <2>2, <2>3, <2>4, <2>5, <2>6 DEF n
<1>6. /\ fpga_status_prev' = s /\ reset_unseen' = FALSE
      /\ try_reset' = (\/ s = fpga_status_prev /\ try_reset
                       \/ s \in Busy /\ n >= max_fpga_persists_states)
      /\ reset_tried' = (s = fpga_status_prev /\ reset_tried)
  BY <1>1 DEF Seen, TryReset, n
<1>7. n \in 0 .. CountCap /\ (n = 0 <=> s # fpga_status_prev)
  BY <1>2 DEF n
<1>8. QED
  BY <1>3, <1>4, <1>5, <1>6, <1>7

\* A status is the state of the controller, or NEXT_IMAGE while it works on a strip.
LEMMA StatusShown ==
  ASSUME fpga \in FpgaType, NEW s \in Statuses
  PROVE  /\ s \in FsmState
         /\ s \in Busy <=> fpga.state \in Busy
         /\ s # fpga.state => s = "NEXT_IMAGE" /\ fpga.state = "PROCESS_IMAGE"
BY DEF Statuses, FpgaType, FsmState, Busy

LEMMA CheckFpgaKeeps ==
  ASSUME Inductive, handleCheckFpga
  PROVE  Inductive'
<1>1. PICK s \in Statuses, n \in 0 .. CountCap :
        /\ n = 0 <=> s # fpga_status_prev
        /\ fpga_status_prev' = s /\ same_state_count' \in {0, n}
        /\ try_reset' = (\/ s = fpga_status_prev /\ try_reset
                         \/ s \in Busy /\ n >= max_fpga_persists_states)
        /\ reset_tried' = (s = fpga_status_prev /\ reset_tried)
        /\ presend_images' \in {<<>>, presend_images}
        /\ fpga' = fpga \/ (s = "OFFLINE" /\ fpga' = Command(fpga, "INIT"))
        /\ \/ /\ \/ s = "IDLE" /\ current_state' = "SEND_IMAGE"
                 \/ s = "WAIT_ACK" /\ current_state' = "SEND_ACK"
                 \/ s = "WAIT_TX" /\ current_state' = "RECEIVE_RESULT"
              /\ fpga' = fpga
           \/ /\ s \in Errors
              /\ current_state' \in {"ERROR", "RESET_FPGA", "SPLIT_BANKS"}
           \/ s = "OFFLINE" /\ current_state' \in {"ERROR", "CHECK_FPGA"}
           \/ /\ s \in Busy
              /\ \/ n < max_fpga_persists_states /\ current_state' = "FRAME_CUPTURE"
                 \/ /\ n >= max_fpga_persists_states
                    /\ current_state' \in {"ERROR", "RESET_FPGA"}
  BY CheckFpgaEffect DEF Errors
<1>2. /\ current_state = "CHECK_FPGA" /\ exit = "none" /\ reset_unseen' = FALSE
      /\ UNCHANGED <<results, plates, reported, fpga_job_pending, cameraVars, running, exit,
                     requestVars, bridge>>
  BY CheckFpgaEffect
<1>3. fpga \in FpgaType /\ Controller(fpga)
  OBVIOUS
<1>4. /\ s \in FsmState /\ (s \in Busy <=> fpga.state \in Busy)
      /\ s # fpga.state => s = "NEXT_IMAGE" /\ fpga.state = "PROCESS_IMAGE"
  BY <1>3, StatusShown
<1>5. Controller(fpga') /\ (fpga' = fpga \/ (fpga'.strip = <<>> /\ fpga'.state = "IDLE"))
  <2>1. CASE fpga' = fpga
    BY <1>3, <2>1
  <2>2. CASE s = "OFFLINE" /\ fpga' = Command(fpga, "INIT")
    <3>1. fpga.state = "OFFLINE"
      BY <1>4, <2>2
    <3>2. Controller(fpga') /\ fpga'.state = "IDLE"
      BY <1>3, <2>2, <3>1, InitOffline
    <3>3. QED
      BY <3>2 DEF Controller, StripInStep
  <2>3. QED
    BY <1>1, <2>1, <2>2
<1>6. presend_images' \in Seq(PlateIds) /\ ToSet(presend_images') \subseteq ToSet(presend_images)
  <2>1. <<>> \in Seq(PlateIds) /\ presend_images \in Seq(PlateIds)
    OBVIOUS
  <2>2. presend_images' = <<>> \/ presend_images' = presend_images
    BY <1>1
  <2>3. QED
    BY <2>1, <2>2, ToSetEmpty
<1>7. TypeOK'
  <2>1. /\ current_state' \in State /\ fpga' \in FpgaType
        /\ same_state_count' \in 0 .. CountCap /\ try_reset' \in BOOLEAN
        /\ reset_tried' \in BOOLEAN
    BY <1>1, <1>5 DEF State, Controller, CountCap
  <2> HIDE DEF IInv
  <2>2. QED
    BY <1>1, <1>2, <1>4, <1>6, <2>1
<1>8. StopHalts' /\ FramesInStep' /\ ResultsInStep'
  BY <1>1, <1>2, <1>5 DEF handleCheckFpga
<1>9. LoopInStep'
  BY <1>1, <1>4
<1>10. Numbered' /\ NoPlateTwice' /\ JobTracked'
  BY <1>2, <1>5, <1>6, ToSetEmpty DEF Busy
<1>11. ResetInStep'
  <2>1. fpga_status_prev' = s
    BY <1>1
  <2>2. try_reset' => s \in Busy
    BY <1>1
  <2>3. CASE s \in Errors
    BY <1>1, <2>1, <2>2, <2>3 DEF Errors, LinkErrors, Busy
  <2>4. CASE s \notin Errors
    <3>1. CASE s = fpga_status_prev /\ try_reset
      <4>1. reset_tried
        BY <1>2, <3>1
      <4>2. reset_tried' = TRUE
        BY <1>1, <3>1, <4>1
      <4>3. QED
        BY <2>1, <2>2, <4>2
    <3>2. CASE s \in Busy /\ n >= max_fpga_persists_states
      <4>1. current_state' \in {"ERROR", "RESET_FPGA"}
        BY <1>1, <2>4, <3>2 DEF Busy
      <4>2. QED
        BY <2>1, <2>2, <4>1
    <3>3. CASE /\ ~(s = fpga_status_prev /\ try_reset)
               /\ ~(s \in Busy /\ n >= max_fpga_persists_states)
      <4>1. try_reset' = FALSE
        BY <1>1, <3>3
      <4>2. QED
        BY <2>1, <2>4, <4>1
    <3>4. QED
      BY <3>1, <3>2, <3>3
  <2>5. QED
    BY <2>3, <2>4
<1>12. QED
  BY <1>5, <1>7, <1>8, <1>9, <1>10, <1>11

-----------------------------------------------------------------------------
(* The theorems. *)

\* Whatever an earlier process left in the controller, the invariant holds of it.
LEMMA InitInductive == Init => Inductive
<1> SUFFICES ASSUME Init PROVE Inductive
  OBVIOUS
<1>1. Controller(fpga) /\ fpga.strip = <<>>
  <2> DEFINE Left == {"OFFLINE", "ERROR_OVERFLOW"} \X {"RESET"} \X {FALSE}
                \union {"IDLE", "ERROR_COM"} \X {"INIT", "ACK"} \X {FALSE}
                \union (FsmState \ {"OFFLINE", "IDLE", "NEXT_IMAGE"}) \X {"UPLOAD"} \X {FALSE}
                \union {"PROCESS_IMAGE", "ERROR_OCR", "ERROR_OVERFLOW"} \X {"UPLOAD"} \X {TRUE}
  <2>1. <<>> \in Seq(PlateIds) /\ {} \subseteq ToSet(<<>>)
    OBVIOUS
  <2>2. fpga \in LeftBehind
    BY DEF Init
  <2>3. CASE fpga = PoweredUp
    BY <2>1, <2>3 DEF PoweredUp, Controller, FpgaType, FsmState, OpcodeInStep, StripInStep, Busy
  <2>4. CASE \E t \in Left : fpga = [PoweredUp EXCEPT !.state = t[1], !.cmd = t[2], !.full = t[3]]
    <3>1. PICK t \in Left : fpga = [PoweredUp EXCEPT !.state = t[1], !.cmd = t[2], !.full = t[3]]
      BY <2>4
    <3>2. /\ \/ t[1] \in {"OFFLINE", "ERROR_OVERFLOW"} /\ t[2] = "RESET"
             \/ t[1] \in {"IDLE", "ERROR_COM"} /\ t[2] \in {"INIT", "ACK"}
             \/ t[1] \in FsmState \ {"OFFLINE", "IDLE", "NEXT_IMAGE"} /\ t[2] = "UPLOAD"
          /\ t[3] \in BOOLEAN
      BY <3>1 DEF FsmState
    <3>3. fpga = [state |-> t[1], cmd |-> t[2], strip |-> <<>>, full |-> t[3], answers |-> {}]
      BY <3>1 DEF PoweredUp
    <3>4. /\ fpga.state = t[1] /\ fpga.cmd = t[2] /\ fpga.strip = <<>> /\ fpga.answers = {}
          /\ fpga \in FpgaType
      BY <2>1, <3>2, <3>3 DEF FpgaType, FsmState, LinkErrors
    <3>5. QED
      BY <2>1, <3>2, <3>4 DEF Controller, OpcodeInStep, StripInStep, Busy
  <2>5. QED
    BY <2>2, <2>3, <2>4 DEF LeftBehind, PoweredUp
<1>2. TypeOK
  <2>1. <<>> \in Seq(PlateIds)
    OBVIOUS
  <2>2. QED
    <3>1. /\ current_state \in State /\ plates \in 0 .. MaxPlates
          /\ empty_frame \in 0 .. max_persists_empty_frames + 1
          /\ same_state_count \in 0 .. CountCap /\ fpga_status_prev \in FsmState
      BY DEF Init, State, FsmState, CountCap
    <3>2. fpga \in FpgaType
      BY <1>1 DEF Controller
    <3>3. QED
      BY <2>1, <3>1, <3>2 DEF Init
<1>3. IInv
  BY <1>1, ToSetEmpty DEF Init, Errors, LinkErrors
<1>4. QED
  BY <1>2, <1>3

LEMMA NextInductive == Inductive /\ [Next]_vars => Inductive'
<1> SUFFICES ASSUME Inductive, [Next]_vars PROVE Inductive'
  OBVIOUS
<1>1. CASE Loop
  <2> HIDE DEF Inductive
  <2>1. QED
    BY <1>1, InitKeeps, FrameCaptureKeeps, DetectionKeeps, SegmenationKeeps, CheckFpgaKeeps,
       SendImageKeeps, SendAckKeeps, ReceiveResultKeeps, PostprocessKeeps, ResetFpgaKeeps,
       SplitBanksKeeps, HaltKeeps, ErrorKeeps
    DEF Loop
<1>2. CASE requestStop \/ requestRestart
  BY <1>2, StopKeeps, RestartKeeps
<1>3. CASE FpgaFinish \/ FpgaStore \/ FpgaRestart
  BY <1>3, FinishKeeps, StoreKeeps, FabricRestartKeeps
<1>4. CASE UNCHANGED vars
  BY <1>4 DEF vars, Controller, OpcodeInStep, StripInStep, Busy
<1>5. QED
  BY <1>1, <1>2, <1>3, <1>4 DEF Next

HIDE DEF Inductive, TypeOK, IInv, StopHalts, LoopInStep, ResultsInStep, Numbered, FramesInStep,
         ResetInStep, NoPlateTwice, JobTracked

LEMMA Invariance == Spec => []Inductive
<1>1. Init => Inductive
  BY InitInductive
<1>2. Inductive /\ [Next]_vars => Inductive'
  BY NextInductive
<1>3. QED
  BY <1>1, <1>2, PTL DEF Spec

\* TypeOK: every variable keeps its type; the counters stay within their limits.
THEOREM Typing == Spec => []TypeOK
<1>1. Inductive => TypeOK
  BY DEF Inductive
<1>2. QED
  BY <1>1, Invariance, PTL

\* NoPlateTwice: what handleSendImage and handleSplitBanks send has not been sent before,
\* and what handlePostprocess logs is not what the controller still works on, whatever
\* failed and was retried in between.
THEOREM PlatesOnce == Spec => []NoPlateTwice
<1>1. Inductive => NoPlateTwice
  BY DEF Inductive, IInv
<1>2. QED
  BY <1>1, Invariance, PTL

\* JobTracked: fpga_job_pending_ is set while the controller holds a strip.
THEOREM JobsTracked == Spec => []JobTracked
<1>1. Inductive => JobTracked
  BY DEF Inductive, IInv
<1>2. QED
  BY <1>1, Invariance, PTL

\* The controller as each command of a turn finds it.
LEMMA Commanded ==
  ASSUME Inductive, NEW w \in Writes
  PROVE  LET f == w[1] c == w[2] IN
         /\ Controller(f)
         /\ \/ c = "ACK" /\ f.state \in {"WAIT_ACK", "ERROR_TX", "OFFLINE"}
            \/ c = "UPLOAD" /\ (\/ f.state \in {"IDLE", "OFFLINE"}
                                \/ f.state = "ERROR_COM" /\ f.cmd \in {"ACK", "INIT"})
            \/ c = "RESET"
            \/ c = "INIT" /\ f.state = "OFFLINE"
            \/ c = "INIT" /\ f.state = "ERROR_OVERFLOW" /\ f.cmd = "RESET"
<1> DEFINE reset == Command(fpga, "RESET")
           again == Command(Released, "RESET")
<1>1. Controller(fpga) /\ LoopInStep
  BY DEF Inductive, IInv
<1>2. Controller(reset) /\ reset.state \in {"OFFLINE", "ERROR_OVERFLOW"} /\ reset.cmd = "RESET"
  BY <1>1, ResetResult DEF Controller, OpcodeInStep
<1>3. Controller(Released)
  BY <1>1, ResetResult DEF Released
<1>4. Controller(again) /\ again.state \in {"OFFLINE", "ERROR_OVERFLOW"} /\ again.cmd = "RESET"
  BY <1>3, ResetResult DEF Controller, OpcodeInStep
<1>5. LET g == Command(reset, "INIT") IN
      Controller(g) /\ g.state \in {"IDLE", "ERROR_COM"} /\ g.cmd = "INIT"
  BY <1>1, ResetInitResult DEF ResetInit
<1> HIDE DEF reset, again
<1>6. \/ w = <<fpga, "ACK">> /\ current_state = "SEND_ACK"
      \/ w = <<fpga, "INIT">> /\ fpga.state = "OFFLINE"
      \/ w = <<fpga, "UPLOAD">> /\ current_state = "SEND_IMAGE"
      \/ w \in {<<fpga, "RESET">>, <<reset, "INIT">>, <<Command(reset, "INIT"), "UPLOAD">>,
                <<Released, "RESET">>, <<again, "INIT">>}
  BY DEF Writes, reset, again, In, Turn
<1>7. QED
  BY <1>1, <1>2, <1>3, <1>4, <1>5, <1>6 DEF LoopInStep

\* The opcode in the register is new to the controller, and the state accepts it.
LEMMA Obedient ==
  ASSUME NEW f, Controller(f), NEW c,
         \/ c = "ACK" /\ f.state = "WAIT_ACK"
         \/ c = "UPLOAD" /\ f.state = "IDLE"
         \/ c = "INIT" /\ f.state = "OFFLINE"
         \/ c = "RESET" /\ f.state \notin {"OFFLINE", "ERROR_OVERFLOW"}
  PROVE  Obeys(f, c)
<1>1. f.cmd # c
  BY DEF Controller, OpcodeInStep
<1>2. c = "RESET" \/ <<f.state, c, IF c = "UPLOAD" THEN "ACK_BP" ELSE "IDLE">> \in AcceptedCommands
  BY DEF AcceptedCommands
<1>3. QED
  BY <1>1, <1>2 DEF Obeys

\* Every command falls under one of the cases.
LEMMA InOrder == Inductive => ProtocolRespected
<1> SUFFICES ASSUME Inductive, NEW w \in Writes
             PROVE  LET f == w[1] c == w[2] IN
                    \/ Obeys(f, c)
                    \/ c # "INIT" /\ f.state = "OFFLINE"
                    \/ c = "ACK" /\ f.state = "ERROR_TX"
                    \/ c \in {"INIT", "RESET"} /\ f.state = "ERROR_OVERFLOW" /\ f.cmd = "RESET"
                    \/ c = "UPLOAD" /\ f.state = "ERROR_COM" /\ f.cmd \in {"ACK", "INIT"}
  BY DEF ProtocolRespected
<1> DEFINE f == w[1]
           c == w[2]
<1>1. /\ Controller(f)
      /\ \/ c = "ACK" /\ f.state \in {"WAIT_ACK", "ERROR_TX", "OFFLINE"}
         \/ c = "UPLOAD" /\ (\/ f.state \in {"IDLE", "OFFLINE"}
                             \/ f.state = "ERROR_COM" /\ f.cmd \in {"ACK", "INIT"})
         \/ c = "RESET"
         \/ c = "INIT" /\ f.state = "OFFLINE"
         \/ c = "INIT" /\ f.state = "ERROR_OVERFLOW" /\ f.cmd = "RESET"
  BY Commanded
<1> HIDE DEF f, c
<1>2. c = "RESET" /\ f.state = "ERROR_OVERFLOW" => f.cmd = "RESET" \/ Obeys(f, c)
  BY DEF Obeys
<1>3. \/ Obeys(f, c)
      \/ c # "INIT" /\ f.state = "OFFLINE"
      \/ c = "ACK" /\ f.state = "ERROR_TX"
      \/ c \in {"INIT", "RESET"} /\ f.state = "ERROR_OVERFLOW" /\ f.cmd = "RESET"
      \/ c = "UPLOAD" /\ f.state = "ERROR_COM" /\ f.cmd \in {"ACK", "INIT"}
  BY <1>1, <1>2, Obedient
<1>4. QED
  BY <1>3 DEF f, c

\* ProtocolRespected: what the handlers write finds a controller that obeys it, unless it is
\* OFFLINE (and the command not INIT), the results could not be read, a full image RAM needs
\* its second RESET, or the command before was rejected for one of these reasons.
THEOREM CommandsInOrder == Spec => []ProtocolRespected
<1>1. QED
  BY InOrder, Invariance, PTL

\* handleCheckFpga gives up on an error, or on a controller that stays busy, only when
\* the same was there before a reset.
LEMMA GivingUp ==
  ASSUME Inductive, [Next]_vars, In("CHECK_FPGA"), current_state' = "ERROR",
         fpga.state # "OFFLINE"
  PROVE  reset_tried
<1>1. current_state = "CHECK_FPGA" /\ handleCheckFpga
  BY DEF Next, Loop, vars, requestStop, requestRestart, handleInit, handleFrameCapture,
         handleDetection, handleSegmenation, handleSendImage, handleSendAck,
         handleReceiveResult, handlePostprocess, handleResetFpga, handleSplitBanks,
         handleHalt, handleError, FpgaFinish, FpgaStore, FpgaRestart, SoftwareVars
<1>2. PICK s \in Statuses, n \in 0 .. CountCap :
        /\ n = 0 <=> s # fpga_status_prev
        /\ \/ s \in Errors /\ n > 0
           \/ s = "OFFLINE"
           \/ s = fpga_status_prev /\ try_reset
  BY <1>1, CheckFpgaEffect DEF Errors
<1>3. ResetInStep /\ fpga \in FpgaType
  BY DEF Inductive, IInv, TypeOK
<1>4. s # "OFFLINE"
  BY <1>2, <1>3, StatusShown
<1>5. fpga_status_prev \in Errors \/ try_reset
  BY <1>2, <1>4
<1>6. QED
  BY <1>1, <1>3, <1>5 DEF ResetInStep

\* ResetBeforeError: the loop goes to ERROR only after a RESET of the controller that did
\* not change its status.
THEOREM ResetFirst == Spec => ResetBeforeError
<1>1. Inductive /\ [Next]_vars =>
        [(In("CHECK_FPGA") /\ current_state' = "ERROR" /\ fpga.state # "OFFLINE")
           => reset_tried]_vars
  BY GivingUp
<1>2. QED
  BY <1>1, Invariance, PTL DEF Spec, ResetBeforeError

====
