---------------------------- MODULE AhimProtocol ----------------------------
(***************************************************************************)
(* What the AHIM promises the software (protocol.md, ahim_flow.md and the  *)
(* bridge's use of the controller): a batch is a row of images, worked off *)
(* one after another in the windows its breakpoints delimit; results are   *)
(* offered once, after the last image, if an image had any, under a header *)
(* that counts them; an error ends the batch and only RESET ends an error. *)
(*                                                                         *)
(* No clock, no command register, no watchdog, no memory: AhimCore, the    *)
(* controller cycle by cycle, implements this.                             *)
(***************************************************************************)
EXTENDS Naturals

VARIABLES
  phase,      \* where the batch is, named like the controller's states
  images,     \* images announced by UPLOAD
  ends,       \* last column of each image
  done, hits, \* images worked off, and those of them with digits
  window,     \* first and last column of the image being read
  words,      \* result words produced so far
  header      \* count announced to the reader

vars == <<phase, images, ends, done, hits, window, words, header>>

NoEnds   == <<>>
NoWindow == <<0, 0>>

\* Nothing of a batch is left.
Cleared == /\ images' = 0 /\ ends' = NoEnds /\ done' = 0 /\ hits' = 0
           /\ window' = NoWindow /\ words' = 0 /\ header' = 0

Init == /\ phase = "OFFLINE" /\ images = 0 /\ ends = NoEnds /\ done = 0 /\ hits = 0
        /\ window = NoWindow /\ words = 0 /\ header = 0

WindowOf(e, i) == <<IF i = 0 THEN 0 ELSE e[i - 1] + 1, e[i]>>

\* A word may be produced in any step until the results are closed.
Produce == words' \in {words, words + 1}

Connect == phase = "OFFLINE" /\ phase' = "IDLE" /\ Cleared

Upload == /\ phase = "IDLE" /\ phase' = "ACK_BP"
          /\ images' \in Nat
          /\ UNCHANGED <<ends, done, hits, window, words, header>>

TakeBreakpoints == /\ phase = "ACK_BP" /\ images > 0
                   /\ phase' = "ACK_STRIP"
                   /\ ends' \in [0 .. images - 1 -> Nat]
                   /\ UNCHANGED <<images, done, hits, window, words, header>>

TakeStrip == /\ phase = "ACK_STRIP" /\ phase' = "PROCESS_IMAGE"
             /\ window' = WindowOf(ends, 0)
             /\ UNCHANGED <<images, ends, done, hits, words, header>>

EndImage == /\ phase = "PROCESS_IMAGE" /\ phase' = "NEXT_IMAGE"
            /\ done' = done + 1 /\ hits' \in {hits, hits + 1}
            /\ window' = NoWindow
            /\ Produce
            /\ UNCHANGED <<images, ends, header>>

NextImage == /\ phase = "NEXT_IMAGE" /\ done < images
             /\ phase' = "PROCESS_IMAGE"
             /\ window' = WindowOf(ends, done)
             /\ Produce
             /\ UNCHANGED <<images, ends, done, hits, header>>

LastImage == /\ phase = "NEXT_IMAGE" /\ done = images
             /\ phase' = IF hits > 0 THEN "WAIT_POST_RX" ELSE "WAIT_ACK"
             /\ Produce
             /\ UNCHANGED <<images, ends, done, hits, window, header>>

Work == /\ phase \in {"PROCESS_IMAGE", "WAIT_POST_RX"}
        /\ Produce
        /\ UNCHANGED <<phase, images, ends, done, hits, window, header>>

Offer == /\ phase = "WAIT_POST_RX" /\ phase' = "WAIT_TX"
         /\ header' = words
         /\ UNCHANGED <<images, ends, done, hits, window, words>>

Fetched == /\ phase = "WAIT_TX" /\ phase' = "WAIT_ACK"
           /\ header' = 0
           /\ UNCHANGED <<images, ends, done, hits, window, words>>

Acknowledge == phase = "WAIT_ACK" /\ phase' = "IDLE" /\ Cleared

Fail  == phase # "ERROR" /\ phase' = "ERROR" /\ Cleared

Reset == phase # "OFFLINE" /\ phase' = "OFFLINE" /\ Cleared

Next == \/ Connect \/ Upload \/ TakeBreakpoints \/ TakeStrip
        \/ EndImage \/ NextImage \/ LastImage \/ Work
        \/ Offer \/ Fetched \/ Acknowledge \/ Fail \/ Reset

Spec == Init /\ [][Next]_vars
=============================================================================
