----------------------------- MODULE MCAhimCore -----------------------------
(* AhimCore on small memories. *)
EXTENDS AhimCore

InitPayloadOf(brk, ignore) ==
  [max_digits |-> 8, min_digits |-> 7, watchdog_ocr |-> 1,
   ocr_break |-> brk, ignore_invalid_cmd |-> ignore]

\* Every reaction to a silent accelerator, and both to an invalid command.
MCInitPayloads == {InitPayloadOf(TRUE, FALSE), InitPayloadOf(FALSE, TRUE)}

\* Full RAM of breakpoints, one image, a strip that fills the image RAM, one
\* that overflows it, one too short, one without images.
MCUploadPayloads ==
  {[strip_width |-> w, breakpoint_count |-> n] : w \in {3}, n \in {0, 1, 3}}
    \union {[strip_width |-> w, breakpoint_count |-> 2] : w \in {1, 4, 5}}

\* One plate with too few digits and one with enough.
MCDigitCounts == {3, 7}
=============================================================================
