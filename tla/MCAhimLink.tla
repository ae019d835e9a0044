----------------------------- MODULE MCAhimLink -----------------------------
(* AhimLink with short strips. *)
EXTENDS AhimLink

\* One word of breakpoints and two, a single column and more, and a strip that is
\* too long for the image RAM.
MCUploads == {[columns |-> 1, images |-> 1], [columns |-> 3, images |-> 3],
              [columns |-> 4, images |-> 1]}
=============================================================================
