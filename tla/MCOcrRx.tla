------------------------------ MODULE MCOcrRx ------------------------------
(* OcrRx with words of a few characters, and short texts. *)
EXTENDS OcrRx
=============================================================================
