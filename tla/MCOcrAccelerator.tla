-------------------------- MODULE MCOcrAccelerator --------------------------
EXTENDS OcrAccelerator

\* One column, windows at the edge of the strip, and one in which two winners fit.
MCWindows == {[first |-> 0, last |-> 0], [first |-> 0, last |-> 3], [first |-> 4, last |-> 10]}
=============================================================================
