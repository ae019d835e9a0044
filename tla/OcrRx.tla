------------------------------- MODULE OcrRx -------------------------------
(***************************************************************************)
(* How the texts of a strip get from the accelerator to the software:      *)
(* OCR_RX_UNIT writes them one after the other into words of W characters, *)
(* Result_FILO keeps the words, receiveResultStrings splits them again.    *)
(*                                                                         *)
(* One step is one clock cycle of OCR_RX_UNIT.  The controller             *)
(* (see AhimCore) is reduced to phase; the transfer of the words through   *)
(* TX_UNIT is one step.  Character <<p, i>> is the i-th from the left of   *)
(* plate p.                                                                *)
(***************************************************************************)
EXTENDS Naturals, Sequences, SequencesExt, FiniteSetsExt

CONSTANTS
  W,                  \* characters in a word, PIO_DATA_WIDTH / CHAR_WIDTH
  MAX_OUT_L,          \* longest text of a plate
  RESULT_RAM_DEPTH,   \* words in Result_FILO, one of which stays empty; LC_reg has 8 bits
  MaxPlates           \* bound: plates in a strip

ASSUME WidthsAssumption ==
  /\ W \in Nat \ {0, 1} /\ MAX_OUT_L \in Nat \ {0} /\ RESULT_RAM_DEPTH \in 2 .. 256
  /\ MaxPlates \in Nat

VARIABLES
  Output_reg,         \* the text being shifted out; Output_reg[1] is Output_reg[0] there
  sipo_reg,           \* the last W characters
  sipo_reg_count,
  LC_reg,             \* words pushed
  stored,             \* the words in Result_FILO, oldest first
  phase,              \* "images", "final" (final_image is high), "stored", "fetched"
  texts,              \* history: the plates of this strip
  results             \* what the software made of the words

regs == <<Output_reg, sipo_reg, sipo_reg_count, LC_reg, stored>>
vars == <<regs, phase, texts, results>>

NULL_CHAR == <<0, 0>>
Nulls(n)  == [i \in 1 .. n |-> NULL_CHAR]

-----------------------------------------------------------------------------
(* OCR_RX_UNIT, the wires. *)

comper_last_1 == Output_reg[1] = NULL_CHAR
comper_last_2 == comper_last_1 /\ Output_reg[2] = NULL_CHAR
comper_SIPO   == sipo_reg_count = W - 1

final_im == comper_last_2 /\ phase = "final"
sipo_en  == final_im \/ ~comper_last_2

OCR_RX_done == final_im /\ comper_SIPO

\* char_output has the rightmost character first.
unpack_ocr_output_vector_LeftFirst(text) ==
  <<NULL_CHAR>> \o text \o Nulls(MAX_OUT_L - Len(text))
unpack_ocr_output_vector(text) ==
  <<NULL_CHAR>> \o Reverse(text) \o Nulls(MAX_OUT_L - Len(text))

sipo_reg_in_AllCounted == IF comper_SIPO THEN 0 ELSE sipo_reg_count + 1
\* A null at the beginning of a word is not counted: it stands for the character
\* that is shifted in with the push of the word before.
sipo_reg_in == IF comper_SIPO \/ (comper_last_1 /\ sipo_reg_count = 0) THEN 0 ELSE sipo_reg_count + 1

sipo_count_en_NoPad == ~comper_last_2 \/ comper_SIPO
sipo_count_en == final_im \/ ~comper_last_2 \/ comper_SIPO

-----------------------------------------------------------------------------
(* Clock edges. *)

Push_Unchecked == stored' = IF comper_SIPO THEN Append(stored, sipo_reg) ELSE stored
\* Result_FILO: a full one drops the word, nobody looks at its error flag.
Push ==
  stored' = IF comper_SIPO /\ Len(stored) < RESULT_RAM_DEPTH - 1
            THEN Append(stored, sipo_reg) ELSE stored

\* next is what Output_reg is loaded with.
Edge(next) ==
  /\ Output_reg' = next
  /\ sipo_reg' = IF sipo_en THEN Append(Tail(sipo_reg), Head(Output_reg)) ELSE sipo_reg
  /\ sipo_reg_count' = IF sipo_count_en THEN sipo_reg_in ELSE sipo_reg_count
  /\ LC_reg' = IF comper_SIPO THEN (LC_reg + 1) % 256 ELSE LC_reg
  /\ Push

Shifted == IF sipo_en THEN Append(Tail(Output_reg), NULL_CHAR) ELSE Output_reg

\* Clear_buff, and power on.
Cleared ==
  /\ Output_reg' = Nulls(MAX_OUT_L + 1) /\ sipo_reg' = Nulls(W)
  /\ sipo_reg_count' = 0 /\ LC_reg' = 0 /\ stored' = <<>>

Init ==
  /\ Output_reg = Nulls(MAX_OUT_L + 1) /\ sipo_reg = Nulls(W)
  /\ sipo_reg_count = 0 /\ LC_reg = 0 /\ stored = <<>>
  /\ phase = "images" /\ texts = <<>> /\ results = <<>>

\* valid_output: an image takes the accelerator far more cycles than its text
\* takes to be shifted out.
ValidOutput ==
  /\ phase = "images" /\ comper_last_2 /\ Len(texts) < MaxPlates
  /\ \E n \in 1 .. MAX_OUT_L :
       LET text == [i \in 1 .. n |-> <<Len(texts) + 1, i>>] IN
       /\ texts' = Append(texts, text)
       /\ Edge(unpack_ocr_output_vector(text))
  /\ UNCHANGED <<phase, results>>

\* The controller has seen the last image, which need not be a plate.
FinalImage ==
  /\ phase = "images" /\ texts # <<>>
  /\ phase' = "final"
  /\ Edge(Shifted)
  /\ UNCHANGED <<texts, results>>

Cycle ==
  /\ phase \in {"images", "final"}
  /\ phase' = IF OCR_RX_done THEN "stored" ELSE phase
  /\ Edge(Shifted)
  /\ UNCHANGED <<texts, results>>

-----------------------------------------------------------------------------
(* The software. *)

\* Split at the nulls: the runs of characters that a null ends, in order.  What no
\* null ends is dropped.  nth(k) is the k-th of the ends.
Split(chars) ==
  LET ends     == {e \in 1 .. Len(chars) - 1 : chars[e] # NULL_CHAR /\ chars[e + 1] = NULL_CHAR}
      begin(e) == 1 + Max({0} \union {b \in 1 .. e : chars[b] = NULL_CHAR})
      nth(k)   == CHOOSE e \in ends : Cardinality({f \in ends : f <= e}) = k
  IN  [k \in 1 .. Cardinality(ends) |-> SubSeq(chars, begin(nth(k)), nth(k))]

\* The words come in the order they were pushed, each with its last character
\* first.  Beyond the stored ones the buffer shows the slot never written.
Received ==
  stored \o [i \in 1 .. LC_reg - Len(stored) |-> Nulls(W)]

receiveResultStrings ==
  /\ phase = "stored"
  /\ results' = Split(FlattenSeq([i \in 1 .. Len(Received) |-> Reverse(Received[i])]))
  /\ phase' = "fetched"
  /\ UNCHANGED <<regs, texts>>

\* ACK after the results, or RESET at any time.
Clear ==
  /\ Cleared
  /\ phase' = "images" /\ texts' = <<>> /\ results' = <<>>

Next == ValidOutput \/ FinalImage \/ Cycle \/ receiveResultStrings \/ Clear

Spec == Init /\ [][Next]_vars

\* The clock runs; the software fetches what is offered.
FairSpec == Spec /\ WF_vars(Cycle) /\ WF_vars(receiveResultStrings)

-----------------------------------------------------------------------------
(* Properties. *)

\* What OCR_RX_UNIT is given to write: a null before every text, the text from
\* right to left.
Stream(k) == FlattenSeq([i \in 1 .. k |-> <<NULL_CHAR>> \o Reverse(texts[i])])
Length(k) == Len(Stream(k))
All       == Len(texts)

\* Conditions on the lengths of the texts.  A text spills if just its last
\* character goes into another word; it is whole if it shares a word with its null.
Spills  == \E k \in 1 .. All : Length(k) % W = 1
Whole   == \A k \in 1 .. All : (Length(k) - 1) \div W = Length(k - 1) \div W
Exact   == Length(All) % W = 0
Fits    == Length(All) <= W * (RESULT_RAM_DEPTH - 1)

Char == {NULL_CHAR} \union ((1 .. MaxPlates) \X (1 .. MAX_OUT_L))
Text == Seq(Char)

TypeOK ==
  /\ Output_reg \in Text /\ Len(Output_reg) = MAX_OUT_L + 1
  /\ sipo_reg \in Text /\ Len(sipo_reg) = W
  /\ sipo_reg_count \in 0 .. W - 1 /\ LC_reg \in 0 .. 255
  /\ stored \in Seq(Text) /\ Len(stored) < RESULT_RAM_DEPTH
  /\ phase \in {"images", "final", "stored", "fetched"}
  /\ texts \in Seq(Text) /\ results \in Seq(Text)

\* The words stored are the texts, in order and without a gap, filled up with nulls,
\* and the header counts them: unless a text spills, whose last character is lost.
WordsExact ==
  phase = "stored" /\ ~Spills /\ Fits =>
    /\ LC_reg = Len(stored) /\ Len(stored) = (Length(All) + W - 1) \div W
    /\ FlattenSeq(stored) = Stream(All) \o Nulls(W * Len(stored) - Length(All))

\* The software gets every text, once, if each is in one word with its null.
ResultsExact ==
  phase = "fetched" /\ Whole /\ Fits =>
    Len(results) = All /\ ToSet(results) = ToSet(texts)

\* A strip is finished, unless the last text spills or ends with its word.
Finishes ==
  (phase = "final" /\ ~Spills /\ ~Exact) ~> phase # "final"

\* FPGA_HPS_Bridge_AHIM/hardware/readme.md: at the end of the plates the buffer is
\* flushed.  It is not if nothing but a spilt character, or nothing at all, is left.
Flushed == phase = "final" ~> phase # "final"

\* FPGA_HPS_Bridge_AHIM_protocol.md: the bytes, split at the nulls, are the plates.
\* The words would have to be read last first: Result_FILO is a queue.
PlatesReadable ==
  phase = "fetched" /\ ~Spills /\ Fits => ToSet(results) = ToSet(texts)
=============================================================================
