--------------------------- MODULE OcrAccelerator ---------------------------
(***************************************************************************)
(* The OCR accelerator (OCR_Accelerator.vhd): System_SM and Memory_CU side *)
(* by side, the pixel registers of the data management unit, the ReLU      *)
(* buffer's addresses, the registers of the compute engine and the winner's *)
(* way through the result comparator.  One step is one clock cycle.        *)
(*                                                                         *)
(* Pixels, weights and scores are represented by where they come from: a   *)
(* column, a row of a memory, a class.  Every memory shows what it was     *)
(* asked for two cycles before.  Whether a column has a winner is open.    *)
(* A definition <operator>_<fault> is the operator with that fault.        *)
(***************************************************************************)
EXTENDS SystemSM, MemoryCU, Sequences

CONSTANTS
  Windows,                     \* windows of columns: [first |-> .., last |-> ..]
  MAX_out_L,                   \* characters of an answer (10)
  DetectRange                  \* values of dig_detect_count (256)

\* A column has an address of 16 bits; the white one, PIXEL_DEF_VALUE, has none.
LastColumn == 65535
White == LastColumn + 1

\* A winner takes the window back by two columns: after three passes it leaves the
\* accelerator a column further than the last start or winner did.
PassesToGain == 3

ASSUME AcceleratorAssumption ==
  /\ Windows # {}
  /\ \A w \in Windows :
       /\ w.first \in Nat /\ w.last \in Nat
       /\ w.first <= w.last /\ w.last <= LastColumn
  /\ MAX_out_L \in Nat \ {0} /\ DetectRange \in Nat \ {0}

VARIABLES
  window,                      \* ADDR_PIXEL_START and ADDR_PIXEL_END
  ram_in, ram_q,               \* address and output registers of the memories
  pixel_buffer_2, pixel_buffer_3,
  product,                     \* what the engine multiplied in the last cycle
  read_addr, write_addr,       \* Relu_out_FIFO
  Shift_EN_1, Shift_EN_2, check_winner_1, check_winner_2,
  score_class,                 \* the class whose score data_in_reg holds
  model_ring,                  \* the class at the head of model_reg_arr and thre_reg_arr
  winner, result_length, dig_detect_count,
  passes,                      \* history: passes since the start or the last winner
  set_back                     \* history: this image had a winner in the first of them

dataVars   == <<ram_in, ram_q, pixel_buffer_2, pixel_buffer_3, product, read_addr, write_addr>>
resultVars == <<Shift_EN_1, Shift_EN_2, check_winner_1, check_winner_2, score_class, model_ring,
                winner, result_length, dig_detect_count>>
vars == <<systemVars, memoryVars, dataVars, resultVars, window, passes, set_back>>

-----------------------------------------------------------------------------
\* Relu_out_FIFO: k rows of defaults, then a ring of k rows (addr_incress).
addr_incress(addr) == IF addr = 2 * k - 1 THEN k ELSE addr + 1

Addresses == [pixel |-> ADDR_PIXEL, conv |-> ADDR_Conv, wfc |-> ADDR_WFC, bfc |-> ADDR_BFC,
              relu |-> read_addr]

pixel_buffer_1 == IF LL_read THEN White ELSE ram_q.pixel

S_rst == is_idle \/ winner

Init ==
  /\ SystemInit /\ MemoryInit
  /\ window \in Windows
  /\ read_addr = 0 /\ write_addr = k
  /\ ram_in = [pixel |-> 0, conv |-> 0, wfc |-> 0, bfc |-> 0, relu |-> 0] /\ ram_q = ram_in
  /\ pixel_buffer_2 = White /\ pixel_buffer_3 = White
  /\ product = [conv |-> 0, columns |-> <<White, White, 0>>]
  /\ Shift_EN_1 = FALSE /\ Shift_EN_2 = FALSE
  /\ check_winner_1 = FALSE /\ check_winner_2 = FALSE
  /\ score_class = 0 /\ model_ring = 0
  /\ winner = FALSE /\ result_length = 0 /\ dig_detect_count = 0
  /\ passes = 0 /\ set_back = FALSE

\* The memories, the pixel registers and the engine.
DataEdge ==
  /\ ram_in' = Addresses /\ ram_q' = ram_in
  /\ product' = [conv |-> ram_q.conv,
                 columns |-> <<pixel_buffer_3, pixel_buffer_2, pixel_buffer_1>>]
  /\ IF S_rst
     THEN pixel_buffer_2' = White /\ pixel_buffer_3' = White
     ELSE IF EN_pixel_reg /\ ~LL_read
          THEN pixel_buffer_2' = pixel_buffer_1 /\ pixel_buffer_3' = pixel_buffer_2
          ELSE UNCHANGED <<pixel_buffer_2, pixel_buffer_3>>

ReluEdge_NoReset ==
  /\ read_addr' = IF Relu_RD_en THEN addr_incress(read_addr) ELSE read_addr
  /\ write_addr' = IF Relu_WR_EN THEN addr_incress(write_addr) ELSE write_addr

ReluEdge ==
  /\ read_addr' = IF S_rst THEN 0 ELSE IF Relu_RD_en THEN addr_incress(read_addr) ELSE read_addr
  /\ write_addr' = IF S_rst THEN k
                   ELSE IF Relu_WR_EN THEN addr_incress(write_addr) ELSE write_addr

\* Results_comparator_Chars; is_winner: the best score of this column beat its threshold.
ResultEdge(is_winner) ==
  IF is_idle
  THEN /\ Shift_EN_1' = FALSE /\ Shift_EN_2' = FALSE
       /\ check_winner_1' = FALSE /\ check_winner_2' = FALSE
       /\ score_class' = 0 /\ model_ring' = 0
       /\ winner' = FALSE /\ result_length' = 0 /\ dig_detect_count' = 0
  ELSE /\ Shift_EN_1' = En_shift_result /\ Shift_EN_2' = Shift_EN_1
       /\ check_winner_1' = Check_winner /\ check_winner_2' = check_winner_1
       /\ score_class' = IF En_shift_result THEN class_count ELSE score_class
       /\ model_ring' = IF Shift_EN_2 THEN (model_ring + 1) % N ELSE model_ring
       /\ winner' = (check_winner_2 /\ is_winner)
       /\ IF check_winner_2 /\ is_winner
          THEN /\ dig_detect_count' = (dig_detect_count + 1) % DetectRange
               /\ result_length' = IF result_length < MAX_out_L THEN result_length + 1
                                                                ELSE result_length
          ELSE UNCHANGED <<result_length, dig_detect_count>>

\* The AHIM holds the window while the accelerator works and starts it only when idle.
Clock(image_load, CU_rst, is_winner) ==
  /\ image_load => is_idle
  /\ is_winner => check_winner_2
  /\ IF is_idle /\ ~image_load THEN window' \in Windows ELSE UNCHANGED window
  /\ SystemEdge(image_load, winner, At_final_line(window.last), CU_rst)
  /\ MemoryEdge(winner, Start_load_data, Done, is_idle, window.first, window.last)
  /\ DataEdge /\ ReluEdge /\ ResultEdge(is_winner)
  /\ passes' = IF S_rst THEN 0 ELSE IF Check_winner /\ passes < PassesToGain THEN passes + 1
                                                                               ELSE passes
  /\ set_back' = (~is_idle /\ (set_back \/ (winner /\ passes = 1)))

Next == \E image_load, CU_rst, is_winner \in BOOLEAN : Clock(image_load, CU_rst, is_winner)

\* The clock does not stop.
Spec == Init /\ [][Next]_vars /\ WF_vars(Next)

-----------------------------------------------------------------------------
(* What has to hold.                                                       *)

TypeOK ==
  /\ SystemTypeOK /\ MemoryTypeOK
  /\ read_addr \in 0..(2 * k - 1) /\ write_addr \in k..(2 * k - 1)
  /\ window \in Windows /\ ADDR_PIXEL \in 0..LastColumn
  /\ {Shift_EN_1, Shift_EN_2, check_winner_1, check_winner_2, winner, set_back} \subseteq BOOLEAN
  /\ model_ring \in 0..(N - 1) /\ passes \in 0..PassesToGain
  /\ result_length \in 0..MAX_out_L /\ dig_detect_count \in 0..(DetectRange - 1)

\* The engine holds the row of weights of the filters being written, and the buffer
\* shows the same row: the defaults in the first pass after a start or a winner, the
\* row of the last pass later.
ConvRows ==
  corrent_state = "RUN_CONV2D" =>
    /\ product.conv = count_k - 1
    /\ write_addr = k + count_k - 1
    /\ ram_q.relu = IF passes = 0 THEN count_k - 1 ELSE k + count_k - 1

\* The weight and the row of the buffer that the engine is given belong to the class
\* and the filters that System_SM counts.
FcRows ==
  LET weight(class, filter, part) == 3 * ((class - 1) * k + filter - 1) + part
  IN /\ corrent_state = "First_FC" =>
          ram_q.wfc = 0 /\ ram_q.bfc = 0 /\ ram_q.relu = k
     /\ corrent_state = "Next_Class" =>
          /\ ram_q.wfc = weight(class_count + 1, 1, 0) /\ ram_q.bfc = class_count
          /\ ram_q.relu = k
     /\ corrent_state = "FC_P1" =>
          ram_q.wfc = weight(class_count, count_k, 0) /\ ram_q.relu = k + count_k - 1
     /\ corrent_state = "FC_P2" => ram_q.wfc = weight(class_count, count_k, 1)
     /\ corrent_state \in {"FC_P3", "FC_P3_LK"} => ram_q.wfc = weight(class_count, count_k, 2)

\* The two machines, which count apart, agree on every row of weights of every pass
\* over a column of the window: what is multiplied is what System_SM believes.
ConvAligned == ~LL_read => ConvRows
FcAligned   == ~LL_read => FcRows

\* "Class scores agree with PyTorch model output" (FPGA_OCR_CNN/README.md:87), in the
\* pass over the white column too.  They do not: Wait_winner_LL leaves K_count as it is,
\* where Wait_winner sets it, and Memory_CU runs through that pass a cycle early.
WhitePassAligned == LL_read => ConvRows /\ FcRows

\* The white column after the last one reaches the engine a cycle after it is chosen
\* (System_SM.vhd: LL_read_reg): the first filters see the last column twice.
white_missed == LL_read /\ count_k = 1

\* The columns under the filters are neighbours, the last the one addressed; outside
\* the image, and after a winner before its first column, they are white.
ColumnsConsecutive ==
  corrent_state = "RUN_CONV2D" =>
    LET c == product.columns
    IN /\ c[3] = IF LL_read /\ ~white_missed THEN White ELSE ADDR_PIXEL
       /\ c[2] = White \/ c[2] = IF LL_read THEN window.last ELSE c[3] - 1
       /\ c[1] = White \/ c[1] = c[2] - 1
       /\ passes > 0 => c[2] # White
       /\ passes > 1 => c[1] # White

\* A score is compared with the threshold of its own class.
ScoreAligned == Shift_EN_1 => score_class = model_ring + 1

\* While it works, the accelerator asks for no column behind its window, and for one
\* before it, which is a neighbouring image's, only after a winner in the first pass
\* after a start or a winner.  It is done at the last column, and without the pass over
\* the white one behind it only by a winner.
WindowKept ==
  /\ ~is_idle /\ mem_state # "offline" =>
       /\ ADDR_PIXEL <= window.last
       /\ ADDR_PIXEL >= window.first \/ set_back
  /\ Done => At_final_line(window.last) /\ (LL_read \/ passes = 0)

\* An image that is not stopped is answered, unless winners come for ever so close
\* together that they take back every column gained: no counter ends that in here.
Answers == (Start_load_data ~> is_idle) \/ []<>(winner /\ passes < PassesToGain)
=============================================================================
