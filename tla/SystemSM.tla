------------------------------ MODULE SystemSM ------------------------------
(***************************************************************************)
(* System_SM.vhd, the state machine that walks the OCR accelerator through *)
(* an image: for every column k convolutions, then the scores of N classes *)
(* in three steps for each pair of filters, then the decision.  Registers  *)
(* only: SystemEdge moves them by one clock cycle.                         *)
(* A definition <operator>_<fault> is the operator with that fault.        *)
(***************************************************************************)
EXTENDS OcrData

VARIABLES
  corrent_state,
  Count_load_Wait, count_k, class_count, Count_winner,
  LL_flag,                     \* the last column is in the pixel registers
  LL_read                      \* the pass beyond the last column, which reads white

systemVars == <<corrent_state, Count_load_Wait, count_k, class_count, Count_winner, LL_flag,
                LL_read>>

SystemState ==
  {"idle", "Load_data", "LL_wait", "LNL", "Loaded_line", "COV2D_prep", "COV2D_prep_LL_FLAG",
   "COV2D_prep_LL", "RUN_CONV2D", "First_FC", "FC_P1", "FC_P2", "FC_P3", "FC_P3_LK",
   "Next_Class", "Check_winner_state", "wait_winner", "Task_complate"}

SystemTypeOK ==
  /\ corrent_state \in SystemState
  /\ Count_load_Wait \in 0..(T_RAM + 1) /\ count_k \in 0..(k + 1)
  /\ class_count \in 0..(N + 1) /\ Count_winner \in 0..(T_find_winner + 1)
  /\ LL_flag \in BOOLEAN /\ LL_read \in BOOLEAN

SystemInit ==
  /\ corrent_state = "idle"
  /\ Count_load_Wait = 0 /\ count_k = 0 /\ class_count = 0 /\ Count_winner = 0
  /\ LL_flag = FALSE /\ LL_read = FALSE

-----------------------------------------------------------------------------
(* What the state shows to the rest of the accelerator.                    *)

is_idle         == corrent_state = "idle"
Done            == corrent_state = "Task_complate"
Start_load_data == corrent_state = "Load_data"
Relu_WR_EN      == corrent_state = "RUN_CONV2D"
EN_pixel_reg    == corrent_state = "First_FC"
Check_winner    == corrent_state = "Check_winner_state"
En_shift_result_NotLast == corrent_state = "Next_Class"
En_shift_result == corrent_state \in {"Next_Class", "Check_winner_state"}

-----------------------------------------------------------------------------
\* A column is in: it is an inner one, the last one, or the white one after it.
NextLine(at_final_line) ==
  IF LL_flag THEN "COV2D_prep_LL"
  ELSE IF at_final_line THEN "COV2D_prep_LL_FLAG" ELSE "COV2D_prep"

\* After a winner the column is loaded anew, so the machine waits for the RAM.
Decided_NoWait(winner, at_final_line) ==
  IF (IF winner THEN at_final_line ELSE LL_read) THEN "Task_complate" ELSE "Loaded_line"

Decided(winner, at_final_line) ==
  IF winner
  THEN IF at_final_line THEN "Task_complate" ELSE "LL_wait"
  ELSE IF LL_read THEN "Task_complate" ELSE "Loaded_line"

SystemNext(image_load, winner, at_final_line) ==
  CASE corrent_state = "idle"       -> IF image_load THEN "Load_data" ELSE "idle"
    [] corrent_state = "Load_data"  -> "LL_wait"
    [] corrent_state = "LL_wait"    -> IF Count_load_Wait = T_RAM THEN "LNL" ELSE "LL_wait"
    [] corrent_state \in {"Loaded_line", "LNL"} -> NextLine(at_final_line)
    [] corrent_state \in {"COV2D_prep", "COV2D_prep_LL_FLAG", "COV2D_prep_LL"} -> "RUN_CONV2D"
    [] corrent_state = "RUN_CONV2D" -> IF count_k = k THEN "First_FC" ELSE "RUN_CONV2D"
    [] corrent_state \in {"First_FC", "FC_P1", "Next_Class"} -> "FC_P2"
    [] corrent_state = "FC_P2"      -> IF count_k = k THEN "FC_P3_LK" ELSE "FC_P3"
    [] corrent_state = "FC_P3"      -> "FC_P1"
    [] corrent_state = "FC_P3_LK"   -> IF class_count = N THEN "Check_winner_state"
                                                          ELSE "Next_Class"
    [] corrent_state = "Check_winner_state" -> "wait_winner"
    [] corrent_state = "wait_winner" ->
         IF Count_winner = T_find_winner THEN Decided(winner, at_final_line) ELSE "wait_winner"
    [] corrent_state = "Task_complate" -> "idle"

SystemEdge(image_load, winner, at_final_line, CU_rst) ==
  /\ corrent_state' = IF CU_rst THEN "idle" ELSE SystemNext(image_load, winner, at_final_line)
  /\ Count_load_Wait' =
       IF corrent_state \in {"Load_data", "Loaded_line", "LNL"} THEN 0
       ELSE IF corrent_state = "LL_wait" THEN Count_load_Wait + 1 ELSE Count_load_Wait
  /\ count_k' =
       IF corrent_state \in {"Loaded_line", "LNL", "COV2D_prep", "COV2D_prep_LL_FLAG",
                             "COV2D_prep_LL", "First_FC", "Next_Class"} THEN 1
       ELSE IF corrent_state \in {"RUN_CONV2D", "FC_P3"} THEN count_k + 1 ELSE count_k
  /\ class_count' =
       IF corrent_state = "First_FC" THEN 1
       ELSE IF corrent_state = "Next_Class" THEN class_count + 1 ELSE class_count
  /\ Count_winner' = IF corrent_state = "wait_winner" THEN Count_winner + 1 ELSE 0
  /\ LL_flag' =
       IF corrent_state = "idle" THEN FALSE ELSE LL_flag \/ corrent_state = "COV2D_prep_LL_FLAG"
  /\ LL_read' =
       IF corrent_state = "idle" THEN FALSE
       ELSE IF corrent_state = "COV2D_prep_LL" THEN LL_flag ELSE LL_read
=============================================================================
