------------------------------ MODULE MemoryCU ------------------------------
(***************************************************************************)
(* Memory_CU.vhd, the state machine that addresses the image RAM and the   *)
(* weight memories.  It has counters of its own and runs ahead of          *)
(* System_SM by as many cycles as the memories take; nothing but the start,*)
(* a winner and the end brings the two together.                           *)
(* A definition <operator>_<fault> is the operator with that fault.        *)
(***************************************************************************)
EXTENDS OcrData

VARIABLES
  mem_state,
  winner_count, winner_count_done,
  ADDR_WFC, ADDR_PIXEL, ADDR_BFC, ADDR_Conv,
  K_count, K_count_done,
  mem_class_count, class_count_done

memoryVars == <<mem_state, winner_count, winner_count_done, ADDR_WFC, ADDR_PIXEL, ADDR_BFC,
                ADDR_Conv, K_count, K_count_done, mem_class_count, class_count_done>>

MemState == {"offline", "RFL", "Pre_NL", "CONV_load", "FC_FL", "FC_P1", "FC_P2", "FC_P3",
             "FC_NC", "Wait_winner", "Wait_winner_LL", "Wait_winner_run", "sync_rst"}

winner_count_end == T_find_winner + 2

\* The addresses stay within the memories: ADDR_WFC_end and so on, and one beyond.
MemoryTypeOK ==
  /\ mem_state \in MemState
  /\ winner_count \in 0..winner_count_end
  /\ ADDR_WFC \in 0..(3 * k * N) /\ ADDR_BFC \in 0..k /\ ADDR_Conv \in 0..k
  /\ K_count \in 1..k /\ mem_class_count \in 0..N
  /\ {winner_count_done, K_count_done, class_count_done} \subseteq BOOLEAN

MemoryInit ==
  /\ mem_state = "offline"
  /\ winner_count = 0 /\ winner_count_done = FALSE
  /\ ADDR_WFC = 0 /\ ADDR_PIXEL = 0 /\ ADDR_BFC = 0 /\ ADDR_Conv = 0
  /\ K_count = 1 /\ K_count_done = FALSE
  /\ mem_class_count = 0 /\ class_count_done = FALSE

-----------------------------------------------------------------------------
At_final_line(ADDR_PIXEL_END) == ADDR_PIXEL = ADDR_PIXEL_END

Relu_RD_en ==
  mem_state \in {"CONV_load", "FC_FL", "FC_P1", "FC_NC", "Wait_winner", "Wait_winner_LL"}

\* Behind the last column there is none to load.
WaitState_Always(at_final_line) == "Wait_winner"
WaitState(at_final_line) == IF at_final_line THEN "Wait_winner_LL" ELSE "Wait_winner"

MemoryNext(Start_data_load, at_final_line) ==
  CASE mem_state = "offline"   -> IF Start_data_load THEN "RFL" ELSE "offline"
    [] mem_state \in {"RFL", "sync_rst"} -> "Pre_NL"
    [] mem_state = "Pre_NL"    -> "CONV_load"
    [] mem_state = "CONV_load" -> IF K_count_done THEN "FC_FL" ELSE "CONV_load"
    [] mem_state \in {"FC_FL", "FC_P1", "FC_NC"} -> "FC_P2"
    [] mem_state = "FC_P2"     -> "FC_P3"
    [] mem_state = "FC_P3"     ->
         IF ~K_count_done THEN "FC_P1" ELSE IF ~class_count_done THEN "FC_NC"
         ELSE WaitState(at_final_line)
    [] mem_state \in {"Wait_winner", "Wait_winner_LL"} -> "Wait_winner_run"
    [] mem_state = "Wait_winner_run" -> IF winner_count_done THEN "Pre_NL" ELSE "Wait_winner_run"

K_count_set_NoWinner == mem_state \in {"Pre_NL", "FC_FL", "sync_rst", "FC_NC"}
K_count_set     == mem_state \in {"Pre_NL", "FC_FL", "sync_rst", "FC_NC", "Wait_winner"}
K_count_add     == mem_state \in {"Pre_NL", "CONV_load", "FC_P3"}
class_count_set == mem_state = "FC_FL"
class_count_add == mem_state \in {"FC_FL", "FC_NC"}
winner_count_set == mem_state \in {"Wait_winner", "Wait_winner_LL"}

\* An add takes precedence over a set, and both over the winner's reset.
KCountEdge(S_rst) ==
  /\ K_count' = IF K_count_add THEN (IF K_count + 1 = k THEN 1 ELSE K_count + 1)
                ELSE IF K_count_set \/ S_rst THEN 1 ELSE K_count
  /\ K_count_done' = IF K_count_add /\ K_count + 1 = k THEN TRUE
                     ELSE IF K_count_set \/ S_rst THEN FALSE ELSE K_count_done

ClassCountEdge(S_rst) ==
  LET counts == class_count_set \/ mem_class_count # 0
  IN /\ mem_class_count' =
          IF counts /\ mem_class_count = N THEN 0
          ELSE IF counts /\ class_count_add THEN mem_class_count + 1
          ELSE IF S_rst THEN 0 ELSE mem_class_count
     /\ class_count_done' =
          IF counts /\ mem_class_count = N THEN TRUE
          ELSE IF class_count_set \/ S_rst THEN FALSE ELSE class_count_done

WinnerCountEdge(S_rst) ==
  IF winner_count_set \/ winner_count # 0
  THEN /\ winner_count_done' = (winner_count = winner_count_end)
       /\ winner_count' = IF winner_count = winner_count_end THEN 0 ELSE winner_count + 1
  ELSE /\ winner_count_done' = (winner_count_done /\ ~S_rst)
       /\ UNCHANGED winner_count

\* A winner takes the window of columns back by two.
PixelBack_Three == IF ADDR_PIXEL > 2 THEN ADDR_PIXEL - 3 ELSE ADDR_PIXEL
PixelBack == IF ADDR_PIXEL > 1 THEN ADDR_PIXEL - 2 ELSE ADDR_PIXEL

ADDR_WFC_clr_Start == mem_state \in {"offline", "RFL"}
ADDR_WFC_clr == mem_state \in {"offline", "RFL", "Pre_NL", "FC_FL"}

AddressEdge(ADDR_PIXEL_START) ==
  /\ ADDR_PIXEL' = IF mem_state \in {"offline", "RFL"} THEN ADDR_PIXEL_START
                   ELSE IF mem_state = "sync_rst" THEN PixelBack
                   ELSE IF mem_state = "Wait_winner" THEN ADDR_PIXEL + 1 ELSE ADDR_PIXEL
  /\ ADDR_WFC' = IF ADDR_WFC_clr THEN 0
                 ELSE IF mem_state \in {"FC_P1", "FC_P2", "FC_P3", "FC_NC"} THEN ADDR_WFC + 1
                 ELSE ADDR_WFC
  /\ ADDR_BFC' = IF mem_state \in {"offline", "FC_FL"} THEN 0
                 ELSE IF mem_state = "FC_NC" THEN ADDR_BFC + 1 ELSE ADDR_BFC
  /\ ADDR_Conv' =
       IF mem_state \in {"offline", "sync_rst", "Wait_winner", "Wait_winner_LL"} THEN 0
       ELSE IF mem_state = "Pre_NL" \/ (mem_state = "CONV_load" /\ ~K_count_done)
            THEN ADDR_Conv + 1 ELSE ADDR_Conv

MemoryEdge(S_rst, Start_data_load, done, idle, ADDR_PIXEL_START, ADDR_PIXEL_END) ==
  IF idle
  THEN /\ mem_state' = "offline"
       /\ winner_count' = 0 /\ winner_count_done' = FALSE
       /\ ADDR_WFC' = 0 /\ ADDR_PIXEL' = ADDR_PIXEL_START /\ ADDR_BFC' = 0 /\ ADDR_Conv' = 0
       /\ K_count' = 1 /\ K_count_done' = FALSE
       /\ mem_class_count' = 0 /\ class_count_done' = FALSE
  ELSE /\ LET next == MemoryNext(Start_data_load, At_final_line(ADDR_PIXEL_END))
          IN mem_state' = IF done THEN "offline"
                          ELSE IF ~S_rst THEN next
                          ELSE IF next # "offline" THEN "sync_rst" ELSE mem_state
       /\ KCountEdge(S_rst) /\ ClassCountEdge(S_rst) /\ WinnerCountEdge(S_rst)
       /\ AddressEdge(ADDR_PIXEL_START)
=============================================================================
