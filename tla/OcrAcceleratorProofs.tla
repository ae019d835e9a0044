------------------------- MODULE OcrAcceleratorProofs -------------------------
(***************************************************************************)
(* Proofs about OcrAccelerator, for any number of classes and filters and  *)
(* any windows: its types, and that the two state machines, which count    *)
(* apart, agree on every row and every column of every pass up to the      *)
(* white one.                                                              *)
(***************************************************************************)
EXTENDS OcrAccelerator, TLAPS

-----------------------------------------------------------------------------
(* System_SM by itself: its counters, state by state. *)

FcState   == {"FC_P1", "FC_P2", "FC_P3", "FC_P3_LK"}
PrepState == {"COV2D_prep", "COV2D_prep_LL_FLAG", "COV2D_prep_LL"}

SystemCounts ==
  /\ corrent_state = "LL_wait" => Count_load_Wait \in 0 .. 1
  /\ corrent_state \notin {"idle", "Load_data", "LL_wait", "LNL"} => Count_load_Wait = 0
  /\ corrent_state \in PrepState => count_k = 1
  /\ corrent_state = "RUN_CONV2D" => count_k \in 1 .. k
  /\ corrent_state = "First_FC" => count_k = k + 1
  /\ corrent_state = "FC_P1" => count_k \in 2 .. k
  /\ corrent_state = "FC_P2" => count_k \in 1 .. k
  /\ corrent_state = "FC_P3" => count_k \in 1 .. k - 1
  /\ corrent_state \in {"FC_P3_LK", "Next_Class", "Check_winner_state", "wait_winner"} =>
       count_k = k
  /\ corrent_state \in FcState => class_count \in 1 .. N
  /\ corrent_state = "Next_Class" => class_count \in 1 .. N - 1
  /\ corrent_state \in {"Check_winner_state", "wait_winner"} => class_count = N
  /\ corrent_state = "wait_winner" => Count_winner \in 0 .. 2

\* The last column is known from the pass over it on, the white one follows it.
LastLine ==
  /\ LL_read => LL_flag
  /\ corrent_state \in {"Load_data", "LL_wait", "LNL", "COV2D_prep", "COV2D_prep_LL_FLAG"} =>
       ~LL_flag
  /\ corrent_state = "COV2D_prep_LL" => LL_flag
  /\ corrent_state \in {"Loaded_line", "COV2D_prep_LL"} => ~LL_read

(* The result comparator: a score is shifted in every few cycles, the winner   *)
(* comes three cycles after the last one.                                      *)

\* The ring is one behind the scores while a shift is on its way.
Shifts ==
  /\ Shift_EN_1 <=> \/ corrent_state = "FC_P2" /\ count_k = 1 /\ class_count > 1
                    \/ corrent_state = "wait_winner" /\ Count_winner = 0
  /\ Shift_EN_2 <=> \/ corrent_state = "FC_P3" /\ count_k = 1 /\ class_count > 1
                    \/ corrent_state = "wait_winner" /\ Count_winner = 1
  /\ model_ring =
       IF corrent_state \in FcState \union {"Next_Class", "Check_winner_state"}
       THEN class_count - IF Shift_EN_1 \/ Shift_EN_2 THEN 2 ELSE 1
       ELSE IF corrent_state = "wait_winner" /\ Count_winner < 2 THEN N - 1 ELSE 0

WinnerInTime ==
  /\ check_winner_1 => corrent_state = "wait_winner" /\ Count_winner = 0
  /\ check_winner_2 => corrent_state = "wait_winner" /\ Count_winner = 1
  /\ winner => corrent_state = "wait_winner" /\ Count_winner = 2

\* A pass counts when its scores are complete.
Passes ==
  /\ corrent_state \in {"Load_data", "LL_wait", "LNL"} => passes = 0
  /\ corrent_state \in {"Loaded_line", "wait_winner"} => passes > 0
  /\ corrent_state = "Task_complate" => LL_read \/ passes = 0

-----------------------------------------------------------------------------
(* Memory_CU by itself.  In the fully connected layer its counters name a class *)
(* and a pair of filters.                                                       *)

MemClass  == IF mem_class_count = 0 THEN N ELSE mem_class_count
MemFilter == IF K_count_done THEN k ELSE K_count

\* The pairs of filters before class c.
Base(c) == (c - 1) * k

FcMemState == {"FC_P1", "FC_P2", "FC_P3", "FC_NC"}

MemCounts ==
  /\ K_count \in 1 .. k - 1 /\ mem_class_count \in 0 .. N
  /\ mem_state \in FcMemState => (class_count_done <=> mem_class_count = 0)
  /\ mem_state \in {"Pre_NL", "CONV_load", "FC_FL", "Wait_winner", "Wait_winner_LL",
                    "Wait_winner_run"} => mem_class_count = 0
  /\ mem_state \in {"FC_P1", "FC_P3", "FC_NC"} => mem_class_count # N
  /\ mem_state = "FC_P2" /\ mem_class_count = N => MemFilter = 1
  /\ mem_state = "FC_NC" => mem_class_count # 0
  /\ mem_state = "Pre_NL" => K_count \in 1 .. 2
  /\ mem_state \in {"CONV_load", "FC_P1"} => MemFilter > 1
  /\ mem_state \in {"CONV_load", "FC_P1", "FC_P2", "FC_P3"} =>
       IF K_count_done THEN K_count = 1 ELSE K_count < k
  /\ mem_state \in {"FC_FL", "FC_NC", "Wait_winner", "Wait_winner_LL"} =>
       K_count_done /\ K_count = 2
  /\ mem_state = "Wait_winner_run" => K_count \in 1 .. 2
  /\ mem_state = "Wait_winner_run" =>
       IF winner_count_done THEN winner_count = 0 ELSE winner_count \in 1 .. 4
  /\ mem_state \notin {"Wait_winner_run", "sync_rst", "offline", "RFL"} => winner_count = 0

MemAddresses ==
  /\ mem_state \in {"Wait_winner_run", "Pre_NL"} => ADDR_Conv = 0
  /\ mem_state = "CONV_load" => ADDR_Conv < MemFilter
  /\ ADDR_Conv \in 0 .. k - 1
  /\ mem_state \in {"CONV_load", "FC_FL"} => ADDR_WFC = 0
  /\ mem_state = "FC_P1" => ADDR_WFC = 3 * (Base(MemClass) + MemFilter - 1) - 1
  /\ mem_state = "FC_P2" => ADDR_WFC = 3 * (Base(MemClass) + MemFilter - 1)
  /\ mem_state = "FC_P3" => ADDR_WFC = 3 * (Base(MemClass) + MemFilter - 1) + 1
  /\ mem_state = "FC_NC" => ADDR_WFC = 3 * (Base(MemClass) + k) - 1
  /\ mem_state \in {"Wait_winner", "Wait_winner_LL"} => ADDR_WFC = 3 * (Base(N) + k) - 1
  /\ mem_state \in FcMemState => ADDR_BFC = MemClass - 1
  /\ ADDR_BFC \in 0 .. N - 1
  /\ ADDR_WFC \in 0 .. 3 * (Base(N) + k)

-----------------------------------------------------------------------------
(* Both together.  Memory_CU is one pair of filters ahead of System_SM. *)

\* The last row of weights has been addressed, and the next column too.
Finished == corrent_state \in FcState /\ count_k = k /\ class_count = N

\* System_SM is in the fully connected layer with this class and pair of filters.
InFc == corrent_state \in FcState \union {"First_FC", "Next_Class"}
SysClass  == IF corrent_state = "First_FC" THEN 1
             ELSE IF corrent_state = "Next_Class" THEN class_count + 1 ELSE class_count
SysFilter == IF corrent_state \in {"First_FC", "Next_Class"} THEN 1 ELSE count_k

\* Where Memory_CU is in the load of a column, when System_SM is at filters j.
LoadAhead(j) ==
  /\ j + 3 <= k => mem_state = "CONV_load" /\ MemFilter = j + 3
  /\ j = k - 2 => mem_state = "FC_FL"
  /\ j = k - 1 => mem_state = "FC_P2" /\ MemFilter = 1 /\ MemClass = 1
  /\ j = k => mem_state = "FC_P3" /\ MemFilter = 1 /\ MemClass = 1
  /\ ADDR_Conv = IF j + 2 < k THEN j + 2 ELSE k - 1

\* The state in which Memory_CU does the same part of the next pair of filters.
FcAhead(same, between, after) ==
  IF SysFilter < k
  THEN mem_state = same /\ MemClass = SysClass /\ MemFilter = SysFilter + 1
  ELSE IF SysClass < N THEN between ELSE after

WaitRun(n) ==
  mem_state = "Wait_winner_run" /\ winner_count = n % 5 /\ (winner_count_done <=> n = 5)
    /\ (~LL_flag => K_count = 1)

MachinesInStep ==
  /\ corrent_state = "LL_wait" /\ Count_load_Wait = 0 =>
       /\ mem_state \in {"RFL", "sync_rst"} /\ mem_class_count = 0 /\ winner_count = 0
       /\ mem_state = "RFL" => K_count = 1 /\ ADDR_Conv = 0
  /\ corrent_state = "LL_wait" /\ Count_load_Wait = 1 => mem_state = "Pre_NL" /\ K_count = 1
  /\ corrent_state = "LNL" \/ (corrent_state = "Loaded_line" /\ ~LL_flag) =>
       mem_state = "CONV_load" /\ MemFilter = 2 /\ ADDR_Conv = 1
  /\ corrent_state \in PrepState /\ ~LL_flag => LoadAhead(0)
  /\ ~LL_read =>
       /\ corrent_state = "RUN_CONV2D" => LoadAhead(count_k)
       /\ corrent_state \in {"First_FC", "Next_Class", "FC_P1"} =>
            FcAhead("FC_P1", mem_state = "FC_NC" /\ MemClass = SysClass,
                    mem_state = IF LL_flag THEN "Wait_winner_LL" ELSE "Wait_winner")
       /\ corrent_state = "FC_P2" =>
            FcAhead("FC_P2", mem_state = "FC_P2" /\ MemClass = SysClass + 1 /\ MemFilter = 1,
                    WaitRun(1))
       /\ corrent_state \in {"FC_P3", "FC_P3_LK"} =>
            FcAhead("FC_P3", mem_state = "FC_P3" /\ MemClass = SysClass + 1 /\ MemFilter = 1,
                    WaitRun(2))
       /\ corrent_state = "Check_winner_state" => WaitRun(3)
       /\ corrent_state = "wait_winner" =>
            IF Count_winner < 2 THEN WaitRun(Count_winner + 4)
            ELSE mem_state = "Pre_NL" /\ (~LL_flag => K_count = 1)

\* In which states of System_SM Memory_CU goes to another column, or starts again.
ColumnMoves ==
  /\ mem_state = "offline" => corrent_state = "Load_data"
  /\ mem_state = "RFL" => corrent_state = "LL_wait" /\ Count_load_Wait = 0
  /\ mem_state = "sync_rst" =>
       corrent_state = "Task_complate" \/ (corrent_state = "LL_wait" /\ Count_load_Wait = 0)
  /\ mem_state = "Wait_winner" => corrent_state = "FC_P1" /\ Finished /\ ~LL_flag
  /\ corrent_state = "Load_data" =>
       /\ mem_state = "offline" /\ mem_class_count = 0 /\ winner_count = 0 /\ K_count = 1
       /\ ADDR_Conv = 0

-----------------------------------------------------------------------------
(* What the memories show. *)

\* The first row of the buffer this pass reads.
FirstRow == IF passes = 0 THEN 0 ELSE k

ReluInStep ==
  /\ write_addr = IF corrent_state = "RUN_CONV2D" THEN k + count_k - 1 ELSE k
  /\ corrent_state \in {"Load_data", "LL_wait", "LNL"} => read_addr = 0
  /\ ~LL_read =>
       /\ corrent_state \in {"Check_winner_state", "wait_winner"} => read_addr = k
       /\ corrent_state \in {"Loaded_line", "LNL"} /\ ~LL_flag => read_addr = FirstRow
       /\ corrent_state \in PrepState /\ ~LL_flag =>
            read_addr = FirstRow + 1 /\ ram_in.relu = FirstRow
       /\ corrent_state = "RUN_CONV2D" =>
            /\ read_addr = IF count_k + 1 < k THEN FirstRow + count_k + 1 ELSE k
            /\ ram_in.relu = IF count_k < k THEN FirstRow + count_k ELSE k
            /\ ram_q.relu = FirstRow + count_k - 1
       /\ corrent_state \in {"First_FC", "Next_Class", "FC_P1"} =>
            read_addr = k + SysFilter - 1 /\ ram_q.relu = k + SysFilter - 1
       /\ corrent_state \in {"FC_P2", "FC_P3", "FC_P3_LK"} =>
            read_addr = IF count_k < k THEN k + count_k ELSE k
       /\ corrent_state \in {"FC_P3", "FC_P3_LK"} =>
            ram_in.relu = IF count_k < k THEN k + count_k ELSE k

ConvInStep ==
  /\ corrent_state = "LNL" \/ (corrent_state = "Loaded_line" /\ ~LL_flag) => ram_in.conv = 0
  /\ corrent_state \in PrepState /\ ~LL_flag => ram_in.conv = 1 /\ ram_q.conv = 0
  /\ corrent_state = "RUN_CONV2D" /\ ~LL_read =>
       /\ product.conv = count_k - 1
       /\ count_k < k => ram_q.conv = count_k
       /\ count_k + 1 < k => ram_in.conv = count_k + 1

\* The row of weights the engine is given.
SysRow(part) == 3 * (Base(SysClass) + SysFilter - 1) + part

WeightsInStep ==
  ~LL_read =>
    /\ corrent_state = "RUN_CONV2D" /\ count_k = k => ram_in.wfc = 0 /\ ram_in.bfc = 0
    /\ corrent_state \in {"First_FC", "Next_Class", "FC_P1"} =>
         ram_q.wfc = SysRow(0) /\ ram_in.wfc = SysRow(1)
    /\ corrent_state = "FC_P2" => ram_q.wfc = SysRow(1) /\ ram_in.wfc = SysRow(2)
    /\ corrent_state \in {"FC_P3", "FC_P3_LK"} =>
         ram_q.wfc = SysRow(2) /\ (~Finished => ram_in.wfc = SysRow(3))
    /\ corrent_state = "FC_P3_LK" /\ ~Finished => ram_in.bfc = class_count
    /\ corrent_state \in {"First_FC", "Next_Class"} => ram_q.bfc = SysClass - 1

-----------------------------------------------------------------------------
(* The columns. *)

\* ADDR_PIXEL is the column after the one of this pass.
Ahead == \/ Finished /\ corrent_state # "FC_P1"
         \/ corrent_state \in {"Check_winner_state", "wait_winner"}

ColumnInStep ==
  /\ ADDR_PIXEL <= window.last
  /\ mem_state # "offline" => ADDR_PIXEL >= window.first \/ set_back
  /\ mem_state = "sync_rst" /\ corrent_state = "LL_wait" =>
       ADDR_PIXEL >= window.first + 2 \/ set_back
  /\ LL_flag \/ corrent_state \in {"COV2D_prep_LL_FLAG", "Task_complate"} =>
       ADDR_PIXEL = window.last
  /\ corrent_state = "COV2D_prep" => ADDR_PIXEL # window.last
  /\ ~LL_flag /\ (corrent_state = "RUN_CONV2D" \/ (InFc /\ ~Ahead)) => ADDR_PIXEL # window.last
  /\ ~LL_flag /\ corrent_state \notin {"Load_data", "Task_complate"} =>
       \/ set_back
       \/ ADDR_PIXEL >= window.first + passes
            + IF Ahead /\ corrent_state # "wait_winner" THEN 1 ELSE 0

PixelsInStep ==
  /\ corrent_state \in PrepState \union {"RUN_CONV2D", "First_FC", "Loaded_line",
                                         "Check_winner_state", "wait_winner"} =>
       ram_in.pixel = ADDR_PIXEL /\ ram_q.pixel = ADDR_PIXEL
  /\ corrent_state \in {"LNL", "FC_P3_LK"} => ram_in.pixel = ADDR_PIXEL
  /\ corrent_state \in {"Load_data", "LL_wait", "LNL"} =>
       pixel_buffer_2 = White /\ pixel_buffer_3 = White

\* The pixel registers keep the last two columns that there have been passes over: at
\* the convolution the ones before this column, from First_FC on this one too.
Kept ==
  /\ corrent_state \in PrepState \union {"Loaded_line", "RUN_CONV2D", "First_FC"} =>
       LET newest == IF LL_read \/ (LL_flag /\ corrent_state \in {"COV2D_prep_LL", "Loaded_line"})
                     THEN ADDR_PIXEL ELSE ADDR_PIXEL - 1
       IN  /\ pixel_buffer_2 = IF passes = 0 THEN White ELSE newest
           /\ pixel_buffer_3 = IF passes <= 1 THEN White ELSE newest - 1
  /\ ~LL_read /\ corrent_state \in FcState \union {"Next_Class", "Check_winner_state",
                                                   "wait_winner"} =>
       LET newest == IF Ahead /\ ~LL_flag THEN ADDR_PIXEL - 1 ELSE ADDR_PIXEL
           past   == IF corrent_state = "wait_winner" THEN passes - 1 ELSE passes
       IN  /\ pixel_buffer_2 = newest
           /\ pixel_buffer_3 = IF past = 0 THEN White ELSE newest - 1

ProductInStep ==
  corrent_state = "RUN_CONV2D" =>
    product.columns = <<pixel_buffer_3, pixel_buffer_2,
                        IF LL_read /\ ~white_missed THEN White ELSE ADDR_PIXEL>>

Working ==
  /\ SystemCounts /\ LastLine /\ Shifts /\ WinnerInTime /\ Passes
  /\ MachinesInStep /\ ColumnMoves
  /\ ReluInStep /\ ConvInStep /\ WeightsInStep
  /\ ColumnInStep /\ PixelsInStep /\ Kept /\ ProductInStep

IInv == /\ TypeOK /\ ScoreAligned /\ (~is_idle => Working)
        /\ MemCounts /\ MemAddresses

-----------------------------------------------------------------------------
(* The next states, one by one. *)

LEMMA SystemSteps ==
  ASSUME NEW load \in BOOLEAN, NEW won \in BOOLEAN, NEW final \in BOOLEAN
  PROVE  LET next == SystemNext(load, won, final)
         IN  /\ corrent_state = "idle" => next = IF load THEN "Load_data" ELSE "idle"
             /\ corrent_state = "Load_data" => next = "LL_wait"
             /\ corrent_state = "LL_wait" =>
                  next = IF Count_load_Wait = T_RAM THEN "LNL" ELSE "LL_wait"
             /\ corrent_state \in {"Loaded_line", "LNL"} => next = NextLine(final)
             /\ corrent_state \in PrepState => next = "RUN_CONV2D"
             /\ corrent_state = "RUN_CONV2D" =>
                  next = IF count_k = k THEN "First_FC" ELSE "RUN_CONV2D"
             /\ corrent_state \in {"First_FC", "FC_P1", "Next_Class"} => next = "FC_P2"
             /\ corrent_state = "FC_P2" => next = IF count_k = k THEN "FC_P3_LK" ELSE "FC_P3"
             /\ corrent_state = "FC_P3" => next = "FC_P1"
             /\ corrent_state = "FC_P3_LK" =>
                  next = IF class_count = N THEN "Check_winner_state" ELSE "Next_Class"
             /\ corrent_state = "Check_winner_state" => next = "wait_winner"
             /\ corrent_state = "wait_winner" =>
                  next = IF Count_winner = T_find_winner THEN Decided(won, final)
                                                         ELSE "wait_winner"
             /\ corrent_state = "Task_complate" => next = "idle"
<1> DEFINE next == SystemNext(load, won, final)
<1>1. corrent_state = "idle" => next = IF load THEN "Load_data" ELSE "idle"
  BY Zenon DEF SystemNext
<1>2. corrent_state = "Load_data" => next = "LL_wait"
  BY Zenon DEF SystemNext
<1>3. corrent_state = "LL_wait" => next = IF Count_load_Wait = T_RAM THEN "LNL" ELSE "LL_wait"
  BY Zenon DEF SystemNext
<1>4. corrent_state \in {"Loaded_line", "LNL"} => next = NextLine(final)
  BY Zenon DEF SystemNext
<1>5. corrent_state \in PrepState => next = "RUN_CONV2D"
  BY Zenon DEF SystemNext, PrepState
<1>6. corrent_state = "RUN_CONV2D" => next = IF count_k = k THEN "First_FC" ELSE "RUN_CONV2D"
  BY Zenon DEF SystemNext
<1>7. corrent_state \in {"First_FC", "FC_P1", "Next_Class"} => next = "FC_P2"
  BY Zenon DEF SystemNext
<1>8. corrent_state = "FC_P2" => next = IF count_k = k THEN "FC_P3_LK" ELSE "FC_P3"
  BY Zenon DEF SystemNext
<1>9. corrent_state = "FC_P3" => next = "FC_P1"
  BY Zenon DEF SystemNext
<1>10. corrent_state = "FC_P3_LK" =>
         next = IF class_count = N THEN "Check_winner_state" ELSE "Next_Class"
  BY Zenon DEF SystemNext
<1>11. corrent_state = "Check_winner_state" => next = "wait_winner"
  BY Zenon DEF SystemNext
<1>12. corrent_state = "wait_winner" =>
         next = IF Count_winner = T_find_winner THEN Decided(won, final) ELSE "wait_winner"
  BY Zenon DEF SystemNext
<1>13. corrent_state = "Task_complate" => next = "idle"
  BY Zenon DEF SystemNext
<1> QED
  BY <1>1, <1>2, <1>3, <1>4, <1>5, <1>6, <1>7, <1>8, <1>9, <1>10, <1>11, <1>12, <1>13, Zenon

LEMMA MemorySteps ==
  ASSUME NEW start \in BOOLEAN, NEW final \in BOOLEAN
  PROVE  LET next == MemoryNext(start, final)
         IN  /\ mem_state = "offline" => next = IF start THEN "RFL" ELSE "offline"
             /\ mem_state \in {"RFL", "sync_rst"} => next = "Pre_NL"
             /\ mem_state = "Pre_NL" => next = "CONV_load"
             /\ mem_state = "CONV_load" => next = IF K_count_done THEN "FC_FL" ELSE "CONV_load"
             /\ mem_state \in {"FC_FL", "FC_P1", "FC_NC"} => next = "FC_P2"
             /\ mem_state = "FC_P2" => next = "FC_P3"
             /\ mem_state = "FC_P3" =>
                  next = IF ~K_count_done THEN "FC_P1" ELSE IF ~class_count_done THEN "FC_NC"
                         ELSE IF final THEN "Wait_winner_LL" ELSE "Wait_winner"
             /\ mem_state \in {"Wait_winner", "Wait_winner_LL"} => next = "Wait_winner_run"
             /\ mem_state = "Wait_winner_run" =>
                  next = IF winner_count_done THEN "Pre_NL" ELSE "Wait_winner_run"
<1> DEFINE next == MemoryNext(start, final)
<1>1. mem_state = "offline" => next = IF start THEN "RFL" ELSE "offline"
  BY Zenon DEF MemoryNext
<1>2. mem_state \in {"RFL", "sync_rst"} => next = "Pre_NL"
  BY Zenon DEF MemoryNext
<1>3. mem_state = "Pre_NL" => next = "CONV_load"
  BY Zenon DEF MemoryNext
<1>4. mem_state = "CONV_load" => next = IF K_count_done THEN "FC_FL" ELSE "CONV_load"
  BY Zenon DEF MemoryNext
<1>5. mem_state \in {"FC_FL", "FC_P1", "FC_NC"} => next = "FC_P2"
  BY Zenon DEF MemoryNext
<1>6. mem_state = "FC_P2" => next = "FC_P3"
  BY Zenon DEF MemoryNext
<1>7. mem_state = "FC_P3" =>
        next = IF ~K_count_done THEN "FC_P1" ELSE IF ~class_count_done THEN "FC_NC"
               ELSE IF final THEN "Wait_winner_LL" ELSE "Wait_winner"
  BY Zenon DEF MemoryNext, WaitState
<1>8. mem_state \in {"Wait_winner", "Wait_winner_LL"} => next = "Wait_winner_run"
  BY Zenon DEF MemoryNext
<1>9. mem_state = "Wait_winner_run" =>
        next = IF winner_count_done THEN "Pre_NL" ELSE "Wait_winner_run"
  BY Zenon DEF MemoryNext
<1> QED
  BY <1>1, <1>2, <1>3, <1>4, <1>5, <1>6, <1>7, <1>8, <1>9, Zenon

-----------------------------------------------------------------------------
(* Memory_CU by itself. *)

LEMMA BaseFacts ==
  /\ Base(1) = 0 /\ 3 * (Base(N) + k) = 3 * k * N
  /\ \A c \in 1 .. N : Base(c) \in Nat /\ Base(c + 1) = Base(c) + k /\ Base(c) <= Base(N)
<1>1. Base(1) = 0
  BY OcrDataAssumption DEF Base
<1>2. 3 * (Base(N) + k) = 3 * k * N
  BY OcrDataAssumption DEF Base
<1>3. ASSUME NEW c \in 1 .. N
      PROVE  Base(c) \in Nat /\ Base(c + 1) = Base(c) + k /\ Base(c) <= Base(N)
  <2>1. Base(c) \in Nat
    BY OcrDataAssumption DEF Base
  <2>2. Base(c + 1) = Base(c) + k
    BY OcrDataAssumption DEF Base
  <2>3. Base(N) = Base(c) + (N - c) * k
    BY OcrDataAssumption DEF Base
  <2>4. (N - c) * k \in Nat
    BY OcrDataAssumption
  <2> QED
    BY <2>1, <2>2, <2>3, <2>4, OcrDataAssumption
<1> QED
  BY <1>1, <1>2, <1>3

\* Where the next column or the next image starts, the counters have to be fresh.
MemFresh(done) ==
  /\ mem_state \in {"RFL", "sync_rst"} /\ ~done => mem_class_count = 0 /\ winner_count = 0
  /\ mem_state = "RFL" => K_count = 1 /\ ADDR_Conv = 0

\* Where Memory_CU goes, unless it is reset, done or told of a winner.
MemoryMoves(start, final) ==
  /\ mem_state = "offline" => mem_state' = IF start THEN "RFL" ELSE "offline"
  /\ mem_state \in {"RFL", "sync_rst"} => mem_state' = "Pre_NL"
  /\ mem_state = "Pre_NL" => mem_state' = "CONV_load"
  /\ mem_state = "CONV_load" => mem_state' = IF K_count_done THEN "FC_FL" ELSE "CONV_load"
  /\ mem_state \in {"FC_FL", "FC_P1", "FC_NC"} => mem_state' = "FC_P2"
  /\ mem_state = "FC_P2" => mem_state' = "FC_P3"
  /\ mem_state = "FC_P3" =>
       mem_state' = IF ~K_count_done THEN "FC_P1" ELSE IF ~class_count_done THEN "FC_NC"
                    ELSE IF final THEN "Wait_winner_LL" ELSE "Wait_winner"
  /\ mem_state \in {"Wait_winner", "Wait_winner_LL"} => mem_state' = "Wait_winner_run"
  /\ mem_state = "Wait_winner_run" =>
       mem_state' = IF winner_count_done THEN "Pre_NL" ELSE "Wait_winner_run"

LEMMA MemoryMove ==
  ASSUME NEW won \in BOOLEAN, NEW start \in BOOLEAN, NEW done \in BOOLEAN,
         NEW first, NEW last,
         mem_state \in MemState, MemoryEdge(won, start, done, FALSE, first, last)
  PROVE  /\ KCountEdge(won) /\ ClassCountEdge(won) /\ WinnerCountEdge(won)
         /\ AddressEdge(first)
         /\ done => mem_state' = "offline"
         /\ ~done /\ won /\ mem_state # "offline" => mem_state' = "sync_rst"
         /\ mem_state' \notin {"offline", "sync_rst"} => ~done /\ ~won
         /\ ~done /\ ~won => MemoryMoves(start, At_final_line(last))
<1> DEFINE final == At_final_line(last)
           next  == MemoryNext(start, final)
<1>1. /\ mem_state' = IF done THEN "offline"
                      ELSE IF ~won THEN next ELSE IF next # "offline" THEN "sync_rst" ELSE mem_state
      /\ KCountEdge(won) /\ ClassCountEdge(won) /\ WinnerCountEdge(won) /\ AddressEdge(first)
  BY Zenon DEF MemoryEdge
<1>2. final \in BOOLEAN
  BY DEF At_final_line
<1>3. next = MemoryNext(start, final)
  OBVIOUS
<1> HIDE DEF next, final
<1>4. next = "offline" => mem_state = "offline"
  BY <1>2, <1>3, MemorySteps DEF MemState
<1>5. ASSUME ~done, ~won PROVE MemoryMoves(start, final)
  BY <1>1, <1>2, <1>3, <1>5, MemorySteps DEF MemoryMoves
<1>6. mem_state' \notin {"offline", "sync_rst"} => ~done /\ ~won
  BY <1>1, <1>4
<1>7. ~done /\ won /\ mem_state # "offline" => mem_state' = "sync_rst"
  BY <1>1, <1>4
<1>8. done => mem_state' = "offline"
  BY <1>1
<1> QED
  BY <1>1, <1>5, <1>6, <1>7, <1>8, Zenon DEF final

LEMMA MemCountsKept ==
  ASSUME NEW won \in BOOLEAN, NEW start \in BOOLEAN, NEW done \in BOOLEAN, NEW idle \in BOOLEAN,
         NEW first, NEW last,
         MemoryTypeOK, MemCounts, idle \/ MemFresh(done),
         MemoryEdge(won, start, done, idle, first, last)
  PROVE  MemCounts'
<1> USE OcrDataAssumption, DelayAssumption DEF winner_count_end
<1>0. /\ mem_state \in MemState /\ K_count \in 1 .. k - 1 /\ mem_class_count \in 0 .. N
      /\ winner_count \in 0 .. 4 /\ winner_count_done \in BOOLEAN /\ K_count_done \in BOOLEAN
      /\ class_count_done \in BOOLEAN
  BY DEF MemoryTypeOK, MemCounts
<1>1. CASE idle
  BY <1>0, <1>1 DEF MemoryEdge, MemCounts, MemFilter, FcMemState
<1>2. CASE ~idle
  <2>0. MemoryEdge(won, start, done, FALSE, first, last)
    BY <1>2, Zenon
  <2>1. KCountEdge(won) /\ ClassCountEdge(won) /\ WinnerCountEdge(won)
    BY <1>0, <2>0, MemoryMove
  <2>3. K_count' \in 1 .. k - 1
    BY <1>0, <2>1 DEF KCountEdge, K_count_set, K_count_add
  <2>4. mem_class_count' \in 0 .. N
    BY <1>0, <2>1 DEF ClassCountEdge, class_count_set, class_count_add
  <2>5. CASE mem_state' \in {"offline", "sync_rst"}
    BY <2>3, <2>4, <2>5 DEF MemCounts, FcMemState
  <2>6. CASE mem_state' \notin {"offline", "sync_rst"}
    <3>0. MemFresh(done)
      BY <1>2
    <3>1. ~done /\ ~won
      BY <1>0, <2>0, <2>6, MemoryMove
    <3>2. KCountEdge(FALSE) /\ ClassCountEdge(FALSE) /\ WinnerCountEdge(FALSE)
      BY <2>1, <3>1, Zenon
    <3>3. MemoryMoves(start, At_final_line(last))
      BY <1>0, <2>0, <3>1, MemoryMove
    <3> USE DEF KCountEdge, K_count_set, K_count_add, ClassCountEdge, class_count_set,
                class_count_add, WinnerCountEdge, winner_count_set, MemCounts, MemFilter,
                FcMemState, MemFresh, MemoryMoves
    <3>4. CASE mem_state = "RFL"
      BY <1>0, <2>3, <2>4, <2>6, <3>0, <3>1, <3>2, <3>3, <3>4
    <3>5. CASE mem_state = "Pre_NL"
      BY <1>0, <2>3, <2>4, <2>6, <3>0, <3>1, <3>2, <3>3, <3>5
    <3>6. CASE mem_state = "CONV_load"
      BY <1>0, <2>3, <2>4, <2>6, <3>0, <3>1, <3>2, <3>3, <3>6
    <3>7. CASE mem_state = "FC_FL"
      BY <1>0, <2>3, <2>4, <2>6, <3>0, <3>1, <3>2, <3>3, <3>7
    <3>8. CASE mem_state = "FC_P1"
      BY <1>0, <2>3, <2>4, <2>6, <3>0, <3>1, <3>2, <3>3, <3>8
    <3>9. CASE mem_state = "FC_P2"
      BY <1>0, <2>3, <2>4, <2>6, <3>0, <3>1, <3>2, <3>3, <3>9
    <3>10. CASE mem_state = "FC_P3"
      BY <1>0, <2>3, <2>4, <2>6, <3>0, <3>1, <3>2, <3>3, <3>10
    <3>11. CASE mem_state = "FC_NC"
      BY <1>0, <2>3, <2>4, <2>6, <3>0, <3>1, <3>2, <3>3, <3>11
    <3>12. CASE mem_state = "Wait_winner"
      BY <1>0, <2>3, <2>4, <2>6, <3>0, <3>1, <3>2, <3>3, <3>12
    <3>13. CASE mem_state = "Wait_winner_LL"
      BY <1>0, <2>3, <2>4, <2>6, <3>0, <3>1, <3>2, <3>3, <3>13
    <3>14. CASE mem_state = "Wait_winner_run"
      <4>1. CASE winner_count_done
        <5>1. winner_count = 0
          BY <3>14, <4>1
        <5>2. winner_count' = 0
          BY <3>2, <3>14, <5>1
        <5> QED
          BY <1>0, <2>3, <2>4, <3>2, <3>3, <3>14, <4>1, <5>2
      <4>2. CASE ~winner_count_done
        <5>1. winner_count \in 1 .. 4
          BY <3>14, <4>2
        <5>2. /\ winner_count_done' = (winner_count = 4)
              /\ winner_count' = IF winner_count = 4 THEN 0 ELSE winner_count + 1
          BY <3>2, <5>1
        <5>3. winner_count_done' <=> winner_count = 4
          BY <5>2, Zenon
        <5>4. IF winner_count_done' THEN winner_count' = 0 ELSE winner_count' \in 1 .. 4
          BY <5>1, <5>2, <5>3
        <5> QED
          BY <1>0, <2>3, <2>4, <3>2, <3>3, <3>14, <4>2, <5>4
      <4> QED
        BY <4>1, <4>2
    <3>15. CASE mem_state = "sync_rst"
      BY <1>0, <2>3, <2>4, <2>6, <3>0, <3>1, <3>2, <3>3, <3>15
    <3>16. CASE mem_state = "offline"
      BY <1>0, <2>3, <2>4, <2>6, <3>0, <3>1, <3>2, <3>3, <3>16
    <3> QED
      BY <1>0, <3>4, <3>5, <3>6, <3>7, <3>8, <3>9, <3>10, <3>11, <3>12, <3>13, <3>14, <3>15, <3>16
         DEF MemState
  <2> QED BY <2>5, <2>6
<1> QED
  BY <1>1, <1>2

LEMMA MemAddressesKept ==
  ASSUME NEW won \in BOOLEAN, NEW start \in BOOLEAN, NEW done \in BOOLEAN, NEW idle \in BOOLEAN,
         NEW first, NEW last,
         MemoryTypeOK, MemCounts, MemAddresses, idle \/ MemFresh(done), MemCounts',
         MemoryEdge(won, start, done, idle, first, last)
  PROVE  MemAddresses'
<1> USE OcrDataAssumption
<1>0. /\ mem_state \in MemState /\ K_count \in 1 .. k - 1 /\ mem_class_count \in 0 .. N
      /\ K_count_done \in BOOLEAN /\ class_count_done \in BOOLEAN
      /\ ADDR_WFC \in Nat /\ ADDR_BFC \in Nat /\ ADDR_Conv \in Nat
  BY DEF MemoryTypeOK, MemCounts
<1>1. CASE idle
  <2>1. mem_state' = "offline" /\ ADDR_WFC' = 0 /\ ADDR_BFC' = 0 /\ ADDR_Conv' = 0
    BY <1>1, Zenon DEF MemoryEdge
  <2>2. Base(N) \in Nat
    BY BaseFacts
  <2> QED
    BY <2>1, <2>2 DEF MemAddresses, FcMemState
<1>2. CASE ~idle
  <2>0. MemoryEdge(won, start, done, FALSE, first, last)
    BY <1>2, Zenon
  <2>1. KCountEdge(won) /\ ClassCountEdge(won) /\ AddressEdge(first)
    BY <1>0, <2>0, MemoryMove
  <2>2. MemClass \in 1 .. N /\ MemFilter \in 1 .. k
    BY <1>0 DEF MemClass, MemFilter
  <2>3. ADDR_Conv' \in 0 .. k - 1
    BY <1>0, <2>1, <2>2 DEF AddressEdge, MemAddresses, MemFilter, MemCounts
  <2>4. ADDR_BFC' \in 0 .. N - 1
    BY <1>0, <2>1 DEF AddressEdge, MemAddresses, MemClass, MemCounts, FcMemState
  <2>5. ADDR_WFC' \in 0 .. 3 * (Base(N) + k)
    <3>1. Base(MemClass) \in Nat /\ Base(N) \in Nat /\ Base(MemClass) <= Base(N)
      BY <2>2, BaseFacts
    <3> QED
      BY <1>0, <2>1, <2>2, <3>1 DEF AddressEdge, MemAddresses, MemCounts
  <2>6. CASE mem_state' \in {"offline", "sync_rst"}
    BY <2>3, <2>4, <2>5, <2>6 DEF MemAddresses, FcMemState
  <2>7. CASE mem_state' \notin {"offline", "sync_rst"}
    <3>0. MemFresh(done)
      BY <1>2
    <3>1. ~done /\ ~won
      BY <1>0, <2>0, <2>7, MemoryMove
    <3>2. KCountEdge(FALSE) /\ ClassCountEdge(FALSE)
      BY <2>1, <3>1, Zenon
    <3>3. MemoryMoves(start, At_final_line(last))
      BY <1>0, <2>0, <3>1, MemoryMove
    <3>4. /\ mem_state' \in {"Wait_winner_run", "Pre_NL"} => ADDR_Conv' = 0
          /\ mem_state' = "CONV_load" => ADDR_Conv' < MemFilter'
      BY <1>0, <2>1, <2>7, <3>0, <3>1, <3>2, <3>3
         DEF AddressEdge, KCountEdge, K_count_add, K_count_set, MemoryMoves, MemFresh, MemCounts,
             MemAddresses, MemFilter, MemState
    <3>5. /\ mem_state' \in {"CONV_load", "FC_FL"} => ADDR_WFC' = 0
          /\ mem_state' \in FcMemState => ADDR_BFC' = MemClass' - 1
      BY <1>0, <2>1, <2>7, <3>0, <3>1, <3>2, <3>3
         DEF AddressEdge, ClassCountEdge, class_count_set, class_count_add, MemoryMoves, MemFresh,
             MemCounts, MemAddresses, MemClass, MemState, FcMemState, ADDR_WFC_clr
    <3>6. /\ mem_state' = "FC_P1" => ADDR_WFC' = 3 * (Base(MemClass') + MemFilter' - 1) - 1
          /\ mem_state' = "FC_P2" => ADDR_WFC' = 3 * (Base(MemClass') + MemFilter' - 1)
          /\ mem_state' = "FC_P3" => ADDR_WFC' = 3 * (Base(MemClass') + MemFilter' - 1) + 1
          /\ mem_state' = "FC_NC" => ADDR_WFC' = 3 * (Base(MemClass') + k) - 1
      <4> USE DEF AddressEdge, KCountEdge, K_count_add, K_count_set, ClassCountEdge,
                  class_count_set, class_count_add, MemoryMoves, MemCounts, MemAddresses, MemClass,
                  MemFilter, MemState, FcMemState, ADDR_WFC_clr
      <4>0. /\ Base(1) = 0 /\ Base(MemClass) \in Nat /\ Base(MemClass + 1) = Base(MemClass) + k
        BY <2>2, BaseFacts
      <4>1. CASE mem_state = "FC_FL"
        <5>1. MemClass' = 1 /\ MemFilter' = 1 /\ mem_state' = "FC_P2" /\ ADDR_WFC' = 0
          BY <1>0, <2>1, <3>2, <3>3, <4>1
        <5> QED
          BY <4>0, <5>1
      <4>2. CASE mem_state = "FC_P1"
        <5>1. /\ MemClass' = MemClass /\ MemFilter' = MemFilter /\ mem_state' = "FC_P2"
              /\ ADDR_WFC' = ADDR_WFC + 1
          BY <1>0, <2>1, <3>2, <3>3, <4>2
        <5> QED
          BY <1>0, <2>2, <4>0, <4>2, <5>1
      <4>3. CASE mem_state = "FC_P2"
        <5>1. /\ MemClass' = MemClass /\ MemFilter' = MemFilter /\ mem_state' = "FC_P3"
              /\ ADDR_WFC' = ADDR_WFC + 1
          BY <1>0, <2>1, <3>2, <3>3, <4>3
        <5> QED
          BY <1>0, <2>2, <4>0, <4>3, <5>1
      <4>4. CASE mem_state = "FC_P3"
        <5>1. /\ MemClass' = MemClass /\ mem_state' # "FC_P2" /\ mem_state' # "FC_P3"
              /\ ADDR_WFC' = ADDR_WFC + 1
          BY <1>0, <2>1, <3>2, <3>3, <4>4
        <5>2. /\ mem_state' = "FC_P1" => MemFilter' = MemFilter + 1
              /\ mem_state' = "FC_NC" => MemFilter = k
          BY <1>0, <2>1, <3>2, <3>3, <4>4
        <5> QED
          BY <1>0, <2>2, <4>0, <4>4, <5>1, <5>2
      <4>5. CASE mem_state = "FC_NC"
        <5>1. /\ MemClass' = MemClass + 1 /\ MemFilter' = 1 /\ mem_state' = "FC_P2"
              /\ ADDR_WFC' = ADDR_WFC + 1
          BY <1>0, <2>1, <3>2, <3>3, <4>5
        <5> QED
          BY <1>0, <2>2, <4>0, <4>5, <5>1
      <4>6. CASE mem_state \notin FcMemState \union {"FC_FL"}
        BY <1>0, <2>7, <3>3, <4>6
      <4> QED
        BY <4>1, <4>2, <4>3, <4>4, <4>5, <4>6
    <3>7. mem_state' \in {"Wait_winner", "Wait_winner_LL"} => ADDR_WFC' = 3 * (Base(N) + k) - 1
      <4>1. SUFFICES ASSUME mem_state' \in {"Wait_winner", "Wait_winner_LL"}
                     PROVE  ADDR_WFC' = 3 * (Base(N) + k) - 1
        OBVIOUS
      <4>2. mem_state = "FC_P3" /\ MemFilter = k /\ MemClass = N /\ Base(N) \in Nat
        BY <1>0, <3>3, <4>1, BaseFacts
           DEF MemoryMoves, MemFilter, MemClass, MemCounts, MemState, FcMemState
      <4>3. ADDR_WFC' = ADDR_WFC + 1
        BY <2>1, <4>2 DEF AddressEdge, ADDR_WFC_clr
      <4> QED
        BY <4>2, <4>3 DEF MemAddresses
    <3> QED
      BY <2>3, <2>4, <2>5, <3>4, <3>5, <3>6, <3>7 DEF MemAddresses
  <2> QED
    BY <2>6, <2>7
<1> QED
  BY <1>1, <1>2

-----------------------------------------------------------------------------
(* System_SM by itself. *)

\* Where System_SM goes, unless it is reset.
SystemMoves(load, final) ==
  /\ corrent_state = "idle" /\ load => corrent_state' = "Load_data"
  /\ corrent_state = "idle" => load
  /\ corrent_state = "Load_data" => corrent_state' = "LL_wait"
  /\ corrent_state = "LL_wait" =>
       corrent_state' = IF Count_load_Wait = 1 THEN "LNL" ELSE "LL_wait"
  /\ corrent_state \in {"Loaded_line", "LNL"} =>
       corrent_state' = IF LL_flag THEN "COV2D_prep_LL"
                        ELSE IF final THEN "COV2D_prep_LL_FLAG" ELSE "COV2D_prep"
  /\ corrent_state \in PrepState => corrent_state' = "RUN_CONV2D"
  /\ corrent_state = "RUN_CONV2D" =>
       corrent_state' = IF count_k = k THEN "First_FC" ELSE "RUN_CONV2D"
  /\ corrent_state \in {"First_FC", "FC_P1", "Next_Class"} => corrent_state' = "FC_P2"
  /\ corrent_state = "FC_P2" => corrent_state' = IF count_k = k THEN "FC_P3_LK" ELSE "FC_P3"
  /\ corrent_state = "FC_P3" => corrent_state' = "FC_P1"
  /\ corrent_state = "FC_P3_LK" =>
       corrent_state' = IF class_count = N THEN "Check_winner_state" ELSE "Next_Class"
  /\ corrent_state = "Check_winner_state" => corrent_state' = "wait_winner"
  /\ corrent_state = "wait_winner" =>
       corrent_state' = IF Count_winner # 2 THEN "wait_winner"
                        ELSE IF winner THEN IF final THEN "Task_complate" ELSE "LL_wait"
                        ELSE IF LL_read THEN "Task_complate" ELSE "Loaded_line"
  /\ corrent_state # "Task_complate"

LEMMA SystemMove ==
  ASSUME NEW load \in BOOLEAN, NEW rst \in BOOLEAN, NEW final \in BOOLEAN, winner \in BOOLEAN,
         SystemEdge(load, winner, final, rst), corrent_state' # "idle"
  PROVE  SystemMoves(load, final) /\ ~rst
<1> DEFINE next == SystemNext(load, winner, final)
<1>1. ~rst /\ corrent_state' = next
  BY DEF SystemEdge
<1>2. next = SystemNext(load, winner, final)
  OBVIOUS
<1> HIDE DEF next
<1> QED
  BY <1>1, <1>2, SystemSteps, DelayAssumption DEF SystemMoves, NextLine, Decided

\* A step that does not end in idle, with what it takes from the system's machine.
LEMMA ClockSystem ==
  ASSUME TypeOK, NEW load \in BOOLEAN, NEW rst \in BOOLEAN, NEW found \in BOOLEAN,
         Clock(load, rst, found), corrent_state' # "idle"
  PROVE  /\ SystemMoves(load, ADDR_PIXEL = window.last)
         /\ SystemEdge(load, winner, ADDR_PIXEL = window.last, FALSE)
         /\ winner \in BOOLEAN /\ SystemTypeOK
<1>1. winner \in BOOLEAN /\ SystemTypeOK
  BY DEF TypeOK
<1>2. SystemEdge(load, winner, ADDR_PIXEL = window.last, rst)
  BY Zenon DEF Clock, At_final_line
<1>3. SystemMoves(load, ADDR_PIXEL = window.last) /\ ~rst
  BY <1>1, <1>2, SystemMove
<1>4. rst = FALSE
  BY <1>3
<1> QED
  BY <1>1, <1>2, <1>3, <1>4, Zenon

LEMMA TypeFacts ==
  ASSUME TypeOK
  PROVE  /\ corrent_state \in SystemState /\ mem_state \in MemState
         /\ count_k \in Nat /\ class_count \in Nat /\ Count_winner \in Nat
         /\ Count_load_Wait \in Nat /\ LL_flag \in BOOLEAN /\ LL_read \in BOOLEAN
         /\ model_ring \in 0 .. N - 1 /\ passes \in 0 .. PassesToGain
         /\ winner \in BOOLEAN /\ window \in Windows /\ ADDR_PIXEL \in 0 .. LastColumn
         /\ read_addr \in 0 .. 2 * k - 1 /\ write_addr \in k .. 2 * k - 1
<1>1. /\ SystemTypeOK /\ MemoryTypeOK /\ window \in Windows /\ ADDR_PIXEL \in 0 .. LastColumn
      /\ model_ring \in 0 .. N - 1 /\ passes \in 0 .. PassesToGain
      /\ read_addr \in 0 .. 2 * k - 1 /\ write_addr \in k .. 2 * k - 1
  BY Zenon DEF TypeOK
<1>2. winner \in BOOLEAN
  BY Zenon DEF TypeOK
<1>3. /\ corrent_state \in SystemState
      /\ count_k \in Nat /\ class_count \in Nat /\ Count_winner \in Nat
      /\ Count_load_Wait \in Nat /\ LL_flag \in BOOLEAN /\ LL_read \in BOOLEAN
  BY <1>1, OcrDataAssumption, DelayAssumption DEF SystemTypeOK
<1>4. mem_state \in MemState
  BY <1>1, Zenon DEF MemoryTypeOK
<1> QED
  BY <1>1, <1>2, <1>3, <1>4, Zenon

LEMMA SystemCountsKept ==
  ASSUME TypeOK, NEW load \in BOOLEAN, NEW rst \in BOOLEAN, NEW found \in BOOLEAN,
         Clock(load, rst, found), corrent_state' # "idle",
         is_idle \/ (SystemCounts /\ LastLine /\ (LL_flag => ADDR_PIXEL = window.last))
  PROVE  SystemCounts' /\ LastLine'
<1> USE OcrDataAssumption, DelayAssumption
<1> DEFINE final == ADDR_PIXEL = window.last
<1>1. /\ SystemMoves(load, final) /\ SystemEdge(load, winner, final, FALSE)
      /\ winner \in BOOLEAN /\ SystemTypeOK
  BY ClockSystem
<1>2. final \in BOOLEAN
  OBVIOUS
<1>3. /\ count_k \in Nat /\ class_count \in Nat /\ Count_winner \in Nat /\ Count_load_Wait \in Nat
      /\ corrent_state \in SystemState
  BY <1>1 DEF SystemTypeOK
<1>6. is_idle \/ (SystemCounts /\ LastLine /\ (LL_flag => final))
  OBVIOUS
<1> HIDE DEF final
<1>4. SystemCounts'
  <2> USE DEF SystemMoves, SystemEdge, SystemCounts, FcState, PrepState, is_idle
  <2>1. CASE corrent_state = "idle"
    BY <1>1, <1>2, <1>3, <1>6, <2>1
  <2>2. CASE corrent_state \in {"Load_data", "LL_wait"}
    BY <1>1, <1>2, <1>3, <1>6, <2>2
  <2>3. CASE corrent_state \in {"Loaded_line", "LNL"}
    BY <1>1, <1>2, <1>3, <1>6, <2>3
  <2>4. CASE corrent_state \in PrepState
    BY <1>1, <1>2, <1>3, <1>6, <2>4
  <2>5. CASE corrent_state = "RUN_CONV2D"
    BY <1>1, <1>2, <1>3, <1>6, <2>5
  <2>6. CASE corrent_state \in {"First_FC", "FC_P1", "Next_Class"}
    BY <1>1, <1>2, <1>3, <1>6, <2>6
  <2>7. CASE corrent_state = "FC_P2"
    BY <1>1, <1>2, <1>3, <1>6, <2>7
  <2>8. CASE corrent_state \in {"FC_P3", "FC_P3_LK"}
    BY <1>1, <1>2, <1>3, <1>6, <2>8
  <2>9. CASE corrent_state = "Check_winner_state"
    BY <1>1, <1>2, <1>3, <1>6, <2>9
  <2>10. CASE corrent_state = "wait_winner"
    BY <1>1, <1>2, <1>3, <1>6, <2>10
  <2> QED
    BY <1>1, <1>3, <2>1, <2>2, <2>3, <2>4, <2>5, <2>6, <2>7, <2>8, <2>9, <2>10
       DEF SystemState, SystemMoves
<1>5. LastLine'
  <2> USE DEF SystemMoves, SystemEdge, LastLine, FcState, PrepState, is_idle, SystemTypeOK
  <2>1. CASE corrent_state = "idle"
    BY <1>1, <1>2, <1>3, <1>6, <2>1
  <2>2. CASE corrent_state \in {"Load_data", "LL_wait"}
    BY <1>1, <1>2, <1>3, <1>6, <2>2
  <2>3. CASE corrent_state \in {"Loaded_line", "LNL"}
    BY <1>1, <1>2, <1>3, <1>6, <2>3
  <2>4. CASE corrent_state \in PrepState
    BY <1>1, <1>2, <1>3, <1>6, <2>4
  <2>5. CASE corrent_state = "RUN_CONV2D"
    BY <1>1, <1>2, <1>3, <1>6, <2>5
  <2>6. CASE corrent_state \in {"First_FC", "FC_P1", "Next_Class"}
    BY <1>1, <1>2, <1>3, <1>6, <2>6
  <2>7. CASE corrent_state = "FC_P2"
    BY <1>1, <1>2, <1>3, <1>6, <2>7
  <2>8. CASE corrent_state \in {"FC_P3", "FC_P3_LK"}
    BY <1>1, <1>2, <1>3, <1>6, <2>8
  <2>9. CASE corrent_state = "Check_winner_state"
    BY <1>1, <1>2, <1>3, <1>6, <2>9
  <2>10. CASE corrent_state = "wait_winner"
    BY <1>1, <1>2, <1>3, <1>6, <2>10
  <2> QED
    BY <1>1, <1>3, <2>1, <2>2, <2>3, <2>4, <2>5, <2>6, <2>7, <2>8, <2>9, <2>10
       DEF SystemState, SystemMoves
<1> QED
  BY <1>4, <1>5

-----------------------------------------------------------------------------
(* The result comparator. *)

LEMMA RingStep ==
  ASSUME NEW place \in 0 .. N - 1
  PROVE  (place + 1) % N = IF place + 1 = N THEN 0 ELSE place + 1
BY OcrDataAssumption

\* What a clock cycle does to the comparator's registers.
LEMMA ClockResult ==
  ASSUME TypeOK, NEW load \in BOOLEAN, NEW rst \in BOOLEAN, NEW found \in BOOLEAN,
         Clock(load, rst, found), ~is_idle
  PROVE  /\ Shift_EN_1' <=> En_shift_result
         /\ Shift_EN_2' <=> Shift_EN_1
         /\ check_winner_1' <=> Check_winner
         /\ check_winner_2' <=> check_winner_1
         /\ winner' <=> check_winner_2 /\ found
         /\ score_class' = IF En_shift_result THEN class_count ELSE score_class
         /\ model_ring' = IF Shift_EN_2 THEN IF model_ring + 1 = N THEN 0 ELSE model_ring + 1
                          ELSE model_ring
         /\ passes' = IF winner THEN 0 ELSE IF Check_winner /\ passes < PassesToGain THEN passes + 1
                                                                              ELSE passes
<1>1. ResultEdge(found)
  BY Zenon DEF Clock
<1>2. /\ Shift_EN_1' = En_shift_result /\ Shift_EN_2' = Shift_EN_1
      /\ check_winner_1' = Check_winner /\ check_winner_2' = check_winner_1
      /\ score_class' = IF En_shift_result THEN class_count ELSE score_class
      /\ model_ring' = IF Shift_EN_2 THEN (model_ring + 1) % N ELSE model_ring
      /\ winner' = (check_winner_2 /\ found)
  BY <1>1, Zenon DEF ResultEdge
<1>3. model_ring \in 0 .. N - 1
  BY DEF TypeOK
<1>4. model_ring' = IF Shift_EN_2 THEN IF model_ring + 1 = N THEN 0 ELSE model_ring + 1
                    ELSE model_ring
  BY <1>2, <1>3, RingStep
<1>6. passes' = IF winner THEN 0 ELSE IF Check_winner /\ passes < PassesToGain THEN passes + 1
                                                                           ELSE passes
  BY DEF Clock, S_rst
<1> QED
  BY <1>2, <1>4, <1>6, Zenon

LEMMA ResultKept ==
  ASSUME TypeOK, NEW load \in BOOLEAN, NEW rst \in BOOLEAN, NEW found \in BOOLEAN,
         Clock(load, rst, found), corrent_state' # "idle", ~is_idle,
         SystemCounts, Shifts, WinnerInTime, Passes
  PROVE  Shifts' /\ WinnerInTime' /\ Passes'
<1> USE OcrDataAssumption, DelayAssumption
<1>0. PassesToGain = 3
  BY DEF PassesToGain
<1> DEFINE final == ADDR_PIXEL = window.last
<1>1. /\ SystemMoves(load, final) /\ SystemEdge(load, winner, final, FALSE)
      /\ winner \in BOOLEAN /\ SystemTypeOK
  BY ClockSystem
<1>2. /\ Shift_EN_1' <=> En_shift_result
      /\ Shift_EN_2' <=> Shift_EN_1
      /\ check_winner_1' <=> Check_winner
      /\ check_winner_2' <=> check_winner_1
      /\ winner' <=> check_winner_2 /\ found
      /\ model_ring' = IF Shift_EN_2 THEN IF model_ring + 1 = N THEN 0 ELSE model_ring + 1
                       ELSE model_ring
      /\ passes' = IF winner THEN 0 ELSE IF Check_winner /\ passes < PassesToGain THEN passes + 1
                                                                           ELSE passes
  BY ClockResult
<1>3. /\ count_k \in Nat /\ class_count \in Nat /\ Count_winner \in Nat
      /\ corrent_state \in SystemState /\ model_ring \in 0 .. N - 1 /\ passes \in 0 .. PassesToGain
  BY TypeFacts, Zenon
<1>4. final \in BOOLEAN
  OBVIOUS
<1>5. corrent_state # "idle"
  BY DEF is_idle
<1> HIDE DEF final
<1>6. Shifts'
  <2> USE DEF SystemMoves, SystemEdge, SystemCounts, Shifts, FcState, PrepState, En_shift_result
  <2>1. CASE corrent_state = "idle"
    BY <1>0, <1>1, <1>2, <1>3, <1>4, <1>5, <2>1
  <2>2. CASE corrent_state \in {"Load_data", "LL_wait"}
    BY <1>0, <1>1, <1>2, <1>3, <1>4, <1>5, <2>2
  <2>3. CASE corrent_state \in {"Loaded_line", "LNL"}
    BY <1>0, <1>1, <1>2, <1>3, <1>4, <1>5, <2>3
  <2>4. CASE corrent_state \in PrepState
    BY <1>0, <1>1, <1>2, <1>3, <1>4, <1>5, <2>4
  <2>5. CASE corrent_state = "RUN_CONV2D"
    BY <1>0, <1>1, <1>2, <1>3, <1>4, <1>5, <2>5
  <2>6. CASE corrent_state \in {"First_FC", "FC_P1", "Next_Class"}
    BY <1>0, <1>1, <1>2, <1>3, <1>4, <1>5, <2>6
  <2>7. CASE corrent_state = "FC_P2"
    BY <1>0, <1>1, <1>2, <1>3, <1>4, <1>5, <2>7
  <2>8. CASE corrent_state \in {"FC_P3", "FC_P3_LK"}
    BY <1>0, <1>1, <1>2, <1>3, <1>4, <1>5, <2>8
  <2>9. CASE corrent_state = "Check_winner_state"
    BY <1>0, <1>1, <1>2, <1>3, <1>4, <1>5, <2>9
  <2>10. CASE corrent_state = "wait_winner"
    BY <1>0, <1>1, <1>2, <1>3, <1>4, <1>5, <2>10
  <2> QED
    BY <1>1, <1>3, <2>1, <2>2, <2>3, <2>4, <2>5, <2>6, <2>7, <2>8, <2>9, <2>10
       DEF SystemState, SystemMoves
<1>7. WinnerInTime'
  <2> USE DEF SystemMoves, SystemEdge, SystemCounts, WinnerInTime, PrepState, Check_winner
  <2>1. CASE corrent_state = "idle"
    BY <1>0, <1>1, <1>2, <1>3, <1>4, <1>5, <2>1
  <2>2. CASE corrent_state \in {"Load_data", "LL_wait"}
    BY <1>0, <1>1, <1>2, <1>3, <1>4, <1>5, <2>2
  <2>3. CASE corrent_state \in {"Loaded_line", "LNL"}
    BY <1>0, <1>1, <1>2, <1>3, <1>4, <1>5, <2>3
  <2>4. CASE corrent_state \in PrepState
    BY <1>0, <1>1, <1>2, <1>3, <1>4, <1>5, <2>4
  <2>5. CASE corrent_state = "RUN_CONV2D"
    BY <1>0, <1>1, <1>2, <1>3, <1>4, <1>5, <2>5
  <2>6. CASE corrent_state \in {"First_FC", "FC_P1", "Next_Class"}
    BY <1>0, <1>1, <1>2, <1>3, <1>4, <1>5, <2>6
  <2>7. CASE corrent_state = "FC_P2"
    BY <1>0, <1>1, <1>2, <1>3, <1>4, <1>5, <2>7
  <2>8. CASE corrent_state \in {"FC_P3", "FC_P3_LK"}
    BY <1>0, <1>1, <1>2, <1>3, <1>4, <1>5, <2>8
  <2>9. CASE corrent_state = "Check_winner_state"
    BY <1>0, <1>1, <1>2, <1>3, <1>4, <1>5, <2>9
  <2>10. CASE corrent_state = "wait_winner"
    BY <1>0, <1>1, <1>2, <1>3, <1>4, <1>5, <2>10
  <2> QED
    BY <1>1, <1>3, <2>1, <2>2, <2>3, <2>4, <2>5, <2>6, <2>7, <2>8, <2>9, <2>10
       DEF SystemState, SystemMoves
<1>8. Passes'
  <2> USE DEF SystemMoves, SystemEdge, SystemCounts, WinnerInTime, Passes, PrepState, Check_winner
  <2>1. CASE corrent_state = "idle"
    BY <1>0, <1>1, <1>2, <1>3, <1>4, <1>5, <2>1
  <2>2. CASE corrent_state \in {"Load_data", "LL_wait"}
    BY <1>0, <1>1, <1>2, <1>3, <1>4, <1>5, <2>2
  <2>3. CASE corrent_state \in {"Loaded_line", "LNL"}
    BY <1>0, <1>1, <1>2, <1>3, <1>4, <1>5, <2>3
  <2>4. CASE corrent_state \in PrepState
    BY <1>0, <1>1, <1>2, <1>3, <1>4, <1>5, <2>4
  <2>5. CASE corrent_state = "RUN_CONV2D"
    BY <1>0, <1>1, <1>2, <1>3, <1>4, <1>5, <2>5
  <2>6. CASE corrent_state \in {"First_FC", "FC_P1", "Next_Class"}
    BY <1>0, <1>1, <1>2, <1>3, <1>4, <1>5, <2>6
  <2>7. CASE corrent_state = "FC_P2"
    BY <1>0, <1>1, <1>2, <1>3, <1>4, <1>5, <2>7
  <2>8. CASE corrent_state \in {"FC_P3", "FC_P3_LK"}
    BY <1>0, <1>1, <1>2, <1>3, <1>4, <1>5, <2>8
  <2>9. CASE corrent_state = "Check_winner_state"
    BY <1>0, <1>1, <1>2, <1>3, <1>4, <1>5, <2>9
  <2>10. CASE corrent_state = "wait_winner"
    BY <1>0, <1>1, <1>2, <1>3, <1>4, <1>5, <2>10
  <2> QED
    BY <1>1, <1>3, <2>1, <2>2, <2>3, <2>4, <2>5, <2>6, <2>7, <2>8, <2>9, <2>10
       DEF SystemState, SystemMoves
<1> QED
  BY <1>6, <1>7, <1>8

-----------------------------------------------------------------------------
(* Memory_CU in terms of classes and filters, when it is neither reset nor told of *)
(* a winner.                                                                       *)

MemoryPlaces(final) ==
  /\ mem_state = "offline" => mem_state' \in {"offline", "RFL"}
  /\ mem_state \in {"RFL", "sync_rst"} => mem_state' = "Pre_NL" /\ K_count' = 1
  /\ mem_state = "Pre_NL" =>
       mem_state' = "CONV_load" /\ ADDR_Conv' = ADDR_Conv + 1 /\ (K_count = 1 => MemFilter' = 2)
  /\ mem_state = "CONV_load" =>
       IF MemFilter = k
       THEN mem_state' = "FC_FL" /\ ADDR_Conv' = ADDR_Conv
       ELSE /\ mem_state' = "CONV_load" /\ MemFilter' = MemFilter + 1
            /\ ADDR_Conv' = ADDR_Conv + 1
  /\ mem_state = "FC_FL" => mem_state' = "FC_P2" /\ MemClass' = 1 /\ MemFilter' = 1
  /\ mem_state \in {"FC_P1", "FC_P2"} =>
       /\ mem_state' = IF mem_state = "FC_P1" THEN "FC_P2" ELSE "FC_P3"
       /\ MemClass' = MemClass /\ MemFilter' = MemFilter
  /\ mem_state = "FC_P3" =>
       /\ MemClass' = MemClass
       /\ IF MemFilter < k THEN mem_state' = "FC_P1" /\ MemFilter' = MemFilter + 1
          ELSE IF MemClass < N THEN mem_state' = "FC_NC"
          ELSE mem_state' = IF final THEN "Wait_winner_LL" ELSE "Wait_winner"
  /\ mem_state = "FC_NC" => mem_state' = "FC_P2" /\ MemClass' = MemClass + 1 /\ MemFilter' = 1
  /\ mem_state \in FcMemState \union {"FC_FL"} => ADDR_Conv' = ADDR_Conv
  /\ mem_state \in {"Wait_winner", "Wait_winner_LL"} =>
       /\ mem_state' = "Wait_winner_run" /\ winner_count' = 1 /\ ~winner_count_done'
       /\ mem_state = "Wait_winner" => K_count' = 1
  /\ mem_state = "Wait_winner_run" =>
       /\ K_count' = K_count
       /\ IF winner_count_done THEN mem_state' = "Pre_NL"
          ELSE /\ mem_state' = "Wait_winner_run"
               /\ winner_count' = (winner_count + 1) % 5
               /\ winner_count_done' <=> winner_count = 4

LEMMA MemoryPlace ==
  ASSUME MemoryTypeOK, MemCounts, NEW start \in BOOLEAN, NEW first, NEW last,
         MemoryEdge(FALSE, start, FALSE, FALSE, first, last),
         mem_state = "RFL" => K_count = 1
  PROVE  MemoryPlaces(ADDR_PIXEL = last) /\ MemClass \in 1 .. N /\ MemFilter \in 1 .. k
<1> USE OcrDataAssumption, DelayAssumption DEF winner_count_end
<1> DEFINE final == At_final_line(last)
<1>1. /\ mem_state \in MemState /\ K_count \in 1 .. k - 1 /\ mem_class_count \in 0 .. N
      /\ winner_count \in 0 .. 4 /\ K_count_done \in BOOLEAN /\ ADDR_Conv \in Nat
  BY DEF MemoryTypeOK, MemCounts
<1>2. /\ KCountEdge(FALSE) /\ ClassCountEdge(FALSE) /\ WinnerCountEdge(FALSE)
      /\ AddressEdge(first) /\ MemoryMoves(start, final)
  BY <1>1, MemoryMove
<1>3. MemClass \in 1 .. N /\ MemFilter \in 1 .. k
  BY <1>1 DEF MemClass, MemFilter
<1> HIDE DEF final
<1> USE DEF KCountEdge, K_count_set, K_count_add, ClassCountEdge, class_count_set,
            class_count_add, AddressEdge, MemoryMoves, MemCounts, MemFilter, MemClass, FcMemState
<1>4. /\ mem_state = "offline" => mem_state' \in {"offline", "RFL"}
      /\ mem_state \in {"RFL", "sync_rst"} => mem_state' = "Pre_NL" /\ K_count' = 1
      /\ mem_state = "Pre_NL" =>
           mem_state' = "CONV_load" /\ ADDR_Conv' = ADDR_Conv + 1 /\ (K_count = 1 => MemFilter' = 2)
      /\ mem_state = "CONV_load" =>
           IF MemFilter = k
           THEN mem_state' = "FC_FL" /\ ADDR_Conv' = ADDR_Conv
           ELSE /\ mem_state' = "CONV_load" /\ MemFilter' = MemFilter + 1
                /\ ADDR_Conv' = ADDR_Conv + 1
  BY <1>1, <1>2
<1>5. /\ mem_state = "FC_FL" => mem_state' = "FC_P2" /\ MemClass' = 1 /\ MemFilter' = 1
      /\ mem_state \in {"FC_P1", "FC_P2"} =>
           /\ mem_state' = IF mem_state = "FC_P1" THEN "FC_P2" ELSE "FC_P3"
           /\ MemClass' = MemClass /\ MemFilter' = MemFilter
      /\ mem_state = "FC_NC" =>
           mem_state' = "FC_P2" /\ MemClass' = MemClass + 1 /\ MemFilter' = 1
      /\ mem_state \in FcMemState \union {"FC_FL"} => ADDR_Conv' = ADDR_Conv
  BY <1>1, <1>2
<1>6. mem_state = "FC_P3" =>
       /\ MemClass' = MemClass
       /\ IF MemFilter < k THEN mem_state' = "FC_P1" /\ MemFilter' = MemFilter + 1
          ELSE IF MemClass < N THEN mem_state' = "FC_NC"
          ELSE mem_state' = IF final THEN "Wait_winner_LL" ELSE "Wait_winner"
  BY <1>1, <1>2
<1>7. ASSUME mem_state \in {"Wait_winner", "Wait_winner_LL"}
      PROVE  /\ mem_state' = "Wait_winner_run" /\ winner_count' = 1 /\ ~winner_count_done'
             /\ mem_state = "Wait_winner" => K_count' = 1
  <2>1. /\ winner_count = 0
        /\ mem_state' = "Wait_winner_run" /\ (mem_state = "Wait_winner" => K_count' = 1)
    BY <1>1, <1>2, <1>7
  <2>2. winner_count' = 1 /\ winner_count_done' = (winner_count = 4)
    BY <1>2, <1>7, <2>1 DEF WinnerCountEdge, winner_count_set
  <2>3. winner_count_done' <=> winner_count = 4
    BY <2>2, Zenon
  <2> QED
    BY <2>1, <2>2, <2>3
<1>8. ASSUME mem_state = "Wait_winner_run"
      PROVE  /\ K_count' = K_count
             /\ IF winner_count_done THEN mem_state' = "Pre_NL"
                ELSE /\ mem_state' = "Wait_winner_run"
                     /\ winner_count' = (winner_count + 1) % 5
                     /\ winner_count_done' <=> winner_count = 4
  <2>1. CASE winner_count_done
    BY <1>1, <1>2, <1>8, <2>1
  <2>2. CASE ~winner_count_done
    <3>1. winner_count \in 1 .. 4
      BY <1>1, <1>8, <2>2
    <3>2. /\ winner_count_done' = (winner_count = 4)
          /\ winner_count' = IF winner_count = 4 THEN 0 ELSE winner_count + 1
      BY <1>2, <1>8, <3>1 DEF WinnerCountEdge, winner_count_set
    <3>3. winner_count_done' <=> winner_count = 4
      BY <3>2, Zenon
    <3> QED
      BY <1>1, <1>2, <1>8, <2>2, <3>1, <3>2, <3>3
  <2> QED
    BY <2>1, <2>2
<1>9. final <=> ADDR_PIXEL = last
  BY DEF final, At_final_line
<1> QED
  BY <1>3, <1>4, <1>5, <1>6, <1>7, <1>8, <1>9 DEF MemoryPlaces

-----------------------------------------------------------------------------
(* Both machines together. *)

\* What a clock cycle between working states does to Memory_CU.
LEMMA ClockMemory ==
  ASSUME TypeOK, MemCounts, NEW load \in BOOLEAN, NEW rst \in BOOLEAN, NEW found \in BOOLEAN,
         Clock(load, rst, found), ~is_idle, corrent_state' # "idle",
         mem_state = "RFL" => K_count = 1
  PROVE  /\ MemoryEdge(winner, Start_load_data, FALSE, FALSE, window.first, window.last)
         /\ window' = window
         /\ winner /\ mem_state # "offline" => mem_state' = "sync_rst"
         /\ ~winner =>
              /\ MemoryPlaces(ADDR_PIXEL = window.last)
              /\ MemClass \in 1 .. N /\ MemFilter \in 1 .. k
              /\ mem_state = "offline" /\ Start_load_data => mem_state' = "RFL"
<1>1. MemoryEdge(winner, Start_load_data, Done, is_idle, window.first, window.last)
  BY Zenon DEF Clock, At_final_line
<1>2. window' = window
  BY DEF Clock
<1>3. Done = FALSE /\ is_idle = FALSE /\ Start_load_data \in BOOLEAN /\ winner \in BOOLEAN
  <2>1. ~Done
    BY ClockSystem DEF SystemMoves, Done
  <2> QED
    BY <2>1, TypeFacts DEF Done, is_idle, Start_load_data
<1>4. MemoryEdge(winner, Start_load_data, FALSE, FALSE, window.first, window.last)
  BY <1>1, <1>3, Zenon
<1>5. mem_state \in MemState /\ MemoryTypeOK
  BY TypeFacts, Zenon DEF TypeOK
<1>6. winner /\ mem_state # "offline" => mem_state' = "sync_rst"
  BY <1>3, <1>4, <1>5, MemoryMove
<1>7. ASSUME ~winner
      PROVE  /\ MemoryPlaces(ADDR_PIXEL = window.last)
             /\ MemClass \in 1 .. N /\ MemFilter \in 1 .. k
             /\ mem_state = "offline" /\ Start_load_data => mem_state' = "RFL"
  <2>1. winner = FALSE
    BY <1>3, <1>7
  <2>2. MemoryEdge(FALSE, Start_load_data, FALSE, FALSE, window.first, window.last)
    BY <1>4, <2>1, Zenon
  <2>3. MemoryMoves(Start_load_data, At_final_line(window.last))
    BY <1>3, <1>5, <2>2, MemoryMove
  <2>4. mem_state = "offline" /\ Start_load_data => mem_state' = "RFL"
    BY <2>3 DEF MemoryMoves
  <2>5. /\ MemoryPlaces(ADDR_PIXEL = window.last)
        /\ MemClass \in 1 .. N /\ MemFilter \in 1 .. k
    BY <1>3, <1>5, <2>2, MemoryPlace
  <2> QED
    BY <2>4, <2>5, Zenon
<1> QED
  BY <1>2, <1>4, <1>6, <1>7, Zenon

LEMMA MachinesKept ==
  ASSUME TypeOK, MemCounts, MemAddresses,
         NEW load \in BOOLEAN, NEW rst \in BOOLEAN, NEW found \in BOOLEAN,
         Clock(load, rst, found), ~is_idle, corrent_state' # "idle",
         SystemCounts, LastLine, WinnerInTime, MachinesInStep, ColumnMoves,
         LL_flag => ADDR_PIXEL = window.last,
         corrent_state = "FC_P3" /\ ~LL_flag => ADDR_PIXEL # window.last
  PROVE  MachinesInStep' /\ ColumnMoves'
<1> USE OcrDataAssumption, DelayAssumption
<1> DEFINE final == ADDR_PIXEL = window.last
<1>1. SystemMoves(load, final) /\ SystemEdge(load, winner, final, FALSE)
  BY ClockSystem
<1>2. mem_state = "RFL" => K_count = 1 /\ corrent_state = "LL_wait" /\ Count_load_Wait = 0
  BY DEF ColumnMoves, MachinesInStep
<1>3. /\ MemoryEdge(winner, Start_load_data, FALSE, FALSE, window.first, window.last)
      /\ winner /\ mem_state # "offline" => mem_state' = "sync_rst"
      /\ ~winner => /\ MemoryPlaces(final)
                    /\ MemClass \in 1 .. N /\ MemFilter \in 1 .. k
                    /\ mem_state = "offline" /\ Start_load_data => mem_state' = "RFL"
  BY <1>2, ClockMemory
<1>4. /\ count_k \in Nat /\ class_count \in Nat /\ Count_winner \in Nat
      /\ Count_load_Wait \in Nat
      /\ corrent_state \in SystemState /\ mem_state \in MemState
      /\ LL_flag \in BOOLEAN /\ LL_read \in BOOLEAN /\ winner \in BOOLEAN
  BY TypeFacts, Zenon
<1>5. /\ corrent_state # "idle" /\ final \in BOOLEAN /\ (LL_flag => final)
      /\ corrent_state = "FC_P3" /\ ~LL_flag => ~final
  BY DEF is_idle
<1>6. /\ KCountEdge(winner) /\ ClassCountEdge(winner) /\ WinnerCountEdge(winner)
      /\ AddressEdge(window.first)
  BY <1>3, <1>4, MemoryMove DEF Start_load_data
<1> HIDE DEF final
<1>7. CASE winner
  <2>1. corrent_state = "wait_winner" /\ Count_winner = 2
    BY <1>7 DEF WinnerInTime
  <2>2. mem_state # "offline" /\ mem_state' = "sync_rst"
    BY <1>3, <1>7, <2>1 DEF ColumnMoves
  <2>3. IF final THEN corrent_state' = "Task_complate" ELSE corrent_state' = "LL_wait"
    BY <1>1, <1>7, <2>1 DEF SystemMoves
  <2>4. CASE final
    BY <2>2, <2>3, <2>4 DEF MachinesInStep, ColumnMoves, PrepState
  <2>5. CASE ~final
    <3>1. ~LL_flag /\ ~LL_read
      BY <1>5, <2>5 DEF LastLine
    <3>2. mem_state = "Pre_NL" /\ mem_class_count = 0 /\ winner_count = 0
      BY <2>1, <3>1 DEF MachinesInStep, MemCounts
    <3>3. mem_class_count' = 0 /\ winner_count' = 0
      BY <1>6, <1>7, <3>2 DEF ClassCountEdge, class_count_set, class_count_add, WinnerCountEdge,
                              winner_count_set
    <3>4. Count_load_Wait' = 0
      BY <1>1, <1>4, <2>1 DEF SystemEdge, SystemCounts
    <3> QED
      BY <2>2, <2>3, <2>5, <3>3, <3>4 DEF MachinesInStep, ColumnMoves, PrepState
  <2> QED
    BY <2>4, <2>5
<1>8. CASE ~winner
  <2>0. /\ MemoryPlaces(final) /\ MemClass \in 1 .. N /\ MemFilter \in 1 .. k
        /\ mem_state = "offline" /\ Start_load_data => mem_state' = "RFL"
    BY <1>3, <1>8
  <2>1. corrent_state = "Load_data" =>
          /\ mem_state' = "RFL" /\ mem_class_count' = 0 /\ winner_count' = 0 /\ K_count' = 1
          /\ ADDR_Conv' = 0
    BY <1>6, <2>0 DEF ColumnMoves, KCountEdge, K_count_set, K_count_add, ClassCountEdge,
                      class_count_set, class_count_add, WinnerCountEdge, winner_count_set,
                      AddressEdge, Start_load_data
  <2>2. mem_state = "Pre_NL" => ADDR_Conv = 0
    BY DEF MemAddresses
  <2> USE DEF SystemMoves, SystemEdge, SystemCounts, LastLine, PrepState, FcState, FcMemState
  <2>a. MachinesInStep'
    <3> USE DEF MachinesInStep, MemoryPlaces, LoadAhead, FcAhead, SysClass, SysFilter, WaitRun
    <3>1. CASE corrent_state = "idle"
      BY <1>1, <1>4, <1>5, <1>8, <2>0, <3>1
    <3>2. CASE corrent_state \in {"Load_data", "LL_wait"}
      BY <1>1, <1>4, <1>5, <1>8, <2>0, <2>1, <2>2, <3>2
    <3>3. CASE corrent_state \in {"Loaded_line", "LNL"}
      BY <1>1, <1>4, <1>5, <1>8, <2>0, <3>3
    <3>4. CASE corrent_state \in PrepState
      BY <1>1, <1>4, <1>5, <1>8, <2>0, <3>4
    <3>5. CASE corrent_state = "RUN_CONV2D"
      BY <1>1, <1>4, <1>5, <1>8, <2>0, <3>5
    <3>6. CASE corrent_state \in {"First_FC", "FC_P1", "Next_Class"}
      BY <1>1, <1>4, <1>5, <1>8, <2>0, <3>6
    <3>7. CASE corrent_state = "FC_P2"
      BY <1>1, <1>4, <1>5, <1>8, <2>0, <3>7
    <3>8. CASE corrent_state \in {"FC_P3", "FC_P3_LK"}
      <4>1. CASE LL_read
        BY <1>1, <1>4, <1>5, <1>8, <2>0, <3>8, <4>1
      <4>2. CASE ~LL_read /\ corrent_state = "FC_P3"
        BY <1>1, <1>4, <1>5, <1>8, <2>0, <4>2
      <4>3. CASE ~LL_read /\ corrent_state = "FC_P3_LK" /\ class_count = N
        BY <1>1, <1>4, <1>5, <1>8, <2>0, <4>3
      <4>4. CASE ~LL_read /\ corrent_state = "FC_P3_LK" /\ class_count # N
        BY <1>1, <1>4, <1>5, <1>8, <2>0, <4>4
      <4> QED
        BY <1>4, <3>8, <4>1, <4>2, <4>3, <4>4
    <3>9. CASE corrent_state = "Check_winner_state"
      BY <1>1, <1>4, <1>5, <1>8, <2>0, <3>9
    <3>10. CASE corrent_state = "wait_winner"
      BY <1>1, <1>4, <1>5, <1>8, <2>0, <2>2, <3>10
    <3> QED
      BY <1>1, <1>4, <1>5, <3>1, <3>2, <3>3, <3>4, <3>5, <3>6, <3>7, <3>8, <3>9, <3>10
         DEF SystemState, SystemMoves
  <2>b. ColumnMoves'
    <3> USE DEF ColumnMoves, MachinesInStep, MemoryPlaces, LoadAhead, FcAhead, SysClass, SysFilter,
                WaitRun, Finished, MemState
    <3>1. CASE corrent_state = "idle"
      BY <1>1, <1>4, <1>5, <1>8, <2>0, <3>1
    <3>2. CASE corrent_state \in {"Load_data", "LL_wait"}
      BY <1>1, <1>4, <1>5, <1>8, <2>0, <2>1, <2>2, <3>2
    <3>3. CASE corrent_state \in {"Loaded_line", "LNL"}
      BY <1>1, <1>4, <1>5, <1>8, <2>0, <3>3
    <3>4. CASE corrent_state \in PrepState
      BY <1>1, <1>4, <1>5, <1>8, <2>0, <3>4
    <3>5. CASE corrent_state = "RUN_CONV2D"
      BY <1>1, <1>4, <1>5, <1>8, <2>0, <3>5
    <3>6. CASE corrent_state \in {"First_FC", "FC_P1", "Next_Class"}
      BY <1>1, <1>4, <1>5, <1>8, <2>0, <3>6
    <3>7. CASE corrent_state = "FC_P2"
      BY <1>1, <1>4, <1>5, <1>8, <2>0, <3>7
    <3>8. CASE corrent_state \in {"FC_P3", "FC_P3_LK"}
      BY <1>1, <1>4, <1>5, <1>8, <2>0, <3>8
    <3>9. CASE corrent_state = "Check_winner_state"
      BY <1>1, <1>4, <1>5, <1>8, <2>0, <3>9
    <3>10. CASE corrent_state = "wait_winner"
      BY <1>1, <1>4, <1>5, <1>8, <2>0, <2>2, <3>10
    <3> QED
      BY <1>1, <1>4, <1>5, <3>1, <3>2, <3>3, <3>4, <3>5, <3>6, <3>7, <3>8, <3>9, <3>10
         DEF SystemState, SystemMoves
  <2> QED
    BY <2>a, <2>b
<1> QED
  BY <1>4, <1>7, <1>8

-----------------------------------------------------------------------------
(* What the memories show. *)

\* What a clock cycle between working states does to the data path.
LEMMA ClockData ==
  ASSUME TypeOK, NEW load \in BOOLEAN, NEW rst \in BOOLEAN, NEW found \in BOOLEAN,
         Clock(load, rst, found), ~is_idle
  PROVE  /\ ram_in'.pixel = ADDR_PIXEL /\ ram_in'.conv = ADDR_Conv /\ ram_in'.wfc = ADDR_WFC
         /\ ram_in'.bfc = ADDR_BFC /\ ram_in'.relu = read_addr
         /\ ram_q' = ram_in
         /\ product'.conv = ram_q.conv
         /\ product'.columns = <<pixel_buffer_3, pixel_buffer_2, pixel_buffer_1>>
         /\ pixel_buffer_2' = IF winner THEN White ELSE IF EN_pixel_reg /\ ~LL_read
                              THEN pixel_buffer_1 ELSE pixel_buffer_2
         /\ pixel_buffer_3' = IF winner THEN White ELSE IF EN_pixel_reg /\ ~LL_read
                              THEN pixel_buffer_2 ELSE pixel_buffer_3
         /\ read_addr' = IF winner THEN 0 ELSE IF Relu_RD_en THEN addr_incress(read_addr)
                                                              ELSE read_addr
         /\ write_addr' = IF winner THEN k ELSE IF Relu_WR_EN THEN addr_incress(write_addr)
                                                               ELSE write_addr
         /\ passes' = IF winner THEN 0 ELSE IF Check_winner /\ passes < PassesToGain
                                            THEN passes + 1 ELSE passes
<1>1. DataEdge /\ ReluEdge
  BY Zenon DEF Clock
<1>2. S_rst <=> winner
  BY DEF S_rst
<1>3. ram_in' = Addresses /\ ram_q' = ram_in
      /\ product' = [conv |-> ram_q.conv,
                     columns |-> <<pixel_buffer_3, pixel_buffer_2, pixel_buffer_1>>]
  BY <1>1, Zenon DEF DataEdge
<1>4. /\ ram_in'.pixel = ADDR_PIXEL /\ ram_in'.conv = ADDR_Conv /\ ram_in'.wfc = ADDR_WFC
      /\ ram_in'.bfc = ADDR_BFC /\ ram_in'.relu = read_addr
  BY <1>3 DEF Addresses
<1>5. /\ product'.conv = ram_q.conv
      /\ product'.columns = <<pixel_buffer_3, pixel_buffer_2, pixel_buffer_1>>
  BY <1>3
<1>6. /\ pixel_buffer_2' = IF winner THEN White ELSE IF EN_pixel_reg /\ ~LL_read
                            THEN pixel_buffer_1 ELSE pixel_buffer_2
      /\ pixel_buffer_3' = IF winner THEN White ELSE IF EN_pixel_reg /\ ~LL_read
                            THEN pixel_buffer_2 ELSE pixel_buffer_3
  BY <1>1, <1>2 DEF DataEdge
<1>7. /\ read_addr' = IF winner THEN 0 ELSE IF Relu_RD_en THEN addr_incress(read_addr)
                                                          ELSE read_addr
      /\ write_addr' = IF winner THEN k ELSE IF Relu_WR_EN THEN addr_incress(write_addr)
                                                           ELSE write_addr
  BY <1>1, <1>2 DEF ReluEdge
<1>8. passes' = IF winner THEN 0 ELSE IF Check_winner /\ passes < PassesToGain THEN passes + 1
                                                                           ELSE passes
  BY ClockResult
<1> QED
  BY <1>3, <1>4, <1>5, <1>6, <1>7, <1>8, Zenon

LEMMA ReluKept ==
  ASSUME TypeOK, NEW load \in BOOLEAN, NEW rst \in BOOLEAN, NEW found \in BOOLEAN,
         Clock(load, rst, found), ~is_idle, corrent_state' # "idle",
         SystemCounts, LastLine, WinnerInTime, Passes, MachinesInStep, ColumnMoves, ReluInStep
  PROVE  ReluInStep'
<1> USE OcrDataAssumption
<1> DEFINE final == ADDR_PIXEL = window.last
<1>1. SystemMoves(load, final) /\ SystemEdge(load, winner, final, FALSE)
  BY ClockSystem
<1>2. /\ ram_in'.relu = read_addr /\ ram_q'.relu = ram_in.relu
      /\ read_addr' = IF winner THEN 0 ELSE IF Relu_RD_en THEN addr_incress(read_addr)
                                                          ELSE read_addr
      /\ write_addr' = IF winner THEN k ELSE IF Relu_WR_EN THEN addr_incress(write_addr)
                                                           ELSE write_addr
      /\ passes' = IF winner THEN 0 ELSE IF Check_winner /\ passes < PassesToGain
                                         THEN passes + 1 ELSE passes
  BY ClockData
<1>3. /\ count_k \in Nat /\ class_count \in Nat /\ Count_winner \in Nat
      /\ Count_load_Wait \in Nat /\ corrent_state \in SystemState /\ passes \in 0 .. PassesToGain
      /\ LL_flag \in BOOLEAN /\ LL_read \in BOOLEAN /\ winner \in BOOLEAN
      /\ read_addr \in 0 .. 2 * k - 1 /\ write_addr \in k .. 2 * k - 1
  BY TypeFacts, Zenon
<1>4. PassesToGain = 3
  BY DEF PassesToGain
<1>5. corrent_state # "idle" /\ final \in BOOLEAN
  BY DEF is_idle
<1> HIDE DEF final
<1> USE DEF SystemMoves, SystemEdge, SystemCounts, LastLine, WinnerInTime, Passes, PrepState,
            FcState, MachinesInStep, LoadAhead, FcAhead, SysFilter, WaitRun, Relu_RD_en, Relu_WR_EN,
            addr_incress, Check_winner, FirstRow, ReluInStep
<1>11. CASE corrent_state = "idle"
  BY <1>1, <1>2, <1>3, <1>4, <1>5, <1>11
<1>12. CASE corrent_state \in {"Load_data", "LL_wait"}
  BY <1>1, <1>2, <1>3, <1>4, <1>5, <1>12 DEF ColumnMoves
<1>13. CASE corrent_state \in {"Loaded_line", "LNL"}
  BY <1>1, <1>2, <1>3, <1>4, <1>5, <1>13
<1>14. CASE corrent_state \in PrepState
  BY <1>1, <1>2, <1>3, <1>4, <1>5, <1>14
<1>15. CASE corrent_state = "RUN_CONV2D"
  BY <1>1, <1>2, <1>3, <1>4, <1>5, <1>15
<1>16. CASE corrent_state \in {"First_FC", "FC_P1", "Next_Class"}
  BY <1>1, <1>2, <1>3, <1>4, <1>5, <1>16
<1>17. CASE corrent_state = "FC_P2"
  BY <1>1, <1>2, <1>3, <1>4, <1>5, <1>17
<1>18. CASE corrent_state \in {"FC_P3", "FC_P3_LK"}
  BY <1>1, <1>2, <1>3, <1>4, <1>5, <1>18
<1>19. CASE corrent_state = "Check_winner_state"
  BY <1>1, <1>2, <1>3, <1>4, <1>5, <1>19
<1>20. CASE corrent_state = "wait_winner"
  BY <1>1, <1>2, <1>3, <1>4, <1>5, <1>20
<1> QED
  BY <1>1, <1>3, <1>5, <1>11, <1>12, <1>13, <1>14, <1>15, <1>16, <1>17, <1>18, <1>19, <1>20
     DEF SystemState, SystemMoves

LEMMA ConvKept ==
  ASSUME TypeOK, MemAddresses,
         NEW load \in BOOLEAN, NEW rst \in BOOLEAN, NEW found \in BOOLEAN,
         Clock(load, rst, found), ~is_idle, corrent_state' # "idle",
         SystemCounts, LastLine, MachinesInStep, WinnerInTime, ConvInStep
  PROVE  ConvInStep'
<1> USE OcrDataAssumption
<1> DEFINE final == ADDR_PIXEL = window.last
<1>1. SystemMoves(load, final) /\ SystemEdge(load, winner, final, FALSE)
  BY ClockSystem
<1>2. /\ ram_in'.conv = ADDR_Conv /\ ram_q'.conv = ram_in.conv /\ product'.conv = ram_q.conv
  BY ClockData
<1>3. /\ count_k \in Nat /\ Count_winner \in Nat /\ Count_load_Wait \in Nat
      /\ corrent_state \in SystemState
      /\ LL_flag \in BOOLEAN /\ LL_read \in BOOLEAN /\ winner \in BOOLEAN
  BY TypeFacts, Zenon
<1>4. mem_state = "Pre_NL" => ADDR_Conv = 0
  BY DEF MemAddresses
<1>5. corrent_state # "idle" /\ final \in BOOLEAN
  BY DEF is_idle
<1> HIDE DEF final
<1> USE DEF SystemMoves, SystemEdge, SystemCounts, LastLine, PrepState, MachinesInStep, LoadAhead,
            ConvInStep, WinnerInTime
<1>6. CASE corrent_state \in {"LL_wait", "wait_winner"}
  BY <1>1, <1>2, <1>3, <1>4, <1>5, <1>6
<1>7. CASE corrent_state \in {"Loaded_line", "LNL"}
  BY <1>1, <1>2, <1>3, <1>5, <1>7
<1>8. CASE corrent_state \in PrepState
  BY <1>1, <1>2, <1>3, <1>5, <1>8
<1>9. CASE corrent_state = "RUN_CONV2D"
  BY <1>1, <1>2, <1>3, <1>5, <1>9
<1>10. CASE corrent_state \notin PrepState \union {"LL_wait", "wait_winner", "Loaded_line", "LNL",
                                                   "RUN_CONV2D"}
  BY <1>1, <1>3, <1>5, <1>10 DEF SystemState
<1> QED
  BY <1>6, <1>7, <1>8, <1>9, <1>10

LEMMA WeightsKept ==
  ASSUME TypeOK, MemAddresses, MemCounts,
         NEW load \in BOOLEAN, NEW rst \in BOOLEAN, NEW found \in BOOLEAN,
         Clock(load, rst, found), ~is_idle, corrent_state' # "idle",
         SystemCounts, LastLine, MachinesInStep, ColumnMoves, WeightsInStep
  PROVE  WeightsInStep'
<1> USE OcrDataAssumption
<1> DEFINE final == ADDR_PIXEL = window.last
<1>1. SystemMoves(load, final) /\ SystemEdge(load, winner, final, FALSE)
  BY ClockSystem
<1>2. /\ ram_in'.wfc = ADDR_WFC /\ ram_q'.wfc = ram_in.wfc
      /\ ram_in'.bfc = ADDR_BFC /\ ram_q'.bfc = ram_in.bfc
  BY ClockData
<1>3. /\ count_k \in Nat /\ class_count \in Nat
      /\ corrent_state \in SystemState /\ mem_state \in MemState
      /\ LL_flag \in BOOLEAN /\ LL_read \in BOOLEAN
  BY TypeFacts, Zenon
<1>4. /\ mem_state \in {"Wait_winner", "Wait_winner_LL"} => ADDR_WFC = 3 * (Base(N) + k) - 1
      /\ mem_state = "FC_P1" => ADDR_WFC = 3 * (Base(MemClass) + MemFilter - 1) - 1
      /\ mem_state = "FC_P2" => ADDR_WFC = 3 * (Base(MemClass) + MemFilter - 1)
      /\ mem_state = "FC_P3" => ADDR_WFC = 3 * (Base(MemClass) + MemFilter - 1) + 1
      /\ mem_state = "FC_NC" => ADDR_WFC = 3 * (Base(MemClass) + k) - 1
      /\ mem_state \in FcMemState => ADDR_BFC = MemClass - 1
  BY DEF MemAddresses
<1>5. corrent_state # "idle" /\ final \in BOOLEAN
  BY DEF is_idle
<1>6. /\ Base(1) = 0
      /\ \A c \in 1 .. N : Base(c) \in Nat /\ Base(c + 1) = Base(c) + k
  BY BaseFacts
<1> HIDE DEF final
<1> USE DEF SystemMoves, SystemEdge, SystemCounts, LastLine, FcState, FcMemState, PrepState,
            MachinesInStep, LoadAhead, FcAhead, SysFilter, SysClass, WaitRun, WeightsInStep, SysRow,
            Finished
<1>7. CASE LL_read
  BY <1>1, <1>3, <1>5, <1>7
<1>8. CASE ~LL_read /\ corrent_state = "RUN_CONV2D"
  BY <1>1, <1>2, <1>3, <1>4, <1>6, <1>8
<1>9. CASE ~LL_read /\ corrent_state = "First_FC"
  BY <1>1, <1>2, <1>3, <1>4, <1>6, <1>9
<1>10. CASE ~LL_read /\ corrent_state = "Next_Class"
  BY <1>1, <1>2, <1>3, <1>4, <1>6, <1>10
<1>11. CASE ~LL_read /\ corrent_state = "FC_P1"
  BY <1>1, <1>2, <1>3, <1>4, <1>6, <1>11
<1>12. CASE ~LL_read /\ corrent_state = "FC_P2"
  BY <1>1, <1>2, <1>3, <1>4, <1>6, <1>12
<1>13. CASE ~LL_read /\ corrent_state = "FC_P3"
  BY <1>1, <1>2, <1>3, <1>4, <1>6, <1>13
<1>14. CASE ~LL_read /\ corrent_state = "FC_P3_LK"
  BY <1>1, <1>2, <1>3, <1>4, <1>6, <1>14
<1>15. CASE corrent_state \notin FcState \union {"RUN_CONV2D", "First_FC", "Next_Class"}
  BY <1>1, <1>3, <1>5, <1>15 DEF SystemState
<1> QED
  BY <1>3, <1>7, <1>8, <1>9, <1>10, <1>11, <1>12, <1>13, <1>14, <1>15

-----------------------------------------------------------------------------
(* The columns. *)

\* When the address of the column moves, and where to.
ColumnStep ==
  /\ corrent_state \notin {"Load_data", "LL_wait", "FC_P1"} => ADDR_PIXEL' = ADDR_PIXEL
  /\ corrent_state = "FC_P1" =>
       ADDR_PIXEL' = IF Finished /\ ~LL_flag THEN ADDR_PIXEL + 1 ELSE ADDR_PIXEL
  /\ corrent_state = "Load_data" => ADDR_PIXEL' = window.first
  /\ corrent_state = "LL_wait" =>
       \/ mem_state = "RFL" /\ ADDR_PIXEL' = window.first
       \/ /\ mem_state = "sync_rst"
          /\ ADDR_PIXEL' = IF ADDR_PIXEL > 1 THEN ADDR_PIXEL - 2 ELSE ADDR_PIXEL
       \/ mem_state = "Pre_NL" /\ ADDR_PIXEL' = ADDR_PIXEL

LEMMA ColumnFacts ==
  ASSUME TypeOK
  PROVE  /\ ADDR_PIXEL \in Nat /\ window.first \in Nat /\ window.last \in Nat
         /\ window.first <= window.last /\ window.last <= LastColumn
<1>1. window \in Windows /\ ADDR_PIXEL \in 0 .. LastColumn
  BY TypeFacts, Zenon
<1>2. /\ window.first \in Nat /\ window.last \in Nat
      /\ window.first <= window.last /\ window.last <= LastColumn
  BY <1>1, AcceleratorAssumption, Zenon
<1>3. ADDR_PIXEL \in Nat
  BY <1>1
<1> QED
  BY <1>2, <1>3

LEMMA ColumnsMove ==
  ASSUME TypeOK, AddressEdge(window.first), corrent_state # "Task_complate", ~is_idle,
         SystemCounts, LastLine, MachinesInStep, ColumnMoves, ColumnInStep
  PROVE  ColumnStep
<1>1. /\ corrent_state \in SystemState /\ mem_state \in MemState /\ ADDR_PIXEL \in 0 .. LastColumn
      /\ LL_flag \in BOOLEAN /\ LL_read \in BOOLEAN /\ window \in Windows
  BY TypeFacts, Zenon
<1>2. ADDR_PIXEL \in Nat /\ window.first \in Nat
  BY ColumnFacts, Zenon
<1>3. ADDR_PIXEL' = IF mem_state \in {"offline", "RFL"} THEN window.first
                    ELSE IF mem_state = "sync_rst"
                         THEN IF ADDR_PIXEL > 1 THEN ADDR_PIXEL - 2 ELSE ADDR_PIXEL
                    ELSE IF mem_state = "Wait_winner" THEN ADDR_PIXEL + 1 ELSE ADDR_PIXEL
  BY DEF AddressEdge, PixelBack
<1>4. corrent_state \notin {"Load_data", "LL_wait", "FC_P1"} => ADDR_PIXEL' = ADDR_PIXEL
  BY <1>1, <1>3 DEF ColumnMoves
<1>5. corrent_state = "FC_P1" =>
        ADDR_PIXEL' = IF Finished /\ ~LL_flag THEN ADDR_PIXEL + 1 ELSE ADDR_PIXEL
  BY <1>1, <1>3, OcrDataAssumption
     DEF ColumnMoves, MachinesInStep, FcAhead, SysFilter, SysClass, Finished, LastLine, FcState,
         SystemCounts
<1>6. corrent_state = "Load_data" => ADDR_PIXEL' = window.first
  BY <1>3 DEF ColumnMoves
<1>7. corrent_state = "LL_wait" =>
        \/ mem_state = "RFL" /\ ADDR_PIXEL' = window.first
        \/ /\ mem_state = "sync_rst"
           /\ ADDR_PIXEL' = IF ADDR_PIXEL > 1 THEN ADDR_PIXEL - 2 ELSE ADDR_PIXEL
        \/ mem_state = "Pre_NL" /\ ADDR_PIXEL' = ADDR_PIXEL
  BY <1>1, <1>2, <1>3 DEF SystemCounts, MachinesInStep, ColumnInStep
<1> QED
  BY <1>4, <1>5, <1>6, <1>7 DEF ColumnStep

LEMMA ColumnKept ==
  ASSUME TypeOK, MemCounts, NEW load \in BOOLEAN, NEW rst \in BOOLEAN, NEW found \in BOOLEAN,
         Clock(load, rst, found), ~is_idle, corrent_state' # "idle", Working,
         MachinesInStep', ColumnMoves'
  PROVE  ColumnStep /\ ColumnInStep'
<1> USE OcrDataAssumption
<1> DEFINE final == ADDR_PIXEL = window.last
<1>0. /\ SystemCounts /\ LastLine /\ WinnerInTime /\ Passes /\ MachinesInStep /\ ColumnMoves
      /\ ColumnInStep
  BY DEF Working
<1>1. SystemMoves(load, final) /\ SystemEdge(load, winner, final, FALSE)
  BY ClockSystem
<1>2. /\ corrent_state \in SystemState /\ mem_state \in MemState
      /\ count_k \in Nat /\ class_count \in Nat /\ Count_winner \in Nat
      /\ Count_load_Wait \in Nat /\ LL_flag \in BOOLEAN /\ LL_read \in BOOLEAN
      /\ winner \in BOOLEAN /\ passes \in 0 .. PassesToGain /\ window \in Windows
  BY TypeFacts, Zenon
<1>3. mem_state = "RFL" => K_count = 1
  BY <1>0 DEF ColumnMoves, MachinesInStep
<1>4. /\ MemoryEdge(winner, Start_load_data, FALSE, FALSE, window.first, window.last)
      /\ window' = window /\ (winner /\ mem_state # "offline" => mem_state' = "sync_rst")
      /\ ~winner => MemoryPlaces(final)
  BY <1>3, ClockMemory
<1>5. AddressEdge(window.first)
  BY <1>2, <1>4, MemoryMove DEF Start_load_data
<1>6. ColumnStep
  BY <1>0, <1>1, <1>5, ColumnsMove DEF SystemMoves
<1>7. PassesToGain = 3
  BY DEF PassesToGain
<1>8. passes' = IF winner THEN 0 ELSE IF Check_winner /\ passes < PassesToGain THEN passes + 1
                                                                           ELSE passes
  BY ClockData
<1>9. /\ ADDR_PIXEL \in Nat /\ window.first \in Nat /\ window.last \in Nat
      /\ window.first <= window.last
      /\ set_back' <=> set_back \/ (winner /\ passes = 1)
  <2>1. set_back' = (~is_idle /\ (set_back \/ (winner /\ passes = 1)))
    BY Zenon DEF Clock
  <2>2. set_back' <=> set_back \/ (winner /\ passes = 1)
    BY <2>1, Zenon
  <2> QED
    BY <2>2, ColumnFacts, Zenon
<1>10. corrent_state # "idle" /\ (final <=> ADDR_PIXEL = window.last)
  BY DEF is_idle
<1>11. ColumnInStep'
  <2> DEFINE first == window.first
             last  == window.last
  <2>0. window'.first = first /\ window'.last = last
    BY <1>4
  <2> HIDE DEF first, last
  <2> USE DEF SystemMoves, SystemEdge, SystemCounts, LastLine, WinnerInTime, Passes, PrepState,
              FcState, ColumnStep, ColumnInStep, ColumnMoves, Check_winner, InFc, Ahead, Finished
  <2>1. CASE corrent_state = "idle"
    BY <1>0, <1>1, <1>2, <1>4, <1>6, <1>7, <1>8, <1>9, <1>10, <2>0, <2>1
  <2>2. CASE corrent_state \in {"Load_data", "LL_wait"}
    BY <1>0, <1>1, <1>2, <1>4, <1>6, <1>7, <1>8, <1>9, <1>10, <2>0, <2>2
       DEF MemoryPlaces, Start_load_data, MachinesInStep
  <2>3. CASE corrent_state \in {"Loaded_line", "LNL"}
    BY <1>0, <1>1, <1>2, <1>4, <1>6, <1>7, <1>8, <1>9, <1>10, <2>0, <2>3
  <2>4. CASE corrent_state \in PrepState
    BY <1>0, <1>1, <1>2, <1>4, <1>6, <1>7, <1>8, <1>9, <1>10, <2>0, <2>4
  <2>5. CASE corrent_state = "RUN_CONV2D"
    BY <1>0, <1>1, <1>2, <1>4, <1>6, <1>7, <1>8, <1>9, <1>10, <2>0, <2>5
  <2>6. CASE corrent_state \in {"First_FC", "FC_P1", "Next_Class"}
    BY <1>0, <1>1, <1>2, <1>4, <1>6, <1>7, <1>8, <1>9, <1>10, <2>0, <2>6
  <2>7. CASE corrent_state = "FC_P2"
    BY <1>0, <1>1, <1>2, <1>4, <1>6, <1>7, <1>8, <1>9, <1>10, <2>0, <2>7
  <2>8. CASE corrent_state \in {"FC_P3", "FC_P3_LK"}
    BY <1>0, <1>1, <1>2, <1>4, <1>6, <1>7, <1>8, <1>9, <1>10, <2>0, <2>8
  <2>9. CASE corrent_state = "Check_winner_state"
    BY <1>0, <1>1, <1>2, <1>4, <1>6, <1>7, <1>8, <1>9, <1>10, <2>0, <2>9
  <2>10. CASE corrent_state = "wait_winner"
    BY <1>0, <1>1, <1>2, <1>4, <1>6, <1>7, <1>8, <1>9, <1>10, <2>0, <2>10
  <2> QED
    BY <1>1, <1>2, <1>10, <2>1, <2>2, <2>3, <2>4, <2>5, <2>6, <2>7, <2>8, <2>9, <2>10
       DEF SystemState, SystemMoves
<1> QED
  BY <1>6, <1>11

LEMMA PixelsKept ==
  ASSUME TypeOK, NEW load \in BOOLEAN, NEW rst \in BOOLEAN, NEW found \in BOOLEAN,
         Clock(load, rst, found), ~is_idle, corrent_state' # "idle", Working, ColumnStep
  PROVE  PixelsInStep' /\ Kept' /\ ProductInStep'
<1> USE OcrDataAssumption
<1> DEFINE final == ADDR_PIXEL = window.last
<1>0. /\ SystemCounts /\ LastLine /\ WinnerInTime /\ Passes /\ ColumnInStep /\ PixelsInStep /\ Kept
      /\ ProductInStep /\ MachinesInStep
  BY DEF Working
<1>1. SystemMoves(load, final) /\ SystemEdge(load, winner, final, FALSE)
  BY ClockSystem
<1>2. /\ corrent_state \in SystemState /\ ADDR_PIXEL \in Nat
      /\ count_k \in Nat /\ class_count \in Nat /\ Count_winner \in Nat
      /\ Count_load_Wait \in Nat /\ LL_flag \in BOOLEAN /\ LL_read \in BOOLEAN
      /\ winner \in BOOLEAN /\ passes \in 0 .. PassesToGain
  BY TypeFacts, ColumnFacts, Zenon
<1>3. PassesToGain = 3
  BY DEF PassesToGain
<1>4. /\ ram_in'.pixel = ADDR_PIXEL /\ ram_q' = ram_in
      /\ product'.columns = <<pixel_buffer_3, pixel_buffer_2, pixel_buffer_1>>
      /\ pixel_buffer_2' = IF winner THEN White ELSE IF EN_pixel_reg /\ ~LL_read
                           THEN pixel_buffer_1 ELSE pixel_buffer_2
      /\ pixel_buffer_3' = IF winner THEN White ELSE IF EN_pixel_reg /\ ~LL_read
                           THEN pixel_buffer_2 ELSE pixel_buffer_3
      /\ passes' = IF winner THEN 0 ELSE IF Check_winner /\ passes < PassesToGain
                                         THEN passes + 1 ELSE passes
  BY ClockData
<1>5. corrent_state # "idle" /\ (final <=> ADDR_PIXEL = window.last)
  BY DEF is_idle
<1>6. /\ corrent_state = "wait_winner" /\ winner => Count_winner = 2
      /\ corrent_state # "wait_winner" => ~winner
  BY <1>0 DEF WinnerInTime
<1>7. LL_flag => ADDR_PIXEL = window.last
  BY <1>0 DEF ColumnInStep
<1> HIDE DEF final
<1>8. PixelsInStep'
  <2> USE DEF SystemMoves, SystemEdge, SystemCounts, PrepState, FcState, ColumnStep, PixelsInStep,
              EN_pixel_reg, Check_winner, Finished
  <2>1. CASE corrent_state = "idle"
    BY <1>0, <1>1, <1>2, <1>3, <1>4, <1>5, <1>6, <1>7, <2>1
  <2>2. CASE corrent_state \in {"Load_data", "LL_wait"}
    BY <1>0, <1>1, <1>2, <1>3, <1>4, <1>5, <1>6, <1>7, <2>2
       DEF MachinesInStep
  <2>3. CASE corrent_state \in {"Loaded_line", "LNL"}
    BY <1>0, <1>1, <1>2, <1>3, <1>4, <1>5, <1>6, <1>7, <2>3
  <2>4. CASE corrent_state \in PrepState
    BY <1>0, <1>1, <1>2, <1>3, <1>4, <1>5, <1>6, <1>7, <2>4
  <2>5. CASE corrent_state = "RUN_CONV2D"
    BY <1>0, <1>1, <1>2, <1>3, <1>4, <1>5, <1>6, <1>7, <2>5
  <2>6. CASE corrent_state \in {"First_FC", "FC_P1", "Next_Class"}
    BY <1>0, <1>1, <1>2, <1>3, <1>4, <1>5, <1>6, <1>7, <2>6
  <2>7. CASE corrent_state = "FC_P2"
    BY <1>0, <1>1, <1>2, <1>3, <1>4, <1>5, <1>6, <1>7, <2>7
  <2>8. CASE corrent_state \in {"FC_P3", "FC_P3_LK"}
    BY <1>0, <1>1, <1>2, <1>3, <1>4, <1>5, <1>6, <1>7, <2>8
  <2>9. CASE corrent_state = "Check_winner_state"
    BY <1>0, <1>1, <1>2, <1>3, <1>4, <1>5, <1>6, <1>7, <2>9
  <2>10. CASE corrent_state = "wait_winner"
    BY <1>0, <1>1, <1>2, <1>3, <1>4, <1>5, <1>6, <1>7, <2>10
  <2> QED
    BY <1>1, <1>2, <1>5, <2>1, <2>2, <2>3, <2>4, <2>5, <2>6, <2>7, <2>8, <2>9, <2>10
       DEF SystemState, SystemMoves
<1>9. Kept'
  <2> USE DEF SystemMoves, SystemEdge, SystemCounts, LastLine, PrepState, FcState, ColumnStep,
              PixelsInStep, Kept, EN_pixel_reg, Check_winner, Ahead, Finished, pixel_buffer_1,
              Passes
  <2>1. CASE corrent_state = "idle"
    BY <1>0, <1>1, <1>2, <1>3, <1>4, <1>5, <1>6, <1>7, <2>1
  <2>2. CASE corrent_state \in {"Load_data", "LL_wait"}
    BY <1>0, <1>1, <1>2, <1>3, <1>4, <1>5, <1>6, <1>7, <2>2
  <2>3. CASE corrent_state \in {"Loaded_line", "LNL"}
    BY <1>0, <1>1, <1>2, <1>3, <1>4, <1>5, <1>6, <1>7, <2>3
  <2>4. CASE corrent_state \in PrepState
    BY <1>0, <1>1, <1>2, <1>3, <1>4, <1>5, <1>6, <1>7, <2>4
  <2>5. CASE corrent_state = "RUN_CONV2D"
    BY <1>0, <1>1, <1>2, <1>3, <1>4, <1>5, <1>6, <1>7, <2>5
  <2>6. CASE corrent_state \in {"First_FC", "FC_P1", "Next_Class"}
    BY <1>0, <1>1, <1>2, <1>3, <1>4, <1>5, <1>6, <1>7, <2>6
  <2>7. CASE corrent_state = "FC_P2"
    BY <1>0, <1>1, <1>2, <1>3, <1>4, <1>5, <1>6, <1>7, <2>7
  <2>8. CASE corrent_state \in {"FC_P3", "FC_P3_LK"}
    BY <1>0, <1>1, <1>2, <1>3, <1>4, <1>5, <1>6, <1>7, <2>8
  <2>9. CASE corrent_state = "Check_winner_state"
    BY <1>0, <1>1, <1>2, <1>3, <1>4, <1>5, <1>6, <1>7, <2>9
  <2>10. CASE corrent_state = "wait_winner"
    BY <1>0, <1>1, <1>2, <1>3, <1>4, <1>5, <1>6, <1>7, <2>10
  <2> QED
    BY <1>1, <1>2, <1>5, <2>1, <2>2, <2>3, <2>4, <2>5, <2>6, <2>7, <2>8, <2>9, <2>10
       DEF SystemState, SystemMoves
<1>10. ProductInStep'
  <2>1. CASE corrent_state \in PrepState
    <3>1. ~winner /\ ~LL_read /\ corrent_state' = "RUN_CONV2D" /\ count_k' = 1
      BY <1>0, <1>1, <1>2, <1>6, <2>1 DEF SystemMoves, SystemEdge, LastLine, PrepState
    <3>2. /\ pixel_buffer_2' = pixel_buffer_2 /\ pixel_buffer_3' = pixel_buffer_3
          /\ pixel_buffer_1 = ADDR_PIXEL /\ ADDR_PIXEL' = ADDR_PIXEL
      BY <1>0, <1>4, <2>1, <3>1
         DEF PrepState, EN_pixel_reg, ColumnStep, PixelsInStep, pixel_buffer_1
    <3>3. ~(LL_read' /\ ~white_missed')
      BY <3>1 DEF white_missed
    <3> QED
      BY <1>4, <3>1, <3>2, <3>3 DEF ProductInStep
  <2>2. CASE corrent_state = "RUN_CONV2D"
    <3>1. ~winner /\ LL_read' = LL_read /\ (corrent_state' = "RUN_CONV2D" => count_k' # 1)
      BY <1>0, <1>1, <1>2, <1>6, <2>2 DEF SystemMoves, SystemEdge, SystemCounts
    <3>2. /\ pixel_buffer_2' = pixel_buffer_2 /\ pixel_buffer_3' = pixel_buffer_3
          /\ ADDR_PIXEL' = ADDR_PIXEL
          /\ pixel_buffer_1 = IF LL_read THEN White ELSE ADDR_PIXEL
      BY <1>0, <1>4, <2>2, <3>1 DEF EN_pixel_reg, ColumnStep, PixelsInStep, pixel_buffer_1
    <3> QED
      BY <1>4, <3>1, <3>2 DEF ProductInStep, white_missed
  <2>3. CASE corrent_state \notin PrepState \union {"RUN_CONV2D"}
    BY <1>1, <1>2, <1>5, <2>3 DEF SystemMoves, SystemState, ProductInStep, PrepState
  <2> QED
    BY <2>1, <2>2, <2>3
<1> QED
  BY <1>8, <1>9, <1>10

-----------------------------------------------------------------------------
(* The whole. *)

\* What the fresh counters of Memory_CU need, from the state both machines are in.
LEMMA Fresh ==
  ASSUME TypeOK, ~is_idle => Working
  PROVE  is_idle \/ MemFresh(Done)
BY TypeFacts DEF Working, MachinesInStep, ColumnMoves, MemFresh, Done

LEMMA MemoryKept ==
  ASSUME IInv, NEW load \in BOOLEAN, NEW rst \in BOOLEAN, NEW found \in BOOLEAN,
         Clock(load, rst, found)
  PROVE  MemCounts' /\ MemAddresses'
<1>1. TypeOK /\ MemoryTypeOK /\ MemCounts /\ MemAddresses /\ (is_idle \/ MemFresh(Done))
  BY Fresh, Zenon DEF IInv, TypeOK
<1>2. /\ winner \in BOOLEAN /\ Start_load_data \in BOOLEAN /\ Done \in BOOLEAN
      /\ is_idle \in BOOLEAN
  BY <1>1, TypeFacts DEF Start_load_data, Done, is_idle
<1>3. MemoryEdge(winner, Start_load_data, Done, is_idle, window.first, window.last)
  BY Zenon DEF Clock
<1>4. MemCounts'
  BY <1>1, <1>2, <1>3, MemCountsKept
<1> QED
  BY <1>1, <1>2, <1>3, <1>4, MemAddressesKept

LEMMA SystemTypesKept ==
  ASSUME IInv, NEW load \in BOOLEAN, NEW rst \in BOOLEAN, NEW found \in BOOLEAN,
         Clock(load, rst, found)
  PROVE  SystemTypeOK'
<1> USE OcrDataAssumption, DelayAssumption
<1> DEFINE final == ADDR_PIXEL = window.last
<1>1. TypeOK /\ SystemTypeOK /\ (~is_idle => SystemCounts)
  BY Zenon DEF IInv, TypeOK, Working
<1>2. SystemEdge(load, winner, final, rst)
  BY Zenon DEF Clock, At_final_line
<1>3. corrent_state' \in SystemState
  <2>1. CASE corrent_state' = "idle"
    BY <2>1 DEF SystemState
  <2>2. CASE corrent_state' # "idle"
    <3>1. SystemMoves(load, final) /\ corrent_state \in SystemState
      BY <1>1, <2>2, ClockSystem, TypeFacts
    <3> HIDE DEF final
    <3> QED
      BY <3>1 DEF SystemMoves, SystemState, PrepState
  <2> QED
    BY <2>1, <2>2
<1> HIDE DEF final
<1>4. /\ count_k \in 0 .. k + 1 /\ class_count \in 0 .. N + 1 /\ Count_winner \in 0 .. 3
      /\ Count_load_Wait \in 0 .. 2 /\ corrent_state \in SystemState
  BY <1>1 DEF SystemTypeOK
<1>5. /\ Count_load_Wait' \in 0 .. 2 /\ Count_winner' \in 0 .. 3
      /\ count_k' \in 0 .. k + 1 /\ class_count' \in 0 .. N + 1
  BY <1>1, <1>2, <1>4 DEF SystemEdge, SystemCounts, is_idle
<1>6. LL_flag' \in BOOLEAN /\ LL_read' \in BOOLEAN
  BY <1>1, <1>2, Zenon DEF SystemEdge, SystemTypeOK
<1> QED
  BY <1>3, <1>5, <1>6 DEF SystemTypeOK

LEMMA MemoryTypesKept ==
  ASSUME IInv, NEW load \in BOOLEAN, NEW rst \in BOOLEAN, NEW found \in BOOLEAN,
         Clock(load, rst, found)
  PROVE  MemoryTypeOK'
<1> USE OcrDataAssumption, DelayAssumption
<1>1. TypeOK /\ MemoryTypeOK
  BY Zenon DEF IInv, TypeOK
<1>2. /\ winner \in BOOLEAN /\ Start_load_data \in BOOLEAN /\ Done \in BOOLEAN
      /\ mem_state \in MemState
  BY <1>1, TypeFacts DEF Start_load_data, Done
<1>3. MemoryEdge(winner, Start_load_data, Done, is_idle, window.first, window.last)
  BY Zenon DEF Clock
<1>4. MemCounts' /\ MemAddresses'
  BY MemoryKept
<1>5. /\ ADDR_WFC' \in 0 .. 3 * k * N /\ ADDR_BFC' \in 0 .. k /\ ADDR_Conv' \in 0 .. k
      /\ K_count' \in 1 .. k /\ mem_class_count' \in 0 .. N
  <2>1. 3 * (Base(N) + k) = 3 * k * N
    BY BaseFacts
  <2>2. ADDR_WFC' \in 0 .. 3 * k * N
    BY <1>4, <2>1 DEF MemAddresses
  <2> QED
    BY <1>4, <2>2 DEF MemCounts, MemAddresses
<1>6. /\ mem_state' \in MemState /\ winner_count' \in 0 .. 4
      /\ {winner_count_done', K_count_done', class_count_done'} \subseteq BOOLEAN
  <2>1. CASE is_idle
    <3>1. /\ mem_state' = "offline" /\ winner_count' = 0
          /\ winner_count_done' = FALSE /\ K_count_done' = FALSE /\ class_count_done' = FALSE
      BY <1>3, <2>1, Zenon DEF MemoryEdge
    <3>2. /\ winner_count_done' \in BOOLEAN /\ K_count_done' \in BOOLEAN
          /\ class_count_done' \in BOOLEAN
      BY <3>1, Zenon
    <3> QED
      BY <3>1, <3>2 DEF MemState
  <2>2. CASE ~is_idle
    <3>1. MemoryEdge(winner, Start_load_data, Done, FALSE, window.first, window.last)
      BY <1>3, <2>2, Zenon DEF is_idle
    <3>2. /\ KCountEdge(winner) /\ ClassCountEdge(winner) /\ WinnerCountEdge(winner)
          /\ mem_state' \notin {"offline", "sync_rst"} => ~Done /\ ~winner
          /\ ~Done /\ ~winner => MemoryMoves(Start_load_data, At_final_line(window.last))
      BY <1>2, <3>1, MemoryMove
    <3>3. mem_state' \in MemState
      BY <1>2, <3>2 DEF MemoryMoves, MemState
    <3>4. winner_count' \in 0 .. 4
      BY <1>1, <3>2 DEF WinnerCountEdge, winner_count_end, MemoryTypeOK
    <3>5. /\ winner_count_done' \in BOOLEAN /\ K_count_done' \in BOOLEAN
          /\ class_count_done' \in BOOLEAN
      <4>1. K_count_done \in BOOLEAN /\ class_count_done \in BOOLEAN
        BY <1>1 DEF MemoryTypeOK
      <4>2. winner_count_done' \in BOOLEAN
        BY <3>2, Zenon DEF WinnerCountEdge
      <4>3. K_count_done' \in BOOLEAN
        BY <3>2, <4>1, Zenon DEF KCountEdge
      <4>4. class_count_done' \in BOOLEAN
        BY <3>2, <4>1, Zenon DEF ClassCountEdge
      <4> QED
        BY <4>2, <4>3, <4>4
    <3> QED
      BY <3>3, <3>4, <3>5
  <2> QED
    BY <2>1, <2>2
<1> QED
  BY <1>5, <1>6 DEF MemoryTypeOK, winner_count_end

LEMMA DataTypesKept ==
  ASSUME IInv, NEW load \in BOOLEAN, NEW rst \in BOOLEAN, NEW found \in BOOLEAN,
         Clock(load, rst, found)
  PROVE  /\ window' \in Windows /\ ADDR_PIXEL' \in 0 .. LastColumn
         /\ read_addr' \in 0 .. 2 * k - 1 /\ write_addr' \in k .. 2 * k - 1
         /\ passes' \in 0 .. PassesToGain
<1> USE OcrDataAssumption
<1>1. TypeOK /\ (~is_idle => Working)
  BY Zenon DEF IInv
<1>2. /\ window \in Windows /\ ADDR_PIXEL \in 0 .. LastColumn /\ passes \in 0 .. PassesToGain
      /\ read_addr \in 0 .. 2 * k - 1 /\ write_addr \in k .. 2 * k - 1
      /\ winner \in BOOLEAN /\ mem_state \in MemState
  BY <1>1, TypeFacts, Zenon
<1>3. /\ ADDR_PIXEL \in Nat /\ window.first \in Nat /\ window.last \in Nat
      /\ window.first <= window.last /\ window.last <= LastColumn
  BY <1>1, ColumnFacts, Zenon
<1>4. window' \in Windows
  BY <1>2, Zenon DEF Clock
<1>5. read_addr' \in 0 .. 2 * k - 1 /\ write_addr' \in k .. 2 * k - 1
  <2>1. ReluEdge
    BY Zenon DEF Clock
  <2> QED
    BY <1>2, <2>1 DEF ReluEdge, addr_incress
<1>6. passes' \in 0 .. PassesToGain
  <2>1. passes' = IF S_rst THEN 0 ELSE IF Check_winner /\ passes < PassesToGain THEN passes + 1
                                                                            ELSE passes
    BY Zenon DEF Clock
  <2>2. PassesToGain = 3
    BY DEF PassesToGain
  <2> QED
    BY <1>2, <2>1, <2>2
<1>7. ADDR_PIXEL' \in 0 .. LastColumn
  <2>1. MemoryEdge(winner, Start_load_data, Done, is_idle, window.first, window.last)
    BY Zenon DEF Clock
  <2>2. LastColumn \in Nat
    BY DEF LastColumn
  <2>3. CASE is_idle
    <3>1. ADDR_PIXEL' = window.first
      BY <2>1, <2>3, Zenon DEF MemoryEdge
    <3> QED
      BY <1>3, <2>2, <3>1
  <2>4. CASE ~is_idle
    <3>1. AddressEdge(window.first)
      BY <2>1, <2>4, Zenon DEF MemoryEdge
    <3>2. mem_state = "Wait_winner" => ADDR_PIXEL < window.last
      BY <1>1, <1>3, <2>4 DEF Working, ColumnMoves, ColumnInStep, InFc, Ahead, FcState
    <3> QED
      BY <1>2, <1>3, <2>2, <3>1, <3>2 DEF AddressEdge, PixelBack
  <2> QED
    BY <2>3, <2>4
<1> QED
  BY <1>4, <1>5, <1>6, <1>7

LEMMA ResultTypesKept ==
  ASSUME IInv, NEW load \in BOOLEAN, NEW rst \in BOOLEAN, NEW found \in BOOLEAN,
         Clock(load, rst, found)
  PROVE  /\ {Shift_EN_1', Shift_EN_2', check_winner_1', check_winner_2', winner'} \subseteq BOOLEAN
         /\ set_back' \in BOOLEAN
         /\ model_ring' \in 0 .. N - 1
         /\ result_length' \in 0 .. MAX_out_L /\ dig_detect_count' \in 0 .. DetectRange - 1
         /\ ScoreAligned'
<1> USE OcrDataAssumption
<1>1. TypeOK /\ (~is_idle => SystemCounts /\ Shifts) /\ MAX_out_L \in Nat
      /\ DetectRange \in Nat \ {0}
  BY AcceleratorAssumption, Zenon DEF IInv, Working
<1>2. /\ Shift_EN_1 \in BOOLEAN /\ check_winner_1 \in BOOLEAN /\ model_ring \in 0 .. N - 1
      /\ result_length \in 0 .. MAX_out_L /\ dig_detect_count \in 0 .. DetectRange - 1
  BY <1>1 DEF TypeOK
<1>3. ResultEdge(found)
  BY Zenon DEF Clock
<1>6. set_back' \in BOOLEAN
  <2>1. set_back' = (~is_idle /\ (set_back \/ (winner /\ passes = 1)))
    BY Zenon DEF Clock
  <2> QED
    BY <2>1, Zenon
<1>4. CASE is_idle
  <2>1. /\ Shift_EN_1' = FALSE /\ Shift_EN_2' = FALSE
        /\ check_winner_1' = FALSE /\ check_winner_2' = FALSE /\ winner' = FALSE
        /\ model_ring' = 0 /\ result_length' = 0 /\ dig_detect_count' = 0
    BY <1>3, <1>4, Zenon DEF ResultEdge
  <2>2. /\ Shift_EN_1' \in BOOLEAN /\ Shift_EN_2' \in BOOLEAN /\ check_winner_1' \in BOOLEAN
        /\ check_winner_2' \in BOOLEAN /\ winner' \in BOOLEAN
    BY <2>1, Zenon
  <2>3. ScoreAligned'
    BY <2>1, Zenon DEF ScoreAligned
  <2> QED
    BY <1>1, <1>6, <2>1, <2>2, <2>3
<1>5. CASE ~is_idle
  <2>1. /\ Shift_EN_1' = En_shift_result /\ Shift_EN_2' = Shift_EN_1
        /\ check_winner_1' = Check_winner /\ check_winner_2' = check_winner_1
        /\ winner' = (check_winner_2 /\ found)
        /\ \/ /\ dig_detect_count' = (dig_detect_count + 1) % DetectRange
              /\ result_length' = IF result_length < MAX_out_L THEN result_length + 1
                                                               ELSE result_length
           \/ UNCHANGED <<result_length, dig_detect_count>>
    BY <1>3, <1>5, Zenon DEF ResultEdge
  <2>2. /\ Shift_EN_1' <=> En_shift_result
        /\ score_class' = IF En_shift_result THEN class_count ELSE score_class
        /\ model_ring' = IF Shift_EN_2 THEN IF model_ring + 1 = N THEN 0 ELSE model_ring + 1
                         ELSE model_ring
    BY <1>1, <1>5, ClockResult
  <2>3. {Shift_EN_1', Shift_EN_2', check_winner_1', check_winner_2', winner'} \subseteq BOOLEAN
    <3>0. En_shift_result \in BOOLEAN /\ Check_winner \in BOOLEAN
      BY DEF En_shift_result, Check_winner
    <3>1. /\ Shift_EN_1' \in BOOLEAN /\ check_winner_1' \in BOOLEAN /\ winner' \in BOOLEAN
      BY <2>1, <3>0, Zenon
    <3>2. Shift_EN_2' \in BOOLEAN /\ check_winner_2' \in BOOLEAN
      BY <1>2, <2>1, Zenon
    <3> QED
      BY <3>1, <3>2
  <2>4. model_ring' \in 0 .. N - 1
    BY <1>2, <2>2
  <2>5. result_length' \in 0 .. MAX_out_L
    BY <1>1, <1>2, <2>1
  <2>6. dig_detect_count' \in 0 .. DetectRange - 1
    <3>1. (dig_detect_count + 1) % DetectRange \in 0 .. DetectRange - 1
      BY <1>1, <1>2
    <3> QED
      BY <1>2, <2>1, <3>1
  <2>7. ScoreAligned'
    <3>1. CASE En_shift_result
      <4>1. /\ corrent_state \in {"Next_Class", "Check_winner_state"} /\ class_count \in 1 .. N
            /\ (corrent_state = "Check_winner_state" => class_count = N)
        BY <1>1, <1>5, <3>1 DEF En_shift_result, SystemCounts
      <4>2. ~Shift_EN_1 /\ ~Shift_EN_2 /\ model_ring = class_count - 1
        BY <1>1, <1>5, <4>1 DEF Shifts, FcState
      <4> QED
        BY <2>2, <3>1, <4>1, <4>2 DEF ScoreAligned
    <3>2. CASE ~En_shift_result
      BY <2>2, <3>2 DEF ScoreAligned
    <3> QED
      BY <3>1, <3>2
  <2> QED
    BY <1>6, <2>3, <2>4, <2>5, <2>6, <2>7
<1> QED
  BY <1>4, <1>5, <1>6

LEMMA Started ==
  ASSUME TypeOK, NEW load \in BOOLEAN, NEW rst \in BOOLEAN, NEW found \in BOOLEAN,
         Clock(load, rst, found), is_idle, corrent_state' # "idle"
  PROVE  Working'
<1> DEFINE final == ADDR_PIXEL = window.last
<1>1. /\ SystemMoves(load, final) /\ SystemEdge(load, winner, final, FALSE)
      /\ corrent_state = "idle"
  BY ClockSystem DEF is_idle
<1>2. corrent_state' = "Load_data" /\ load /\ LL_flag' = FALSE /\ LL_read' = FALSE
  <2> HIDE DEF final
  <2> QED
    BY <1>1 DEF SystemMoves, SystemEdge
<1>3. /\ MemoryEdge(winner, Start_load_data, Done, is_idle, window.first, window.last)
      /\ DataEdge /\ ReluEdge /\ ResultEdge(found) /\ S_rst
  BY Zenon DEF Clock, S_rst
<1>4. /\ mem_state' = "offline" /\ winner_count' = 0 /\ ADDR_PIXEL' = window.first
      /\ ADDR_Conv' = 0 /\ K_count' = 1 /\ mem_class_count' = 0
  BY <1>3, Zenon DEF MemoryEdge
<1>5. /\ Shift_EN_1' = FALSE /\ Shift_EN_2' = FALSE /\ model_ring' = 0
      /\ check_winner_1' = FALSE /\ check_winner_2' = FALSE /\ winner' = FALSE
  BY <1>3, Zenon DEF ResultEdge
<1>6. /\ pixel_buffer_2' = White /\ pixel_buffer_3' = White /\ read_addr' = 0 /\ write_addr' = k
  BY <1>3, Zenon DEF DataEdge, ReluEdge
<1>7. passes' = 0 /\ window' = window
  BY <1>2, <1>3, Zenon DEF Clock
<1>8. window.first <= window.last
  BY ColumnFacts, Zenon
<1>9. SystemCounts' /\ LastLine' /\ Passes'
  BY <1>2, <1>7 DEF SystemCounts, LastLine, Passes, FcState, PrepState
<1>10. Shifts' /\ WinnerInTime'
  <2>1. ~Shift_EN_1' /\ ~Shift_EN_2' /\ ~check_winner_1' /\ ~check_winner_2' /\ ~winner'
    BY <1>5, Zenon
  <2> QED
    BY <1>2, <1>5, <2>1 DEF Shifts, WinnerInTime, FcState
<1>11. MachinesInStep' /\ ColumnMoves'
  BY <1>2, <1>4 DEF MachinesInStep, ColumnMoves, PrepState
<1>12. ReluInStep' /\ ConvInStep' /\ WeightsInStep'
  BY <1>2, <1>6 DEF ReluInStep, ConvInStep, WeightsInStep, PrepState
<1>13. ColumnInStep'
  BY <1>2, <1>4, <1>7, <1>8 DEF ColumnInStep, InFc, FcState, Ahead, Finished
<1>14. PixelsInStep' /\ Kept' /\ ProductInStep'
  BY <1>2, <1>6 DEF PixelsInStep, Kept, ProductInStep, PrepState, FcState
<1> QED
  BY <1>9, <1>10, <1>11, <1>12, <1>13, <1>14 DEF Working

LEMMA WorkingKept ==
  ASSUME IInv, NEW load \in BOOLEAN, NEW rst \in BOOLEAN, NEW found \in BOOLEAN,
         Clock(load, rst, found), ~is_idle, corrent_state' # "idle"
  PROVE  Working'
<1>1. TypeOK /\ MemCounts /\ MemAddresses /\ Working
  BY Zenon DEF IInv
<1>2. /\ SystemCounts /\ LastLine /\ Shifts /\ WinnerInTime /\ Passes
      /\ MachinesInStep /\ ColumnMoves
      /\ ReluInStep /\ ConvInStep /\ WeightsInStep
  BY <1>1, Zenon DEF Working
<1>3. /\ LL_flag => ADDR_PIXEL = window.last
      /\ corrent_state = "FC_P3" /\ ~LL_flag => ADDR_PIXEL # window.last
  <2>1. ColumnInStep /\ k \in Nat
    BY <1>1, OcrDataAssumption DEF Working
  <2> QED
    BY <1>2, <2>1 DEF ColumnInStep, InFc, FcState, Ahead, Finished, SystemCounts
<1>4. SystemCounts' /\ LastLine'
  BY <1>1, <1>2, <1>3, SystemCountsKept
<1>5. Shifts' /\ WinnerInTime' /\ Passes'
  BY <1>1, <1>2, ResultKept
<1>6. MachinesInStep' /\ ColumnMoves'
  BY <1>1, <1>2, <1>3, MachinesKept
<1>7. ReluInStep'
  BY <1>1, <1>2, ReluKept
<1>8. ConvInStep'
  BY <1>1, <1>2, ConvKept
<1>9. WeightsInStep'
  BY <1>1, <1>2, WeightsKept
<1>10. ColumnStep /\ ColumnInStep'
  BY <1>1, <1>6, ColumnKept
<1>11. PixelsInStep' /\ Kept' /\ ProductInStep'
  BY <1>1, <1>10, PixelsKept
<1> QED
  BY <1>4, <1>5, <1>6, <1>7, <1>8, <1>9, <1>10, <1>11 DEF Working

LEMMA InvInit == Init => IInv
<1> SUFFICES ASSUME Init PROVE IInv
  OBVIOUS
<1> USE OcrDataAssumption, DelayAssumption
<1>1. corrent_state = "idle" /\ SystemInit /\ MemoryInit
  BY Zenon DEF Init, SystemInit
<1>2. SystemTypeOK
  <2>1. LL_flag \in BOOLEAN /\ LL_read \in BOOLEAN
    BY <1>1, Zenon DEF SystemInit
  <2>2. /\ corrent_state = "idle" /\ Count_load_Wait = 0 /\ count_k = 0 /\ class_count = 0
        /\ Count_winner = 0
    BY <1>1, Zenon DEF SystemInit
  <2> QED
    BY <2>1, <2>2 DEF SystemTypeOK, SystemState
<1>3. MemoryTypeOK /\ MemCounts /\ MemAddresses
  <2>1. /\ mem_state = "offline" /\ winner_count = 0
        /\ winner_count_done \in BOOLEAN /\ K_count_done \in BOOLEAN /\ class_count_done \in BOOLEAN
        /\ ADDR_WFC = 0 /\ ADDR_BFC = 0 /\ ADDR_Conv = 0
        /\ K_count = 1 /\ mem_class_count = 0
    BY <1>1, Zenon DEF MemoryInit
  <2>2. Base(N) \in Nat /\ 3 * (Base(N) + k) = 3 * k * N
    BY BaseFacts
  <2>3. MemAddresses
    BY <2>1, <2>2 DEF MemAddresses, FcMemState
  <2>4. MemCounts
    BY <2>1 DEF MemCounts, FcMemState
  <2>5. 0 \in 0 .. 3 * k * N
    BY <2>2
  <2> QED
    BY <2>1, <2>3, <2>4, <2>5 DEF MemoryTypeOK, MemState, winner_count_end
<1>4. TypeOK
  <2>1. window \in Windows /\ ADDR_PIXEL = 0 /\ read_addr = 0 /\ write_addr = k
        /\ model_ring = 0 /\ passes = 0 /\ result_length = 0 /\ dig_detect_count = 0
    BY <1>1, Zenon DEF Init, MemoryInit
  <2>2. /\ Shift_EN_1 \in BOOLEAN /\ Shift_EN_2 \in BOOLEAN /\ check_winner_1 \in BOOLEAN
        /\ check_winner_2 \in BOOLEAN /\ winner \in BOOLEAN /\ set_back \in BOOLEAN
    BY Zenon DEF Init
  <2>3. LastColumn \in Nat
    BY DEF LastColumn
  <2>4. PassesToGain = 3 /\ MAX_out_L \in Nat /\ DetectRange \in Nat \ {0}
    BY AcceleratorAssumption DEF PassesToGain
  <2> QED
    BY <1>2, <1>3, <2>1, <2>2, <2>3, <2>4 DEF TypeOK
<1>5. ScoreAligned
  BY Zenon DEF Init, ScoreAligned
<1>6. is_idle
  BY <1>1 DEF is_idle
<1> QED
  BY <1>3, <1>4, <1>5, <1>6, Zenon DEF IInv

LEMMA InvStep == IInv /\ Next => IInv'
<1> SUFFICES ASSUME IInv, NEW load \in BOOLEAN, NEW rst \in BOOLEAN, NEW found \in BOOLEAN,
                    Clock(load, rst, found)
             PROVE  IInv'
  BY Zenon DEF Next
<1>1. TypeOK'
  <2>1. SystemTypeOK' /\ MemoryTypeOK'
    BY SystemTypesKept, MemoryTypesKept
  <2>2. /\ window' \in Windows /\ ADDR_PIXEL' \in 0 .. LastColumn
        /\ read_addr' \in 0 .. 2 * k - 1 /\ write_addr' \in k .. 2 * k - 1
        /\ passes' \in 0 .. PassesToGain
    BY DataTypesKept
  <2>3. /\ {Shift_EN_1', Shift_EN_2', check_winner_1', check_winner_2', winner'} \subseteq BOOLEAN
        /\ set_back' \in BOOLEAN /\ model_ring' \in 0 .. N - 1
        /\ result_length' \in 0 .. MAX_out_L /\ dig_detect_count' \in 0 .. DetectRange - 1
    BY ResultTypesKept
  <2> HIDE DEF IInv
  <2> QED
    BY <2>1, <2>2, <2>3 DEF TypeOK
<1>2. ScoreAligned'
  BY ResultTypesKept
<1>3. MemCounts' /\ MemAddresses'
  BY MemoryKept
<1>4. (~is_idle => Working)'
  <2>1. TypeOK
    BY Zenon DEF IInv
  <2>2. CASE corrent_state' = "idle"
    BY <2>2 DEF is_idle
  <2>3. CASE corrent_state' # "idle" /\ is_idle
    BY <2>1, <2>3, Started
  <2>4. CASE corrent_state' # "idle" /\ ~is_idle
    BY <2>4, WorkingKept
  <2> QED
    BY <2>2, <2>3, <2>4
<1> QED
  BY <1>1, <1>2, <1>3, <1>4 DEF IInv

LEMMA InvStutter == IInv /\ UNCHANGED vars => IInv'
<1> SUFFICES ASSUME IInv, UNCHANGED vars PROVE IInv'
  OBVIOUS
<1>0. TypeOK /\ ScoreAligned /\ (~is_idle => Working) /\ MemCounts /\ MemAddresses
  BY Zenon DEF IInv
<1>1. UNCHANGED systemVars /\ UNCHANGED memoryVars /\ UNCHANGED dataVars /\ UNCHANGED resultVars
      /\ window' = window /\ passes' = passes /\ set_back' = set_back
  BY Zenon DEF vars
<1> USE DEF systemVars, memoryVars, dataVars, resultVars
<1>2. MemCounts' /\ MemAddresses'
  BY <1>0, <1>1 DEF MemCounts, MemAddresses, MemFilter, MemClass, FcMemState
<1>3. TypeOK' /\ ScoreAligned'
  <2>1. SystemTypeOK' /\ MemoryTypeOK'
    BY <1>0, <1>1, Zenon DEF TypeOK, SystemTypeOK, MemoryTypeOK
  <2> QED
    BY <1>0, <1>1, <2>1, Zenon DEF TypeOK, ScoreAligned
<1>4. ASSUME Working PROVE Working'
  <2> USE <1>1, <1>4 DEF Working
  <2>0. SystemCounts'
    BY DEF SystemCounts
  <2>1. LastLine' /\ WinnerInTime' /\ Passes'
    BY DEF LastLine, WinnerInTime, Passes
  <2>2. Shifts'
    BY DEF Shifts
  <2>3. MachinesInStep'
    BY DEF MachinesInStep, LoadAhead, FcAhead, SysClass, SysFilter, MemClass, MemFilter, WaitRun
  <2>6. ColumnMoves'
    BY DEF ColumnMoves, Finished
  <2>7. ReluInStep'
    BY DEF ReluInStep, FirstRow, SysFilter
  <2>8. ConvInStep'
    BY DEF ConvInStep
  <2>9. WeightsInStep'
    BY DEF WeightsInStep, SysRow, SysClass, SysFilter, Finished
  <2>4. ColumnInStep' /\ PixelsInStep'
    BY Zenon DEF ColumnInStep, PixelsInStep, InFc, Ahead, Finished
  <2>5. Kept' /\ ProductInStep'
    BY Zenon DEF Kept, ProductInStep, Ahead, Finished, white_missed
  <2> QED
    BY <2>0, <2>1, <2>2, <2>3, <2>4, <2>5, <2>6, <2>7, <2>8, <2>9, Zenon
<1>5. is_idle' <=> is_idle
  BY <1>1 DEF is_idle
<1> QED
  BY <1>0, <1>2, <1>3, <1>4, <1>5, Zenon DEF IInv

LEMMA Invariance == Spec => []IInv
<1>1. IInv /\ [Next]_vars => IInv'
  BY InvStep, InvStutter
<1> HIDE DEF IInv, Init, Next, vars
<1> QED
  BY InvInit, <1>1, PTL DEF Spec

-----------------------------------------------------------------------------
(* What has to hold. *)

\* Every register keeps its range: the counters of System_SM never run past their ends,
\* no address leaves its memory, and the column stays an address of the image RAM.
THEOREM Typing == Spec => []TypeOK
<1>1. IInv => TypeOK
  BY DEF IInv
<1> QED
  BY Invariance, <1>1, PTL

\* The convolution multiplies, in every pass over a column of the window, the row of weights
\* of the filters whose result it writes, next to the row the last pass left there: one row
\* behind Memory_CU's address, two cycles later (Memory_CU.vhd, Relu_out_FIFO.vhd).
THEOREM ConvInTime == Spec => []ConvAligned
<1>1. IInv => ConvAligned
  <2>1. SUFFICES ASSUME IInv, ~LL_read, corrent_state = "RUN_CONV2D"
                 PROVE  ConvRows
    BY DEF ConvAligned, ConvRows
  <2>2. ReluInStep /\ ConvInStep
    BY <2>1 DEF IInv, Working, is_idle
  <2>3. /\ count_k \in Nat /\ passes \in Nat
    BY <2>1, TypeFacts, AcceleratorAssumption DEF IInv
  <2> QED
    BY <2>1, <2>2, <2>3, OcrDataAssumption DEF ConvRows, ReluInStep, ConvInStep, FirstRow
<1> QED
  BY Invariance, <1>1, PTL

\* The fully connected layer multiplies, for every class, pair of filters and part, the row
\* of weights, the bias and the row of the ReLU buffer that belong to them, although
\* System_SM, which says what is computed, and Memory_CU, which addresses the memories, only
\* meet at the start of a column.
THEOREM FcInTime == Spec => []FcAligned
<1>1. IInv => FcAligned
  <2>1. SUFFICES ASSUME IInv, ~LL_read
                 PROVE  FcRows
    BY DEF FcAligned
  <2>2. CASE is_idle
    BY <2>2 DEF is_idle, FcRows
  <2>3. CASE ~is_idle
    <3>1. ReluInStep /\ WeightsInStep
      BY <2>1, <2>3 DEF IInv, Working
    <3>2. SystemCounts
      BY <2>1, <2>3 DEF IInv, Working
    <3>3. count_k \in Nat /\ class_count \in Nat
      BY <2>1, TypeFacts DEF IInv
    <3>4. corrent_state = "First_FC" =>
            ram_q.wfc = 0 /\ ram_q.bfc = 0 /\ ram_q.relu = k
      <4>1. Base(1) = 0
        BY BaseFacts
      <4> QED
        BY <2>1, <3>1, <4>1, OcrDataAssumption
           DEF WeightsInStep, ReluInStep, SysRow, SysClass, SysFilter
    <3>5. corrent_state = "Next_Class" =>
            /\ ram_q.wfc = 3 * (Base(class_count + 1) + 1 - 1) + 0 /\ ram_q.bfc = class_count
            /\ ram_q.relu = k
      BY <2>1, <3>1, <3>3, OcrDataAssumption
         DEF WeightsInStep, ReluInStep, SysRow, SysClass, SysFilter
    <3>6. /\ corrent_state = "FC_P1" =>
               /\ ram_q.wfc = 3 * (Base(class_count) + count_k - 1) + 0
               /\ ram_q.relu = k + count_k - 1
          /\ corrent_state = "FC_P2" => ram_q.wfc = 3 * (Base(class_count) + count_k - 1) + 1
          /\ corrent_state \in {"FC_P3", "FC_P3_LK"} =>
               ram_q.wfc = 3 * (Base(class_count) + count_k - 1) + 2
      BY <2>1, <3>1, <3>2, <3>3, OcrDataAssumption
         DEF WeightsInStep, ReluInStep, SysRow, SysClass, SysFilter, SystemCounts
    <3> QED
      BY <3>4, <3>5, <3>6, Zenon DEF FcRows, Base
  <2> QED
    BY <2>2, <2>3
<1> QED
  BY Invariance, <1>1, PTL

\* A score reaches the comparator together with the threshold and the label of its own
\* class: model_reg_arr turns by one place for every score, N places for a column.
THEOREM ScoresInTime == Spec => []ScoreAligned
<1>1. IInv => ScoreAligned
  BY DEF IInv
<1> QED
  BY Invariance, <1>1, PTL

\* The three columns under the filters are neighbours of the image that end with the column
\* addressed; before the window's first column, and before the first after a winner, the
\* registers are white.
THEOREM ColumnsInOrder == Spec => []ColumnsConsecutive
<1>1. IInv => ColumnsConsecutive
  <2>1. SUFFICES ASSUME IInv, corrent_state = "RUN_CONV2D"
                 PROVE  ColumnsConsecutive
    BY DEF ColumnsConsecutive
  <2>2. /\ Kept /\ ProductInStep /\ ColumnInStep /\ LastLine
    BY <2>1 DEF IInv, Working, is_idle
  <2>3. ADDR_PIXEL \in 0 .. LastColumn /\ passes \in Nat
    BY <2>1, TypeFacts, AcceleratorAssumption DEF IInv
  <2>4. White = LastColumn + 1 /\ LastColumn \in Nat
    BY DEF White, LastColumn
  <2>5. /\ product.columns[1] = pixel_buffer_3 /\ product.columns[2] = pixel_buffer_2
        /\ product.columns[3] = IF LL_read /\ ~white_missed THEN White ELSE ADDR_PIXEL
    BY <2>1, <2>2 DEF ProductInStep
  <2>6. LL_read => ADDR_PIXEL = window.last
    BY <2>2 DEF LastLine, ColumnInStep
  <2>7. LET newest == IF LL_read THEN ADDR_PIXEL ELSE ADDR_PIXEL - 1
        IN  /\ pixel_buffer_2 = IF passes = 0 THEN White ELSE newest
            /\ pixel_buffer_3 = IF passes <= 1 THEN White ELSE newest - 1
    BY <2>1, <2>2 DEF Kept
  <2>8. white_missed => LL_read
    BY DEF white_missed
  <2> QED
    BY <2>3, <2>4, <2>5, <2>6, <2>7, <2>8 DEF ColumnsConsecutive
<1> QED
  BY Invariance, <1>1, PTL

\* The image RAM is asked for no column behind the window, and for one before it only when
\* a winner came in the first pass after the start or another winner, which takes back
\* more than the pass has gained; the accelerator is done at the last column, after the
\* white pass or on a winner.  Nothing is assumed of when winners come.
THEOREM InWindow == Spec => []WindowKept
<1>1. IInv => WindowKept
  <2>1. SUFFICES ASSUME IInv, ~is_idle
                 PROVE  WindowKept
    BY DEF WindowKept, is_idle, Done
  <2>2. ColumnInStep /\ Passes
    BY <2>1 DEF IInv, Working
  <2>3. ADDR_PIXEL \in Nat /\ window.first \in Nat /\ window.last \in Nat
    BY <2>1, ColumnFacts DEF IInv
  <2> QED
    BY <2>2, <2>3 DEF WindowKept, ColumnInStep, Passes, Done, At_final_line
<1> QED
  BY Invariance, <1>1, PTL

====
