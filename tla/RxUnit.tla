------------------------------- MODULE RxUnit -------------------------------
(***************************************************************************)
(* RX_UNIT, the write side of the AHIM's data port (RX_UNIT.sv), with the  *)
(* bus register in front of it (pio128_out.sv).  Registers only: RxEdge    *)
(* moves them by one clock cycle under the signals the composition         *)
(* (AhimLink) connects.                                                    *)
(*                                                                         *)
(* The processor writes a 128-bit word as four beats; the unit stores what *)
(* the bus register holds after the fourth.                                *)
(* A definition <operator>_<fault> is the operator with that fault.        *)
(***************************************************************************)
EXTENDS Naturals

CONSTANT watchdog_rx_conf   \* cycles a write may wait while the unit is off

ASSUME RxWatchdogAssumption == watchdog_rx_conf \in Nat \ {0}

VARIABLES
  write, PIO_OUT,                \* pio128_out: strobe and data, a cycle after the bus
  write_reg_1, write_fall,       \* write_fall is the registered RISE of write
  rx_en_reg_1, first_rx_en,
  waitrequest_out,
  write_count, valid_write, burst_count, addr_reg,
  rx_watchdog_counter, watchdog_rx_trigger

rxVars == <<write, PIO_OUT, write_reg_1, write_fall, rx_en_reg_1, first_rx_en,
            waitrequest_out, write_count, valid_write, burst_count, addr_reg,
            rx_watchdog_counter, watchdog_rx_trigger>>

BEATS == 4

RxInit(data) ==
  /\ write = FALSE /\ PIO_OUT = data /\ write_reg_1 = FALSE /\ write_fall = FALSE
  /\ rx_en_reg_1 = FALSE /\ first_rx_en = FALSE /\ waitrequest_out = FALSE
  /\ write_count = 0 /\ valid_write = FALSE /\ burst_count = 0 /\ addr_reg = 0
  /\ rx_watchdog_counter = 0 /\ watchdog_rx_trigger = FALSE

at_write_count == write_count = BEATS - 1

RX_done_Level(expected_packages) == burst_count = expected_packages

\* The unit is done in the cycle after the last beat, but only if the bus was
\* idle in the cycle before that beat.
RX_done(expected_packages) == burst_count = expected_packages /\ write_fall

RxWatchdogEdge(rx_wait_enable) ==
  IF rx_wait_enable \/ ~write
  THEN rx_watchdog_counter' = 0 /\ watchdog_rx_trigger' = FALSE
  ELSE IF rx_watchdog_counter = watchdog_rx_conf
       THEN watchdog_rx_trigger' = TRUE /\ UNCHANGED rx_watchdog_counter
       ELSE rx_watchdog_counter' = rx_watchdog_counter + 1 /\ UNCHANGED watchdog_rx_trigger

\* waitrequest_out is assigned with = and used below it: the counters already
\* see its new value.
CountEdge_NoReset(rx_wait_enable, waiting) ==
  /\ write_count' = IF write /\ ~waiting THEN write_count + 1 ELSE write_count
  /\ burst_count' = IF ~rx_wait_enable THEN 0
                    ELSE IF at_write_count /\ write /\ ~waiting
                         THEN burst_count + 1 ELSE burst_count

CountEdge(rx_wait_enable, waiting) ==
  /\ write_count' = IF write /\ at_write_count THEN 0
                    ELSE IF write /\ ~waiting THEN write_count + 1 ELSE write_count
  /\ burst_count' = IF ~rx_wait_enable THEN 0
                    ELSE IF at_write_count /\ write /\ ~waiting
                         THEN burst_count + 1 ELSE burst_count

addr_rx_next_Running == IF valid_write THEN addr_reg + 1 ELSE addr_reg

addr_rx_next == IF first_rx_en THEN 0 ELSE IF valid_write THEN addr_reg + 1 ELSE addr_reg

\* Clear_buff leaves waitrequest_out and write_count alone.
RxEdge(avs_write, avs_writedata, rx_wait_enable, Clear_buff) ==
  /\ write' = avs_write
  /\ PIO_OUT' = IF avs_write THEN avs_writedata ELSE PIO_OUT
  /\ write_reg_1' = write /\ write_fall' = (~write_reg_1 /\ write)
  /\ rx_en_reg_1' = rx_wait_enable /\ first_rx_en' = (rx_wait_enable /\ ~rx_en_reg_1)
  /\ \/ /\ Clear_buff
        /\ addr_reg' = 0 /\ burst_count' = 0 /\ valid_write' = FALSE
        /\ rx_watchdog_counter' = 0 /\ watchdog_rx_trigger' = FALSE
        /\ UNCHANGED <<waitrequest_out, write_count>>
     \/ /\ ~Clear_buff
        /\ valid_write' = (at_write_count /\ write)
        /\ waitrequest_out' = ~(rx_wait_enable \/ watchdog_rx_trigger)
        /\ RxWatchdogEdge(rx_wait_enable)
        /\ CountEdge(rx_wait_enable, waitrequest_out')
        /\ addr_reg' = addr_rx_next
=============================================================================
