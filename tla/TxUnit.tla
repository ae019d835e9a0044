------------------------------- MODULE TxUnit -------------------------------
(***************************************************************************)
(* TX_UNIT, the read side of the AHIM's data port (TX_UNIT.sv), with the   *)
(* read port of the result buffer behind it (Result_FILO.sv: an address    *)
(* and two register stages) and the bus register in front (pio128_in.sv).  *)
(* TxEdge moves the registers by one clock cycle.                          *)
(*                                                                         *)
(* A word is read in four beats.  The first word is the header, the number *)
(* of words that follow.  A data word stands for its address in the        *)
(* buffer.                                                                 *)
(* A definition <operator>_<fault> is the operator with that fault.        *)
(***************************************************************************)
EXTENDS Naturals

CONSTANT watchdog_tx_conf   \* cycles a read may wait

\* Its unit is 256 cycles (TX_WD_SHIFT).  A read may come while the next word is on its way
\* through the buffer: with less than 3 cycles the watchdog bites a healthy transfer.
ASSUME TxWatchdogAssumption == watchdog_tx_conf \in Nat /\ watchdog_tx_conf >= 3

VARIABLES
  valid_read, read_reg_1, read_count,
  en_reg_1, en_rise_reg, header_sent_reg,
  valid_data_0, valid_data_1, valid_data_2, valid_data_3,
  send_line_count,
  tx_watchdog_counter, watchdog_tx_trigger,
  addr_out, addr_out_reg, filo_q,    \* Result_FILO
  avs_readdata                       \* pio128_in

txVars == <<valid_read, read_reg_1, read_count, en_reg_1, en_rise_reg, header_sent_reg,
            valid_data_0, valid_data_1, valid_data_2, valid_data_3, send_line_count,
            tx_watchdog_counter, watchdog_tx_trigger, addr_out, addr_out_reg, filo_q,
            avs_readdata>>

READS == 4

Header  == <<"header", 0>>
Word(a) == <<"word", a>>

TxInit ==
  /\ valid_read = FALSE /\ read_reg_1 = FALSE /\ read_count = 0
  /\ en_reg_1 = FALSE /\ en_rise_reg = FALSE /\ header_sent_reg = FALSE
  /\ valid_data_0 = FALSE /\ valid_data_1 = FALSE
  /\ valid_data_2 = FALSE /\ valid_data_3 = FALSE /\ send_line_count = 0
  /\ tx_watchdog_counter = 0 /\ watchdog_tx_trigger = FALSE
  /\ addr_out = 0 /\ addr_out_reg = 0 /\ filo_q = 0 /\ avs_readdata = Word(0)

at_read_count == read_count = READS - 1
valid_data    == valid_read /\ header_sent_reg
read_fall(read) == ~read /\ read_reg_1
at_head_count_Early(headcount) == headcount = send_line_count + 1
at_head_count(headcount) == headcount = send_line_count
tx_done(read, headcount) == at_head_count(headcount) /\ read_fall(read)
pop(headcount) == valid_data /\ ~at_head_count(headcount)
PIO_IN(read) == IF en_rise_reg /\ ~read_fall(read) THEN Header ELSE Word(filo_q)
waitrequest_in(tx_en) == ~(watchdog_tx_trigger \/ (valid_data_3 /\ tx_en))

\* The next data word is offered when it has come through the buffer's two
\* register stages.
valid_data_next_Early(read_now) ==
  en_rise_reg \/ (~read_now /\ valid_data_3) \/ valid_data_1

valid_data_next_Once(read_now) == en_rise_reg \/ (~read_now /\ valid_data_3)

valid_data_next(read_now) ==
  en_rise_reg \/ (~read_now /\ valid_data_3) \/ valid_data_2

\* valid_read is assigned with = and used below it: read_now is its new value.
HandshakeEdge(read, tx_en, headcount, read_now) ==
  /\ valid_data_0' = valid_data /\ valid_data_1' = valid_data_0
  /\ valid_data_2' = valid_data_1 /\ valid_data_3' = valid_data_next(read_now)
  /\ en_reg_1' = tx_en /\ read_reg_1' = read_now
  /\ en_rise_reg' = (~read_fall(read) /\ (en_rise_reg \/ (tx_en /\ ~en_reg_1)))
  /\ header_sent_reg' = ((~tx_en \/ en_reg_1) /\ (header_sent_reg \/ read_fall(read)))
  /\ send_line_count' = IF /\ read_now /\ valid_data_3 /\ header_sent_reg
                           /\ ~at_head_count(headcount)
                        THEN send_line_count + 1 ELSE send_line_count

TxWatchdogEdge(read, tx_en) ==
  IF (valid_data_3 /\ tx_en) \/ ~read
  THEN tx_watchdog_counter' = 0 /\ watchdog_tx_trigger' = FALSE
  ELSE IF tx_watchdog_counter = watchdog_tx_conf
       THEN watchdog_tx_trigger' = TRUE /\ UNCHANGED tx_watchdog_counter
       ELSE tx_watchdog_counter' = tx_watchdog_counter + 1 /\ UNCHANGED watchdog_tx_trigger

\* The read port: empty means read up to what was pushed (headcount words).
BufferEdge(headcount, Clear_buff) ==
  /\ addr_out' = IF Clear_buff THEN 0
                 ELSE IF pop(headcount) /\ addr_out # headcount THEN addr_out + 1
                 ELSE addr_out
  /\ addr_out_reg' = addr_out /\ filo_q' = addr_out_reg

TxEdge(read, tx_en, headcount, Clear_buff) ==
  LET read_now == at_read_count /\ read IN
  /\ valid_read' = read_now
  /\ BufferEdge(headcount, Clear_buff)
  /\ avs_readdata' = PIO_IN(read)
  /\ \/ /\ Clear_buff
        /\ read_count' = 0 /\ send_line_count' = 0
        /\ tx_watchdog_counter' = 0 /\ watchdog_tx_trigger' = FALSE
        /\ read_reg_1' = FALSE
        /\ en_reg_1' = FALSE /\ en_rise_reg' = FALSE /\ header_sent_reg' = FALSE
        /\ valid_data_0' = FALSE /\ valid_data_1' = FALSE
        /\ valid_data_2' = FALSE /\ valid_data_3' = FALSE
     \/ /\ ~Clear_buff
        /\ read_count' = IF read_now THEN 0
                         ELSE IF read /\ ~waitrequest_in(tx_en)
                              THEN (read_count + 1) % 8 ELSE read_count
        /\ HandshakeEdge(read, tx_en, headcount, read_now)
        /\ TxWatchdogEdge(read, tx_en)
=============================================================================
