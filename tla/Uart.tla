-------------------------------- MODULE Uart --------------------------------
(***************************************************************************)
(* The console port (uart.rs) with the bank around it (bank.rs): the host  *)
(* types into an mpsc channel, a bank tick moves the channel into the      *)
(* receive queue and samples the interrupt line, and the firmware reads    *)
(* and writes the four registers.  The baud divisor is stored and read     *)
(* back and nothing depends on it, so it is left out.                      *)
(***************************************************************************)
EXTENDS Integers, Sequences, SequencesExt

CONSTANTS UartBytes, TxLogCapacity,
          MaxIn, MaxOut    \* bytes typed and bytes printed: bounds of the instance

ASSUME UartAssumption == /\ TxLogCapacity \in Nat \ {0}
                         /\ MaxIn \in Nat /\ MaxOut \in Nat

VARIABLES
    ier,          \* Uart.ier, as its set bits
    rx_queue,     \* Uart.rx_queue
    tx_log,       \* Uart.tx_log: the last TxLogCapacity bytes printed
    rx_channel,   \* uart_rx_sender -> uart_rx_receiver
    irq_pending,  \* PeripheralBank.irq_pending: line 5, as of the last tick
    typed, taken, printed   \* history: what went in, what the firmware read, what it printed

uart_vars == <<ier, rx_queue, tx_log, rx_channel, irq_pending, typed, taken, printed>>

TxEnable == 6
RxEnable == 2
RxEmpty == 5

uart_Init == /\ ier = {} /\ rx_queue = <<>> /\ tx_log = <<>> /\ rx_channel = <<>>
             /\ irq_pending = FALSE
             /\ typed = <<>> /\ taken = <<>> /\ printed = <<>>

(* Uart::irq_pending: a level, computed from the enables and the queue.    *)
uart_irq(e, q) == TxEnable \in e \/ (RxEnable \in e /\ q # <<>>)

(* Uart::read_ier: bit 5 tells an empty queue, bit 7 is always set.        *)
read_ier == (IF rx_queue = <<>> THEN ier \cup {RxEmpty} ELSE ier \ {RxEmpty}) \cup {7}

(* Uart::peek_word, for the observer: the head of the queue stays there.   *)
uart_peek == IF rx_queue = <<>> THEN 0 ELSE Head(rx_queue)

(* The host's side of the channel.                                         *)
Type == /\ Len(typed) < MaxIn
        /\ \E b \in UartBytes : /\ rx_channel' = Append(rx_channel, b)
                                /\ typed' = Append(typed, b)
        /\ UNCHANGED <<ier, rx_queue, tx_log, irq_pending, taken, printed>>

(* PeripheralBank::tick, the part that concerns the console.               *)
uart_tick == /\ rx_queue' = rx_queue \o rx_channel
             /\ rx_channel' = <<>>
             /\ irq_pending' = uart_irq(ier, rx_queue \o rx_channel)
             /\ UNCHANGED <<ier, tx_log, typed, taken, printed>>

(* A read of DATA, of any width and in any of the eight mirrors: it pops.  *)
ReadData == /\ rx_queue' = (IF rx_queue = <<>> THEN rx_queue ELSE Tail(rx_queue))
            /\ taken' = taken \o (IF rx_queue = <<>> THEN <<>> ELSE <<uart_peek>>)
            /\ UNCHANGED <<ier, tx_log, rx_channel, irq_pending, typed, printed>>

(* Uart::log_tx_byte: the oldest byte leaves a full ring.                  *)
log_tx_byte(b) ==
    Append(IF Len(tx_log) = TxLogCapacity THEN Tail(tx_log) ELSE tx_log, b)

WriteData == /\ Len(printed) < MaxOut
             /\ \E b \in UartBytes : /\ tx_log' = log_tx_byte(b)
                                     /\ printed' = Append(printed, b)
             /\ UNCHANGED <<ier, rx_queue, rx_channel, irq_pending, typed, taken>>

WriteIer == /\ ier' \in SUBSET {RxEnable, RxEmpty, TxEnable}
            /\ UNCHANGED <<rx_queue, tx_log, rx_channel, irq_pending, typed, taken, printed>>

(* UartEvent::Bytes goes straight to the queue, past the channel; it is    *)
(* modelled when nothing waits there, so that the order typed is defined.  *)
InjectBytes == /\ rx_channel = <<>> /\ Len(typed) < MaxIn
               /\ \E b \in UartBytes : /\ rx_queue' = Append(rx_queue, b)
                                       /\ typed' = Append(typed, b)
               /\ UNCHANGED <<ier, tx_log, rx_channel, irq_pending, taken, printed>>

ClearTxLog == /\ tx_log' = <<>> /\ printed' = <<>>
              /\ UNCHANGED <<ier, rx_queue, rx_channel, irq_pending, typed, taken>>

(* Uart::reset_cold under PeripheralBank::reset_cold: what was queued is   *)
(* forgotten, what is still in the channel and the log are not.            *)
uart_reset == /\ ier' = {} /\ rx_queue' = <<>> /\ irq_pending' = FALSE
              /\ typed' = taken \o rx_channel
              /\ UNCHANGED <<tx_log, rx_channel, taken, printed>>

uart_Next == \/ Type \/ uart_tick \/ ReadData \/ WriteData \/ WriteIer
             \/ InjectBytes \/ ClearTxLog \/ uart_reset

-----------------------------------------------------------------------------
(* Console input arrives in the order it was typed, none twice and none    *)
(* missing but what a reset dropped from the queue, wherever it is between *)
(* the host's channel and the firmware; the panel shows the tail of what   *)
(* the firmware printed.                                                   *)
ConsoleKeepsOrder ==
    /\ typed = taken \o rx_queue \o rx_channel
    /\ tx_log = SubSeq(printed, Len(printed) - Len(tx_log) + 1, Len(printed))
    /\ Len(tx_log) = IF Len(printed) < TxLogCapacity THEN Len(printed) ELSE TxLogCapacity

=============================================================================
