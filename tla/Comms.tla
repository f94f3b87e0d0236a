------------------------------- MODULE Comms -------------------------------
(***************************************************************************)
(* The serial port between the host and the main loop: char_uart, its ring *)
(* of bytes and ring of sizes, filled by the receive interrupt and emptied *)
(* by load_message, and its output buffer, which a DMA channel reads while *)
(* the main loop goes on.                                                  *)
(*                                                                         *)
(* The interrupts of the UART and of the DMA have the highest priority:    *)
(* each is one step, between any two statements of the main loop.  Each    *)
(* ring has one writer and one reader, so it is a sequence.  A byte is the *)
(* number of its message, or the delimiter.  A ring does not say when it   *)
(* is full and the driver does not ask: the host leaves room.              *)
(*                                                                         *)
(* At an overrun the hardware has lost a byte, and the interrupt finds     *)
(* both the error and a byte to read.  The HAL notes the error and reads   *)
(* the byte first; the driver's callback starts the next receive, which    *)
(* clears the error that was noted: the reception goes on, and the error   *)
(* callback finds nothing to report.                                       *)
(***************************************************************************)
EXTENDS Integers, Sequences, Functions

CONSTANTS
  BufferSize,   \* bytes in rx_buffer::buffer
  SizesSize,    \* messages in rx_buffer::sizes
  InputSize,    \* length of INPUT_BUFFER of the main loop
  Lengths,      \* lengths of the messages the host sends
  Faults,       \* what may fail, as named below
  MaxMessages   \* bound of the messages sent

ASSUME CommsAssumption ==
  /\ {BufferSize, SizesSize, InputSize, MaxMessages} \subseteq Nat
  /\ Lengths \subseteq Nat
  /\ Faults \subseteq {"overrun", "dma", "restart", "transmit"}

VARIABLES
  sent,           \* lengths of the messages the host has begun to send
  line,           \* bytes of the last of them that are still to come
  receiving,      \* HAL: a receive is under way
  buffer,         \* rx_buffer::buffer
  sizes,          \* rx_buffer::sizes
  received_size,  \* char_rx_container::received_size
  pc,             \* next statement of the main loop
  size,           \* load_message: size
  data,           \* the bytes copied to INPUT_BUFFER
  tx_buffer,      \* char_uart::tx_buffer_: which message it answers
  tx_done,        \* char_uart::tx_done_
  dma,            \* a transfer is reading tx_buffer
  coming,         \* history: what has come since the last delimiter
  came,           \* history: the messages that have come
  taken,          \* history: how many of them the main loop has taken
  replied,        \* history: which of them were answered
  torn,           \* history: the host's messages that have lost a byte
  joined,         \* history: those that have lost their delimiter
  met,            \* history: the faults met
  reported        \* history: those the driver has told its sentry of

host_vars == <<sent, line>>
rx_vars == <<receiving, buffer, sizes, received_size, coming, came>>
main_vars == <<pc, size, data, taken>>
tx_vars == <<tx_buffer, tx_done, dma, replied>>
fault_vars == <<torn, joined, met, reported>>
vars == <<host_vars, rx_vars, main_vars, tx_vars, fault_vars>>

-----------------------------------------------------------------------------
Delim == 0

None == 0  \* tx_buffer holds nothing yet

(* The host starts another message if the rings have room for it.          *)
HostSends ==
  /\ line = << >>
  /\ Len(sent) < MaxMessages
  /\ Len(sizes) < SizesSize
  /\ \E n \in Lengths :
       /\ Len(buffer) + n <= BufferSize
       /\ sent' = Append(sent, n)
       /\ line' = Append([i \in 1 .. n |-> Len(sent) + 1], Delim)
  /\ UNCHANGED <<rx_vars, main_vars, tx_vars, fault_vars>>

-----------------------------------------------------------------------------
(* The interrupts of the UART and of its DMA channel.                      *)

Meets(fault) == fault \in Faults /\ met' = met \cup {fault}

Reports(fault) == reported' = reported \cup {fault}

EndOfMessage(byte) ==
  /\ byte = Delim
  /\ sizes' = Append(sizes, received_size)
  /\ received_size' = 0
  /\ came' = Append(came, coming)
  /\ coming' = << >>
  /\ UNCHANGED buffer

ByteOfMessage(byte) ==
  /\ byte # Delim
  /\ buffer' = Append(buffer, byte)
  /\ received_size' = received_size + 1
  /\ coming' = Append(coming, byte)
  /\ UNCHANGED <<sizes, came>>

on_rx_cplt_irq(byte) == EndOfMessage(byte) \/ ByteOfMessage(byte)

(* uart_rx_cplt_irq: stores the byte and starts the next receive, which    *)
(* may fail: the sentry stops the motor, and nothing is received any more. *)
rx_cplt_irq ==
  /\ receiving
  /\ line # << >>
  /\ line' = Tail(line)
  /\ on_rx_cplt_irq(Head(line))
  /\ \/ UNCHANGED <<receiving, met, reported>>
     \/ receiving' = FALSE /\ Meets("restart") /\ Reports("restart")
  /\ UNCHANGED <<sent, torn, joined, main_vars, tx_vars>>

(* What an overrun loses: a byte of a message, or a delimiter, and with it *)
(* the border between two messages.                                        *)
Loses(byte) ==
  \/ byte # Delim /\ torn' = torn \cup {Len(sent)} /\ UNCHANGED joined
  \/ byte = Delim /\ joined' = joined \cup {Len(sent)} /\ UNCHANGED torn

(* Mutant: the count begins anew after an overrun, the ring does not.      *)
overrun_irq_recounts ==
  /\ receiving
  /\ line # << >>
  /\ line' = Tail(line)
  /\ Loses(Head(line))
  /\ received_size' = 0
  /\ Meets("overrun")
  /\ UNCHANGED <<sent, receiving, buffer, sizes, coming, came, main_vars, tx_vars, reported>>

(* HAL_UART_IRQHandler at an overrun: RxISR, whose callback is the step    *)
(* rx_cplt_irq, has cleared ErrorCode, so the reception is not ended and   *)
(* uart_err_irq reports nothing.                                           *)
overrun_irq ==
  /\ receiving
  /\ line # << >>
  /\ line' = Tail(line)
  /\ Loses(Head(line))
  /\ Meets("overrun")
  /\ UNCHANGED <<sent, rx_vars, main_vars, tx_vars, reported>>

(* Nobody listens.                                                         *)
ByteLost ==
  /\ ~receiving
  /\ line # << >>
  /\ line' = Tail(line)
  /\ UNCHANGED <<sent, rx_vars, main_vars, tx_vars, fault_vars>>

(* Mutant: the end of a transfer is not noted.                             *)
tx_cplt_irq_unnoted ==
  /\ dma
  /\ dma' = FALSE
  /\ replied' = Append(replied, tx_buffer)
  /\ UNCHANGED <<host_vars, rx_vars, main_vars, tx_buffer, tx_done, fault_vars>>

tx_cplt_irq ==
  /\ dma
  /\ dma' = FALSE
  /\ tx_done' = TRUE
  /\ replied' = Append(replied, tx_buffer)
  /\ UNCHANGED <<host_vars, rx_vars, main_vars, tx_buffer, fault_vars>>

(* The HAL ends the transfer at an error of the DMA, and uart_err_irq      *)
(* reports a degraded state: tx_done_ stays false.                         *)
dma_err_irq ==
  /\ dma
  /\ dma' = FALSE
  /\ Meets("dma") /\ Reports("dma")
  /\ UNCHANGED <<host_vars, rx_vars, main_vars, tx_buffer, tx_done, replied, torn, joined>>

-----------------------------------------------------------------------------
(* The main loop: recv.                                                    *)

(* Mutant: a message that is too long is dropped, but only its size.       *)
refuse_drops ==
  /\ pc = "recv"
  /\ sizes # << >>
  /\ Head(sizes) > InputSize
  /\ sizes' = Tail(sizes)
  /\ taken' = taken + 1
  /\ UNCHANGED <<host_vars, receiving, buffer, received_size, coming, came, pc, size, data, tx_vars, fault_vars>>

(* load_message: a message longer than the input buffer stops the loop.    *)
refuse ==
  /\ pc = "recv"
  /\ sizes # << >>
  /\ Head(sizes) > InputSize
  /\ pc' = "stopped"
  /\ UNCHANGED <<host_vars, rx_vars, size, data, taken, tx_vars, fault_vars>>

(* Mutant: the bound is one too large.                                     *)
take_size_longer ==
  /\ pc = "recv"
  /\ sizes # << >>
  /\ Head(sizes) <= InputSize + 1
  /\ size' = Head(sizes)
  /\ sizes' = Tail(sizes)
  /\ taken' = taken + 1
  /\ pc' = "bytes"
  /\ UNCHANGED <<host_vars, receiving, buffer, received_size, coming, came, data, tx_vars, fault_vars>>

take_size ==
  /\ pc = "recv"
  /\ sizes # << >>
  /\ Head(sizes) <= InputSize
  /\ size' = Head(sizes)
  /\ sizes' = Tail(sizes)
  /\ taken' = taken + 1
  /\ pc' = "bytes"
  /\ UNCHANGED <<host_vars, receiving, buffer, received_size, coming, came, data, tx_vars, fault_vars>>

take_byte ==
  /\ pc = "bytes"
  /\ Len(data) < size
  /\ data' = Append(data, Head(buffer))
  /\ buffer' = Tail(buffer)
  /\ UNCHANGED <<host_vars, receiving, sizes, received_size, coming, came, pc, size, taken, tx_vars, fault_vars>>

(* Mutant: a message of one byte is not answered either.                   *)
skip_empty_one ==
  /\ pc = "bytes"
  /\ size <= 1
  /\ Len(data) = size
  /\ pc' = "recv"
  /\ size' = 0
  /\ data' = << >>
  /\ UNCHANGED <<host_vars, rx_vars, taken, tx_vars, fault_vars>>

(* An empty message is not answered.                                       *)
skip_empty ==
  /\ pc = "bytes"
  /\ size = 0
  /\ pc' = "recv"
  /\ UNCHANGED <<host_vars, rx_vars, size, data, taken, tx_vars, fault_vars>>

(* handle_message writes a reply for whatever the message holds.           *)
handle_message ==
  /\ pc = "bytes"
  /\ size > 0
  /\ Len(data) = size
  /\ pc' = "spin"
  /\ UNCHANGED <<host_vars, rx_vars, size, data, taken, tx_vars, fault_vars>>

-----------------------------------------------------------------------------
(* The main loop: send.                                                    *)

spin_done ==
  /\ pc = "spin"
  /\ tx_done
  /\ pc' = "fill"
  /\ UNCHANGED <<host_vars, rx_vars, size, data, taken, tx_vars, fault_vars>>

(* Mutant: send waits for ever.                                            *)
spin_timeout_never ==
  /\ pc = "spin"
  /\ ~tx_done
  /\ ~dma
  /\ UNCHANGED vars

(* The timeout of 100 ms is longer than a transfer of the whole buffer     *)
(* (44 ms), so it comes only if no transfer will end.                      *)
spin_timeout ==
  /\ pc = "spin"
  /\ ~tx_done
  /\ ~dma
  /\ pc' = "stopped"
  /\ UNCHANGED <<host_vars, rx_vars, size, data, taken, tx_vars, fault_vars>>

fill ==
  /\ pc = "fill"
  /\ tx_buffer' = taken
  /\ pc' = "clear"
  /\ UNCHANGED <<host_vars, rx_vars, size, data, taken, tx_done, dma, replied, fault_vars>>

(* Mutant: send does not say that a transfer runs.                         *)
clear_done_left ==
  /\ pc = "clear"
  /\ pc' = "transmit"
  /\ UNCHANGED <<host_vars, rx_vars, size, data, taken, tx_vars, fault_vars>>

clear_done ==
  /\ pc = "clear"
  /\ tx_done' = FALSE
  /\ pc' = "transmit"
  /\ UNCHANGED <<host_vars, rx_vars, size, data, taken, tx_buffer, dma, replied, fault_vars>>

(* Mutant: tx_done_ is set back after the transfer was started.            *)
transmit_first ==
  /\ \/ /\ pc = "transmit"
        /\ tx_done' = TRUE
        /\ dma' = TRUE
        /\ pc' = "late"
        /\ UNCHANGED <<size, data>>
     \/ /\ pc = "late"
        /\ tx_done' = FALSE
        /\ pc' = "recv"
        /\ size' = 0
        /\ data' = << >>
        /\ UNCHANGED dma
  /\ UNCHANGED <<host_vars, rx_vars, taken, tx_buffer, replied, fault_vars>>

transmit ==
  /\ pc = "transmit"
  /\ dma' = TRUE
  /\ pc' = "recv"
  /\ size' = 0
  /\ data' = << >>
  /\ UNCHANGED <<host_vars, rx_vars, taken, tx_buffer, tx_done, replied, fault_vars>>

transmit_fails ==
  /\ pc = "transmit"
  /\ pc' = "stopped"
  /\ Meets("transmit") /\ Reports("transmit")
  /\ UNCHANGED <<host_vars, rx_vars, size, data, taken, tx_vars, torn, joined>>

-----------------------------------------------------------------------------
Init ==
  /\ sent = << >>
  /\ line = << >>
  /\ receiving = TRUE
  /\ buffer = << >>
  /\ sizes = << >>
  /\ received_size = 0
  /\ coming = << >>
  /\ came = << >>
  /\ pc = "recv"
  /\ size = 0
  /\ data = << >>
  /\ taken = 0
  /\ tx_buffer = None
  /\ tx_done = TRUE
  /\ dma = FALSE
  /\ replied = << >>
  /\ torn = {}
  /\ joined = {}
  /\ met = {}
  /\ reported = {}

recv == refuse \/ take_size \/ take_byte \/ skip_empty

send == spin_done \/ spin_timeout \/ fill \/ clear_done \/ transmit \/ transmit_fails

main == recv \/ handle_message \/ send

Next ==
  \/ HostSends
  \/ rx_cplt_irq \/ overrun_irq \/ ByteLost
  \/ tx_cplt_irq \/ dma_err_irq
  \/ main

(* The interrupts take a bounded part of the time, and a transfer ends.    *)
Fairness ==
  /\ WF_vars(main)
  /\ WF_vars(tx_cplt_irq \/ dma_err_irq)

Spec == Init /\ [][Next]_vars /\ Fairness

-----------------------------------------------------------------------------
(* Properties                                                              *)

(* Every variable holds a value of its type, and no ring holds more than   *)
(* it has room for (rx_buffer.hpp:12-13).                                  *)
TypeOK ==
  /\ sent \in Seq(Lengths)
  /\ line \in Seq(Nat)
  /\ receiving \in BOOLEAN
  /\ buffer \in Seq(Nat \ {Delim}) /\ Len(buffer) <= BufferSize
  /\ sizes \in Seq(Nat) /\ Len(sizes) <= SizesSize
  /\ received_size \in 0 .. BufferSize
  /\ coming \in Seq(Nat \ {Delim})
  /\ came \in Seq(Seq(Nat \ {Delim})) /\ Len(came) <= Len(sent)
  /\ pc \in {"recv", "bytes", "spin", "fill", "clear", "transmit", "stopped"}
  /\ size \in 0 .. InputSize
  /\ data \in Seq(Nat \ {Delim}) /\ Len(data) <= size
  /\ taken \in 0 .. Len(came)
  /\ tx_buffer \in Nat
  /\ tx_done \in BOOLEAN
  /\ dma \in BOOLEAN
  /\ replied \in Seq(Nat)
  /\ torn \cup joined \subseteq 1 .. Len(sent)
  /\ met \subseteq Faults /\ reported \subseteq Faults

(* Where the messages of the ring of sizes begin in the buffer, and where  *)
(* the last of them ends: behind what is left of the one in hand.          *)
Fits(f) ==
  /\ f[1] = size - Len(data)
  /\ \A i \in 1 .. Len(sizes) : f[i + 1] = f[i] + sizes[i]

Starts == CHOOSE f \in [1 .. Len(sizes) + 1 -> 0 .. Len(buffer)] : Fits(f)

(* The messages that lie in the rings, and the one in hand.                *)
Queued ==
  [i \in 1 .. Len(sizes) |-> SubSeq(buffer, Starts[i] + 1, Starts[i] + sizes[i])]

InHand == data \o SubSeq(buffer, 1, size - Len(data))

(* The rings give the main loop what comes over the line, cut at the       *)
(* delimiters: each message once, in order, with every byte that came,     *)
(* although the interrupt adds to both rings in the middle of              *)
(* load_message and whatever an overrun takes from the line                *)
(* (rx_buffer.cpp:11-27, char_rx_container.hpp:15-27).                     *)
Queue == INSTANCE MessageQueue WITH queue <- Queued, message <- InHand

DeliversMessages == Queue!Spec

(* The host's message m, as it was sent.                                   *)
Message(m) == [i \in 1 .. sent[m] |-> m]

(* No byte of m was lost, and neither of the delimiters around it.         *)
Intact(m) == m \notin torn \cup joined /\ m - 1 \notin joined

(* All of m is over.                                                       *)
Over(m) == m < Len(sent) \/ (m = Len(sent) /\ line = << >>)

(* What an overrun damages does not spread: every message of the host that *)
(* it did not touch comes, and whatever the rings or the hands of the main *)
(* loop hold of it is the whole message and nothing else, for the driver   *)
(* begins anew at each delimiter (char_rx_container.hpp:20-22,             *)
(* stm32h5xx_hal_uart.c:2279-2301).                                        *)
DamageIsLocal ==
  /\ receiving =>
       \A m \in 1 .. Len(sent) : Over(m) /\ Intact(m) => Message(m) \in Range(came)
  /\ \A w \in Range(Queued) \cup {InHand} :
       \A k \in DOMAIN w : Intact(w[k]) => w = Message(w[k])

(* The replies leave in the order of the messages that came, one for each  *)
(* that is not empty: no reply is overwritten while it leaves              *)
(* (char_uart.hpp:73).                                                     *)
RepliesInOrder ==
  /\ \A j, k \in 1 .. Len(replied) : j < k => replied[j] < replied[k]
  /\ \A j \in 1 .. Len(replied) :
       /\ replied[j] \in 1 .. Len(came) /\ came[replied[j]] # << >>
       /\ \A m \in 1 .. replied[j] : came[m] # << >> => m \in Range(replied)

(* The output buffer is written, and a transfer started, only when none is *)
(* reading the buffer (char_uart.hpp:73-98).                               *)
OutputOwned == dma => pc \notin {"fill", "clear", "transmit"}

OutputStable == [][dma => UNCHANGED tx_buffer]_vars

(* The main loop stops only for a message longer than its buffer, for two  *)
(* that were joined by the loss of a delimiter, or for a transfer that     *)
(* failed: neither a byte lost from a message nor the handshake by         *)
(* tx_done_, however early a transfer ends, stops it                       *)
(* (rx_buffer.cpp:18, char_uart.hpp:92-98).                                *)
TransferFailed == met \cap {"dma", "transmit"} # {}

StopsForCause ==
  pc = "stopped" =>
    \/ \E m \in DOMAIN sent : sent[m] > InputSize
    \/ joined # {}
    \/ TransferFailed

(* Every message that came and is not empty is answered, unless a longer   *)
(* one stops the main loop or a transfer fails (main.cpp:45-62).           *)
Answered ==
  \A m \in 1 .. MaxMessages :
    (m <= Len(came) /\ came[m] # << >>)
      ~> m \in Range(replied) \/ pc = "stopped" \/ TransferFailed

(* A call of recv or send ends, whatever fails: send does not wait for a   *)
(* transfer that will never end (interfaces.hpp:95-102).                   *)
CallEnds == pc \notin {"recv", "stopped"} ~> pc \in {"recv", "stopped"}

=============================================================================
