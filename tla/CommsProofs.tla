---------------------------- MODULE CommsProofs ----------------------------
(***************************************************************************)
(* What holds of the serial port for rings and messages of every size and  *)
(* every choice of faults: the output buffer is never written while it is  *)
(* read, the main loop stops only for a cause, replies leave in order, and *)
(* the port implements MessageQueue.                                       *)
(*                                                                         *)
(* The first two need an invariant of the output side (who may start a     *)
(* transfer) and one of the input side (what the sizes in the ring can     *)
(* be).  The others need to know where in the buffer each message lies:    *)
(* Layout says it of every function from messages to places that fits the  *)
(* sizes.                                                                  *)
(***************************************************************************)
EXTENDS Comms, TLAPS

(* The types the two parts need.                                           *)
Types ==
  /\ sent \in Seq(Nat)
  /\ line \in Seq(Nat)
  /\ sizes \in Seq(Nat)
  /\ received_size \in Nat
  /\ receiving \in BOOLEAN
  /\ tx_done \in BOOLEAN
  /\ dma \in BOOLEAN

(* What comes over the line is one message and its delimiter.  As long as  *)
(* no delimiter is lost, no more has come of it than has left the line.    *)
Counted ==
  /\ \A i \in 1 .. Len(line) : line[i] = Delim <=> i = Len(line)
  /\ line # << >> => sent # << >>
  /\ receiving /\ joined = {} =>
       IF line = << >> THEN received_size = 0
                       ELSE received_size + Len(line) <= sent[Len(sent)] + 1

(* Then no size in the ring is greater than the length of some message.    *)
Sized ==
  joined = {} => \A i \in 1 .. Len(sizes) : \E m \in 1 .. Len(sent) : sizes[i] <= sent[m]

(* tx_done_ is set between the transfers, and only a fault leaves it       *)
(* unset when no transfer runs.                                            *)
Handshake ==
  /\ tx_done => ~dma
  /\ pc \in {"fill", "clear"} => tx_done
  /\ pc = "transmit" => ~tx_done /\ ~dma
  /\ ~tx_done /\ ~dma /\ pc # "transmit" => met \cap {"dma", "transmit"} # {}

Inv == Types /\ Counted /\ Sized /\ Handshake /\ StopsForCause

USE DEF Delim, None, Meets, Reports
-----------------------------------------------------------------------------
LEMMA InitInv == ASSUME CommsAssumption, Init PROVE Inv
<1>1. << >> \in Seq(Nat) /\ Len(<< >>) = 0
  OBVIOUS
<1>2. Types /\ Counted /\ Sized
  <2>1. Types
    BY <1>1 DEF Init, Types
  <2>2. Len(line) = 0 /\ Len(sizes) = 0 /\ \A i \in 1 .. 0 : FALSE
    BY <1>1 DEF Init
  <2>3. Counted
    BY <2>2 DEF Init, Counted
  <2>4. Sized
    BY <2>2 DEF Init, Sized
  <2> QED BY <2>1, <2>3, <2>4
<1>3. Handshake /\ StopsForCause
  BY DEF Init, Handshake, StopsForCause, TransferFailed
<1> QED BY <1>2, <1>3 DEF Inv

LEMMA Empty == \A s \in Seq(Nat) : s = << >> <=> Len(s) = 0
OBVIOUS

LEMMA HeadTail ==
  ASSUME NEW s \in Seq(Nat), s # << >>
  PROVE  /\ Head(s) = s[1]
         /\ Tail(s) \in Seq(Nat)
         /\ Len(Tail(s)) = Len(s) - 1
         /\ Len(s) \in Nat \ {0}
         /\ \A i \in 1 .. Len(s) - 1 : Tail(s)[i] = s[i + 1]
  OBVIOUS

(* A byte leaves the line.                                                 *)
LEMMA LineShrinks ==
  ASSUME Types, Counted, line # << >>, line' = Tail(line)
  PROVE  /\ line' \in Seq(Nat)
         /\ Len(line') = Len(line) - 1
         /\ \A i \in 1 .. Len(line') : line'[i] = Delim <=> i = Len(line')
         /\ line' = << >> <=> Len(line) = 1
         /\ Head(line) = Delim <=> Len(line) = 1
         /\ Len(line) \in Nat \ {0}
<1>1. /\ line \in Seq(Nat)
      /\ \A i \in 1 .. Len(line) : line[i] = Delim <=> i = Len(line)
  BY DEF Types, Counted
<1>2. /\ Head(line) = line[1]
      /\ Tail(line) \in Seq(Nat)
      /\ Len(Tail(line)) = Len(line) - 1
      /\ Len(line) \in Nat \ {0}
      /\ \A i \in 1 .. Len(line) - 1 : Tail(line)[i] = line[i + 1]
  BY <1>1, HeadTail
<1>3. \A i \in 1 .. Len(line) - 1 : i + 1 \in 1 .. Len(line) /\ (i = Len(line) - 1 <=> i + 1 = Len(line))
  BY <1>2
<1>4. \A i \in 1 .. Len(line') : line'[i] = Delim <=> i = Len(line')
  BY <1>1, <1>2, <1>3
<1>5. line' = << >> <=> Len(line) = 1
  <2>1. Tail(line) = << >> <=> Len(Tail(line)) = 0
    BY <1>2, Empty
  <2>2. Len(line) - 1 = 0 <=> Len(line) = 1
    BY <1>2
  <2> QED BY <1>2, <2>1, <2>2
<1>6. Head(line) = Delim <=> Len(line) = 1
  <2>1. 1 \in 1 .. Len(line)
    BY <1>2
  <2>2. line[1] = Delim <=> 1 = Len(line)
    BY <1>1, <2>1
  <2> QED BY <1>2, <2>2
<1> QED BY <1>2, <1>4, <1>5, <1>6

-----------------------------------------------------------------------------
(* Every step keeps the invariant.                                         *)

LEMMA SendsInv == ASSUME CommsAssumption, Inv, HostSends PROVE Inv'
<1>1. PICK n \in Lengths :
        /\ sent' = Append(sent, n)
        /\ line' = Append([i \in 1 .. n |-> Len(sent) + 1], Delim)
  BY DEF HostSends
<1>2. n \in Nat /\ line = << >> /\ sent \in Seq(Nat)
  BY DEF CommsAssumption, HostSends, Inv, Types
<1> DEFINE s == [i \in 1 .. n |-> Len(sent) + 1]
<1>3. s \in Seq(Nat) /\ Len(s) = n /\ \A i \in 1 .. n : s[i] = Len(sent) + 1
  BY <1>2
<1>4. Len(sent) + 1 # Delim
  BY <1>2
<1> HIDE DEF s
<1>5. line' = Append(s, Delim)
  BY <1>1 DEF s
<1>6. /\ line' \in Seq(Nat)
      /\ Len(line') = n + 1
      /\ \A i \in 1 .. n : line'[i] = s[i]
      /\ line'[n + 1] = Delim
  BY <1>2, <1>3, <1>5
<1>7. \A i \in 1 .. Len(line') : line'[i] = Delim <=> i = Len(line')
  BY <1>2, <1>3, <1>4, <1>6
<1>8. /\ sent' \in Seq(Nat)
      /\ Len(sent') = Len(sent) + 1
      /\ sent'[Len(sent')] = n
      /\ \A m \in 1 .. Len(sent) : m \in 1 .. Len(sent') /\ sent'[m] = sent[m]
  BY <1>1, <1>2
<1>9. UNCHANGED <<receiving, sizes, received_size, joined, pc, tx_done, dma, met>>
  BY DEF HostSends, rx_vars, main_vars, tx_vars, fault_vars
<1>10. Types'
  BY <1>6, <1>8, <1>9 DEF Inv, Types
<1>11. Counted'
  <2>1. receiving /\ joined = {} => received_size = 0
    BY <1>2 DEF Inv, Counted
  <2>2. line' # << >> /\ sent' # << >>
    BY <1>2, <1>6, <1>8
  <2> QED BY <1>2, <1>6, <1>7, <1>8, <1>9, <2>1, <2>2 DEF Counted
<1>12. Sized'
  BY <1>8, <1>9 DEF Inv, Sized
<1>13. Handshake'
  BY <1>9 DEF Inv, Handshake
<1>14. StopsForCause'
  <2>1. DOMAIN sent = 1 .. Len(sent) /\ DOMAIN sent' = 1 .. Len(sent')
    BY <1>2, <1>8
  <2> QED BY <1>8, <1>9, <2>1 DEF Inv, StopsForCause, TransferFailed
<1> QED BY <1>10, <1>11, <1>12, <1>13, <1>14 DEF Inv

LEMMA ReceiveInv == ASSUME CommsAssumption, Inv, rx_cplt_irq PROVE Inv'
<1>1. /\ receiving
      /\ line # << >>
      /\ line' = Tail(line)
      /\ on_rx_cplt_irq(Head(line))
      /\ receiving' \in BOOLEAN
      /\ met \subseteq met'
      /\ UNCHANGED <<sent, joined, pc, tx_done, dma>>
  BY DEF rx_cplt_irq, main_vars, tx_vars, Inv, Types
<1>2. Types /\ Counted /\ Sized /\ Handshake /\ StopsForCause
  BY DEF Inv
<1>3. /\ line' \in Seq(Nat)
      /\ Len(line') = Len(line) - 1
      /\ \A i \in 1 .. Len(line') : line'[i] = Delim <=> i = Len(line')
      /\ line' = << >> <=> Len(line) = 1
      /\ Head(line) = Delim <=> Len(line) = 1
      /\ Len(line) \in Nat \ {0}
  BY <1>1, <1>2, LineShrinks
<1>4. /\ sent # << >>
      /\ joined = {} => received_size + Len(line) <= sent[Len(sent)] + 1
      /\ sent \in Seq(Nat) /\ sizes \in Seq(Nat) /\ received_size \in Nat
  BY <1>1, <1>2 DEF Types, Counted
<1>5. Len(sent) \in 1 .. Len(sent) /\ sent[Len(sent)] \in Nat
  BY <1>4
<1>6. Handshake' /\ StopsForCause'
  BY <1>1, <1>2 DEF Handshake, StopsForCause, TransferFailed
<1>7. CASE EndOfMessage(Head(line))
  <2>1. sizes' = Append(sizes, received_size) /\ received_size' = 0 /\ Len(line) = 1
    BY <1>3, <1>7 DEF EndOfMessage
  <2>2. Types'
    <3>1. sizes' \in Seq(Nat) /\ received_size' \in Nat
      BY <1>4, <2>1
    <3> QED BY <1>1, <1>2, <1>3, <3>1 DEF Types
  <2>3. Counted'
    BY <1>1, <1>3, <1>4, <2>1 DEF Counted
  <2>4. joined = {} => received_size <= sent[Len(sent)]
    BY <1>4, <1>5, <2>1
  <2>5. Sized'
    <3>1. /\ Len(sizes') = Len(sizes) + 1
          /\ \A i \in 1 .. Len(sizes) : sizes'[i] = sizes[i]
          /\ sizes'[Len(sizes) + 1] = received_size
          /\ Len(sizes) \in Nat
      BY <1>4, <2>1, <2>4
    <3>2. \A i \in 1 .. Len(sizes') : i \in 1 .. Len(sizes) \/ i = Len(sizes) + 1
      BY <3>1
    <3> QED BY <1>1, <1>2, <1>5, <2>4, <3>1, <3>2 DEF Sized
  <2> QED BY <1>6, <2>2, <2>3, <2>5 DEF Inv
<1>8. CASE ByteOfMessage(Head(line))
  <2>1. UNCHANGED sizes /\ received_size' = received_size + 1 /\ Len(line) # 1
    BY <1>3, <1>8 DEF ByteOfMessage
  <2>2. Types'
    <3>1. sizes' \in Seq(Nat) /\ received_size' \in Nat
      BY <1>4, <2>1
    <3> QED BY <1>1, <1>2, <1>3, <3>1 DEF Types
  <2>3. Counted'
    <3>1. joined = {} => received_size' + Len(line') <= sent[Len(sent)] + 1
      BY <1>3, <1>4, <1>5, <2>1
    <3>2. line' # << >> /\ sent' # << >> /\ sent'[Len(sent')] = sent[Len(sent)]
      BY <1>1, <1>3, <1>4, <2>1
    <3> QED BY <1>1, <1>3, <3>1, <3>2 DEF Counted
  <2>4. Sized'
    BY <1>1, <1>2, <2>1 DEF Sized
  <2> QED BY <1>6, <2>2, <2>3, <2>4 DEF Inv
<1> QED BY <1>1, <1>7, <1>8 DEF on_rx_cplt_irq

LEMMA LostInv == ASSUME CommsAssumption, Inv, overrun_irq \/ ByteLost PROVE Inv'
<1>1. /\ line # << >>
      /\ line' = Tail(line)
      /\ met \subseteq met' /\ joined \subseteq joined'
      /\ UNCHANGED <<sent, receiving, sizes, received_size, pc, tx_done, dma>>
  BY DEF overrun_irq, ByteLost, Loses, rx_vars, main_vars, tx_vars, fault_vars
<1>2. Types /\ Counted /\ Sized /\ Handshake /\ StopsForCause
  BY DEF Inv
<1>3. /\ line' \in Seq(Nat)
      /\ Len(line') = Len(line) - 1
      /\ \A i \in 1 .. Len(line') : line'[i] = Delim <=> i = Len(line')
      /\ line' = << >> <=> Len(line) = 1
      /\ Head(line) = Delim <=> Len(line) = 1
      /\ Len(line) \in Nat \ {0}
  BY <1>1, <1>2, LineShrinks
<1>4. Types' /\ Sized'
  BY <1>1, <1>2, <1>3 DEF Types, Sized
<1>5. Handshake' /\ StopsForCause'
  BY <1>1, <1>2 DEF Handshake, StopsForCause, TransferFailed
<1>6. Counted'
  <2>1. receiving /\ joined' = {} => joined = {} /\ line' # << >>
    <3>1. receiving /\ Head(line) = Delim => joined' # {}
      BY DEF overrun_irq, ByteLost, Loses
    <3> QED BY <1>1, <1>3, <3>1
  <2>2. receiving /\ joined = {} => received_size + Len(line) <= sent[Len(sent)] + 1
    BY <1>1, <1>2 DEF Counted
  <2>3. sent # << >> /\ received_size \in Nat /\ sent[Len(sent)] \in Nat
    BY <1>1, <1>2 DEF Counted, Types
  <2>4. receiving /\ joined = {} => received_size + Len(line') <= sent[Len(sent)] + 1
    BY <1>3, <2>2, <2>3
  <2> QED BY <1>1, <1>3, <2>1, <2>3, <2>4 DEF Counted
<1> QED BY <1>4, <1>5, <1>6 DEF Inv

(* The steps of the output side leave the input side alone.                *)
LEMMA TransferInv == ASSUME CommsAssumption, Inv, tx_cplt_irq \/ dma_err_irq PROVE Inv'
<1>1. UNCHANGED <<sent, line, receiving, sizes, received_size, joined, pc>> /\ met \subseteq met'
  BY DEF tx_cplt_irq, dma_err_irq, host_vars, rx_vars, main_vars, fault_vars
<1>2. Types' /\ Counted' /\ Sized' /\ StopsForCause'
  BY <1>1 DEF Inv, Types, Counted, Sized, StopsForCause, TransferFailed, tx_cplt_irq, dma_err_irq
<1>3. Handshake'
  BY <1>1 DEF Inv, Types, Handshake, tx_cplt_irq, dma_err_irq
<1> QED BY <1>2, <1>3 DEF Inv

LEMMA RecvInv == ASSUME CommsAssumption, Inv, recv \/ handle_message PROVE Inv'
<1>1. UNCHANGED <<sent, line, receiving, received_size, joined, tx_done, dma, met>>
  BY DEF recv, handle_message, refuse, take_size, take_byte, skip_empty, host_vars, rx_vars, tx_vars, fault_vars
<1>2. Types /\ Counted /\ Sized /\ Handshake /\ StopsForCause
  BY DEF Inv
<1>3. Counted'
  BY <1>1, <1>2 DEF Counted
<1>4. Handshake'
  BY <1>1, <1>2 DEF Handshake, recv, handle_message, refuse, take_size, take_byte, skip_empty
<1>5. CASE refuse
  <2>1. UNCHANGED sizes /\ sizes # << >> /\ Head(sizes) > InputSize /\ sizes \in Seq(Nat)
    BY <1>2, <1>5 DEF refuse, rx_vars, Types
  <2>2. ASSUME joined = {} PROVE \E m \in DOMAIN sent : sent[m] > InputSize
    <3>1. PICK m \in 1 .. Len(sent) : sizes[1] <= sent[m]
      BY <1>2, <2>1, <2>2, HeadTail DEF Sized
    <3>2. InputSize \in Nat /\ sizes[1] \in Nat /\ sent[m] \in Nat
      BY <1>2, <2>1, HeadTail DEF Types, CommsAssumption
    <3>3. m \in DOMAIN sent /\ sent[m] > InputSize
      BY <1>2, <2>1, <3>1, <3>2, HeadTail DEF Types
    <3> QED BY <3>3
  <2>4. StopsForCause'
    BY <1>1, <2>2 DEF StopsForCause
  <2>5. Types' /\ Sized'
    BY <1>1, <1>2, <2>1 DEF Types, Sized
  <2> QED BY <1>3, <1>4, <2>4, <2>5 DEF Inv
<1>6. CASE take_size
  <2>1. sizes # << >> /\ sizes' = Tail(sizes) /\ sizes \in Seq(Nat) /\ pc' # "stopped"
    BY <1>2, <1>6 DEF take_size, Types
  <2>2. /\ Tail(sizes) \in Seq(Nat)
        /\ Len(sizes) \in Nat
        /\ Len(Tail(sizes)) = Len(sizes) - 1
        /\ \A i \in 1 .. Len(sizes) - 1 : Tail(sizes)[i] = sizes[i + 1] /\ i + 1 \in 1 .. Len(sizes)
    BY <2>1, HeadTail
  <2>3. Types'
    BY <1>1, <1>2, <2>1, <2>2 DEF Types
  <2>4. Sized'
    <3> SUFFICES ASSUME joined' = {}, NEW i \in 1 .. Len(sizes')
                 PROVE  \E m \in 1 .. Len(sent') : sizes'[i] <= sent'[m]
      BY DEF Sized
    <3>1. i + 1 \in 1 .. Len(sizes) /\ sizes'[i] = sizes[i + 1]
      BY <2>1, <2>2
    <3> QED BY <1>1, <1>2, <3>1 DEF Sized
  <2> QED BY <1>3, <1>4, <2>1, <2>3, <2>4 DEF Inv, StopsForCause, TransferFailed
<1>7. CASE take_byte \/ skip_empty \/ handle_message
  <2>1. UNCHANGED sizes /\ (pc' = "stopped" => pc = "stopped")
    BY <1>7 DEF take_byte, skip_empty, handle_message, rx_vars
  <2>2. Types' /\ Sized' /\ StopsForCause'
    BY <1>1, <1>2, <2>1 DEF Types, Sized, StopsForCause, TransferFailed
  <2> QED BY <1>3, <1>4, <2>2 DEF Inv
<1> QED BY <1>5, <1>6, <1>7 DEF recv

LEMMA SendInv == ASSUME CommsAssumption, Inv, send PROVE Inv'
<1>1. UNCHANGED <<sent, line, receiving, sizes, received_size, joined>> /\ met \subseteq met'
  BY DEF send, spin_done, spin_timeout, fill, clear_done, transmit, transmit_fails,
         host_vars, rx_vars, fault_vars
<1>2. Types /\ Counted /\ Sized /\ Handshake /\ StopsForCause
  BY DEF Inv
<1>3. Counted' /\ Sized'
  BY <1>1, <1>2 DEF Counted, Sized
<1>4. Types'
  BY <1>1, <1>2 DEF Types, send, spin_done, spin_timeout, fill, clear_done, transmit,
                    transmit_fails, tx_vars
<1>5. CASE spin_done \/ fill \/ clear_done \/ transmit
  <2>1. Handshake'
    BY <1>2, <1>5 DEF Types, Handshake, spin_done, fill, clear_done, transmit, tx_vars
  <2>2. StopsForCause'
    BY <1>5 DEF StopsForCause, TransferFailed, spin_done, fill, clear_done, transmit
  <2> QED BY <1>3, <1>4, <2>1, <2>2 DEF Inv
<1>6. CASE spin_timeout
  <2>1. Handshake' /\ met' \cap {"dma", "transmit"} # {}
    BY <1>2, <1>6 DEF Handshake, spin_timeout, tx_vars, fault_vars
  <2> QED BY <1>3, <1>4, <2>1 DEF Inv, StopsForCause, TransferFailed
<1>7. CASE transmit_fails
  <2>1. "transmit" \in met'
    BY <1>7 DEF transmit_fails
  <2>2. Handshake'
    BY <1>2, <1>7, <2>1 DEF Handshake, transmit_fails, tx_vars
  <2> QED BY <1>3, <1>4, <2>1, <2>2 DEF Inv, StopsForCause, TransferFailed
<1> QED BY <1>5, <1>6, <1>7 DEF send

LEMMA NextInv == ASSUME CommsAssumption, Inv, [Next]_vars PROVE Inv'
<1>1. CASE UNCHANGED vars
  <2>1. UNCHANGED <<sent, line, receiving, sizes, received_size, joined, pc, tx_done, dma, met>>
    BY <1>1 DEF vars, host_vars, rx_vars, main_vars, tx_vars, fault_vars
  <2>2. Types' /\ Counted' /\ Sized'
    BY <2>1 DEF Inv, Types, Counted, Sized
  <2>3. Handshake' /\ StopsForCause'
    BY <2>1 DEF Inv, Handshake, StopsForCause, TransferFailed
  <2> QED BY <2>2, <2>3 DEF Inv
<1>2. CASE main
  BY <1>2, RecvInv, SendInv DEF main
<1> QED BY <1>1, <1>2, SendsInv, ReceiveInv, LostInv, TransferInv DEF Next

-----------------------------------------------------------------------------
LEMMA Invariance == ASSUME CommsAssumption PROVE Spec => []Inv
<1>1. Init => Inv BY InitInv
<1>2. Inv /\ [Next]_vars => Inv' BY NextInv
<1> QED BY <1>1, <1>2, PTL DEF Spec

(* While a transfer reads the output buffer the main loop is not at any    *)
(* statement that writes it or starts another (char_uart.hpp:73-98).       *)
THEOREM OutputIsOwned == ASSUME CommsAssumption PROVE Spec => []OutputOwned
<1>1. Inv => OutputOwned BY DEF Inv, Types, Handshake, OutputOwned
<1> QED BY <1>1, Invariance, PTL

(* The bytes that a transfer reads do not change (char_uart.hpp:78-90).    *)
THEOREM OutputIsStable == ASSUME CommsAssumption PROVE Spec => OutputStable
<1>1. ASSUME Inv, [Next]_vars, dma PROVE UNCHANGED tx_buffer
  <2>1. CASE UNCHANGED vars
    BY <2>1 DEF vars, tx_vars
  <2>2. CASE HostSends \/ rx_cplt_irq \/ overrun_irq \/ ByteLost
    BY <2>2 DEF HostSends, rx_cplt_irq, overrun_irq, ByteLost, tx_vars
  <2>3. CASE tx_cplt_irq \/ dma_err_irq
    BY <2>3 DEF tx_cplt_irq, dma_err_irq
  <2>4. CASE recv \/ handle_message
    BY <2>4 DEF recv, refuse, take_size, take_byte, skip_empty, handle_message, tx_vars
  <2>5. CASE send
    <3>1. ~fill
      BY <1>1 DEF Inv, Types, Handshake, fill
    <3> QED BY <2>5, <3>1 DEF send, spin_done, spin_timeout, clear_done, transmit,
                              transmit_fails, tx_vars
  <2> QED BY <1>1, <2>1, <2>2, <2>3, <2>4, <2>5 DEF Next, main
<1>2. Inv /\ [Next]_vars => [dma => UNCHANGED tx_buffer]_vars
  BY <1>1
<1> QED BY <1>2, Invariance, PTL DEF Spec, OutputStable

(* The main loop stops only for a message longer than its buffer, for one  *)
(* that the loss of a delimiter joined to the next, or for a transfer that *)
(* failed, whatever the order of the interrupts and whatever other bytes   *)
(* are lost (rx_buffer.cpp:18, char_uart.hpp:73, 92-98).                   *)
THEOREM StopHasCause == ASSUME CommsAssumption PROVE Spec => []StopsForCause
<1>1. Inv => StopsForCause BY DEF Inv
<1> QED BY <1>1, Invariance, PTL
-----------------------------------------------------------------------------
(* The rings.  What is in them is the end of came, behind the messages the *)
(* main loop has taken.                                                    *)

Numbered ==
  /\ taken + Len(sizes) = Len(came)
  /\ received_size = Len(coming)
  /\ receiving => Len(came) + (IF line = << >> THEN 0 ELSE 1) <= Len(sent)
  /\ \A i \in 1 .. Len(sizes) : sizes[i] = Len(came[taken + i])
  /\ pc \notin {"recv", "stopped"} \/ size > 0 => taken > 0 /\ size = Len(came[taken])

(* The host has left room for the message that is on its way.              *)
Room ==
  receiving /\ line # << >> =>
    Len(buffer) + Len(line) - 1 <= BufferSize /\ Len(sizes) < SizesSize

Hand ==
  /\ pc = "recv" => size = 0
  /\ pc \in {"spin", "fill", "clear", "transmit"} => size > 0 /\ Len(data) = size

(* The buffer holds the rest of the message in hand, the messages in the   *)
(* ring of sizes, and what has come of the next.  That this is where       *)
(* Starts finds them takes no uniqueness: it holds of every f that fits.   *)
Places == [1 .. Len(sizes) + 1 -> Nat]

Laid(f) ==
  /\ \A i, j \in 1 .. Len(sizes) + 1 : i <= j => f[i] <= f[j]
  /\ f[Len(sizes) + 1] + received_size = Len(buffer)
  /\ \A i \in 1 .. Len(sizes) : \A k \in 1 .. sizes[i] : buffer[f[i] + k] = came[taken + i][k]
  /\ \A k \in 1 .. received_size : buffer[f[Len(sizes) + 1] + k] = coming[k]

Layout ==
  /\ \E f \in Places : Fits(f)
  /\ \A f \in Places : Fits(f) => Laid(f)
  /\ \A k \in 1 .. Len(data) : data[k] = came[taken][k]
  /\ \A k \in 1 .. size - Len(data) : buffer[k] = came[taken][Len(data) + k]

RingInv == TypeOK /\ Numbered /\ Room /\ Hand /\ Layout

LEMMA Shift ==
  ASSUME NEW n \in Nat, n > 0, NEW m, m = n - 1
  PROVE  \A i \in 1 .. m - 1 : i + 1 \in 1 .. n - 1 /\ i \in 1 .. n - 1
OBVIOUS

LEMMA OneMore ==
  ASSUME NEW n \in Nat
  PROVE  \A i \in 1 .. n + 1 : i \in 1 .. n \/ i = n + 1
OBVIOUS

LEMMA Appended ==
  ASSUME NEW S, NEW s \in Seq(S), NEW x \in S
  PROVE  /\ Append(s, x) \in Seq(S) /\ Len(Append(s, x)) = Len(s) + 1 /\ Len(s) \in Nat
         /\ \A i \in 1 .. Len(s) : Append(s, x)[i] = s[i]
         /\ Append(s, x)[Len(s) + 1] = x
OBVIOUS

LEMMA Within ==
  ASSUME NEW a \in Nat, NEW b \in Nat, NEW c \in Nat, a + b <= c
  PROVE  /\ a <= c
         /\ \A k \in 1 .. b : a + k \in 1 .. c /\ (a + k) + 1 = (a + 1) + k
OBVIOUS

(* The last byte of a message: what came of it is the last in the ring.    *)
LEMMA LayoutAtEnd ==
  ASSUME TypeOK, Numbered, Layout, NEW byte, EndOfMessage(byte), UNCHANGED <<size, data, taken>>
  PROVE  Layout'
<1> DEFINE n == Len(sizes)
<1>1. /\ sizes \in Seq(Nat) /\ buffer \in Seq(Nat \ {Delim}) /\ data \in Seq(Nat \ {Delim})
      /\ received_size \in Nat /\ size \in Nat /\ taken \in Nat
      /\ came \in Seq(Seq(Nat \ {Delim})) /\ coming \in Seq(Nat \ {Delim})
  BY DEF TypeOK
<1>2. /\ n \in Nat /\ Len(buffer) \in Nat
      /\ Len(sizes') = n + 1
      /\ \A i \in 1 .. n : sizes'[i] = sizes[i]
      /\ sizes'[n + 1] = received_size
      /\ received_size' = 0
      /\ UNCHANGED <<buffer, size, data, taken>>
  BY <1>1 DEF EndOfMessage
<1>3. /\ \A i \in 1 .. n : came'[taken + i] = came[taken + i]
      /\ came'[taken + (n + 1)] = coming
      /\ taken > 0 => came'[taken] = came[taken]
      /\ coming' = << >>
  <2>1. came' = Append(came, coming) /\ coming' = << >>
    BY DEF EndOfMessage
  <2>2. /\ Len(came) \in Nat /\ \A m \in 1 .. Len(came) : came'[m] = came[m]
        /\ came'[Len(came) + 1] = coming
    BY <1>1, <2>1, Appended
  <2>3. taken + n = Len(came) /\ \A i \in 1 .. n : taken + i \in 1 .. Len(came)
    BY <1>1, <1>2, <2>2 DEF Numbered
  <2>4. taken > 0 => taken \in 1 .. Len(came)
    BY <1>1, <1>2, <2>2, <2>3
  <2>5. taken + (n + 1) = Len(came) + 1
    BY <1>1, <1>2, <2>2, <2>3
  <2> QED BY <2>1, <2>2, <2>3, <2>4, <2>5
<1> HIDE DEF n
<1>4. Places = [1 .. n + 1 -> Nat] /\ Places' = [1 .. n + 2 -> Nat]
  BY <1>2 DEF Places, n
<1>5. \E g \in Places' : Fits(g)'
  <2>1. PICK f \in Places : Fits(f)
    BY DEF Layout
  <2>2. Laid(f)
    BY <2>1 DEF Layout
  <2>3. PICK g : g = [i \in 1 .. n + 2 |-> IF i = n + 2 THEN Len(buffer) ELSE f[i]]
    OBVIOUS
  <2>4. g \in Places'
    BY <1>2, <1>4, <2>1, <2>3
  <2>5. g[1] = size' - Len(data')
    BY <1>2, <2>1, <2>3 DEF Fits
  <2>6. \A i \in 1 .. n : g[i + 1] = g[i] + sizes'[i]
    BY <1>2, <2>1, <2>3 DEF Fits, n
  <2>7. g[n + 2] = g[n + 1] + sizes'[n + 1]
    BY <1>2, <1>4, <2>1, <2>2, <2>3 DEF Laid, n
  <2>8. Fits(g)'
    <3>1. \A i \in 1 .. n + 1 : g[i + 1] = g[i] + sizes'[i]
      BY <1>2, <2>6, <2>7
    <3> QED BY <1>2, <2>5, <3>1 DEF Fits
  <2> QED BY <2>4, <2>8
<1>6. ASSUME NEW g \in Places', Fits(g)' PROVE Laid(g)'
  <2>1. PICK f : f = [i \in 1 .. n + 1 |-> g[i]]
    OBVIOUS
  <2>2. f \in Places
    BY <1>2, <1>4, <1>6, <2>1
  <2>3. g[1] = size - Len(data) /\ \A i \in 1 .. n + 1 : g[i + 1] = g[i] + sizes'[i]
    BY <1>2, <1>6 DEF Fits
  <2>4. Fits(f)
    BY <1>2, <2>1, <2>3 DEF Fits, n
  <2>5. Laid(f)
    BY <2>2, <2>4 DEF Layout
  <2>6. \A i \in 1 .. n + 1 : g[i] \in Nat /\ g[i] = f[i]
    BY <1>2, <1>4, <1>6, <2>1
  <2>7. g[n + 2] = Len(buffer)
    <3>1. g[n + 2] = g[n + 1] + received_size
      BY <1>2, <2>3
    <3> QED BY <1>2, <2>5, <2>6, <3>1 DEF Laid, n
  <2>8. \A i, j \in 1 .. n + 2 : i <= j => g[i] <= g[j]
    <3>1. \A i, j \in 1 .. n + 1 : i <= j => g[i] <= g[j]
      BY <2>5, <2>6 DEF Laid, n
    <3>2. g[n + 1] <= g[n + 2] /\ g[n + 2] \in Nat
      BY <1>2, <2>3, <2>6, <2>7, <1>1
    <3>3. \A i \in 1 .. n + 2 : i \in 1 .. n + 1 \/ i = n + 2
      BY <1>2
    <3>4. n + 1 \in 1 .. n + 1 /\ \A i \in 1 .. n + 1 : i <= n + 1 /\ g[i] \in Nat
      BY <1>2, <2>6
    <3>5. \A i \in 1 .. n + 1 : g[i] <= g[n + 1]
      BY <3>1, <3>4
    <3>6. \A i \in 1 .. n + 1 : g[i] <= g[n + 2]
      BY <3>2, <3>4, <3>5
    <3> SUFFICES ASSUME NEW i \in 1 .. n + 2, NEW j \in 1 .. n + 2, i <= j PROVE g[i] <= g[j]
      OBVIOUS
    <3>7. CASE j = n + 2
      BY <3>2, <3>3, <3>6, <3>7
    <3>8. CASE j # n + 2
      <4>1. i \in 1 .. n + 1 /\ j \in 1 .. n + 1
        BY <1>2, <3>8
      <4> QED BY <3>1, <4>1
    <3> QED BY <3>7, <3>8
  <2>9. \A i \in 1 .. n : \A k \in 1 .. sizes'[i] : buffer[g[i] + k] = came[taken + i][k]
    <3>1. \A i \in 1 .. n : \A k \in 1 .. sizes[i] : buffer[f[i] + k] = came[taken + i][k]
      BY <2>5 DEF Laid, n
    <3>2. \A i \in 1 .. n : g[i] = f[i]
      BY <1>2, <2>6
    <3> QED BY <1>2, <3>1, <3>2
  <2>10. \A k \in 1 .. sizes'[n + 1] : buffer[g[n + 1] + k] = coming[k]
    <3>1. n + 1 \in 1 .. n + 1
      BY <1>2
    <3>2. \A k \in 1 .. received_size : buffer[f[n + 1] + k] = coming[k]
      BY <2>5 DEF Laid, n
    <3>3. g[n + 1] = f[n + 1]
      BY <2>6, <3>1
    <3> QED BY <1>2, <3>2, <3>3
  <2>11. \A i \in 1 .. n + 1 : \A k \in 1 .. sizes'[i] : buffer'[g[i] + k] = came'[taken' + i][k]
    <3> SUFFICES ASSUME NEW i \in 1 .. n + 1, NEW k \in 1 .. sizes'[i]
                 PROVE  buffer[g[i] + k] = came'[taken + i][k]
      BY <1>2
    <3>1. i \in 1 .. n \/ i = n + 1
      BY <1>2
    <3>2. CASE i \in 1 .. n
      BY <1>3, <2>9, <3>2
    <3>3. CASE i = n + 1
      BY <1>3, <2>10, <3>3
    <3> QED BY <3>1, <3>2, <3>3
  <2>12. \A k \in 1 .. received_size' : buffer'[g[n + 2] + k] = coming'[k]
    BY <1>2
  <2>13. Len(sizes') + 1 = n + 2 /\ g[n + 2] + received_size' = Len(buffer')
    BY <1>2, <2>7
  <2> QED BY <1>2, <2>8, <2>11, <2>12, <2>13 DEF Laid
<1>7. /\ \A k \in 1 .. Len(data') : data'[k] = came'[taken'][k]
      /\ \A k \in 1 .. size' - Len(data') : buffer'[k] = came'[taken'][Len(data') + k]
  <2>1. CASE taken > 0
    BY <1>2, <1>3, <2>1 DEF Layout
  <2>2. CASE taken = 0
    <3>1. size = 0 /\ Len(data) = 0
      <4>1. size = 0
        BY <1>1, <2>2 DEF Numbered
      <4>2. Len(data) \in Nat /\ Len(data) <= size
        BY <1>1 DEF TypeOK
      <4> QED BY <4>1, <4>2
    <3> QED BY <1>2, <3>1
  <2> QED BY <1>1, <2>1, <2>2
<1> QED BY <1>5, <1>6, <1>7 DEF Layout

(* A byte of a message: it is the last of what is coming.                  *)
LEMMA LayoutAtByte ==
  ASSUME TypeOK, Numbered, Layout, NEW byte \in Nat, ByteOfMessage(byte),
         UNCHANGED <<size, data, taken>>
  PROVE  Layout'
<1> DEFINE n == Len(sizes)
<1>1. /\ sizes \in Seq(Nat) /\ buffer \in Seq(Nat \ {Delim}) /\ data \in Seq(Nat \ {Delim})
      /\ received_size \in Nat /\ size \in Nat /\ taken \in Nat
      /\ came \in Seq(Seq(Nat \ {Delim})) /\ coming \in Seq(Nat \ {Delim})
  BY DEF TypeOK
<1>2. /\ n \in Nat /\ Len(buffer) \in Nat
      /\ Len(buffer') = Len(buffer) + 1
      /\ \A k \in 1 .. Len(buffer) : buffer'[k] = buffer[k]
      /\ buffer'[Len(buffer) + 1] = byte
      /\ received_size' = received_size + 1
      /\ UNCHANGED <<sizes, came, size, data, taken>>
      /\ \A k \in 1 .. received_size : coming'[k] = coming[k]
      /\ coming'[received_size + 1] = byte
  BY <1>1 DEF ByteOfMessage, Numbered
<1>3. Places' = Places
  BY <1>2 DEF Places
<1>4. \A f : Fits(f)' <=> Fits(f)
  BY <1>2 DEF Fits
<1> HIDE DEF n
<1>5. ASSUME NEW f \in Places, Fits(f) PROVE Laid(f)' /\ size - Len(data) <= Len(buffer)
  <2>1. Laid(f) /\ f[1] = size - Len(data)
    BY <1>5 DEF Layout, Fits
  <2>2. /\ \A i, j \in 1 .. n + 1 : i <= j => f[i] <= f[j]
        /\ f[n + 1] + received_size = Len(buffer)
        /\ \A i \in 1 .. n : \A k \in 1 .. sizes[i] : buffer[f[i] + k] = came[taken + i][k]
        /\ \A k \in 1 .. received_size : buffer[f[n + 1] + k] = coming[k]
    BY <2>1 DEF Laid, n
  <2>3. f[n + 1] \in Nat /\ \A i \in 1 .. n + 1 : f[i] \in Nat
    BY <1>2 DEF Places, n
  <2>4. f[1] <= f[n + 1] /\ f[1] \in Nat
    BY <1>2, <2>2, <2>3
  <2>5. f[n + 1] + (received_size + 1) = Len(buffer) + 1 /\ f[n + 1] <= Len(buffer)
    <3> HIDE <1>5
    <3> QED BY <1>1, <2>2, <2>3
  <2>6. ASSUME NEW i \in 1 .. n PROVE \A k \in 1 .. sizes[i] : buffer'[f[i] + k] = came[taken + i][k]
    <3>1. /\ i \in 1 .. n + 1 /\ i + 1 \in 1 .. n + 1 /\ n + 1 \in 1 .. n + 1 /\ i + 1 <= n + 1
          /\ sizes[i] \in Nat
      BY <1>1, <1>2 DEF n
    <3>2. f[i + 1] = f[i] + sizes[i] /\ f[i + 1] <= f[n + 1] /\ f[i] \in Nat
      BY <1>5, <2>2, <2>3, <3>1 DEF Fits, n
    <3>3. \A k \in 1 .. sizes[i] : f[i] + k \in 1 .. Len(buffer)
      <4>1. f[i] + sizes[i] <= Len(buffer)
        <5>1. f[n + 1] \in Nat /\ f[n + 1] <= Len(buffer) /\ Len(buffer) \in Nat
          BY <1>2, <2>3, <2>5
        <5> QED BY <3>1, <3>2, <5>1
      <4> QED BY <1>2, <3>1, <3>2, <4>1, Within
    <3>4. \A k \in 1 .. sizes[i] : buffer[f[i] + k] = came[taken + i][k]
      BY <2>2
    <3>5. \A x \in 1 .. Len(buffer) : buffer'[x] = buffer[x]
      BY <1>2
    <3> QED BY <3>3, <3>4, <3>5
  <2>7. \A k \in 1 .. received_size + 1 : buffer'[f[n + 1] + k] = coming'[k]
    <3>1. \A k \in 1 .. received_size : f[n + 1] + k \in 1 .. Len(buffer)
      <4>1. received_size \in Nat /\ Len(buffer) \in Nat
        BY <1>1, <1>2
      <4>2. f[n + 1] + received_size <= Len(buffer)
        BY <2>2, <4>1
      <4> QED BY <2>3, <4>1, <4>2, Within
    <3>2. \A k \in 1 .. received_size + 1 : k \in 1 .. received_size \/ k = received_size + 1
      BY <1>1
    <3> QED BY <1>2, <2>2, <2>5, <3>1, <3>2
  <2>8. Laid(f)'
    BY <1>2, <1>3, <2>2, <2>5, <2>6, <2>7 DEF Laid, n
  <2> QED BY <1>1, <1>2, <2>1, <2>3, <2>4, <2>5, <2>8
<1>6. \A k \in 1 .. size - Len(data) : buffer'[k] = came[taken][Len(data) + k]
  <2>1. size - Len(data) <= Len(buffer)
    BY <1>5 DEF Layout
  <2>2. Len(data) \in Nat /\ \A k \in 1 .. size - Len(data) : buffer[k] = came[taken][Len(data) + k] /\ k \in 1 .. Len(buffer)
    BY <1>1, <1>2, <2>1 DEF Layout
  <2> QED BY <1>2, <2>2
<1>7. \A k \in 1 .. Len(data) : data[k] = came[taken][k]
  BY DEF Layout
<1>8. \E f \in Places : Fits(f)
  BY DEF Layout
<1> QED BY <1>2, <1>3, <1>4, <1>5, <1>6, <1>7, <1>8 DEF Layout

(* A size leaves its ring, and its message is the one in hand.             *)
LEMMA LayoutAtSize ==
  ASSUME TypeOK, Numbered, Layout, take_size, size = 0
  PROVE  Layout' /\ taken' = taken + 1
<1> DEFINE n == Len(sizes)
<1>0. size = 0
  OBVIOUS
<1>1. /\ sizes \in Seq(Nat) /\ buffer \in Seq(Nat \ {Delim}) /\ data \in Seq(Nat \ {Delim})
      /\ received_size \in Nat /\ taken \in Nat /\ Len(data) = 0 /\ sizes # << >>
  <2>1. Len(data) \in Nat /\ Len(data) <= 0
    BY DEF TypeOK
  <2> QED BY <2>1 DEF TypeOK, take_size
<1>2. /\ n \in Nat \ {0} /\ Len(buffer) \in Nat
      /\ Len(sizes') = n - 1
      /\ \A i \in 1 .. n - 1 : sizes'[i] = sizes[i + 1]
      /\ size' = sizes[1] /\ sizes[1] \in Nat
      /\ UNCHANGED <<buffer, data, came, coming, received_size>>
  BY <1>1, HeadTail DEF take_size
<1>3. taken' = taken + 1
  BY DEF take_size
<1> HIDE DEF n
<1>4. Places = [1 .. n + 1 -> Nat] /\ Places' = [1 .. n -> Nat]
  BY <1>2 DEF Places, n
<1>5. PICK f \in Places : Fits(f)
  BY DEF Layout
<1>6. Laid(f) /\ f[1] = 0 /\ f[2] = sizes[1] /\ \A i \in 1 .. n + 1 : f[i] \in Nat
  <2>1. Laid(f) /\ f[1] = 0 /\ f[2] = f[1] + sizes[1]
    BY <1>0, <1>1, <1>2, <1>5 DEF Layout, Fits, n
  <2>2. \A i \in 1 .. n + 1 : f[i] \in Nat
    BY <1>4
  <2> QED BY <1>2, <2>1, <2>2
<1>7. \E g \in Places' : Fits(g)'
  <2>1. PICK g : g = [i \in 1 .. n |-> f[i + 1]]
    OBVIOUS
  <2>2. g \in Places' /\ g[1] = size' - Len(data')
    BY <1>1, <1>2, <1>4, <1>6, <2>1
  <2>3. \A i \in 1 .. n - 1 : f[i + 2] = f[i + 1] + sizes[i + 1]
    BY <1>2, <1>5 DEF Fits, n
  <2>4. \A i \in 1 .. n - 1 : g[i + 1] = g[i] + sizes'[i]
    BY <1>2, <2>1, <2>3
  <2> QED BY <1>2, <2>2, <2>4 DEF Fits
<1>8. ASSUME NEW g \in Places', Fits(g)' PROVE Laid(g)'
  <2>1. PICK h : h = [i \in 1 .. n + 1 |-> IF i = 1 THEN 0 ELSE g[i - 1]]
    OBVIOUS
  <2>2. h \in Places
    BY <1>2, <1>4, <1>8, <2>1
  <2>3. g[1] = sizes[1] /\ \A i \in 1 .. n - 1 : g[i + 1] = g[i] + sizes[i + 1]
    BY <1>1, <1>2, <1>8 DEF Fits
  <2>4. \A i \in 1 .. n : h[i + 1] = g[i] /\ g[i] \in Nat
    BY <1>2, <1>4, <1>8, <2>1
  <2>5. h[1] = 0 /\ h[2] = sizes[1]
    BY <1>2, <2>1, <2>3
  <2>6. \A i \in 1 .. n : h[i + 1] = h[i] + sizes[i]
    <3>1. h[2] = h[1] + sizes[1]
      BY <1>2, <2>5
    <3>2. ASSUME NEW i \in 2 .. n PROVE h[i + 1] = h[i] + sizes[i]
      <4>1. i - 1 \in 1 .. n - 1 /\ (i - 1) + 1 = i /\ i \in 1 .. n /\ i - 1 \in 1 .. n
        BY <1>2
      <4>2. g[i] = g[i - 1] + sizes[i]
        BY <2>3, <4>1
      <4> QED BY <2>4, <4>1, <4>2
    <3>3. \A i \in 1 .. n : i = 1 \/ i \in 2 .. n
      BY <1>2
    <3> QED BY <3>1, <3>2, <3>3
  <2>7. Laid(h)
    BY <1>1, <2>2, <2>5, <2>6 DEF Layout, Fits, n
  <2>8. \A i, j \in 1 .. n : i <= j => g[i] <= g[j]
    <3>1. \A i, j \in 1 .. n + 1 : i <= j => h[i] <= h[j]
      BY <2>7 DEF Laid, n
    <3>2. \A i \in 1 .. n : i + 1 \in 1 .. n + 1
      BY <1>2
    <3> QED BY <2>4, <3>1, <3>2
  <2>9. g[n] + received_size = Len(buffer) /\ h[n + 1] = g[n]
    BY <1>2, <2>4, <2>7 DEF Laid, n
  <2>10. \A i \in 1 .. n - 1 : \A k \in 1 .. sizes'[i] : buffer[g[i] + k] = came[taken + 1 + i][k]
    <3>1. ASSUME NEW i \in 1 .. n - 1 PROVE \A k \in 1 .. sizes[i + 1] : buffer[g[i] + k] = came[taken + 1 + i][k]
      <4>1. i + 1 \in 1 .. n /\ i \in 1 .. n /\ taken + 1 + i = taken + (i + 1)
        BY <1>1, <1>2
      <4>2. \A k \in 1 .. sizes[i + 1] : buffer[h[i + 1] + k] = came[taken + (i + 1)][k]
        BY <2>7, <4>1 DEF Laid, n
      <4> QED BY <2>4, <4>1, <4>2
    <3> QED BY <1>2, <3>1
  <2>11. \A k \in 1 .. received_size : buffer[g[n] + k] = coming[k]
    BY <2>7, <2>9 DEF Laid, n
  <2>12. (n - 1) + 1 = n
    BY <1>2
  <2> QED BY <1>2, <1>3, <2>8, <2>9, <2>10, <2>11, <2>12 DEF Laid
<1>9. \A k \in 1 .. size' - Len(data') : buffer'[k] = came'[taken'][Len(data') + k]
  <2>1. \A k \in 1 .. sizes[1] : buffer[f[1] + k] = came[taken + 1][k]
    BY <1>2, <1>6 DEF Laid, n
  <2>2. \A k \in 1 .. sizes[1] : f[1] + k = k /\ Len(data) + k = k
    BY <1>1, <1>2, <1>6
  <2>3. size' - Len(data') = sizes[1]
    BY <1>1, <1>2
  <2> QED BY <1>2, <1>3, <2>1, <2>2, <2>3
<1>10. \A k \in 1 .. Len(data') : data'[k] = came'[taken'][k]
  <2>1. Len(data') = 0
    BY <1>1, <1>2
  <2> QED BY <2>1
<1> QED BY <1>3, <1>7, <1>8, <1>9, <1>10 DEF Layout

(* A byte goes from the ring to the message in hand.                       *)
LEMMA LayoutAtTakeByte ==
  ASSUME TypeOK, Numbered, Layout, take_byte
  PROVE  /\ Layout' /\ taken' = taken
         /\ buffer # << >> /\ Head(buffer) = came[taken][Len(data) + 1]
<1> DEFINE n == Len(sizes)
<1>1. /\ sizes \in Seq(Nat) /\ buffer \in Seq(Nat \ {Delim}) /\ data \in Seq(Nat \ {Delim})
      /\ buffer \in Seq(Nat)
      /\ received_size \in Nat /\ taken \in Nat /\ size \in Nat /\ Len(data) < size
  BY DEF TypeOK, take_byte
<1>2. /\ n \in Nat /\ Len(data) \in Nat
      /\ UNCHANGED <<sizes, size, taken, came, coming, received_size>>
  BY <1>1 DEF take_byte
<1>3. Places' = Places
  BY <1>2 DEF Places
<1> HIDE DEF n
<1>4. PICK f \in Places : Fits(f)
  BY DEF Layout
<1>5. /\ Laid(f) /\ f[1] = size - Len(data)
      /\ \A i \in 1 .. n + 1 : f[i] \in Nat /\ f[1] <= f[i]
  <2>1. Laid(f) /\ f[1] = size - Len(data)
    BY <1>4 DEF Layout, Fits
  <2>2. \A i \in 1 .. n + 1 : f[i] \in Nat
    BY <1>4 DEF Places, n
  <2>3. \A i \in 1 .. n + 1 : 1 \in 1 .. n + 1 /\ 1 <= i
    BY <1>2
  <2> QED BY <2>1, <2>2, <2>3 DEF Laid, n
<1>6. Len(buffer) \in Nat /\ Len(buffer) >= size - Len(data) /\ size - Len(data) >= 1
  <2>1. f[n + 1] \in Nat /\ f[1] <= f[n + 1] /\ f[1] = size - Len(data)
    BY <1>2, <1>5
  <2>2. f[n + 1] + received_size = Len(buffer)
    BY <1>5 DEF Laid, n
  <2>3. size \in Nat /\ Len(data) \in Nat /\ received_size \in Nat /\ Len(data) < size
    BY <1>1, <1>2
  <2> QED BY <2>1, <2>2, <2>3
<1>7. buffer # << >>
  BY <1>1, <1>2, <1>6
<1>8. /\ Head(buffer) = buffer[1] /\ Len(buffer') = Len(buffer) - 1
      /\ \A k \in 1 .. Len(buffer) - 1 : buffer'[k] = buffer[k + 1]
  BY <1>1, <1>7, HeadTail DEF take_byte
<1>9. buffer[1] = came[taken][Len(data) + 1]
  <2>1. 1 \in 1 .. size - Len(data)
    BY <1>1, <1>2, <1>6
  <2> QED BY <2>1 DEF Layout
<1>10. /\ Len(data') = Len(data) + 1
       /\ \A k \in 1 .. Len(data) : data'[k] = data[k]
       /\ data'[Len(data) + 1] = came[taken][Len(data) + 1]
  BY <1>1, <1>8, <1>9 DEF take_byte
<1>11. \E g \in Places' : Fits(g)'
  <2>1. PICK g : g = [i \in 1 .. n + 1 |-> f[i] - 1]
    OBVIOUS
  <2>2. g \in Places'
    <3>1. \A i \in 1 .. n + 1 : f[i] - 1 \in Nat
      BY <1>1, <1>2, <1>5, <1>6
    <3> QED BY <1>3, <2>1, <3>1 DEF Places, n
  <2>3. g[1] = size' - Len(data')
    BY <1>1, <1>2, <1>5, <1>10, <2>1
  <2>4. \A i \in 1 .. n : g[i + 1] = g[i] + sizes[i]
    <3> SUFFICES ASSUME NEW i \in 1 .. n PROVE g[i + 1] = g[i] + sizes[i]
      OBVIOUS
    <3>1. i \in 1 .. n + 1 /\ i + 1 \in 1 .. n + 1 /\ sizes[i] \in Nat
      BY <1>1, <1>2 DEF n
    <3>2. f[i + 1] = f[i] + sizes[i]
      BY <1>4 DEF Fits, n
    <3> QED BY <1>5, <2>1, <3>1, <3>2
  <2> QED BY <1>2, <2>2, <2>3, <2>4 DEF Fits, n
<1>12. ASSUME NEW g \in Places', Fits(g)' PROVE Laid(g)'
  <2>1. PICK h : h = [i \in 1 .. n + 1 |-> g[i] + 1]
    OBVIOUS
  <2>2. \A i \in 1 .. n + 1 : g[i] \in Nat /\ h[i] = g[i] + 1
    BY <1>3, <1>12, <2>1 DEF Places, n
  <2>3. h \in Places
    BY <2>1, <2>2 DEF Places, n
  <2>4. g[1] = size - Len(data') /\ \A i \in 1 .. n : g[i + 1] = g[i] + sizes[i]
    BY <1>2, <1>12 DEF Fits, n
  <2>5. Fits(h)
    <3>1. h[1] = size - Len(data)
      <4>1. h[1] = g[1] + 1 /\ g[1] \in Nat
        BY <1>2, <2>2 DEF n
      <4> QED BY <1>1, <1>2, <1>10, <2>4, <4>1
    <3>2. ASSUME NEW i \in 1 .. n PROVE h[i + 1] = h[i] + sizes[i]
      <4>1. i \in 1 .. n + 1 /\ i + 1 \in 1 .. n + 1 /\ sizes[i] \in Nat
        BY <1>1, <1>2 DEF n
      <4> QED BY <2>2, <2>4, <4>1
    <3> QED BY <3>1, <3>2 DEF Fits, n
  <2>6. Laid(h)
    BY <2>3, <2>5 DEF Layout
  <2>7. \A i, j \in 1 .. n + 1 : i <= j => g[i] <= g[j]
    BY <2>2, <2>6 DEF Laid, n
  <2>8. /\ g[n + 1] \in Nat /\ h[n + 1] = g[n + 1] + 1
        /\ g[n + 1] + received_size = Len(buffer')
        /\ received_size \in Nat /\ Len(buffer') \in Nat /\ Len(buffer') = Len(buffer) - 1
    <3>1. h[n + 1] + received_size = Len(buffer)
      BY <2>6 DEF Laid, n
    <3>2. g[n + 1] \in Nat /\ h[n + 1] = g[n + 1] + 1
      BY <1>2, <2>2
    <3>3. received_size \in Nat /\ Len(buffer) \in Nat /\ Len(buffer) >= 1 /\ Len(buffer') = Len(buffer) - 1
      BY <1>1, <1>2, <1>6, <1>8
    <3> QED BY <3>1, <3>2, <3>3
  <2>9. ASSUME NEW i \in 1 .. n PROVE \A k \in 1 .. sizes[i] : buffer'[g[i] + k] = came[taken + i][k]
    <3>1. i \in 1 .. n + 1 /\ i + 1 \in 1 .. n + 1 /\ n + 1 \in 1 .. n + 1 /\ i + 1 <= n + 1 /\ sizes[i] \in Nat
      BY <1>1, <1>2 DEF n
    <3>2. g[i] + sizes[i] <= g[n + 1]
      BY <2>4, <2>7, <3>1
    <3>3. g[i] \in Nat /\ h[i] = g[i] + 1
      BY <2>2, <3>1
    <3>4. g[i] + sizes[i] <= Len(buffer')
      <4>1. g[n + 1] \in Nat /\ g[n + 1] + received_size = Len(buffer') /\ received_size \in Nat
        BY <2>8
      <4>2. sizes[i] \in Nat /\ g[i] \in Nat
        BY <3>1, <3>3
      <4> QED BY <3>2, <4>1, <4>2
    <3>5. \A k \in 1 .. sizes[i] : g[i] + k \in 1 .. Len(buffer') /\ (g[i] + k) + 1 = h[i] + k
      <4>1. \A k \in 1 .. sizes[i] : g[i] + k \in 1 .. Len(buffer') /\ (g[i] + k) + 1 = (g[i] + 1) + k
        BY <2>8, <3>1, <3>3, <3>4, Within
      <4> QED BY <3>3, <4>1
    <3>6. \A k \in 1 .. sizes[i] : buffer[h[i] + k] = came[taken + i][k]
      BY <2>6 DEF Laid, n
    <3> QED BY <1>8, <2>8, <3>5, <3>6
  <2>10. \A k \in 1 .. received_size : buffer'[g[n + 1] + k] = coming[k]
    <3>1. \A k \in 1 .. received_size : g[n + 1] + k \in 1 .. Len(buffer') /\ (g[n + 1] + k) + 1 = h[n + 1] + k
      <4>1. \A k \in 1 .. received_size :
               g[n + 1] + k \in 1 .. Len(buffer') /\ (g[n + 1] + k) + 1 = (g[n + 1] + 1) + k
        <5>1. g[n + 1] + received_size <= Len(buffer')
          BY <2>8
        <5> QED BY <2>8, <5>1, Within
      <4> QED BY <2>8, <4>1
    <3>2. \A k \in 1 .. received_size : buffer[h[n + 1] + k] = coming[k]
      BY <2>6 DEF Laid, n
    <3> QED BY <1>8, <2>8, <3>1, <3>2
  <2> QED BY <1>2, <1>3, <2>7, <2>8, <2>9, <2>10 DEF Laid, n
<1>13. \A k \in 1 .. Len(data') : data'[k] = came[taken][k]
  <2>1. \A k \in 1 .. Len(data') : k \in 1 .. Len(data) \/ k = Len(data) + 1
    BY <1>2, <1>10
  <2> QED BY <1>10, <2>1 DEF Layout
<1>14. \A k \in 1 .. size' - Len(data') : buffer'[k] = came[taken][Len(data') + k]
  <2>1. \A k \in 1 .. size' - Len(data') :
          /\ k \in 1 .. Len(buffer) - 1 /\ k + 1 \in 1 .. size - Len(data)
          /\ Len(data') + k = Len(data) + (k + 1)
    BY <1>1, <1>2, <1>6, <1>10
  <2> QED BY <1>8, <2>1 DEF Layout
<1> QED BY <1>2, <1>3, <1>7, <1>8, <1>9, <1>11, <1>12, <1>13, <1>14 DEF Layout

LEMMA LayoutKept ==
  ASSUME Layout, UNCHANGED <<came, coming, taken, sizes, buffer, received_size>>,
         \/ UNCHANGED <<size, data>>
         \/ Len(data) = size /\ size' = 0 /\ data' = << >> /\ size \in Nat
  PROVE  Layout'
<1>1. UNCHANGED <<came, coming, taken, sizes, buffer, received_size>> /\ Len(<< >>) = 0
  OBVIOUS
<1>2. size' - Len(data') = size - Len(data)
  BY <1>1
<1>3. Places' = Places
  BY <1>1 DEF Places
<1>4. \A f : Fits(f)' <=> Fits(f)
  BY <1>1, <1>2 DEF Fits
<1>5. \A f : Laid(f)' <=> Laid(f)
  BY <1>1 DEF Laid
<1>6. /\ \A k \in 1 .. Len(data') : data'[k] = came[taken][k]
      /\ \A k \in 1 .. size' - Len(data') : buffer'[k] = came[taken][Len(data') + k]
  <2>1. CASE UNCHANGED <<size, data>>
    BY <1>1, <2>1 DEF Layout
  <2>2. CASE Len(data) = size /\ size' = 0 /\ data' = << >> /\ size \in Nat
    <3>1. Len(data') = 0
      BY <1>1, <2>2
    <3>2. size' = 0
      BY <2>2
    <3>3. size' - Len(data') = 0
      BY <3>1, <3>2
    <3> QED BY <3>1, <3>3
  <2> QED BY <2>1, <2>2
<1>7. /\ \E f \in Places : Fits(f)
      /\ \A f \in Places : Fits(f) => Laid(f)
  BY DEF Layout
<1> QED BY <1>1, <1>3, <1>4, <1>5, <1>6, <1>7 DEF Layout

-----------------------------------------------------------------------------
LEMMA InitRing == ASSUME CommsAssumption, Init PROVE RingInv
<1>1. /\ << >> \in Seq(Nat) /\ << >> \in Seq(Lengths) /\ << >> \in Seq(Nat \ {Delim})
      /\ << >> \in Seq(Seq(Nat \ {Delim})) /\ Len(<< >>) = 0
  OBVIOUS
<1>2. /\ Len(sizes) = 0 /\ Len(line) = 0 /\ Len(data) = 0 /\ Len(buffer) = 0 /\ Len(sent) = 0
      /\ Len(came) = 0 /\ Len(coming) = 0
      /\ 0 \in 0 .. Len(came) /\ 0 \in 0 .. BufferSize /\ 0 \in 0 .. InputSize
      /\ 0 <= BufferSize /\ 0 <= SizesSize
  <2>1. {BufferSize, SizesSize, InputSize} \subseteq Nat
    BY DEF CommsAssumption
  <2>2. Len(came) = 0
    BY <1>1 DEF Init
  <2> QED BY <1>1, <2>1, <2>2 DEF Init
<1>3. TypeOK
  <2>1. Len(buffer) <= BufferSize /\ Len(sizes) <= SizesSize /\ Len(data) <= size /\ Len(came) <= Len(sent)
    BY <1>2 DEF Init
  <2>2. received_size \in 0 .. BufferSize /\ taken \in 0 .. Len(came) /\ size \in 0 .. InputSize
    BY <1>2 DEF Init
  <2>3. /\ sent \in Seq(Lengths) /\ line \in Seq(Nat) /\ buffer \in Seq(Nat \ {Delim})
        /\ came \in Seq(Seq(Nat \ {Delim})) /\ coming \in Seq(Nat \ {Delim})
    BY <1>1 DEF Init
  <2>4. sizes \in Seq(Nat) /\ data \in Seq(Nat \ {Delim}) /\ replied \in Seq(Nat)
    BY <1>1 DEF Init
  <2>5. /\ pc = "recv" /\ receiving = TRUE /\ tx_buffer = 0 /\ tx_done = TRUE /\ dma = FALSE
        /\ met = {} /\ reported = {} /\ torn \cup joined = {}
    BY DEF Init
  <2> QED BY <2>1, <2>2, <2>3, <2>4, <2>5 DEF TypeOK
<1>4. Numbered /\ Room /\ Hand
  BY <1>2, <1>3 DEF Init, Numbered, Room, Hand
<1>5. Layout
  <2>1. Places = [1 .. 1 -> Nat] /\ received_size = 0 /\ size = 0
    BY <1>2, <1>3 DEF Places, Init
  <2>2. PICK f : f = [i \in 1 .. 1 |-> 0]
    OBVIOUS
  <2>3. f \in Places /\ Fits(f)
    BY <1>2, <1>3, <2>1, <2>2 DEF Fits
  <2>4. \A g \in Places : Fits(g) => Laid(g)
    <3> SUFFICES ASSUME NEW g \in Places, Fits(g) PROVE Laid(g)
      OBVIOUS
    <3>1. g[1] = 0
      BY <1>2, <1>3, <2>1 DEF Fits
    <3> QED BY <1>2, <1>3, <2>1, <3>1 DEF Laid
  <2> QED BY <1>2, <1>3, <2>1, <2>3, <2>4 DEF Layout
<1> QED BY <1>3, <1>4, <1>5 DEF RingInv

LEMMA SendsRing == ASSUME CommsAssumption, Inv, RingInv, HostSends PROVE RingInv'
<1>1. PICK n \in Lengths :
        /\ Len(buffer) + n <= BufferSize
        /\ sent' = Append(sent, n)
        /\ line' = Append([i \in 1 .. n |-> Len(sent) + 1], Delim)
  BY DEF HostSends
<1>2. /\ n \in Nat /\ line = << >> /\ Len(sizes) < SizesSize
      /\ sent \in Seq(Lengths) /\ Len(sent) \in Nat /\ Len(came) \in Nat /\ Len(came) <= Len(sent)
  <2>1. sent \in Seq(Lengths) /\ came \in Seq(Seq(Nat \ {Delim})) /\ Len(came) <= Len(sent)
    BY DEF RingInv, TypeOK
  <2>2. n \in Nat
    BY <1>1 DEF CommsAssumption
  <2>3. line = << >> /\ Len(sizes) < SizesSize
    BY DEF HostSends
  <2>4. Len(sent) \in Nat /\ Len(came) \in Nat
    BY <2>1
  <2> QED BY <2>1, <2>2, <2>3, <2>4
<1> DEFINE s == [i \in 1 .. n |-> Len(sent) + 1]
<1>3. s \in Seq(Nat) /\ Len(s) = n
  BY <1>2
<1>4. line' = Append(s, Delim)
  BY <1>1
<1> HIDE DEF s
<1>5. line' \in Seq(Nat) /\ Len(line') = n + 1 /\ line' # << >>
  <2>1. Delim \in Nat
    OBVIOUS
  <2>2. line' \in Seq(Nat) /\ Len(line') = n + 1
    BY <1>3, <1>4, <2>1, Appended
  <2>3. Len(<< >>) = 0
    OBVIOUS
  <2> QED BY <1>2, <2>2, <2>3
<1>6. sent' \in Seq(Lengths) /\ Len(sent') = Len(sent) + 1
  BY <1>1, <1>2
<1>7. UNCHANGED <<rx_vars, main_vars, tx_vars, fault_vars>>
  BY DEF HostSends
<1>8. TypeOK'
  <2>1. UNCHANGED <<receiving, buffer, sizes, received_size, coming, came, pc, size, data, taken>>
    BY <1>7 DEF rx_vars, main_vars
  <2>2. UNCHANGED <<tx_buffer, tx_done, dma, replied, torn, joined, met, reported>>
    BY <1>7 DEF tx_vars, fault_vars
  <2>3. Len(came) <= Len(sent') /\ torn \cup joined \subseteq 1 .. Len(sent')
    <3>1. torn \cup joined \subseteq 1 .. Len(sent)
      BY DEF RingInv, TypeOK
    <3>2. 1 .. Len(sent) \subseteq 1 .. Len(sent')
      BY <1>2, <1>6
    <3>3. Len(came) <= Len(sent')
      BY <1>2, <1>6
    <3> QED BY <3>1, <3>2, <3>3
  <2> QED BY <1>5, <1>6, <2>1, <2>2, <2>3 DEF RingInv, TypeOK
<1>9. Layout'
  BY <1>7, LayoutKept DEF RingInv, rx_vars, main_vars
<1>10. Numbered'
  <2>1. receiving' => Len(came') + 1 <= Len(sent')
    BY <1>2, <1>6, <1>7 DEF RingInv, Numbered, rx_vars
  <2> QED BY <1>5, <1>7, <2>1 DEF RingInv, Numbered, rx_vars, main_vars
<1>11. Room'
  BY <1>1, <1>2, <1>5, <1>7 DEF Room, rx_vars, RingInv, TypeOK
<1>12. Hand'
  BY <1>7 DEF RingInv, Hand, main_vars
<1> QED BY <1>8, <1>9, <1>10, <1>11, <1>12 DEF RingInv

LEMMA ReceiveRing == ASSUME CommsAssumption, Inv, RingInv, rx_cplt_irq PROVE RingInv'
<1>1. /\ receiving /\ line # << >>
      /\ line' = Tail(line)
      /\ on_rx_cplt_irq(Head(line))
      /\ receiving' \in BOOLEAN
      /\ met' \subseteq Faults /\ reported' \subseteq Faults
      /\ UNCHANGED <<sent, torn, joined, main_vars, tx_vars>>
  BY DEF rx_cplt_irq, RingInv, TypeOK
<1>2. TypeOK /\ Numbered /\ Room /\ Hand /\ Layout /\ Types /\ Counted
  BY DEF Inv, RingInv
<1>3. /\ line' \in Seq(Nat)
      /\ Len(line') = Len(line) - 1
      /\ line' = << >> <=> Len(line) = 1
      /\ Head(line) = Delim <=> Len(line) = 1
      /\ Len(line) \in Nat \ {0}
      /\ Head(line) \in Nat
  <2>1. Head(line) = line[1] /\ line \in Seq(Nat)
    BY <1>1, <1>2, HeadTail DEF TypeOK
  <2>2. /\ line' \in Seq(Nat)
        /\ Len(line') = Len(line) - 1
        /\ line' = << >> <=> Len(line) = 1
        /\ Head(line) = Delim <=> Len(line) = 1
        /\ Len(line) \in Nat \ {0}
    BY <1>1, <1>2, LineShrinks
  <2>3. line[1] \in Nat
    BY <2>1, <2>2
  <2> QED BY <2>1, <2>2, <2>3
<1>4. /\ Len(sent) \in Nat /\ Len(came) \in Nat /\ Len(buffer) \in Nat /\ Len(sizes) \in Nat
      /\ Len(came) + 1 <= Len(sent) /\ taken \in Nat /\ taken + Len(sizes) = Len(came)
      /\ came \in Seq(Seq(Nat \ {Delim})) /\ coming \in Seq(Nat \ {Delim})
      /\ sizes \in Seq(Nat) /\ received_size \in Nat /\ received_size = Len(coming)
      /\ buffer \in Seq(Nat \ {Delim})
      /\ Len(buffer) + Len(line) - 1 <= BufferSize /\ Len(sizes) < SizesSize
      /\ UNCHANGED <<size, data, pc, taken>>
  <2>1. /\ sent \in Seq(Lengths) /\ sizes \in Seq(Nat) /\ received_size \in Nat
        /\ came \in Seq(Seq(Nat \ {Delim})) /\ coming \in Seq(Nat \ {Delim})
        /\ buffer \in Seq(Nat \ {Delim}) /\ taken \in 0 .. Len(came)
    BY <1>2 DEF TypeOK
  <2>2. Len(sent) \in Nat /\ Len(buffer) \in Nat /\ Len(sizes) \in Nat /\ Len(came) \in Nat /\ taken \in Nat
    BY <2>1
  <2>3. Len(came) + 1 <= Len(sent) /\ taken + Len(sizes) = Len(came) /\ received_size = Len(coming)
    BY <1>1, <1>2 DEF Numbered
  <2>4. Len(buffer) + Len(line) - 1 <= BufferSize /\ Len(sizes) < SizesSize
    BY <1>1, <1>2 DEF Room
  <2>5. UNCHANGED <<size, data, pc, taken>>
    BY <1>1 DEF main_vars
  <2> QED BY <2>1, <2>2, <2>3, <2>4, <2>5
<1>5. BufferSize \in Nat /\ SizesSize \in Nat
  BY DEF CommsAssumption
<1>6. CASE EndOfMessage(Head(line))
  <2>1. Layout'
    BY <1>2, <1>4, <1>6, LayoutAtEnd
  <2>2. /\ sizes' = Append(sizes, received_size) /\ received_size' = 0
        /\ came' = Append(came, coming) /\ coming' = << >>
        /\ UNCHANGED buffer /\ Len(line) = 1 /\ line' = << >>
    BY <1>3, <1>6 DEF EndOfMessage
  <2>3. /\ sizes' \in Seq(Nat) /\ Len(sizes') = Len(sizes) + 1
        /\ \A i \in 1 .. Len(sizes) : sizes'[i] = sizes[i]
        /\ sizes'[Len(sizes) + 1] = received_size
    BY <1>4, <2>2, Appended
  <2>4. /\ came' \in Seq(Seq(Nat \ {Delim})) /\ Len(came') = Len(came) + 1
        /\ \A i \in 1 .. Len(came) : came'[i] = came[i]
        /\ came'[Len(came) + 1] = coming
        /\ coming' \in Seq(Nat \ {Delim}) /\ Len(coming') = 0
    <3>1. << >> \in Seq(Nat \ {Delim}) /\ Len(<< >>) = 0
      OBVIOUS
    <3> QED BY <1>4, <2>2, <3>1, Appended
  <2>5. TypeOK'
    <3>1. Len(sizes') <= SizesSize /\ received_size' \in 0 .. BufferSize
      BY <1>4, <1>5, <2>2, <2>3
    <3>2. Len(came') <= Len(sent') /\ taken' \in 0 .. Len(came')
      BY <1>1, <1>4, <2>4
    <3>3. UNCHANGED <<sent, buffer, pc, size, data, torn, joined>>
      BY <1>1, <2>2 DEF main_vars
    <3>4. UNCHANGED <<tx_buffer, tx_done, dma, replied>>
      BY <1>1 DEF tx_vars
    <3> QED BY <1>1, <1>2, <1>3, <2>3, <2>4, <3>1, <3>2, <3>3, <3>4 DEF TypeOK
  <2>6. Numbered'
    <3>1. taken' + Len(sizes') = Len(came') /\ received_size' = Len(coming')
      <4>1. /\ taken' = taken /\ taken \in Nat /\ Len(sizes) \in Nat /\ Len(came) \in Nat
            /\ taken + Len(sizes) = Len(came)
        BY <1>4
      <4>2. Len(sizes') = Len(sizes) + 1 /\ Len(came') = Len(came) + 1
        BY <2>3, <2>4
      <4>3. taken' + Len(sizes') = Len(came')
        BY <4>1, <4>2
      <4> QED BY <2>2, <2>4, <4>3
    <3>2. receiving' => Len(came') + (IF line' = << >> THEN 0 ELSE 1) <= Len(sent')
      <4>1. Len(came') <= Len(sent')
        BY <1>1, <1>4, <2>4
      <4> QED BY <1>4, <2>2, <2>4, <4>1
    <3>3. \A i \in 1 .. Len(sizes') : sizes'[i] = Len(came'[taken' + i])
      <4> SUFFICES ASSUME NEW i \in 1 .. Len(sizes) + 1 PROVE sizes'[i] = Len(came'[taken + i])
        BY <1>4, <2>3
      <4>1. i \in 1 .. Len(sizes) \/ i = Len(sizes) + 1
        BY <1>4, OneMore
      <4>2. CASE i \in 1 .. Len(sizes)
        <5>1. taken + i \in 1 .. Len(came)
          BY <1>4, <4>2
        <5> QED BY <1>2, <2>3, <2>4, <4>2, <5>1 DEF Numbered
      <4>3. CASE i = Len(sizes) + 1
        <5>1. taken + i = Len(came) + 1
          BY <1>4, <4>3
        <5> QED BY <1>4, <2>3, <2>4, <4>3, <5>1
      <4> QED BY <4>1, <4>2, <4>3
    <3>4. pc' \notin {"recv", "stopped"} \/ size' > 0 => taken' > 0 /\ size' = Len(came'[taken'])
      <4>1. taken > 0 => taken \in 1 .. Len(came)
        BY <1>4
      <4>2. pc \notin {"recv", "stopped"} \/ size > 0 => taken > 0 /\ size = Len(came[taken])
        BY <1>2 DEF Numbered
      <4> QED BY <1>4, <2>4, <4>1, <4>2
    <3> QED BY <3>1, <3>2, <3>3, <3>4 DEF Numbered
  <2>7. Room' /\ Hand'
    BY <1>2, <1>4, <2>2 DEF Room, Hand
  <2> QED BY <2>1, <2>5, <2>6, <2>7 DEF RingInv
<1>7. CASE ByteOfMessage(Head(line))
  <2>1. Len(line) > 1 /\ line' # << >>
    BY <1>3, <1>7 DEF ByteOfMessage
  <2>2. Layout'
    BY <1>2, <1>3, <1>4, <1>7, LayoutAtByte
  <2>3. /\ Head(line) \in Nat \ {Delim}
        /\ buffer' = Append(buffer, Head(line)) /\ received_size' = received_size + 1
        /\ coming' = Append(coming, Head(line))
        /\ UNCHANGED <<sizes, came>>
    BY <1>3, <1>7 DEF ByteOfMessage
  <2>4. /\ buffer' \in Seq(Nat \ {Delim}) /\ Len(buffer') = Len(buffer) + 1
        /\ coming' \in Seq(Nat \ {Delim}) /\ Len(coming') = Len(coming) + 1
    BY <1>4, <2>3, Appended
  <2>5. received_size + 1 <= BufferSize
    <3>1. PICK f \in Places : Fits(f)
      BY <1>2 DEF Layout
    <3>2. f[Len(sizes) + 1] + received_size = Len(buffer)
      BY <1>2, <3>1 DEF Layout, Laid
    <3>3. f[Len(sizes) + 1] \in Nat
      <4>1. Len(sizes) + 1 \in 1 .. Len(sizes) + 1
        BY <1>4
      <4> QED BY <3>1, <4>1 DEF Places
    <3>4. Len(buffer) + Len(line) - 1 <= BufferSize /\ Len(line) \in Nat /\ Len(buffer) \in Nat
      BY <1>3, <1>4
    <3>5. received_size <= Len(buffer) /\ received_size \in Nat
      BY <1>4, <3>2, <3>3
    <3>6. Len(buffer) + 1 <= BufferSize
      BY <1>5, <2>1, <3>4
    <3> QED BY <1>5, <3>4, <3>5, <3>6
  <2>6. TypeOK'
    <3>1. received_size' \in 0 .. BufferSize /\ Len(buffer') <= BufferSize
      <4>1. Len(buffer') <= BufferSize
        BY <1>3, <1>4, <1>5, <2>1, <2>4
      <4> QED BY <1>4, <1>5, <2>3, <2>5, <4>1
    <3>2. UNCHANGED <<sent, sizes, came, pc, size, data, taken, torn, joined>>
      BY <1>1, <2>3 DEF main_vars
    <3>3. UNCHANGED <<tx_buffer, tx_done, dma, replied>>
      BY <1>1 DEF tx_vars
    <3> QED BY <1>1, <1>2, <1>3, <2>4, <3>1, <3>2, <3>3 DEF TypeOK
  <2>7. Numbered'
    <3>1. received_size' = Len(coming')
      BY <1>4, <2>3, <2>4
    <3>2. receiving' => Len(came') + (IF line' = << >> THEN 0 ELSE 1) <= Len(sent')
      BY <1>1, <1>4, <2>1, <2>3
    <3> QED BY <1>2, <1>4, <2>3, <3>1, <3>2 DEF Numbered
  <2>8. Room' /\ Hand'
    BY <1>2, <1>3, <1>4, <1>5, <2>3, <2>4 DEF Room, Hand
  <2> QED BY <2>2, <2>6, <2>7, <2>8 DEF RingInv
<1> QED BY <1>1, <1>6, <1>7 DEF on_rx_cplt_irq

(* A byte leaves the line and the driver sees nothing of it.               *)
LEMMA LostRing == ASSUME CommsAssumption, Inv, RingInv, overrun_irq \/ ByteLost PROVE RingInv'
<1>1. /\ line # << >>
      /\ line' = Tail(line)
      /\ UNCHANGED <<sent, rx_vars, main_vars, tx_vars>>
  BY DEF overrun_irq, ByteLost
<1>2. /\ line' \in Seq(Nat) /\ Len(line') = Len(line) - 1 /\ Len(line) \in Nat \ {0}
      /\ line' = << >> <=> Len(line) = 1
  BY <1>1, LineShrinks DEF Inv
<1>3. /\ met' \subseteq Faults /\ reported' \subseteq Faults
      /\ torn' \cup joined' \subseteq 1 .. Len(sent)
  <2>1. Len(sent) \in 1 .. Len(sent)
    <3>1. sent # << >> /\ sent \in Seq(Lengths)
      BY <1>1 DEF Inv, Counted, RingInv, TypeOK
    <3> QED BY <3>1
  <2>2. torn' \subseteq torn \cup {Len(sent)} /\ joined' \subseteq joined \cup {Len(sent)}
    BY DEF overrun_irq, ByteLost, Loses, fault_vars
  <2>3. torn \cup joined \subseteq 1 .. Len(sent) /\ met \subseteq Faults /\ reported \subseteq Faults
    BY DEF RingInv, TypeOK
  <2>4. met' \subseteq Faults /\ reported' \subseteq Faults
    BY <2>3 DEF overrun_irq, ByteLost, fault_vars
  <2> QED BY <2>1, <2>2, <2>3, <2>4
<1>4. TypeOK'
  BY <1>1, <1>2, <1>3 DEF RingInv, TypeOK, rx_vars, main_vars, tx_vars
<1>5. Layout'
  BY <1>1, LayoutKept DEF RingInv, rx_vars, main_vars
<1>6. Numbered'
  <2>1. Len(came) \in Nat /\ Len(sent) \in Nat
    BY DEF RingInv, TypeOK
  <2>2. receiving' => Len(came') + (IF line' = << >> THEN 0 ELSE 1) <= Len(sent')
    BY <1>1, <2>1 DEF RingInv, Numbered, rx_vars
  <2> QED BY <1>1, <2>2 DEF RingInv, Numbered, rx_vars, main_vars
<1>7. Room'
  <2>1. BufferSize \in Nat /\ Len(buffer) \in Nat
    BY DEF CommsAssumption, RingInv, TypeOK
  <2>2. receiving => Len(buffer) + Len(line) - 1 <= BufferSize /\ Len(sizes) < SizesSize
    BY <1>1 DEF RingInv, Room
  <2> QED BY <1>1, <1>2, <2>1, <2>2 DEF Room, rx_vars
<1>8. Hand'
  BY <1>1 DEF RingInv, Hand, main_vars
<1> QED BY <1>4, <1>5, <1>6, <1>7, <1>8 DEF RingInv

LEMMA TransferRing == ASSUME CommsAssumption, Inv, RingInv, tx_cplt_irq \/ dma_err_irq PROVE RingInv'
<1>1. /\ UNCHANGED <<host_vars, rx_vars, main_vars, tx_buffer, torn, joined>>
      /\ dma' \in BOOLEAN /\ tx_done' \in BOOLEAN
      /\ met' \subseteq Faults /\ reported' \subseteq Faults
      /\ replied' \in Seq(Nat)
  <2>1. Append(replied, tx_buffer) \in Seq(Nat) /\ replied \in Seq(Nat)
    BY Appended DEF RingInv, TypeOK
  <2> QED BY <2>1 DEF tx_cplt_irq, dma_err_irq, RingInv, TypeOK, fault_vars
<1>2. TypeOK'
  BY <1>1 DEF RingInv, TypeOK, host_vars, rx_vars, main_vars
<1>3. Layout'
  BY <1>1, LayoutKept DEF RingInv, rx_vars, main_vars
<1>4. Numbered' /\ Room' /\ Hand'
  BY <1>1 DEF RingInv, Numbered, Room, Hand, host_vars, rx_vars, main_vars
<1> QED BY <1>2, <1>3, <1>4 DEF RingInv

LEMMA RecvRing == ASSUME CommsAssumption, Inv, RingInv, recv \/ handle_message PROVE RingInv'
<1>1. UNCHANGED <<host_vars, tx_vars, fault_vars>>
  BY DEF recv, handle_message, refuse, take_size, take_byte, skip_empty
<1>2. TypeOK /\ Numbered /\ Room /\ Hand /\ Layout
  BY DEF RingInv
<1>3. CASE refuse \/ skip_empty \/ handle_message
  <2>1. UNCHANGED <<rx_vars, size, data, taken>>
    BY <1>3 DEF refuse, skip_empty, handle_message
  <2>2. TypeOK'
    BY <1>1, <1>2, <1>3, <2>1
       DEF TypeOK, host_vars, rx_vars, tx_vars, fault_vars, refuse, skip_empty, handle_message
  <2>3. Layout'
    BY <1>2, <2>1, LayoutKept DEF rx_vars
  <2>4. Numbered' /\ Room'
    BY <1>1, <1>2, <1>3, <2>1
       DEF Numbered, Room, Hand, host_vars, rx_vars, refuse, skip_empty, handle_message
  <2>5. Hand'
    BY <1>2, <1>3, <2>1 DEF Hand, refuse, skip_empty, handle_message
  <2> QED BY <2>2, <2>3, <2>4, <2>5 DEF RingInv
<1>4. CASE take_size
  <2>1. /\ size = 0 /\ sizes \in Seq(Nat) /\ sizes # << >>
        /\ taken \in Nat /\ Len(came) \in Nat /\ taken + Len(sizes) = Len(came)
    <3>1. came \in Seq(Seq(Nat \ {Delim})) /\ taken \in 0 .. Len(came)
      BY <1>2 DEF TypeOK
    <3> QED BY <1>2, <1>4, <3>1 DEF Hand, TypeOK, take_size, Numbered
  <2>2. Layout' /\ taken' = taken + 1
    BY <1>2, <1>4, <2>1, LayoutAtSize
  <2>3. /\ sizes' \in Seq(Nat) /\ Len(sizes) \in Nat \ {0} /\ Len(sizes') = Len(sizes) - 1
        /\ \A i \in 1 .. Len(sizes) - 1 : sizes'[i] = sizes[i + 1]
        /\ size' = sizes[1] /\ sizes[1] \in 0 .. InputSize /\ pc' = "bytes"
        /\ UNCHANGED <<receiving, buffer, received_size, coming, came, data>>
    <3>1. InputSize \in Nat
      BY DEF CommsAssumption
    <3>2. sizes[1] \in Nat
      BY <2>1
    <3> QED BY <1>4, <2>1, <3>1, <3>2, HeadTail DEF take_size
  <2>4. TypeOK'
    <3>1. data = << >> /\ Len(data') <= size'
      <4>1. Len(data) = 0
        BY <1>2, <2>1 DEF TypeOK
      <4> QED BY <1>2, <2>3, <4>1 DEF TypeOK
    <3>2. Len(sizes') <= SizesSize
      <4>1. SizesSize \in Nat /\ Len(sizes) <= SizesSize
        BY <1>2 DEF CommsAssumption, TypeOK
      <4> QED BY <2>3, <4>1
    <3>3. taken' \in 0 .. Len(came')
      BY <2>1, <2>2, <2>3
    <3> QED BY <1>1, <1>2, <2>3, <3>1, <3>2, <3>3 DEF TypeOK, host_vars, tx_vars, fault_vars
  <2>5. Numbered'
    <3>1. taken' + Len(sizes') = Len(came')
      <4>1. taken' = taken + 1 /\ taken \in Nat /\ taken + Len(sizes) = Len(came) /\ came' = came
        BY <2>1, <2>2, <2>3
      <4>2. Len(sizes') = Len(sizes) - 1 /\ Len(sizes) \in Nat
        BY <2>3
      <4> QED BY <4>1, <4>2
    <3>2. sizes[1] = Len(came[taken + 1])
      <4>1. 1 \in 1 .. Len(sizes)
        BY <2>3
      <4> QED BY <1>2, <4>1 DEF Numbered
    <3>3. \A i \in 1 .. Len(sizes) - 1 : sizes[i + 1] = Len(came[(taken + 1) + i])
      <4> SUFFICES ASSUME NEW i \in 1 .. Len(sizes) - 1 PROVE sizes[i + 1] = Len(came[(taken + 1) + i])
        OBVIOUS
      <4>1. i + 1 \in 1 .. Len(sizes) /\ (taken + 1) + i = taken + (i + 1)
        BY <2>1, <2>3
      <4> QED BY <1>2, <4>1 DEF Numbered
    <3>4. \A i \in 1 .. Len(sizes') : sizes'[i] = Len(came'[taken' + i])
      BY <2>2, <2>3, <3>3
    <3>5. taken' > 0 /\ size' = Len(came'[taken'])
      BY <2>1, <2>2, <2>3, <3>2
    <3>6. UNCHANGED <<sent, line>>
      BY <1>1 DEF host_vars
    <3> QED BY <1>2, <2>3, <3>1, <3>4, <3>5, <3>6 DEF Numbered
  <2>6. Room'
    <3>1. SizesSize \in Nat /\ Len(sizes) \in Nat
      BY <2>3 DEF CommsAssumption
    <3> QED BY <1>1, <1>2, <2>3, <3>1 DEF Room, host_vars
  <2>7. Hand'
    BY <2>3 DEF Hand
  <2> QED BY <2>2, <2>4, <2>5, <2>6, <2>7 DEF RingInv
<1>5. CASE take_byte
  <2>1. Layout' /\ buffer # << >>
    BY <1>2, <1>5, LayoutAtTakeByte
  <2>2. /\ data' = Append(data, Head(buffer)) /\ buffer' = Tail(buffer) /\ pc = "bytes" /\ pc' = pc
        /\ UNCHANGED <<receiving, sizes, received_size, coming, came, size, taken>> /\ Len(data) < size
    BY <1>5 DEF take_byte
  <2>3. Head(buffer) \in Nat \ {Delim}
    BY <1>2, <2>1 DEF TypeOK
  <2>4. data' \in Seq(Nat \ {Delim}) /\ Len(data') <= size
    <3>1. Len(data') = Len(data) + 1 /\ Len(data) \in Nat /\ size \in Nat /\ data' \in Seq(Nat \ {Delim})
      BY <1>2, <2>2, <2>3, Appended DEF TypeOK
    <3> QED BY <2>2, <3>1
  <2>5. buffer' \in Seq(Nat \ {Delim}) /\ Len(buffer') = Len(buffer) - 1 /\ Len(buffer) \in Nat
    BY <1>2, <2>1, <2>2 DEF TypeOK
  <2>6. Len(buffer') <= BufferSize /\ BufferSize \in Nat
    <3>1. Len(buffer) <= BufferSize
      BY <1>2 DEF TypeOK
    <3>2. BufferSize \in Nat
      BY DEF CommsAssumption
    <3> QED BY <2>5, <3>1, <3>2
  <2>7. TypeOK'
    BY <1>1, <1>2, <2>2, <2>4, <2>5, <2>6 DEF TypeOK, host_vars, tx_vars, fault_vars
  <2>8. Numbered' /\ Hand'
    BY <1>1, <1>2, <2>2 DEF Numbered, Hand, host_vars
  <2>9. Room'
    <3>1. Len(line) \in Nat
      BY <1>2 DEF TypeOK
    <3> QED BY <1>1, <1>2, <2>2, <2>5, <2>6, <3>1 DEF Room, host_vars
  <2> QED BY <2>1, <2>7, <2>8, <2>9 DEF RingInv
<1> QED BY <1>3, <1>4, <1>5 DEF recv

LEMMA SendRing == ASSUME CommsAssumption, Inv, RingInv, send PROVE RingInv'
<1>1. /\ UNCHANGED <<host_vars, rx_vars, taken, torn, joined>>
      /\ met' \subseteq Faults /\ reported' \subseteq Faults /\ replied' = replied
  BY DEF send, spin_done, spin_timeout, fill, clear_done, transmit, transmit_fails, tx_vars, fault_vars, RingInv, TypeOK
<1>2. TypeOK /\ Numbered /\ Room /\ Hand /\ Layout
  BY DEF RingInv
<1>3. Room'
  BY <1>1, <1>2 DEF Room, host_vars, rx_vars
<1>4. CASE transmit
  <2>1. /\ Len(data) = size /\ size' = 0 /\ data' = << >> /\ pc' = "recv" /\ Len(<< >>) = 0
        /\ << >> \in Seq(Nat \ {Delim}) /\ 0 \in 0 .. InputSize /\ size \in Nat
    <3>1. InputSize \in Nat /\ << >> \in Seq(Nat \ {Delim}) /\ Len(<< >>) = 0
      BY DEF CommsAssumption
    <3> QED BY <1>2, <1>4, <3>1 DEF transmit, Hand, TypeOK
  <2>2. Layout'
    BY <1>1, <1>2, <2>1, LayoutKept DEF rx_vars
  <2>3. TypeOK'
    <3>1. Len(data') <= size' /\ data' \in Seq(Nat \ {Delim}) /\ size' \in 0 .. InputSize
      BY <2>1
    <3> QED BY <1>1, <1>2, <1>4, <2>1, <3>1 DEF TypeOK, host_vars, rx_vars, transmit
  <2>4. Numbered' /\ Hand'
    BY <1>1, <1>2, <2>1 DEF Numbered, Hand, host_vars, rx_vars
  <2> QED BY <1>3, <2>2, <2>3, <2>4 DEF RingInv
<1>5. CASE spin_done \/ spin_timeout \/ fill \/ clear_done \/ transmit_fails
  <2>1. /\ UNCHANGED <<size, data>> /\ pc \in {"spin", "fill", "clear", "transmit"}
        /\ pc' \in {"fill", "clear", "transmit", "stopped"}
    BY <1>5 DEF spin_done, spin_timeout, fill, clear_done, transmit_fails
  <2>2. Layout'
    BY <1>1, <1>2, <2>1, LayoutKept DEF rx_vars
  <2>3. Numbered' /\ Hand'
    BY <1>1, <1>2, <2>1 DEF Numbered, Hand, host_vars, rx_vars
  <2>4. tx_buffer' \in Nat
    <3>1. CASE fill
      <4>1. taken \in Nat
        BY <1>2 DEF TypeOK
      <4> QED BY <3>1, <4>1 DEF fill
    <3>2. CASE ~fill
      BY <1>2, <1>5, <3>2 DEF spin_done, spin_timeout, clear_done, transmit_fails, tx_vars, TypeOK
    <3> QED BY <3>1, <3>2
  <2>5. TypeOK'
    BY <1>1, <1>2, <1>5, <2>1, <2>4
       DEF TypeOK, host_vars, rx_vars, tx_vars, spin_done, spin_timeout, fill, clear_done, transmit_fails
  <2> QED BY <1>3, <2>2, <2>3, <2>5 DEF RingInv
<1> QED BY <1>4, <1>5 DEF send

LEMMA NextRing == ASSUME CommsAssumption, Inv, RingInv, [Next]_vars PROVE RingInv'
<1>1. CASE UNCHANGED vars
  <2>1. /\ UNCHANGED <<sent, line, receiving, buffer, sizes, received_size, coming, came>>
        /\ UNCHANGED <<pc, size, data, taken>>
    BY <1>1 DEF vars, host_vars, rx_vars, main_vars
  <2>2. UNCHANGED <<tx_buffer, tx_done, dma, replied, torn, joined, met, reported>>
    BY <1>1 DEF vars, tx_vars, fault_vars
  <2>3. TypeOK'
    BY <2>1, <2>2 DEF RingInv, TypeOK
  <2>4. Layout'
    BY <2>1, LayoutKept DEF RingInv
  <2>5. Numbered' /\ Room' /\ Hand'
    BY <2>1 DEF RingInv, Numbered, Room, Hand
  <2> QED BY <2>3, <2>4, <2>5 DEF RingInv
<1>2. CASE main
  BY <1>2, RecvRing, SendRing DEF main
<1> QED BY <1>1, <1>2, SendsRing, ReceiveRing, LostRing, TransferRing DEF Next

LEMMA RingInvariance == ASSUME CommsAssumption PROVE Spec => []RingInv
<1>1. Init => RingInv BY InitRing
<1>2. Inv /\ RingInv /\ [Next]_vars => RingInv' BY NextRing
<1> QED BY <1>1, <1>2, Invariance, PTL DEF Spec

(* Every variable keeps its type, and neither ring ever holds more than it *)
(* has room for, if the host leaves room before it sends                   *)
(* (rx_buffer.hpp:12-13).                                                  *)
THEOREM TypeCorrect == ASSUME CommsAssumption PROVE Spec => []TypeOK
<1>1. RingInv => TypeOK BY DEF RingInv
<1> QED BY <1>1, RingInvariance, PTL
-----------------------------------------------------------------------------
(* The replies.  Due is the last message the main loop is done with.  If   *)
(* no transfer has failed, every message up to it that is not empty has    *)
(* been answered, but for the one whose reply is leaving.                  *)

Due == IF pc \in {"recv", "stopped"} THEN taken ELSE taken - 1

NoneFailed == tx_done \/ dma \/ pc = "transmit"

Order ==
  /\ \A j \in 1 .. Len(replied) : replied[j] <= Due /\ (dma => replied[j] < tx_buffer)
  /\ dma => tx_buffer \in 1 .. Due /\ came[tx_buffer] # << >>
  /\ pc \in {"clear", "transmit"} => tx_buffer = taken
  /\ NoneFailed =>
       \A m \in 1 .. Due : came[m] # << >> => m \in Range(replied) \/ (dma /\ m = tx_buffer)

OrderInv == Order /\ RepliesInOrder

LEMMA DueBound ==
  ASSUME RingInv
  PROVE  taken \in Nat /\ Due \in Int /\ Due <= taken /\ taken <= Len(came) /\ Len(came) \in Nat
<1>1. came \in Seq(Seq(Nat \ {Delim})) /\ taken \in 0 .. Len(came)
  BY DEF RingInv, TypeOK
<1>2. Len(came) \in Nat
  BY <1>1
<1> QED BY <1>1, <1>2 DEF Due

LEMMA RepliedNat ==
  ASSUME RingInv, OrderInv
  PROVE  \A j \in 1 .. Len(replied) : replied[j] <= Due /\ replied[j] \in Nat
<1>1. replied \in Seq(Nat)
  BY DEF RingInv, TypeOK
<1>2. \A j \in 1 .. Len(replied) : replied[j] \in Nat
  BY <1>1
<1> QED BY <1>2 DEF OrderInv, Order

LEMMA OrderKept ==
  ASSUME OrderInv, UNCHANGED <<came, replied, dma, tx_buffer>>, Due' = Due,
         NoneFailed' => NoneFailed,
         pc' \in {"clear", "transmit"} => tx_buffer = taken'
  PROVE  OrderInv'
<1>1. Order'
  BY DEF OrderInv, Order
<1>2. RepliesInOrder'
  BY DEF OrderInv, RepliesInOrder
<1> QED BY <1>1, <1>2 DEF OrderInv

LEMMA RangeOfAppend ==
  ASSUME NEW s \in Seq(Nat), NEW x \in Nat
  PROVE  Range(Append(s, x)) = Range(s) \cup {x}
<1>1. /\ Append(s, x) \in Seq(Nat) /\ Len(Append(s, x)) = Len(s) + 1 /\ Len(s) \in Nat
      /\ \A i \in 1 .. Len(s) : Append(s, x)[i] = s[i]
      /\ Append(s, x)[Len(s) + 1] = x
  BY Appended
<1>2. DOMAIN s = 1 .. Len(s) /\ DOMAIN Append(s, x) = 1 .. Len(s) + 1
  BY <1>1
<1>3. \A i \in 1 .. Len(s) + 1 : i \in 1 .. Len(s) \/ i = Len(s) + 1
  BY <1>1, OneMore
<1>4. \A i \in 1 .. Len(s) : i \in 1 .. Len(s) + 1
  BY <1>1
<1>5. Len(s) + 1 \in 1 .. Len(s) + 1
  BY <1>1
<1> HIDE DEF Append
<1> QED BY <1>1, <1>2, <1>3, <1>4, <1>5 DEF Range

LEMMA InitOrder == ASSUME CommsAssumption, Init PROVE OrderInv
<1>1. replied = << >> /\ taken = 0 /\ Due = 0 /\ dma = FALSE /\ pc = "recv"
  BY DEF Init, Due
<1>2. Len(replied) = 0
  <2>1. Len(<< >>) = 0
    OBVIOUS
  <2> QED BY <1>1, <2>1
<1> QED BY <1>1, <1>2 DEF OrderInv, Order, RepliesInOrder

(* What comes is added behind all that is due.                             *)
LEMMA CameOrder ==
  ASSUME CommsAssumption, Inv, RingInv, OrderInv,
         HostSends \/ rx_cplt_irq \/ overrun_irq \/ ByteLost
  PROVE  OrderInv'
<1>1. UNCHANGED <<replied, dma, tx_buffer, tx_done, pc, taken, Due>>
  BY DEF HostSends, rx_cplt_irq, overrun_irq, ByteLost, main_vars, tx_vars, Due
<1>2. /\ Len(came) <= Len(came') /\ Len(came') \in Nat
      /\ \A m \in 1 .. Len(came) : m \in 1 .. Len(came') /\ came'[m] = came[m]
  <2>1. came \in Seq(Seq(Nat \ {Delim})) /\ coming \in Seq(Nat \ {Delim}) /\ Len(came) \in Nat
    BY DueBound DEF RingInv, TypeOK
  <2>2. CASE came' = came
    BY <2>1, <2>2
  <2>3. CASE came' = Append(came, coming)
    <3>1. Len(came') = Len(came) + 1 /\ \A m \in 1 .. Len(came) : came'[m] = came[m]
      BY <2>1, <2>3, Appended
    <3> QED BY <2>1, <3>1
  <2> QED BY <2>2, <2>3 DEF HostSends, rx_cplt_irq, on_rx_cplt_irq, EndOfMessage, ByteOfMessage,
                            overrun_irq, ByteLost, rx_vars
<1>3. /\ \A m \in 1 .. Due : m \in 1 .. Len(came)
      /\ \A j \in 1 .. Len(replied) : \A m \in 1 .. replied[j] : m \in 1 .. Len(came)
  <2>1. \A j \in 1 .. Len(replied) : replied[j] \in 1 .. Len(came)
    BY DEF OrderInv, RepliesInOrder
  <2> QED BY <2>1, DueBound
<1>4. Order'
  BY <1>1, <1>2, <1>3 DEF OrderInv, Order, NoneFailed
<1>5. RepliesInOrder'
  BY <1>1, <1>2, <1>3 DEF OrderInv, RepliesInOrder
<1> QED BY <1>4, <1>5 DEF OrderInv

LEMMA TransferOrder ==
  ASSUME CommsAssumption, Inv, RingInv, OrderInv, tx_cplt_irq \/ dma_err_irq
  PROVE  OrderInv'
<1>1. /\ UNCHANGED <<came, pc, taken, Due, tx_buffer>> /\ dma = TRUE /\ dma' = FALSE
  BY DEF tx_cplt_irq, dma_err_irq, rx_vars, main_vars, Due, RingInv, TypeOK
<1>2. /\ tx_buffer \in 1 .. Due /\ came[tx_buffer] # << >>
      /\ \A j \in 1 .. Len(replied) : replied[j] <= Due /\ replied[j] < tx_buffer
      /\ \A m \in 1 .. Due : came[m] # << >> => m \in Range(replied) \/ m = tx_buffer
  BY <1>1 DEF OrderInv, Order, NoneFailed
<1>3. Due \in Int /\ Due <= Len(came) /\ Len(came) \in Nat
  BY DueBound
<1>4. replied \in Seq(Nat) /\ tx_buffer \in Nat
  BY DEF RingInv, TypeOK
<1>5. CASE tx_cplt_irq
  <2>1. replied' = Append(replied, tx_buffer)
    BY <1>5 DEF tx_cplt_irq
  <2>2. /\ Len(replied') = Len(replied) + 1 /\ Len(replied) \in Nat
        /\ \A j \in 1 .. Len(replied) : replied'[j] = replied[j]
        /\ replied'[Len(replied) + 1] = tx_buffer
    BY <1>4, <2>1, Appended
  <2>3. Range(replied') = Range(replied) \cup {tx_buffer}
    BY <1>4, <2>1, RangeOfAppend
  <2>4. \A j \in 1 .. Len(replied) + 1 : j \in 1 .. Len(replied) \/ j = Len(replied) + 1
    BY <2>2, OneMore
  <2>5. Order'
    <3>1. \A j \in 1 .. Len(replied') : replied'[j] <= Due
      BY <1>2, <2>2, <2>4
    <3>2. \A m \in 1 .. Due : came[m] # << >> => m \in Range(replied')
      BY <1>2, <2>3
    <3> QED BY <1>1, <3>1, <3>2 DEF OrderInv, Order
  <2>6. \A j, k \in 1 .. Len(replied') : j < k => replied'[j] < replied'[k]
    <3> SUFFICES ASSUME NEW j \in 1 .. Len(replied'), NEW k \in 1 .. Len(replied'), j < k
                 PROVE  replied'[j] < replied'[k]
      OBVIOUS
    <3>1. j \in 1 .. Len(replied)
      BY <2>2
    <3>2. CASE k \in 1 .. Len(replied)
      BY <2>2, <3>1, <3>2 DEF OrderInv, RepliesInOrder
    <3>3. CASE k = Len(replied) + 1
      BY <1>2, <2>2, <3>1, <3>3
    <3> QED BY <2>2, <2>4, <3>2, <3>3
  <2>7. ASSUME NEW j \in 1 .. Len(replied')
        PROVE  /\ replied'[j] \in 1 .. Len(came) /\ came[replied'[j]] # << >>
               /\ \A m \in 1 .. replied'[j] : came[m] # << >> => m \in Range(replied')
    <3>1. CASE j \in 1 .. Len(replied)
      BY <2>2, <2>3, <3>1 DEF OrderInv, RepliesInOrder
    <3>2. CASE j = Len(replied) + 1
      <4>1. replied'[j] = tx_buffer /\ tx_buffer \in 1 .. Len(came)
        BY <1>2, <1>3, <2>2, <3>2
      <4>2. \A m \in 1 .. tx_buffer : m \in 1 .. Due
        BY <1>2, <1>3
      <4> QED BY <1>2, <2>3, <4>1, <4>2
    <3> QED BY <2>2, <2>4, <3>1, <3>2
  <2>8. RepliesInOrder'
    BY <1>1, <2>6, <2>7 DEF RepliesInOrder
  <2> QED BY <2>5, <2>8 DEF OrderInv
<1>6. CASE dma_err_irq
  <2>1. replied' = replied /\ tx_done' = tx_done
    BY <1>6 DEF dma_err_irq
  <2>2. ~NoneFailed'
    BY <1>1, <2>1 DEF NoneFailed, Inv, Types, Handshake
  <2>3. Order'
    BY <1>1, <1>2, <2>1, <2>2 DEF OrderInv, Order
  <2>4. RepliesInOrder'
    BY <1>1, <2>1 DEF OrderInv, RepliesInOrder
  <2> QED BY <2>3, <2>4 DEF OrderInv
<1> QED BY <1>5, <1>6

LEMMA RecvOrder ==
  ASSUME CommsAssumption, Inv, RingInv, OrderInv, recv \/ handle_message PROVE OrderInv'
<1>1. UNCHANGED <<came, tx_vars>>
  BY DEF recv, handle_message, refuse, take_size, take_byte, skip_empty, rx_vars
<1>2. taken \in Nat /\ taken <= Len(came) /\ Len(came) \in Nat
  BY DueBound
<1>3. CASE take_size
  <2>1. pc = "recv" /\ pc' = "bytes" /\ taken' = taken + 1
    BY <1>3 DEF take_size
  <2>2. Due' = Due
    BY <1>2, <2>1 DEF Due
  <2> QED BY <1>1, <2>1, <2>2, OrderKept DEF tx_vars, NoneFailed
<1>4. CASE skip_empty
  <2>1. pc = "bytes" /\ pc' = "recv" /\ size = 0 /\ taken' = taken
    BY <1>4 DEF skip_empty
  <2>2. Due' = taken /\ Due = taken - 1
    BY <2>1 DEF Due
  <2>3. came[taken] = << >>
    <3>1. taken \in 1 .. Len(came) /\ Len(came[taken]) = 0
      BY <1>2, <2>1 DEF RingInv, Numbered
    <3>2. came[taken] \in Seq(Nat \ {Delim})
      BY <3>1 DEF RingInv, TypeOK
    <3> QED BY <3>1, <3>2
  <2>4. \A m \in 1 .. taken : m \in 1 .. taken - 1 \/ m = taken
    BY <1>2
  <2>5. UNCHANGED <<came, replied, dma, tx_buffer, tx_done>>
    BY <1>1 DEF tx_vars
  <2>6. Order'
    <3>1. \A j \in 1 .. Len(replied) : replied[j] <= taken /\ (dma => replied[j] < tx_buffer)
      <4>1. \A j \in 1 .. Len(replied) : replied[j] <= Due /\ replied[j] \in Nat
        BY RepliedNat
      <4> QED BY <1>2, <2>2, <4>1 DEF OrderInv, Order
    <3>2. dma => tx_buffer \in 1 .. taken /\ came[tx_buffer] # << >>
      BY <1>2, <2>2 DEF OrderInv, Order
    <3>3. NoneFailed => \A m \in 1 .. taken : came[m] # << >> => m \in Range(replied) \/ (dma /\ m = tx_buffer)
      BY <2>2, <2>3, <2>4 DEF OrderInv, Order
    <3> QED BY <2>1, <2>2, <2>5, <3>1, <3>2, <3>3 DEF Order, NoneFailed
  <2>7. RepliesInOrder'
    BY <2>5 DEF OrderInv, RepliesInOrder
  <2> QED BY <2>6, <2>7 DEF OrderInv
<1>5. CASE refuse \/ take_byte \/ handle_message
  <2>1. Due' = Due /\ taken' = taken /\ pc' \notin {"clear", "transmit"}
    BY <1>5 DEF refuse, take_byte, handle_message, Due
  <2> QED BY <1>1, <2>1, OrderKept DEF tx_vars, NoneFailed
<1> QED BY <1>3, <1>4, <1>5 DEF recv

LEMMA SendOrder == ASSUME CommsAssumption, Inv, RingInv, OrderInv, send PROVE OrderInv'
<1>1. UNCHANGED <<came, replied, taken>>
  BY DEF send, spin_done, spin_timeout, fill, clear_done, transmit, transmit_fails, tx_vars, rx_vars
<1>2. taken \in Nat /\ taken <= Len(came) /\ Len(came) \in Nat
  BY DueBound
<1>3. /\ tx_done \in BOOLEAN /\ dma \in BOOLEAN /\ (tx_done => ~dma)
      /\ (pc \in {"fill", "clear"} => tx_done) /\ (pc = "transmit" => ~tx_done /\ ~dma)
  BY DEF Inv, Types, Handshake
<1>4. CASE spin_done
  <2>1. Due' = Due /\ (NoneFailed' => NoneFailed) /\ pc' = "fill" /\ UNCHANGED <<dma, tx_buffer>>
    BY <1>1, <1>4 DEF spin_done, Due, NoneFailed, tx_vars
  <2> QED BY <1>1, <2>1, OrderKept
<1>5. CASE clear_done
  <2>1. /\ Due' = Due /\ NoneFailed /\ UNCHANGED <<dma, tx_buffer>> /\ pc = "clear"
    BY <1>1, <1>3, <1>5 DEF clear_done, Due, NoneFailed
  <2>2. tx_buffer = taken'
    BY <1>1, <2>1 DEF OrderInv, Order
  <2> QED BY <1>1, <2>1, <2>2, OrderKept
<1>6. CASE fill
  <2>1. /\ pc = "fill" /\ pc' = "clear" /\ ~dma /\ dma' = dma /\ tx_done' = tx_done
        /\ NoneFailed /\ Due' = Due /\ tx_buffer' = taken
    BY <1>1, <1>3, <1>6 DEF fill, Due, NoneFailed
  <2>2. Order'
    BY <1>1, <2>1 DEF OrderInv, Order
  <2>3. RepliesInOrder'
    BY <1>1 DEF OrderInv, RepliesInOrder
  <2> QED BY <2>2, <2>3 DEF OrderInv
<1>7. CASE transmit
  <2>1. /\ pc = "transmit" /\ pc' = "recv" /\ ~dma /\ dma' = TRUE /\ tx_buffer' = tx_buffer
        /\ NoneFailed /\ Due = taken - 1 /\ Due' = taken
    BY <1>1, <1>3, <1>7 DEF transmit, Due, NoneFailed
  <2>2. tx_buffer = taken
    BY <2>1 DEF OrderInv, Order
  <2>3. taken \in 1 .. taken /\ came[taken] # << >>
    <3>1. taken > 0 /\ Len(came[taken]) > 0
      BY <2>1 DEF RingInv, Numbered, Hand
    <3>2. ~(Len(<< >>) > 0)
      OBVIOUS
    <3> QED BY <1>2, <3>1, <3>2
  <2>4. \A m \in 1 .. taken : m \in 1 .. taken - 1 \/ m = taken
    BY <1>2
  <2>5. \A j \in 1 .. Len(replied) : replied[j] <= taken /\ replied[j] < taken
    <3>1. \A j \in 1 .. Len(replied) : replied[j] <= Due /\ replied[j] \in Nat
      BY RepliedNat
    <3> QED BY <1>2, <2>1, <3>1
  <2>6. \A m \in 1 .. taken : came[m] # << >> => m \in Range(replied) \/ m = taken
    BY <2>1, <2>4 DEF OrderInv, Order
  <2>7. Order'
    BY <1>1, <2>1, <2>2, <2>3, <2>5, <2>6 DEF Order
  <2>8. RepliesInOrder'
    BY <1>1 DEF OrderInv, RepliesInOrder
  <2> QED BY <2>7, <2>8 DEF OrderInv
<1>8. CASE spin_timeout \/ transmit_fails
  <2>1. /\ pc \in {"spin", "transmit"} /\ pc' = "stopped" /\ ~dma /\ dma' = dma
        /\ ~NoneFailed' /\ Due = taken - 1 /\ Due' = taken /\ tx_buffer' = tx_buffer
    BY <1>1, <1>3, <1>8 DEF spin_timeout, transmit_fails, tx_vars, Due, NoneFailed
  <2>2. \A j \in 1 .. Len(replied) : replied[j] <= taken
    <3>1. \A j \in 1 .. Len(replied) : replied[j] <= Due /\ replied[j] \in Nat
      BY RepliedNat
    <3> QED BY <1>2, <2>1, <3>1
  <2>3. Order'
    BY <1>1, <2>1, <2>2 DEF Order
  <2>4. RepliesInOrder'
    BY <1>1 DEF OrderInv, RepliesInOrder
  <2> QED BY <2>3, <2>4 DEF OrderInv
<1> QED BY <1>4, <1>5, <1>6, <1>7, <1>8 DEF send

LEMMA NextOrder == ASSUME CommsAssumption, Inv, RingInv, OrderInv, [Next]_vars PROVE OrderInv'
<1>1. CASE UNCHANGED vars
  <2>1. UNCHANGED <<came, pc, taken, tx_buffer, tx_done, dma, replied>>
    BY <1>1 DEF vars, rx_vars, main_vars, tx_vars
  <2>2. Due' = Due /\ NoneFailed' = NoneFailed
    BY <2>1 DEF Due, NoneFailed
  <2> QED BY <2>1, <2>2, OrderKept DEF OrderInv, Order
<1>2. CASE main
  BY <1>2, RecvOrder, SendOrder DEF main
<1> QED BY <1>1, <1>2, CameOrder, TransferOrder DEF Next

(* The replies leave in the order of the messages that came, one for each  *)
(* that is not empty: none is overwritten while it leaves, and none is     *)
(* left out before one that leaves, whatever an overrun does to the        *)
(* messages (char_uart.hpp:73-98).                                         *)
THEOREM RepliesAreInOrder == ASSUME CommsAssumption PROVE Spec => []RepliesInOrder
<1>1. Init => OrderInv BY InitOrder
<1>2. Inv /\ RingInv /\ OrderInv /\ [Next]_vars => OrderInv' BY NextOrder
<1>3. OrderInv => RepliesInOrder BY DEF OrderInv
<1> QED BY <1>1, <1>2, <1>3, Invariance, RingInvariance, PTL DEF Spec

-----------------------------------------------------------------------------
(* The rings implement the queue of messages: what they hold is the end of *)
(* came, and the message in hand is the last one taken.                    *)

LEMMA SubSeqIs ==
  ASSUME NEW s \in Seq(Nat), NEW a \in Nat, NEW n \in Nat, a + n <= Len(s)
  PROVE  SubSeq(s, a + 1, a + n) = [k \in 1 .. n |-> s[a + k]]
<1>1. SubSeq(s, a + 1, a + n) = [k \in 1 .. (a + n) - (a + 1) + 1 |-> s[(a + 1) + k - 1]]
  BY DEF SubSeq
<1>2. (a + n) - (a + 1) + 1 = n /\ \A k \in 1 .. n : (a + 1) + k - 1 = a + k
  OBVIOUS
<1> QED BY <1>1, <1>2

LEMMA SeqIs ==
  ASSUME NEW s \in Seq(Nat)
  PROVE  s = [k \in 1 .. Len(s) |-> s[k]]
OBVIOUS

LEMMA SameSeq ==
  ASSUME NEW s \in Seq(Nat), NEW t \in Seq(Nat), Len(s) = Len(t),
         \A k \in 1 .. Len(s) : s[k] = t[k]
  PROVE  s = t
OBVIOUS

InRings == Queued = [i \in 1 .. Len(sizes) |-> came[taken + i]]

OneInHand == InHand = IF size = 0 THEN << >> ELSE came[taken]

LEMMA QueuedIs == RingInv => InRings
<1> SUFFICES ASSUME RingInv PROVE InRings
  OBVIOUS
<1>1. /\ sizes \in Seq(Nat) /\ buffer \in Seq(Nat) /\ received_size \in Nat /\ Layout
      /\ came \in Seq(Seq(Nat \ {Delim})) /\ taken \in Nat /\ taken + Len(sizes) = Len(came)
  <2>1. taken \in Nat
    BY DueBound
  <2> QED BY <2>1 DEF RingInv, TypeOK, Numbered
<1>2. Len(sizes) \in Nat /\ Len(buffer) \in Nat
  BY <1>1
<1> DEFINE InBuffer == [1 .. Len(sizes) + 1 -> 0 .. Len(buffer)]
<1>3. \E f \in InBuffer : Fits(f)
  <2>1. PICK f \in Places : Fits(f)
    BY <1>1 DEF Layout
  <2>2. Laid(f)
    BY <1>1, <2>1 DEF Layout
  <2>3. ASSUME NEW i \in 1 .. Len(sizes) + 1 PROVE f[i] \in 0 .. Len(buffer)
    <3>1. Len(sizes) + 1 \in 1 .. Len(sizes) + 1 /\ i <= Len(sizes) + 1
      BY <1>2
    <3>2. f[i] \in Nat /\ f[Len(sizes) + 1] \in Nat /\ f[i] <= f[Len(sizes) + 1]
      BY <2>1, <2>2, <3>1 DEF Laid, Places
    <3>3. f[Len(sizes) + 1] + received_size = Len(buffer)
      BY <2>2 DEF Laid
    <3> QED BY <1>1, <1>2, <3>2, <3>3
  <2>4. f \in InBuffer
    BY <2>1, <2>3 DEF Places
  <2> QED BY <2>1, <2>4
<1>4. Starts \in InBuffer /\ Fits(Starts)
  <2> HIDE DEF Fits
  <2> QED BY <1>3 DEF Starts
<1> HIDE DEF InBuffer
<1>5. Starts \in Places
  BY <1>2, <1>4 DEF InBuffer, Places
<1>6. Laid(Starts)
  BY <1>1, <1>4, <1>5 DEF Layout
<1>7. ASSUME NEW i \in 1 .. Len(sizes)
      PROVE  SubSeq(buffer, Starts[i] + 1, Starts[i] + sizes[i]) = came[taken + i]
  <2>1. /\ i \in 1 .. Len(sizes) + 1 /\ i + 1 \in 1 .. Len(sizes) + 1 /\ sizes[i] \in Nat
    BY <1>1, <1>2
  <2>2. Starts[i] \in Nat /\ Starts[i] + sizes[i] = Starts[i + 1] /\ Starts[i + 1] \in 0 .. Len(buffer)
    BY <1>4, <1>5, <2>1 DEF Fits, InBuffer, Places
  <2>3. \A k \in 1 .. sizes[i] : buffer[Starts[i] + k] = came[taken + i][k]
    BY <1>6 DEF Laid
  <2> HIDE DEF Starts
  <2>4. SubSeq(buffer, Starts[i] + 1, Starts[i] + sizes[i]) = [k \in 1 .. sizes[i] |-> buffer[Starts[i] + k]]
    <3>1. Starts[i] \in Nat /\ sizes[i] \in Nat /\ Starts[i] + sizes[i] <= Len(buffer)
      BY <1>2, <2>1, <2>2
    <3> QED BY <1>1, <3>1, SubSeqIs
  <2>5. came[taken + i] \in Seq(Nat) /\ sizes[i] = Len(came[taken + i])
    <3>1. taken + i \in 1 .. Len(came)
      BY <1>1, <1>2
    <3>2. came[taken + i] \in Seq(Nat \ {Delim})
      BY <1>1, <3>1
    <3>3. sizes[i] = Len(came[taken + i])
      BY DEF RingInv, Numbered
    <3> QED BY <3>2, <3>3
  <2>6. came[taken + i] = [k \in 1 .. sizes[i] |-> came[taken + i][k]]
    BY <2>5, SeqIs
  <2> QED BY <2>3, <2>4, <2>6
<1> QED BY <1>7 DEF Queued, InRings

LEMMA InHandIs == RingInv => OneInHand
<1> SUFFICES ASSUME RingInv PROVE OneInHand
  OBVIOUS
<1>1. /\ data \in Seq(Nat) /\ buffer \in Seq(Nat) /\ size \in Nat /\ Len(data) <= size /\ Layout
      /\ received_size \in Nat /\ sizes \in Seq(Nat)
  BY DEF RingInv, TypeOK
<1>2. Len(data) \in Nat /\ Len(buffer) \in Nat /\ size - Len(data) \in Nat
  BY <1>1
<1>3. size - Len(data) <= Len(buffer)
  <2>1. PICK f \in Places : Fits(f)
    BY <1>1 DEF Layout
  <2>2. Len(sizes) \in Nat
    BY <1>1
  <2>3. 1 \in 1 .. Len(sizes) + 1 /\ Len(sizes) + 1 \in 1 .. Len(sizes) + 1 /\ 1 <= Len(sizes) + 1
    BY <2>2
  <2>4. f[1] = size - Len(data) /\ f[1] <= f[Len(sizes) + 1] /\ f[Len(sizes) + 1] + received_size = Len(buffer)
    BY <1>1, <2>1, <2>3 DEF Layout, Fits, Laid
  <2>5. f[1] \in Nat /\ f[Len(sizes) + 1] \in Nat
    BY <2>1, <2>3 DEF Places
  <2> QED BY <1>1, <1>2, <2>4, <2>5
<1> DEFINE rest == SubSeq(buffer, 1, size - Len(data))
<1>4. rest = [k \in 1 .. size - Len(data) |-> buffer[k]]
  BY <1>1, <1>2, <1>3
<1>5. rest \in Seq(Nat) /\ Len(rest) = size - Len(data)
  BY <1>1, <1>2, <1>3
<1> HIDE DEF rest
<1>6. /\ data \o rest \in Seq(Nat) /\ Len(data \o rest) = size
      /\ \A k \in 1 .. size : (data \o rest)[k] = IF k <= Len(data) THEN data[k] ELSE rest[k - Len(data)]
  BY <1>1, <1>2, <1>5
<1>7. CASE size = 0
  <2>1. data \o rest = << >>
    BY <1>6, <1>7, Empty
  <2> QED BY <1>7, <2>1 DEF InHand, rest, OneInHand
<1>8. CASE size > 0
  <2>1. came[taken] \in Seq(Nat) /\ Len(came[taken]) = size
    <3>1. came \in Seq(Seq(Nat \ {Delim})) /\ taken \in 1 .. Len(came) /\ size = Len(came[taken])
      BY <1>8 DEF RingInv, TypeOK, Numbered
    <3>2. came[taken] \in Seq(Nat \ {Delim})
      BY <3>1
    <3> QED BY <3>1, <3>2
  <2>2. \A k \in 1 .. size : (data \o rest)[k] = came[taken][k]
    <3> SUFFICES ASSUME NEW k \in 1 .. size PROVE (data \o rest)[k] = came[taken][k]
      OBVIOUS
    <3>1. CASE k <= Len(data)
      <4>1. k \in 1 .. Len(data)
        BY <1>2, <3>1
      <4> QED BY <1>1, <1>6, <3>1, <4>1 DEF Layout
    <3>2. CASE ~(k <= Len(data))
      <4>1. k - Len(data) \in 1 .. size - Len(data) /\ Len(data) + (k - Len(data)) = k
        BY <1>1, <1>2, <3>2
      <4>2. \A x \in 1 .. size - Len(data) : buffer[x] = came[taken][Len(data) + x]
        BY <1>1 DEF Layout
      <4> QED BY <1>4, <1>6, <3>2, <4>1, <4>2
    <3> QED BY <3>1, <3>2
  <2>3. data \o rest = came[taken]
    BY <1>6, <2>1, <2>2, SameSeq
  <2>4. size # 0
    BY <1>8
  <2> QED BY <2>3, <2>4 DEF InHand, rest, OneInHand
<1> QED BY <1>1, <1>7, <1>8

LEMMA MappedNext == RingInv' => InRings' /\ OneInHand'
BY QueuedIs, InHandIs, PTL

(* Steps that leave the rings and the message in hand alone.               *)
LEMMA QueuedKept ==
  ASSUME RingInv, RingInv', UNCHANGED <<came, taken, sizes>>
  PROVE  Queued' = Queued
<1>1. Queued' = [i \in 1 .. Len(sizes) |-> came[taken + i]]'
  BY MappedNext DEF InRings
<1> QED BY <1>1, QueuedIs DEF InRings

LEMMA InHandKept ==
  ASSUME RingInv, RingInv', UNCHANGED <<taken, size>>, came' = came \/ came' = Append(came, coming)
  PROVE  InHand' = InHand
<1>1. InHand' = IF size' = 0 THEN << >> ELSE came'[taken']
  BY MappedNext DEF OneInHand
<1>2. size # 0 => came'[taken] = came[taken]
  <2>1. came \in Seq(Seq(Nat \ {Delim})) /\ coming \in Seq(Nat \ {Delim}) /\ size \in Nat
    BY DEF RingInv, TypeOK
  <2>2. size > 0 => taken \in 1 .. Len(came)
    BY DEF RingInv, TypeOK, Numbered
  <2>3. CASE came' = Append(came, coming)
    <3>1. \A m \in 1 .. Len(came) : came'[m] = came[m]
      BY <2>1, <2>3, Appended
    <3> QED BY <2>1, <2>2, <3>1
  <2> QED BY <2>3
<1> QED BY <1>1, <1>2, InHandIs DEF OneInHand

LEMMA PlaceWithin ==
  ASSUME NEW t \in Nat, NEW n \in Nat, NEW i \in 1 .. n
  PROVE  t + i \in 1 .. t + n /\ i \in 1 .. n + 1
OBVIOUS

(* What the line brings.                                                   *)
LEMMA AbsReceives ==
  ASSUME CommsAssumption, Inv, RingInv, RingInv', rx_cplt_irq
  PROVE  Queue!Receive
<1>1. line # << >> /\ line' = Tail(line) /\ UNCHANGED <<size, taken>>
  BY DEF rx_cplt_irq, main_vars
<1>2. CASE ByteOfMessage(Head(line))
  <2>1. /\ Head(line) # Queue!Delimiter /\ coming' = Append(coming, Head(line))
        /\ UNCHANGED <<sizes, came>>
    BY <1>2 DEF ByteOfMessage, Queue!Delimiter
  <2>2. Queued' = Queued /\ InHand' = InHand
    BY <1>1, <2>1, QueuedKept, InHandKept
  <2> QED BY <1>1, <2>1, <2>2 DEF Queue!Receive
<1>3. CASE EndOfMessage(Head(line))
  <2>1. /\ Head(line) = Queue!Delimiter /\ coming' = << >> /\ came' = Append(came, coming)
        /\ sizes' = Append(sizes, received_size)
    BY <1>3 DEF EndOfMessage, Queue!Delimiter
  <2>2. /\ sizes \in Seq(Nat) /\ received_size \in Nat
        /\ came \in Seq(Seq(Nat \ {Delim})) /\ coming \in Seq(Nat \ {Delim})
        /\ taken \in Nat /\ taken + Len(sizes) = Len(came)
    <3>1. taken \in 0 .. Len(came)
      BY DEF RingInv, TypeOK
    <3> QED BY <3>1 DEF RingInv, TypeOK, Numbered
  <2>3. /\ Len(sizes') = Len(sizes) + 1 /\ Len(sizes) \in Nat
        /\ \A m \in 1 .. Len(came) : came'[m] = came[m]
        /\ came'[Len(came) + 1] = coming
    BY <2>1, <2>2, Appended
  <2>4. Queued' = Append(Queued, coming)
    <3> DEFINE m == [i \in 1 .. Len(sizes) + 1 |-> came'[taken + i]]
    <3>1. Queued' = m
      <4>1. Queued' = [i \in 1 .. Len(sizes) |-> came[taken + i]]'
        BY MappedNext DEF InRings
      <4> QED BY <1>1, <2>3, <4>1
    <3>2. Queued = [i \in 1 .. Len(sizes) |-> came[taken + i]]
      BY QueuedIs DEF InRings
    <3>3. \A i \in 1 .. Len(sizes) : m[i] = came[taken + i]
      <4> SUFFICES ASSUME NEW i \in 1 .. Len(sizes) PROVE m[i] = came[taken + i]
        OBVIOUS
      <4>1. taken + i \in 1 .. taken + Len(sizes) /\ i \in 1 .. Len(sizes) + 1
        BY <2>2, <2>3, PlaceWithin
      <4>2. taken + i \in 1 .. Len(came)
        BY <2>2, <4>1
      <4> QED BY <2>3, <4>1, <4>2
    <3>4. m[Len(sizes) + 1] = coming
      <4>1. taken + (Len(sizes) + 1) = Len(came) + 1 /\ Len(sizes) + 1 \in 1 .. Len(sizes) + 1
        BY <2>2, <2>3
      <4> QED BY <2>3, <4>1
    <3>5. m = [i \in 1 .. Len(sizes) + 1 |-> m[i]]
      OBVIOUS
    <3> HIDE DEF m
    <3> DEFINE q == [i \in 1 .. Len(sizes) |-> came[taken + i]]
    <3>6. Append(q, coming) = [i \in 1 .. Len(sizes) + 1 |-> IF i = Len(sizes) + 1 THEN coming ELSE came[taken + i]]
      BY <2>3
    <3>7. \A i \in 1 .. Len(sizes) + 1 : i = Len(sizes) + 1 \/ i \in 1 .. Len(sizes)
      BY <2>3, OneMore
    <3>8. Len(sizes) + 1 \notin 1 .. Len(sizes)
      BY <2>3
    <3> QED BY <3>1, <3>2, <3>3, <3>4, <3>5, <3>6, <3>7, <3>8
  <2>5. InHand' = InHand
    BY <1>1, <2>1, InHandKept
  <2> QED BY <1>1, <2>1, <2>4, <2>5 DEF Queue!Receive
<1> QED BY <1>2, <1>3 DEF rx_cplt_irq, on_rx_cplt_irq

LEMMA AbsLine ==
  ASSUME CommsAssumption, Inv, RingInv, RingInv', HostSends \/ overrun_irq \/ ByteLost
  PROVE  Queue!Send \/ Queue!Lose
<1>1. UNCHANGED <<came, coming, taken, sizes, size>>
  BY DEF HostSends, overrun_irq, ByteLost, rx_vars, main_vars
<1>2. Queued' = Queued /\ InHand' = InHand
  BY <1>1, QueuedKept, InHandKept
<1>3. CASE HostSends
  <2>1. PICK n \in Lengths : line' = Append([i \in 1 .. n |-> Len(sent) + 1], Delim)
    BY <1>3 DEF HostSends
  <2>2. n \in Nat /\ Len(sent) \in Nat
    <3>1. sent \in Seq(Lengths) /\ Lengths \subseteq Nat
      BY DEF CommsAssumption, RingInv, TypeOK
    <3> QED BY <3>1
  <2> DEFINE s == [i \in 1 .. n |-> Len(sent) + 1]
  <2>3. s \in Seq(Nat) /\ Delim \in Nat
    BY <2>2
  <2>4. line' = Append(s, Delim)
    BY <2>1
  <2> HIDE DEF s
  <2>5. line' \in Seq(Nat) /\ Len(line') = Len(s) + 1 /\ Len(s) \in Nat
    BY <2>3, <2>4, Appended
  <2>6. line' # << >>
    BY <2>5
  <2> QED BY <1>1, <1>2, <1>3, <2>6 DEF HostSends, Queue!Send
<1>4. CASE overrun_irq \/ ByteLost
  BY <1>1, <1>2, <1>4 DEF overrun_irq, ByteLost, Queue!Lose
<1> QED BY <1>3, <1>4

(* What the main loop takes, and is done with.                             *)
LEMMA AbsTakes ==
  ASSUME CommsAssumption, Inv, RingInv, RingInv', take_size
  PROVE  Queue!Take
<1>1. /\ sizes \in Seq(Nat) /\ sizes # << >> /\ taken' = taken + 1 /\ taken \in Nat
      /\ sizes' = Tail(sizes) /\ size' = Head(sizes)
      /\ UNCHANGED <<line, coming, came>>
  <2>1. taken \in Nat
    BY DueBound
  <2> QED BY <2>1 DEF RingInv, TypeOK, take_size, host_vars
<1>2. /\ Len(sizes) \in Nat /\ Len(sizes) > 0 /\ Len(sizes') = Len(sizes) - 1 /\ size' = sizes[1]
  BY <1>1, HeadTail
<1> DEFINE q == [i \in 1 .. Len(sizes) |-> came[taken + i]]
<1>3. Queued = q
  BY QueuedIs DEF InRings
<1>4. InHand' = came[taken + 1]
  <2>1. InHand' = IF size' = 0 THEN << >> ELSE came'[taken']
    BY MappedNext DEF OneInHand
  <2>2. size' = 0 => came[taken + 1] = << >>
    <3>1. 1 \in 1 .. Len(sizes) /\ taken + 1 \in 1 .. Len(came)
      BY <1>1, <1>2 DEF RingInv, Numbered
    <3>2. Len(came[taken + 1]) = sizes[1]
      BY <3>1 DEF RingInv, Numbered
    <3>3. came \in Seq(Seq(Nat \ {Delim}))
      BY DEF RingInv, TypeOK
    <3>4. came[taken + 1] \in Seq(Nat \ {Delim})
      BY <3>1, <3>3
    <3> QED BY <1>2, <3>2, <3>4
  <2> QED BY <1>1, <2>1, <2>2
<1>5. Queued' = [i \in 1 .. Len(sizes) - 1 |-> came[taken + (i + 1)]]
  <2>1. \A i \in 1 .. Len(sizes) - 1 : taken' + i = taken + (i + 1)
    BY <1>1, <1>2
  <2>2. Queued' = [i \in 1 .. Len(sizes) |-> came[taken + i]]'
    BY MappedNext DEF InRings
  <2> QED BY <1>1, <1>2, <2>1, <2>2
<1>6. q # << >> /\ Head(q) = came[taken + 1] /\ Tail(q) = [i \in 1 .. Len(sizes) - 1 |-> came[taken + (i + 1)]]
  BY <1>2
<1>7. Queued # << >> /\ InHand' = Head(Queued) /\ Queued' = Tail(Queued)
  BY <1>3, <1>4, <1>5, <1>6
<1> QED BY <1>1, <1>7 DEF Queue!Take

LEMMA AbsWorks ==
  ASSUME RingInv, RingInv', UNCHANGED <<line, coming, came, taken, sizes>>, size' = size \/ size' = 0
  PROVE  [Queue!Done]_Queue!vars
<1>1. Queued' = Queued
  BY QueuedKept
<1>2. CASE size' = size
  <2>1. InHand' = InHand
    BY <1>2, InHandKept
  <2> QED BY <1>1, <2>1 DEF Queue!vars
<1>3. CASE size' = 0
  <2>1. InHand' = << >>
    BY <1>3, MappedNext DEF OneInHand
  <2> QED BY <1>1, <2>1 DEF Queue!Done
<1> QED BY <1>2, <1>3

(* The serial port delivers what comes over the line, cut at the           *)
(* delimiters: each message whole, once and in order, whatever the order   *)
(* of the interrupts, whatever an overrun loses and whatever fails         *)
(* (rx_buffer.cpp:11-27, char_rx_container.hpp:15-27).                     *)
THEOREM ImplementsQueue == ASSUME CommsAssumption PROVE Spec => DeliversMessages
<1>1. Init => Queue!Init
  <2> SUFFICES ASSUME Init PROVE Queue!Init
    OBVIOUS
  <2>1. RingInv
    BY InitRing
  <2>2. line = << >> /\ coming = << >> /\ Len(sizes) = 0 /\ size = 0
    <3>1. Len(<< >>) = 0
      OBVIOUS
    <3> QED BY <3>1 DEF Init
  <2>3. Queued = << >>
    BY <2>1, <2>2, QueuedIs DEF InRings
  <2>4. InHand = << >>
    BY <2>1, <2>2, InHandIs DEF OneInHand
  <2> QED BY <2>2, <2>3, <2>4 DEF Queue!Init
<1>2. Inv /\ RingInv /\ RingInv' /\ [Next]_vars => [Queue!Next]_Queue!vars
  <2> SUFFICES ASSUME Inv, RingInv, RingInv', [Next]_vars
               PROVE  [Queue!Next]_Queue!vars
    OBVIOUS
  <2>1. CASE UNCHANGED vars \/ tx_cplt_irq \/ dma_err_irq
    <3>1. UNCHANGED <<line, coming, came, taken, sizes, size>>
      BY <2>1 DEF vars, tx_cplt_irq, dma_err_irq, host_vars, rx_vars, main_vars
    <3> QED BY <3>1, AbsWorks DEF Queue!Next
  <2>2. CASE rx_cplt_irq
    BY <2>2, AbsReceives DEF Queue!Next
  <2>3. CASE HostSends \/ overrun_irq \/ ByteLost
    BY <2>3, AbsLine DEF Queue!Next
  <2>4. CASE take_size
    BY <2>4, AbsTakes DEF Queue!Next
  <2>5. CASE refuse \/ take_byte \/ skip_empty \/ handle_message \/ send
    <3>1. UNCHANGED <<line, coming, came, taken, sizes>> /\ (size' = size \/ size' = 0)
      BY <2>5 DEF refuse, take_byte, skip_empty, handle_message, send, spin_done, spin_timeout, fill,
                  clear_done, transmit, transmit_fails, host_vars, rx_vars
    <3> QED BY <3>1, AbsWorks DEF Queue!Next
  <2> QED BY <2>1, <2>2, <2>3, <2>4, <2>5 DEF Next, main, recv
<1> QED BY <1>1, <1>2, Invariance, RingInvariance, PTL DEF Spec, DeliversMessages, Queue!Spec
=============================================================================
