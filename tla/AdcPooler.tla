----------------------------- MODULE AdcPooler -----------------------------
(***************************************************************************)
(* The sampling of the analog inputs: every period of the bridge ends the  *)
(* turn of one channel of the sequence and starts the next.  In its turns  *)
(* the current is sampled as often as the trigger fires, by DMA; any other *)
(* channel is sampled once, by interrupt, and adc_conv_cplt_irq gives the  *)
(* value to the channel whose turn it is when the interrupt runs.          *)
(*                                                                         *)
(* The interrupts of the bridge, of the ADC and of its DMA channel share a *)
(* priority: each runs to its end before the next.  The hardware converts  *)
(* between any two of their statements.  Where a value comes from is all   *)
(* that is kept of it: the channel that was converted.                     *)
(***************************************************************************)
EXTENDS Integers, Sequences

CONSTANTS
  Sequence,   \* adc_pooler::sequence_
  N,          \* samples in the buffer of the current
  MayFail     \* whether calls of the HAL may fail for reasons of their own

CURRENT_CHANNEL  == "current"
POSITION_CHANNEL == "position"
VCC_CHANNEL      == "vcc"

ADC_CURR_POS_VCC_SEQUENCE ==
  <<CURRENT_CHANNEL, POSITION_CHANNEL, CURRENT_CHANNEL, VCC_CHANNEL>>

ADC_CURR_VCC_SEQUENCE == <<CURRENT_CHANNEL, VCC_CHANNEL>>

Channels == {Sequence[k] : k \in DOMAIN Sequence}

None == "none"

(* The current has every second turn, the first one included.              *)
ASSUME SequenceAssumption ==
  /\ Sequence \in Seq(STRING \ {None})
  /\ Len(Sequence) > 0 /\ Len(Sequence) % 2 = 0
  /\ \A k \in DOMAIN Sequence : Sequence[k] = CURRENT_CHANNEL <=> k % 2 = 1

ASSUME BufferAssumption == N \in Nat \ {0} /\ MayFail \in BOOLEAN

VARIABLES
  sequence_i,   \* adc_pooler::sequence_i_
  period_pc,    \* next part of on_period_irq, "idle" when it does not run
  used,         \* detailed_adc_channel::used
  buffer,       \* detailed_adc_channel::buffer
  last_value,   \* last_value of the other channels
  inoperable,   \* a channel has reported an inoperable state
  degraded,     \* the last turn of the current ended with a degraded report
  tim,          \* TIM6 fires the trigger
  adstart,      \* ADC: conversions follow the trigger
  channel,      \* ADC: channel that is converted
  dr,           \* ADC: the last result
  eoc,          \* ADC: end of conversion flag
  eocie,        \* ADC: the flag raises an interrupt
  dmaen,        \* ADC: results are moved by DMA
  left,         \* DMA: samples still to move (__HAL_DMA_GET_COUNTER / 2)
  dma_cplt,     \* DMA: end of transfer flag
  failed,       \* history: a call of the HAL has failed for a reason of its own
  fresh,        \* history: the part of buffer written in this turn
  lost          \* history: the buffer was full at a sample of this turn

adc_vars == <<adstart, channel, dr, eoc, eocie, dmaen>>
dma_vars == <<left, dma_cplt>>
reports == <<inoperable, degraded, failed>>
history == <<fresh, lost>>
pooler_vars == <<sequence_i, period_pc, used, buffer, last_value, reports, tim, adc_vars,
          dma_vars, history>>

-----------------------------------------------------------------------------
active_id == Sequence[sequence_i + 1]

PoolerInit ==
  /\ sequence_i = 0
  /\ period_pc = "idle"
  /\ used = 0
  /\ buffer = [k \in 0 .. N - 1 |-> None]
  /\ last_value = [c \in Channels |-> None]
  /\ inoperable = FALSE /\ degraded = FALSE /\ failed = FALSE
  /\ tim = FALSE
  /\ adstart = FALSE /\ channel = None /\ dr = None
  /\ eoc = FALSE /\ eocie = FALSE /\ dmaen = FALSE
  /\ left = 0 /\ dma_cplt = FALSE
  /\ fresh = {} /\ lost = FALSE

(* The bridge, whose periods drive the sequence, has been started before.  *)
start ==
  /\ ~tim
  /\ tim' = TRUE
  /\ UNCHANGED <<sequence_i, period_pc, used, buffer, last_value, reports, adc_vars,
                 dma_vars, history>>

-----------------------------------------------------------------------------
(* A trigger converts the channel that is set.  By DMA, the result goes to *)
(* the buffer while it has place; otherwise it waits for the flag it sets  *)
(* to be served, and a result meanwhile is dropped (OVR_DATA_PRESERVED).   *)
Move ==
  /\ dmaen /\ left > 0
  /\ buffer' = [buffer EXCEPT ![N - left] = channel]
  /\ fresh' = fresh \cup {N - left}
  /\ left' = left - 1
  /\ dma_cplt' = (left = 1)
  /\ dr' = channel
  /\ UNCHANGED <<eoc, lost>>

Hold ==
  /\ ~(dmaen /\ left > 0)
  /\ dr' = IF eoc THEN dr ELSE channel
  /\ eoc' = TRUE
  /\ lost' = (lost \/ (dmaen /\ period_pc = "idle"))
  /\ UNCHANGED <<buffer, fresh, dma_vars>>

Convert ==
  /\ tim /\ adstart
  /\ Move \/ Hold
  /\ UNCHANGED <<sequence_i, period_pc, used, last_value, reports, tim, adstart,
                 channel, eocie, dmaen>>

-----------------------------------------------------------------------------
(* The HAL.  A conversion under way refuses a new channel and a new start; *)
(* whatever else may go wrong is a timeout that leaves the ADC as it was.  *)

HAL_ADC_ConfigChannel(c) == ~adstart /\ channel' = c

HAL_ADC_Start_IT ==
  /\ adstart' = TRUE
  /\ eoc' = FALSE
  /\ eocie' = TRUE
  /\ UNCHANGED <<dr, dmaen>>

(* Mutant: the conversions go on after the value is taken.                 *)
Stop_IT_left == UNCHANGED <<adstart, eocie>>

HAL_ADC_Stop_IT ==
  /\ adstart' = FALSE
  /\ eocie' = FALSE

HAL_ADC_Start_DMA ==
  /\ adstart' = TRUE
  /\ eoc' = FALSE
  /\ dmaen' = TRUE
  /\ left' = N
  /\ dma_cplt' = FALSE
  /\ UNCHANGED <<dr, eocie>>

(* Mutant: the turn of the current ends like that of another channel.      *)
Stop_DMA_by_IT == adstart' = FALSE /\ UNCHANGED <<dmaen, dma_cplt>>

(* Mutant: it does not stop.                                               *)
Stop_DMA_left == UNCHANGED <<adstart, dmaen, dma_cplt>>

HAL_ADC_Stop_DMA ==
  /\ adstart' = FALSE
  /\ dmaen' = FALSE
  /\ dma_cplt' = FALSE

(* A call that fails for a reason of its own is reported as inoperable.    *)
Fails == MayFail /\ inoperable' = TRUE /\ failed' = TRUE

Succeeds == UNCHANGED <<inoperable, failed>>

-----------------------------------------------------------------------------
(* on_period_irq, called by the bridge until it is stopped: the turn ends. *)

(* Mutant: the whole buffer counts as used.                                *)
CountUsed_all == N

CountUsed == N - left

read_used ==
  /\ period_pc = "idle" /\ ~inoperable
  /\ active_id = CURRENT_CHANNEL
  /\ used' = CountUsed
  /\ period_pc' = "stop"
  /\ UNCHANGED <<sequence_i, buffer, last_value, reports, tim, adc_vars,
                 dma_vars, history>>

NextIndex == (sequence_i + 1) % Len(Sequence)

NextTurn ==
  /\ sequence_i' = NextIndex
  /\ period_pc' = "start"

(* Mutant: a full buffer is no reason to report.                           *)
BadCount_empty == used = 0

BadCount == used \in {0, N}

(* The readings, the first used samples of buffer, go to the governor.     *)
period_stop ==
  /\ period_pc = "stop"
  /\ \/ Succeeds /\ HAL_ADC_Stop_DMA
     \/ Fails /\ UNCHANGED <<adstart, dmaen, dma_cplt>>
  /\ degraded' = BadCount
  /\ NextTurn
  /\ UNCHANGED <<used, buffer, last_value, tim, channel, dr, eoc, eocie, left,
                 history>>

(* No other channel has anything to do at the end of its turn.             *)
leave_single ==
  /\ period_pc = "idle" /\ ~inoperable
  /\ active_id # CURRENT_CHANNEL
  /\ NextTurn
  /\ UNCHANGED <<used, buffer, last_value, reports, tim, adc_vars, dma_vars,
                 history>>

-----------------------------------------------------------------------------
(* on_period_irq: the next turn starts.                                    *)

(* The turn of the current passes without a sample when the channel before *)
(* has not been converted yet: nothing is started and nothing is reported. *)
period_start_detailed ==
  /\ period_pc = "start"
  /\ active_id = CURRENT_CHANNEL
  /\ fresh' = {}
  /\ lost' = FALSE
  /\ \/ /\ adstart
        /\ UNCHANGED <<adc_vars, dma_vars>>
        /\ Succeeds
     \/ /\ HAL_ADC_ConfigChannel(CURRENT_CHANNEL)
        /\ \/ HAL_ADC_Start_DMA /\ Succeeds
           \/ Fails /\ UNCHANGED <<adstart, dr, eoc, eocie, dmaen, dma_vars>>
  /\ period_pc' = "idle"
  /\ UNCHANGED <<sequence_i, used, buffer, last_value, degraded, tim>>

(* For any other channel a refused one is reported; the start is tried     *)
(* nevertheless, and refused for the same reason.                          *)
period_start_single ==
  /\ period_pc = "start"
  /\ active_id # CURRENT_CHANNEL
  /\ \/ /\ adstart
        /\ inoperable' = TRUE
        /\ UNCHANGED <<adc_vars, failed>>
     \/ /\ HAL_ADC_ConfigChannel(active_id)
        /\ \/ HAL_ADC_Start_IT /\ Succeeds
           \/ Fails /\ UNCHANGED <<adstart, dr, eoc, eocie, dmaen>>
  /\ period_pc' = "idle"
  /\ UNCHANGED <<sequence_i, used, buffer, last_value, degraded, tim, dma_vars,
                 history>>

-----------------------------------------------------------------------------
(* The end of a conversion or of a transfer.                               *)

conv_cplt(c) ==
  /\ \/ HAL_ADC_Stop_IT /\ Succeeds
     \/ Fails /\ UNCHANGED <<adstart, eocie>>
  /\ last_value' = [last_value EXCEPT ![c] = dr]

(* In a turn of the current the value of a channel that is late is lost.   *)
adc_conv_cplt_irq ==
  IF active_id = CURRENT_CHANNEL
  THEN UNCHANGED <<last_value, adstart, eocie, inoperable, failed>>
  ELSE conv_cplt(active_id)

(* ADC1_IRQHandler: the HAL clears the flag after its callback.            *)
adc_irq ==
  /\ period_pc = "idle"
  /\ eoc /\ eocie
  /\ adc_conv_cplt_irq
  /\ eoc' = FALSE
  /\ UNCHANGED <<sequence_i, period_pc, used, buffer, degraded, tim, channel, dr,
                 dmaen, dma_vars, history>>

(* GPDMA1_Channel0_IRQHandler: the HAL clears the flag first.              *)
dma_irq ==
  /\ period_pc = "idle"
  /\ dma_cplt
  /\ dma_cplt' = FALSE
  /\ adc_conv_cplt_irq
  /\ UNCHANGED <<sequence_i, period_pc, used, buffer, degraded, tim, channel, dr, eoc,
                 dmaen, left, history>>

-----------------------------------------------------------------------------
on_period_irq ==
  \/ read_used
  \/ period_stop
  \/ leave_single
  \/ period_start_detailed
  \/ period_start_single

PoolerNext == start \/ Convert \/ on_period_irq \/ adc_irq \/ dma_irq

(* The board starts the trigger, and the bridge does not stop.  A period   *)
(* lasts 16384 ticks and the trigger fires every 257 (board.cpp:275,       *)
(* timers.cpp:84): a turn is not cut short before its conversion again and *)
(* again, nor before the interrupt that takes the value.                   *)
PoolerFairness ==
  /\ WF_pooler_vars(start)
  /\ WF_pooler_vars(on_period_irq)
  /\ \A c \in Channels : SF_pooler_vars(Convert /\ active_id = c /\ channel = c)
  /\ \A c \in Channels \ {CURRENT_CHANNEL} : SF_pooler_vars(adc_irq /\ active_id = c)

PoolerSpec == PoolerInit /\ [][PoolerNext]_pooler_vars /\ PoolerFairness

-----------------------------------------------------------------------------
(* Properties                                                              *)

(* Every variable holds a value of its type.                               *)
PoolerTypeOK ==
  /\ sequence_i \in 0 .. Len(Sequence) - 1
  /\ period_pc \in {"idle", "stop", "start"}
  /\ used \in 0 .. N
  /\ buffer \in [0 .. N - 1 -> Channels \cup {None}]
  /\ last_value \in [Channels -> Channels \cup {None}]
  /\ {inoperable, degraded, tim, adstart, eoc, eocie, dmaen, dma_cplt, failed,
      lost} \subseteq BOOLEAN
  /\ {channel, dr} \subseteq Channels \cup {None}
  /\ left \in 0 .. N
  /\ fresh \subseteq 0 .. N - 1

(* While nothing is inoperable, no channel is ever given the sample of     *)
(* another one, although the interrupt that takes a sample asks only whose *)
(* turn it is (adc_pooler.hpp:163).                                        *)
ValuesBelong ==
  ~inoperable =>
    /\ \A c \in Channels : last_value[c] \in {c, None}
    /\ \A k \in 0 .. N - 1 : buffer[k] \in {CURRENT_CHANNEL, None}

(* Conversions that are late, or that never come because the trigger is    *)
(* not started yet, do not stop the servo: only a failing call of the HAL  *)
(* does (adc_pooler.hpp:38-45, 82-85).                                     *)
InoperableForCause == inoperable => failed

(* The readings given to the governor were taken in the turn that ends,    *)
(* unless the ADC was not free for the current at its start                *)
(* (adc_pooler.hpp:51-62).                                                 *)
ReadingsOfThisTurn ==
  period_pc = "stop" /\ ~inoperable /\ channel = CURRENT_CHANNEL =>
    0 .. used - 1 \subseteq fresh

(* If samples of a turn found no place in the buffer before its end was    *)
(* looked at, that end reports a degraded state (adc_pooler.hpp:56-57).    *)
LossIsReported ==
  lost /\ ~inoperable /\ (period_pc = "start" \/ active_id # CURRENT_CHANNEL) => degraded

(* Every channel is sampled again and again as long as the servo works     *)
(* (adc_pooler.hpp:169-183).                                               *)
Sampled(c) ==
  IF c = CURRENT_CHANNEL THEN period_pc = "stop" /\ fresh # {}
  ELSE active_id = c /\ ~adstart /\ last_value[c] = c

ChannelsServed ==
  \A c \in Channels : <>[]inoperable \/ []<>Sampled(c)
=============================================================================
