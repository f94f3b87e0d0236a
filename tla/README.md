# A verification development of servio

servio is the firmware of a DC servo controller (STM32H5, C++) and the host tool that talks
to it. This directory models the firmware in TLA+, model-checks it with TLC and proves
the theorems that hold for every value of the constants with TLAPS. Paths below are relative
to `src/src/` unless they start with `doc/`. The libraries in git submodules (`emlabcpp`,
`zll`, `vari`, `asrt`, `ecor`) are not part of the repository; what the firmware needs of
them is modelled from how it uses them.

## 1. Inventory

### Who runs

There is no operating system. Four kinds of contexts run the code:

| context | priority | code |
|---|---|---|
| main loop | thread | `fw/main.cpp`: tick, receive, handle a message, send |
| I2C2 interrupts | 4 | completion of EEPROM transfers |
| TIM1 update, ADC, GPDMA | 1 | `adc_pooler`: the period of the motor PWM, the end of a conversion |
| UART, TIM2 update | 0 | `char_uart`, `cobs_uart`: bytes in and out, errors; `clock` |

A context is preempted only by those above it. There are no locks: shared state is
read and written in place, and the order of single statements is all the protection there is.

### Components

| component | state | operations | used by / uses |
|---|---|---|---|
| error sentries (`sntr`) | a central latch `is_inoperable_`, rings of inoperable and degraded records, per sentry the held codes | report, set, unset, destroy | every driver reports into it from its interrupt; it calls the stop callback |
| governor manager (`gov/governor_manager.hpp`) | `active_`, `active_h_`, the list of governors, one buffer for the handle | activate, deactivate, `current_irq`, `metrics_irq` | commands of the main loop; interrupts of the pooler |
| governors (`gov/power`, `current`, `velocity`, `position`) | goal, limits, PID regulators, minimizer | engage, disengage, on_cmd, interrupts | the manager |
| command dispatcher (`core/dispatcher.cpp`) | none | `handle_message` | manager, metrics, monitor, configuration, storage |
| motor driver (`drv/hbridge`) | timer handle, compare registers, sign, inversion | start, force_stop, set_power, set_invert, period interrupt | the current callback, the stop callback |
| board (`brd/proto4`) | handles, stop callback, pins | setup_board, setup_core_drivers, start_callback, load_cfg | main |
| main loop (`fw`) | buffers, context | setup, loop, stop_exec, fault handlers | everything |
| LEDs (`drv/leds`), indication, monitor (`mon`) | forced red, state of the effects | update, on_event, tick | main loop |
| ADC pooler (`drv/adc_pooler`) | sequence, active channel, per channel a buffer of measurements | on_period_irq, conversion complete | the period interrupt; position, current, voltage, temperature |
| UART (`drv/char_uart`, `cobs_uart`, `bits/rx_buffer`) | ring of bytes, ring of message sizes, output buffer | recv, start, send, rx and tx interrupts | main loop |
| clock (`drv/clock`) | overflow count | get_us, overflow interrupt | everything |
| encoder (`drv/quad_encoder`) | counter | period interrupt | position callback |
| metrics (`mtr`, `klmn`) | Kalman state, static detector | position interrupt | governors |
| storage (`drv/paged_i2c_eeprom`) and configuration (`cfg`) | pages, the newest page, field maps | store, load, clear, get, set, list, commit | dispatcher, boot |
| text interface (`iface`, `lib`) | none | lexer, parser, JSON writer | dispatcher |
| host tool (`scmdio`) | port | commands, presets, firmware upload | a person |

### What is hard here

* **Preemption without locks.** The manager's two pointers, the motor driver's handle, the
  ring indices, and the clock's counter are all read and written by contexts that preempt
  each other.
* **Stopping.** A stop may start in any context, while another context is in the middle
  of the same stop or of setting the power.
* **Order of boot.** Interrupts are enabled one by one, before the boot is finished.
* **Failure.** A transfer, a start or a receive may fail; an overrun loses a byte; a store or a clear may be
  cut short. No `engage` of a governor fails.
* **Wrapping.** The record rings, the byte ring and the pages wrap.

What must be right, per component: a record is kept until newer ones need its place, the motor
is stopped exactly once and for every error, and nothing is reported as healthy that
is not (sentries); at most one governor is in control, none is called while it is being engaged,
and the reply tells the truth (manager); a stopped bridge stays without power
(driver); bytes are neither lost nor doubled (UART); time never goes back (clock); no channel is given the
sample of another, and a reading is of its turn (pooler); the red LED tells the cause (indication); a crash
never costs more than the fields being written, and a boot finds what was committed (storage); a tool that says it
is done has written the whole image (upload).

## 2. The models

| module | models | relation to the others |
|---|---|---|
| `Sentry` | the sentries and the central sentry, one action per public call | |
| `GovernorCtl` | what the manager promises: who drives the motor | abstract |
| `GovernorManager` | the manager, the governors and the commands, statement by statement under interrupts | implements `GovernorCtl` |
| `MotorStop` | the stop of the motor: central sentry, stop callback, bridge, LEDs, boot and main loop in three contexts | composes parts of six components |
| `Clock` | `get_us` in three contexts, the counter and its overflow interrupt | |
| `MessageQueue` | what the serial port promises: whole messages, once, in order | abstract |
| `Comms` | `char_uart` with its rings, its interrupts, its DMA and the main loop that uses it | implements `MessageQueue` |
| `SentryRing` | one ring of records under reports of several priorities, statement by statement | splits the step `Sentry` takes for a report |
| `AdcPooler` | the sequence of channels, the conversions of the ADC and its DMA under the period interrupt | its period interrupt is the one of `MotorStop` |
| `Indication` | the monitor, the indication and its blinker under passes of the main loop | drives the red LED that the stop of `MotorStop` forces on |
| `Config` | the fields, what is computed from them and their copy in the EEPROM, across commands, bus errors, losses of power and versions | the main loop of `GovernorManager` and `Comms` |
| `DfuUpload` | the upload of a firmware image by the host tool against the bootloader of the chip | the only part that runs on the host |
| `SentryProofs`, `GovernorProofs`, `MotorStopProofs`, `CommsProofs`, `ConfigProofs`, `SentryRingProofs`, `DfuUploadProofs` | theorems | extend the modules they are about |
| `PeripheralProofs` | theorems about `Indication`, `Clock` and `AdcPooler`, which share no state | extends all three, whose names are kept apart (`ClockSpec`, `PoolerSpec`) |
| `MCConfig`, `MCDfuUpload`, `MCIndication` | values of constants a `.cfg` cannot write: functions and negative numbers | extend the modules they are about |

The other modules are run by their `.cfg` themselves. Where a property is a theorem for every value of the
constants and TLC would add little, the run leaves it out: the ones section 4 names as only proved. A definition whose comment begins with *Mutant* is not
part of any specification: it is a plausible mistake in the definition that follows it, kept
to show that a property can tell the two apart.

### How the state and the actions correspond to the code

The modules are smaller than the code they stand for because data is reduced to what a property tells
apart: a sample is the channel it was taken from, a record the number of its report, a message its number.

**Sentry** (`sntr/`). The rings, their indices and the latch are the fields of
`central_sentry`; `inop_ecode` and `degr_ecode` are those of `sentry`. The actions are the
constructor, `set_inoperable`, `set_inoperable_set`, `set_degraded`, `set_degraded_set`,
`unset_degraded` and the destructor; each contains the whole chain of calls down to the ring
and the stop callback. Error ids include illegal ones, which the code maps to
`forbidden_eid`. The two logs are histories. A record is stamped with the number of the
report in place of the time.

**GovernorManager** (`gov/`, `core/dispatcher.cpp:19-80`). `active` and `active_h` are the two
pointers of the manager; a handle is named by its governor. `pc` is the next statement of the
main loop in `activate` (through `disengage`: call the governor, clear `active_`, clear the
handle; then search, engage and tie) or `deactivate`. `current_irq` and `metrics_irq` run between any
two of these and to their end: nothing above them in priority touches this state. Goals and
powers are signs. `engage` of all four governors succeeds, whatever the state. `derived` is the position the
current governor's limits were last derived from: an engage leaves it as it is, and the position
interrupt writes it only for the governor in control. The PID regulators are in a library, and return any value of their range.

**MotorStop**. A context (main loop, priority 1, priority 0) has a `pc` and a
return point. A report begins with `get_us`, which at priority 0 may not return (`Clock`): `Hung` says
that it does not, and nothing below runs again. A stop is `fire_inoperable` (check, latch), the stop callback
(`hbridge::force_stop`: check the handle, clear one register, clear the other, forget the
handle; the pin VREF; the red LED). The period interrupt stops the running conversion, which may
report an error, starts the next, and ends with `set_power` of any power: check the handle,
write one register, write the other. The boot is modelled to the point where interrupts are on; the starts of
the two channels of the bridge, of the port and of the encoder are steps of their own, and each may fail.
A write through a handle that was set to null between the check and the write is undefined behaviour;
the outcomes the build can produce are a write to the timer (the pointer is in a CPU register)
and none (the pointer is read again, which ends elsewhere or in the fault handler).

**Clock** (`drv/clock.hpp`). `wraps` and `cnt` are the true time, `irq_count` what the
program knows of it. The steps of `get_us` are its two reads and its check; the interrupt has
two steps, for the flag is cleared by the vendor's handler before `timer_period_irq` counts.

**Comms** (`drv/char_uart.hpp`, `drv/bits/`, `fw/main.cpp:45-62`). A byte is the number of its message
or the delimiter, so a message that is torn, doubled or joined to another shows. A reply is
the number of the message it answers. `load_message` is a step for the size and one for each byte; `send`
is wait, fill, clear `tx_done_`, start. An error of the DMA ends the transfer
(`plt/stm32h5/Src/stm32h5xx_hal_uart.c:3735-3763`), and a start may be refused. An overrun loses a byte or a delimiter and the
reception goes on: the HAL notes the error and serves the byte that is waiting first
(`stm32h5xx_hal_uart.c:2279-2294`), the driver's callback starts the next receive (`drv/bits/uart.hpp:39`), and that clears
the error noted (`3383`), so that the test for a blocking error is passed and the error callback reads none. The host's
messages that lost a byte or a delimiter are `torn` and `joined`.

**SentryRing** (`sntr/central_sentry.cpp:14-79`). A level is a priority that reports: main, priority 1,
priority 0. A report reads the clock, takes the slot the index names, steps the index and stores the fields of the
record. The index is a plain variable, so the step may use the value read for the slot or a new one, and
the fields may be stored in any order. `record_state::LOCKED` is set nowhere, so the search for a free
slot ends after one slot.

**AdcPooler** (`drv/adc_pooler.hpp`). `on_period_irq` is two steps, the end
of a turn and the start of the next, between which the hardware may convert; `adc_irq` and `dma_irq`
are the handlers down to the callbacks. The ADC, the trigger (TIM6) and the DMA channel are modelled from
how the code and the HAL use them: conversions that follow the trigger, the flag `eoc`, the count of
samples left. Every call of the HAL may fail (`MayFail`).

**Indication** (`mon/`, `fw/context.cpp`). An action per step of a pass: tick, receive, handle. Times are relative to now;
a pass takes any time of `Passes`. `next_e` of the blinker is uninitialised in the code, so
it starts with any value of `Leftovers`.

**Config** (`cfg/`, `drv/paged_i2c_eeprom.cpp`, `fw/context.cpp`). `map` is the map of fields, `parts` what the
converters and drivers were last computed from. The EEPROM is a ring of `Pages` pages of cells, `order` those that
are whole, oldest first, and `store` the cells of the newest. Boot and commit walk the
cells of `store` from the newest to the oldest and mark each key as seen; a bus error or a loss of
power may come between any two cells. A boot may run another version of the firmware, with
other keys and other types. A stored value of another type does not decode: a commit takes it for unchanged
(`cfg/handler.hpp:117-120`); of a load the handler tells the library, which either goes on without the value or gives up,
and then the board halts. A commit that finds no room wipes the page after the newest, writes every key to it, and the page
counts once it is whole. `clear_cfg` wipes the whole EEPROM from address 0, whichever page is the newest
(`drv/paged_i2c_eeprom.cpp:255-260`), so a clear that is cut short may leave older pages without the newest. A batch of
zeros takes a cell, or what makes the page one. The format is a library's: it is asked that a page takes the
place of another only when it is whole.

**DfuUpload** (`scmdio/dfu_flash.cpp`, `flash.cpp`, `port.cpp`). `pc` is the answer the tool waits for. A
frame or an answer may be lost, an answer may come after its time-out and be read by the next run, the device may be
reset in the middle, and the user may start the tool again with another file. The bootloader is modelled from what
`dfu_flash.cpp` expects of it (`init_comm` expects that a second INIT is refused; the mock of
the tests accepts it). A run that opens the port drops what has come and what has not left the host
(`flush_port`, `scmdio/port.hpp:43-61`); `Adrift` is how many frames may have left it and still be on their way.

## 3. The runs

| run | distinct states | what it shows |
|---|---|---|
| `sentry` | 224 866 | two sentries, legal and illegal ids: the stop is called once, whichever reports and whatever wraps, and every change of a degradation is reported |
| `sentry_ring` | 623 509 | reports that preempt each other: records are whole, and a finished report is kept until its place is due, unless it came between another's read and step of the index or a report was lapped by the ring |
| `governor` | 1 868 340 | three governors: goals, soft limits and replies are right under interrupts, whatever was engaged before and wherever, and the manager implements `GovernorCtl` |
| `motor_stop` | 92 943 | an inoperable system gives up the bridge whoever reports it and whatever is interrupted, unless a report hangs; the loop that ends the firmware shows red; the reference voltage goes off; late writes are bounded |
| `adc_pooler` | 3 815 | samples never reach another channel, readings are of their turn, a lost sample is reported, late conversions do not stop the servo, each channel is served |
| `clock` | 38 750 | what `get_us` returns is the time at an instant of the call; a call ends unless a UART interrupt hangs |
| `comms` | 276 395 | the main loop gets what came between two delimiters, once and in order, answers it in order, and stops only for a cause; an overrun damages its own message, and the next if it took the delimiter, but no other |
| `config` | 5 196 606 | what is computed from the fields follows them, and a boot finds what was committed whatever failed, whichever page it is on and whichever version wrote it; after a clear that was cut short it finds nothing that no commit has stored |
| `indication` | 266 523 | the number of blinks tells the cause, a blink is not shorter than it came late, red comes on for a lasting cause and goes off after it |
| `dfu_upload` | 134 763 | a run that claims to be done has written the image, fails only for a cause, never mixes two images, and ends |

Two further runs show that the code does not do what a comment says. Each ends with a counterexample:

| run | says | does |
|---|---|---|
| `motor_stop_unpowered` | `fw/extra.cpp:43-44`: the bridge must not be active in the endless loop | a period interrupt between `force_stop`'s clearing of the registers and of the handle sets a register again |
| `comms_overrun` | `drv/bits/uart.hpp:13-14`: an overrun is an error the driver reports as degraded | the restart of the receive clears the error before the error callback reads it: a byte or a delimiter is lost and nobody is told |

In `motor_stop_unpowered` the reference voltage of the bridge is off (`VrefOffWhenStopped`: if the boot has turned it on at
all), which limits the current of the bridge: the pin is a second line of defence.

### Differences seen while modelling, without a run of their own

* `sntr/tests/sentry_utest.cpp:158` lists as behaviour to test that an inoperable record is not removed. Nothing sets
  `LOCKED`, so a full ring overwrites its oldest record, which tells the first cause of the stop
  (`sntr/central_sentry.cpp:24`; `RingsKeepNewest` proves what the code does).
* `mon/indication.hpp:10`: red glows when the system stops itself. After a stop by an interrupt the main loop
  goes on, and its next update drives the pin again (`drv/leds.cpp:17`): nothing sets `red_forced_`.
* `gov/tests/soft_limit_utest.cpp:27`: inside the range the soft limits push nowhere. The test looks right after a position
  interrupt; a current governor that is engaged again keeps the limits of the position it was left at, and may push with a goal of 0 until
  the next position interrupt (`gov/current/current.hpp:86`). `NeverPushesOut` begins with that interrupt.
* REQ6.2.4 and REQ6.5.3 (`doc/reqs/06.configuration.md:33`, `69`) and `scmdio/main.cpp:112`: clear removes the last set
  stored, of a history of at least two. `clear_cfg` wipes all pages, so that nothing of any set is left and the next boot has the
  defaults, as `BootsAsCommitted` says.
* `iface/iface.md:33-34`: a reply has at least one item and the first is `OK` or `NOK`; the `gov` command for
  an unknown governor is answered by `[]` (`core/dispatcher.cpp:121`), and the word is `NO`.
* `mon/indication.hpp:11-12` speaks of 100 ms and 1 s where the code has 200 ms and 2 s, and of 1 ms for
  the blue light of a message where the code has 10 ms. The blue LED is dark while booting
  (`mon/indication.hpp:17`), as the LEDs are updated only after INITIALIZED, and its time for
  a message is over before the next update if handling it takes longer.
* `green` is a `bool` where an intensity is computed, so the LED is on or off.
* A commit replies OK and leaves a stored value in place that this version cannot decode, as it counts as
  unchanged (`cfg/handler.hpp:117-120`); only a commit that moves to another page replaces it. `BootsAsCommitted` names the exception.
  Whether a boot goes on without such a value, as REQ6.6 asks, is up to the library (`cfg/handler.hpp:86-92`).
* In the turn of a current whose conversion could not start, the older samples are used again
  (`drv/adc_pooler.hpp:38`); `ReadingsOfThisTurn` leaves that turn out.
* `next_e` of the blinker starts with what is in the memory (`mon/effects.hpp:25`). How long a value ahead of the clock, or
  far behind it, delays or speeds up the first cycles is not bounded by any property: `RedFollowsCause` says only what is shown in the end.
* While a field is being set, an interrupt may convert with the new scale and the old offset (`cnv/converter.hpp:14-18`):
  `Applied` bounds this to the field being set.
* An image of whole blocks that is shorter than the flash is followed by a write of length zero, for which
  the bootloader waits: the run fails after a complete image (`Uploadable` names the lengths). A larger image
  is truncated without a word.
* `init_comm` sends a second INIT when the first is not answered, but `read` throws before it can.
* An EEPROM that cannot be read at boot halts the board (`brd/proto4/board.cpp:558`), so it cannot be
  cleared over the interface.

### Bounds, and why they are enough

* `sentry`: rings of two records and four reports, so that each ring wraps twice; two sentries, so that
  records of two sources mix; ids below, at and above `max_eid`.
* `sentry_ring`: a ring of three records, two fields and three priorities with seven reports: enough for a
  report to be preempted by a whole round of the ring and for two rounds without.
* `governor`: a governor that derives nothing (power), one that derives its limits from the
  position (current), one whose neutral goal is the position it is engaged at (position); a position below, one within and one above the range. That the range is
  not empty is an assumption: nothing in the code checks it. Nothing is bounded: all states are reached.
* `adc_pooler`: the sequence of the board with four channels and a buffer of three samples, so that a
  transfer fills the buffer, ends before it, and does not begin. Nothing is bounded.
* `indication`: five slots as in the source and steps of three ticks; passes shorter than a step, as long as one half
  of it, and longer than two; `MaxLag` lets the blinker fall behind by more than two steps. The leftover is
  behind, at and ahead of the clock.
* `config`: two fields that make up one conversion; two pages of two cells, so that a second value for a key
  fills the page and the ring wraps. The old version of the firmware does not have the one field and has another type for the
  other. Values are two, so that old and new differ. Nothing else is bounded: commands, failures and changes of version go on for ever.
* `dfu_upload`: a flash of three blocks of two words each; files of every kind of length: empty, odd, a part of a
  block, whole blocks, the whole flash, more; three runs, so that leftovers of a run that failed meet the
  next and its successor; two frames adrift, one more than a run can leave behind.
* `motor_stop`: only the history of late writes has a bound, 4; the invariant says it stays at 2.
* `clock`: a period of two ticks and two overflows, so that overflows come in two
  rounds of a call. Nothing depends on the period, as the proof for every period shows. `MaxWraps` also
  means that overflows end: `CallEnds` says that a call ends if the counter does not overflow in
  each of its rounds forever, which the hardware guarantees (a round takes
  far less than the period of 5 001 ticks that `plt/stm32h5/timers.cpp:106` sets).
* `comms`: three messages of 0 to 3 bytes with an input buffer of 2, a byte ring of 4 and a size ring
  of 2: messages that are empty, that fill the input buffer, that are one byte too long, two short ones that a lost
  delimiter joins to one that is too long; rings that are full; a fault in the middle of a message with others queued before it,
  and a message after it that it must not touch.

### Fairness

* `MotorStop`, `Clock`: the priority-0 context has weak fairness, as nothing preempts it. In `MotorStop` this covers its
  steps except the return of `get_us`, which may hang: `InoperableStops` says that the bridge is given up or a
  report hangs. The other two contexts
  have strong fairness: they are preempted again and again, but the sources of interrupts are bounded by the baud rate and by timers, so
  that each gets the processor between interrupts. The overflow interrupt waits for
  the UART's, hence strong fairness for the clearing of its flag.
* `Comms`: weak fairness of the main loop as a whole (its steps are never disabled by interrupts, which
  are single steps here) and of the end of a transfer, with success or with an error. Nothing is assumed of the host.
* `AdcPooler`: the hardware's conversions and interrupts go on. A turn is a PWM period of 16 384 ticks
  (`brd/proto4/board.cpp:275`) and the trigger comes every 257 (`plt/stm32h5/timers.cpp:84`), so that a turn holds
  several conversions, and the ADC's interrupt is served before the next period.
* `Indication`: weak fairness of the passes: `recv` polls, it does not wait.
* `DfuUpload`: weak fairness of the tool, as a read that is not answered ends after 100 ms
  (`scmdio/port.cpp:50-55`). Nothing is assumed of the line nor of the bootloader.
* `Sentry`, `SentryRing`, `GovernorManager`, `Config`: no fairness, only safety is checked.

Deadlock is not checked where the system may stop: bounded reports (`sentry`, `sentry_ring`), bounded
overflows (`clock`), bounded messages and the stopped loop (`comms`), the endless loop
(`motor_stop`), an inoperable pooler (`adc_pooler`), bounded runs of the tool (`dfu_upload`).

## 4. The proofs

All theorems hold for every value of the constants allowed by the named assumption of the
module; TLC evaluates each assumption in the runs.

* **SentryProofs**: types, the one stop, both rings (from lemmas on the remainder of an index by the
  length of the ring, length 0 included), accumulation of causes (strengthened by: what a sentry
  holds contains what it ever reported), report of degradations (strengthened by: a
  sentry that holds a degradation has a newest record).
* **SentryRingProofs**: types, `RecordsAreWhole` and `ReportsAreKept` for every length of the ring, every number of
  priorities and of reports. The index may be set back by a report that read it before others
  stepped it. The invariant is the distance from the slot of a pending report, or of a finished one, to
  the index: it is at most the number of reports that took a slot since, less those that have still to step
  (`Bounded`). So a slot is met again only after a round of the ring, and `SlotsApart` follows.
* **GovernorProofs**: engagement; the refinement of `GovernorCtl`; neutral goals; that an
  inactive manager gives no power; that the pointers agree and replies tell the truth; and `LimitsHold`, that the current governor
  does not push out of the range, for every range that is not empty. The inductive invariant `Pointers` says, for each statement
  of `activate` and `deactivate`, which of the two pointers is set; `LimitsHold` needs `Derived`, that the limits are those
  of the newest position once the governor has seen one since it was engaged.
* **MotorStopProofs**: all seven safety properties. `Inv` says what each context in the
  middle of a stop, a `set_power` or the boot still owes: `Latched` (who found the latch set may rely on the
  one that set it), `BootOrder`, `SpinRed`, `LateOrigin` (writes still to come),
  `VrefPending`, `Registers`.
* **CommsProofs**: types, `OutputOwned`, the stability of the output buffer, `StopsForCause`, `RepliesInOrder` and the
  refinement of `MessageQueue`, for rings and messages of every length and every set of faults. `Handshake` says who may
  start a transfer; as long as no delimiter is lost, `Counted` says that `received_size` and the bytes still to come make up no
  more than one message, and `Sized` that no size in the ring is greater than the length of some message. The order of replies and the refinement hold
  with every overrun: a message is what came between two delimiters. The refinement needs to know where in the ring of bytes each message lies. The places are a
  sum over the sizes, which no recursive definition could give the prover: `Starts` is a function chosen to fit the
  sizes (`Fits`), and `Layout` says of every function that fits what lies at its places. With `Numbered`, which ties
  what is in the rings to the number of messages received, each interrupt and each step of `recv` maps to a step of `MessageQueue` or to none.
* **PeripheralProofs**, three parts that share no state:
  * `Indication`: types, `BlinksTellCause` and `BlinkLasts`, for every number of slots, every step and every time a pass
    may take. `Leftover` says that a slot set without a cause has not been visited since the readings changed, so that none
    is left after a cycle; `Counted` counts the blinks of a cycle slot by slot; `Measured` adds what has passed of a blink,
    what is left and what it came late.
  * `Clock`: types, `ReturnsInstant` and `HangsForever`, for every period and any number of overflows. The
    invariant `OverflowsCounted` is the heart of it: the overflows counted, plus one if the flag is set or being
    handled, are the true overflows; `Past` bounds what a context has read by the present.
  * `AdcPooler`: types and all four safety properties, for every sequence in which the current has every
    second turn and every length of the buffer. `DmaOwned` and `SingleOwned` tie the state of the ADC to the turn:
    whatever ends in a turn was measured on the channel whose turn it is; `SamplesCounted` ties the samples written to the
    counter of the DMA.
* **ConfigProofs**: types, `Applied` and `BootsAsCommitted`, for every set of fields, types, parts and versions, every
  number of pages and every length of a page. `StoredInv` says that what a walk finds for a key is a cell the history
  allows; `WalkedInv` what a walk owes: a key that is marked has been given its newest
  cell, one that is not has it still ahead. `CommitInv` and `DumpInv` follow a commit on the newest page and to the next
  one; `ClearInv` says that while a clear runs the history allows every cell on every page, so that an older page that becomes the
  newest keeps `StoredInv`.
* **DfuUploadProofs**: types and all three safety properties, for every set of files, every flash, any number of runs
  and any losses. An answer is a byte that does not say what it answers, so a tool that is one answer ahead of the
  bootloader would go on as if all were well. The argument has two layers.
  * `RunInv` looks at one run by itself, and needs no bound on `Adrift`: a run that started with the bootloader and met
    nothing (`Undisturbed`) has the frame it waits on alone under way (`Coming`), or its answer (`Answered`), or has
    sent a block of no bytes (`Stuck`). Types and `FailsForCause` follow for every `Adrift`.
  * `IInv` is about run after run, and assumes `Adrift <= 2`. Until `"id"` is read, `InitPending` and `IdPending` say what
    may be under way. From there on (`InStep`) it is one frame, or one answer, or nothing; or the run has taken an `"id"`
    told to an earlier one and is `Behind`, with an INIT or a GET_ID between it and its erase, and no ACK at the head of
    its answers. `FlashKnown` then names the contents of the flash at each step of the upload, and `DataAhead` says that a
    block of data left over from an earlier run comes before all else, and belongs to the image in the flash.

  A run waits for an answer before it sends its next frame and flushes the port when it opens it, so that it leaves one
  frame behind at most: the theorems allow for two. `UploadComplete` does not hold for more: with three frames adrift, six runs and a flash of one
  block TLC finds a run that takes the ACK told to an earlier EXTENDED_ERASE for its own, stays one answer ahead
  and claims a flash it has not written.

Only proved, and in no run: the type invariants that no run lists, `RingsHoldNewest`, `CausesAccumulate`, `PointersAgree`,
`EngageUndisturbed`, `UnpoweredWhenInactive`, `SpinsStopped`, `PowerApplied`, `HangsForever`, `OutputOwned` and
`OutputStable`.

Only model-checked: every liveness property (`InoperableStops`, `CallEnds`, `Answered`,
`ChannelsServed`, `RedFollowsCause`, `RunEnds`), which the prover cannot handle, and `DamageIsLocal`. Every other
invariant and action property of a passing run is a theorem.

`HangsForever` and `UartHangs` record a hazard of the design: a report from a UART interrupt
reads the clock, and if the counter overflows in that moment, `get_us` waits for an interrupt of its own
priority. The counter overflows every 5 001 ticks and the window is the length of the report, so
it is rare; the effect is a firmware that hangs with the motor on.

## 5. Not modelled, and why

* The vendor's HAL, its headers (nearly all lines of the repository) and the start-up code: no state of
  the program's own.
* Floating-point computations (Kalman filter, static detector, unit conversion, the wave of the green LED,
  regulator helpers): out of TLC's reach.
* Libraries in git submodules: their source is not in the repository. In particular the format of the pages in the
  EEPROM, COBS framing and the PID regulators.
* Noise and framing errors of the UART, which replace a byte: what follows depends on the text
  that results.
* The chip's identity in the upload is taken as known, and the tool's other commands, which wait for a reply
  without a time-out, are left out.
* Commands that change nothing: `prop`, `info`, `get`, `list`, queries of the governors.
* `em::cfg` loses keys of another version at the change of pages, which `Config` follows; that the change
  itself is atomic is asked of the library.
* Whatever is listed as `not_modelled` in `PROJECT.json`, with the reason given there.

## 6. What remains

The core of the firmware is modelled: whoever stops, drives, samples, stores or talks. What could be added,
in this order:

1. The receiver of `cobs_uart`, which shares the rest with `Comms`.
2. The lexer of the text interface against a reference grammar; the presets of `scmdio`.
3. The boot of the governors (`add_gov`, `create_governors`), which runs once, before interrupts.
