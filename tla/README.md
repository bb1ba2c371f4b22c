# A verification project for the SM502 electricity meter

The repository is the firmware of a single-phase prepayment meter (MSP430F6736, C):
metrology, energy registers with two backups, event logs in EEPROM, a relay, tamper
switches, a tariff, a power line (PLC) modem and an optical port that speak
DLMS/COSEM. This directory holds TLA+ models of its control logic, the TLC runs that
check them, and TLAPS proofs about them. Source paths below are relative to
`src/emeter-ng/`.

## 1. How the program works

One *main program* (`emeter-main.c`): boot, restore of the registers, then a loop that
runs `execute_tasks`, the PLC and DLMS handlers, the per-second and per-minute
activities and the backup check. *Interrupt handlers* run against it: the metrology
converter, which adds energy and detects missing zero crossings; the auxiliary supply
(`AUX_ISR`), which saves the registers and puts the meter to sleep; the timer of the
scheduler; two serial ports; the tamper port; the clock. Handlers do not interrupt each
other. The *supply* may go at any point, and the *EEPROM* may refuse a write.
There are no threads and no locks: what protects the main program from a handler is
the order of its writes. The `__monitor` in front of the calls of the queue and the
scheduler, which asks for a call that no interrupt can enter, is defined as nothing, so
these calls are taken apart at every write a handler can see, `start_scheduler` inside
`schedule_task` as well. So is what the main program reads in several steps while a handler may
write it: the buffers of the modem and of the data link.

### Inventory

| component | state it keeps | operations | interacts with | hard behaviour | what makes it correct |
|---|---|---|---|---|---|
| Energy registers and backup (`emeter-main.c`, `SM502/SystemISRs.c`, `Logger.c`) | registers in RAM, flash segment with a tag, EEPROM image with a checksum, counters, `__backingUp` | meter, `check_for_backup`, `backup_energy_parameters`, `perform_flash_backup`, `restoreBackup`, `AUX_ISR`, zero-crossing handler | supply, EEPROM, converter | power loss in the middle of a write or a restore; handler against main program; stale copies | bounded loss, nothing billed twice, recovery can be repeated |
| Event and profile logs (`SM502/Logger.c`, `DLMS/abstract_objects/*_event_handling.c`) | records, address and overlap flag in EEPROM and RAM | `log_events`, `updateNextLogAddress`, reset, boot, listing | every component that logs | power loss between three writes; failed writes; full ring | newest events listed in order; a reset is final; no write outside the region |
| Scheduler (`SM502/Scheduler.c`) | a slot with time, counter and due mark per task | `schedule_task`, `cancel_task`, `execute_tasks`, timer interrupt | PLC, tamper, backup, relay | calls torn by the timer interrupt; timer that stops itself | not early, not without a request, always in the end |
| Byte queue (`SM502/Queue.c`) | buffer and two indices | enqueue, dequeue, peek, empty, full, reinit | both serial ports | full and empty, wrap | a bounded FIFO |
| PLC transmitter (`SM502/PLC/PLC_UART.c`) | ring, `Tx_Done`, UART | `AddtoTXBuffer`, `PLC_Start_SendBuffer`, port interrupt | queue, PLC session | the interrupt drains what is being filled | every accepted byte once and in order; never stuck |
| PLC receiver (same file) | parser state, length, buffer, timeout task | `PLC_Byte_Recived`, `reset_plc_state_flow` | scheduler, PLC session | timeout against a late byte; lengths | what is handled is whole, a clean frame is handled, the next one is found |
| PLC session (`SM502/PLC/PLC.c`, `Attach.c`, ...) | session state, message awaited, timeout counters | initialise, attach, keep alive, transfer | scheduler, DLMS | lost answers, retries | an attachment is always watched over, a silent modem is noticed |
| HDLC link (`DLMS/core/iec62056_46_link.c`) | connection, sequence numbers, window, receive buffer | SNRM, DISC, I, RR frames; timeouts | both ports, DLMS server | lost and repeated frames; one buffer for two agents | requests whole, in order, at most once; a client gets connected |
| DLMS server (`DLMS/server`, `DLMS/src`) | association, access level, block transfer | get, set, action | all objects | long transfers, lost association | no access without association; blocks complete |
| Relay (`SM502/Relay.c`) | relay state, auto-connect, commands, reason | per-second update, connect, disconnect, boot | tariff, limits, DLMS, EEPROM | command against automatic reconnection | a commanded disconnection lasts |
| Limits and trips (`SM502/FixedActivities.c`) | timers and status per limit | per-second update | metrology, relay, logs | timer width, missed reset | trips exactly after the duration |
| Tamper (`SM502/Tamper.c`) | switch and logged flags, counts | port interrupt, delayed tasks, reset | scheduler, logs | bounce, task against switch | an opening is noticed, kept on battery and lasts until it is reset |
| Tariff and credit (`SM502/Tariff.c`) | balance, billed energy, calendar | charge, load calendar, switch schema | relay, EEPROM | power loss between writes; remainders | charges bounded by the consumption, a balance that is old or new after a restart |
| Billing, firmware update, clock, EEPROM driver, metrology, display, set-up, ciphers | see PROJECT.json | | | | |

## 2. Modules

| module | what it is |
|---|---|
| `EnergyBackup` | the registers, both copies, boot and restore, the saving handlers, the supply |
| `EventLog`, `BoundedLog` | one event log; what its reader is promised |
| `Queue`, `Fifo` | the ring of `Queue.c`; a bounded FIFO queue |
| `PlcUart` | the transmit path; uses the indices of `Queue`, taken apart |
| `Scheduler` | the slots, the timer interrupt, the main loop |
| `Relay` | the relay, its trips and its automatic connection |
| `PlcReceiver` | the receive path of the modem's port, with its slot of the scheduler |
| `PlcSession` | initialisation, attachment and keep-alive over the modem |
| `HdlcLink`, `RequestDelivery` | the data link of the optical port with its client and its line; what a client is promised |
| `Tariff` | charges, the balance and its copy in EEPROM |
| `Tamper` | the covers and the magnet, on mains, on battery and over a reset |
| `MC*` | instances for TLC |
| `*Proofs` | theorems and their proofs, one module per component; `PlcProofs` has those of `PlcUart`, `PlcSession` and `PlcReceiver`, `ServiceProofs` those of `Scheduler` and `Queue`. Definitions of modules proved about together carry the name of their component (`UartInit`, `SessionSpec`, `QueueTypeOK`) |

Definitions have the names of the C functions and variables where there are any.
Operators marked "faulty variant" are plausible mistakes in the code next to which they
stand; no specification uses them. They show that a property can fail.

What a property promises often ends with a mishap: a refused EEPROM write, a torn call.
Such mishaps are never excluded by a constant. A *history variable* records them, and the
property says "until then"; the behaviours with mishaps are explored all the same, and the
properties that hold in spite of them are stated without the condition.

### EnergyBackup

All registers that are saved together are one number. `flash` is the information
segment, erased and rewritten as a whole, its tag word last (`flash_replace32.c`), so a
power failure leaves a blank or a complete segment. `eeprom` is written in place and has
its checksum last. `pc` goes through the boot in the order of `emeter-main.c:197-231`
(on-battery record, low-battery record, EEPROM image, normal record), the steps of
`restoreBackup`, metering, and the two levels of backup. `isr` is the handler that is
writing flash. Reads and validity tests of one copy are one step; every write that power
can interrupt is a step. The first write of an EEPROM backup breaks the image, unless it is
refused: then the backup stops and the older image stays whole and valid. `before`, `orderly`
and `mishaps` are history: the energy when the meter last stopped metering, whether it had
saved it, and whether the EEPROM refused a backup (`"refused"`), the supply failed under a
handler (`"fault"`) or failed again before the registers were restored (`"flicker"`).

### EventLog

Addresses count records from START, so `MaxLogs` is END, and the cell there belongs to the
next log. Record, flag and address are three steps of `log_events` and
`updateNextLogAddress`, in that order; the reset method is three more. `Crash` may come
between any two and may tear the record that is being written. Any write may fail.
`Listing` is what `find_num_total_log_entries` and `get_log_time_stamp` show. `BoundedLog` is
a sequence of at most `MaxLogs` entries; an event enters the abstract log when its record is
written (the view between record and address is that of the advanced address, since only
the main program reads), a reset empties it when it begins. Its variable `broken` ends the
promise with the first failed write or power failure, after which a listing may be rotated.

### Queue and Fifo

One action per call of `Queue.c`, with its return value (`call`, history). `ImplementsFifo`
maps the slots between head and tail to a sequence; one slot stays free.

### PlcUart

The main program adds the bytes of a frame and starts the UART. The handler is one step
and may come between any two writes of the main program. The hardware is external: a
transmit buffer, its flag, a shift register that moves on, bytes that arrive (the receive
case of the handler falls through into the transmit case). `raced`, `mixed` and `stalled`
are history: the handler fetched a slot before its byte was stored, a byte arrived during a
transmission, a transmission was started with an empty ring.

### Scheduler

A slot holds one task only. `schedule_task`, `cancel_task` and `execute_tasks` are taken apart at
every write, and so is `start_scheduler`: its test, the timer (`TA2CTL`) and the flag
(`SchadulerIsOn`). Callbacks may schedule and cancel; handlers may schedule `IsrTasks`. The
history of a request is its time, its age in ticks, whether the task was due already (`wasDue`)
and whether a tick struck between the two writes that set time and counter (`struck`). `stuck`
is history as well: a tick stopped the timer after it had been started and before the flag was
set. (It takes two ticks there: one that makes the new task due and one that finds nothing
counting.)

### Relay

One second of `per_second_activity` is `UpdateRelayStatus` (one action per branch of
`UpdateRelayStatus` and `IsDisconnectRequired`), `setRelayStatus` if a command was carried out,
and the timers. `performPowerQualityMessurement`, charges, a change of the time slot and the
commands of a client come in between. Money and currents are abstracted to what the
code asks about them: `enough` (the balance covers the charge) and the set `exceeded`.
`LowTariff` is kept apart from `enough` because the code looks at the balance at some
events only. The contact (`closed`) is external: it keeps its position without supply. A
`Restart` may come at any step, also between a move and its save. `over`, `openFor`,
`barred` and `faulty` are history.

### PlcReceiver

`PLC_Byte_Recived` is one step of the interrupt handler; the main loop is taken apart where
that handler can see it: the check of the checksums, from `CheckBegins` to `CheckCRC`, the
handling, the clearing of `PLCCommunicationDetected`, and `execute_tasks` with the two writes
to the slot and the two halves of `reset_plc_state_flow`. A stored byte is the number of the
frame it belongs to in that place, or `Garbage`; a header has three fields for its eight
bytes, and a checksum is right if what it covers is of its frame. `-1` is a checksum of 0,
which the program takes for "none present". The modem sends `Sizes` one after the other, at
any pace; a byte may be damaged or lost and a frame broken off. The modem is asked for no blob
message and sends none; but a damaged byte, or one of the middle of a frame, may be taken for
the type of one (`blob`), and then the header is not checked, the checksums are 0 and the
length is whatever the next bytes say, so the body may end after any of them. `disturbed`
(header or buffer was written to while it was checked or handled) and `clean` (a frame came in
time and undamaged to a parser at rest) are history. A check of what is written to meanwhile
may come out either way.

### PlcSession

Handlers run in the main loop and are one step each; the scheduler's times are left out, so
the timers may expire in any order. `asked` is what the modem still owes; it may answer late,
twice as often as it is asked twice, or never, and may fail and come back. `unattended` is
history: the attach request on its way was sent by `Attach_Confirm` or by the expired timer,
which schedule no timer of their own.

### HdlcLink and RequestDelivery

The interrupt handler puts the bytes of a frame into the only buffer (`rx`) as they arrive
(`iec62056_46_rx_byte`); `rxState` says what the next ones are. The opening flag clears
addresses and control field and sets the bit of a segment (`FLAG`), the addresses come in,
from when on the cleared control field is that of an information frame numbered 0 (`MSAP`),
then control field and checksum of the header (`CTRL`), the body (`BODY`) and the closing
flag, which alone sets `Frame_Received` (`CRC`). None of these waits for the main program to
be done with the frame before; and the main program, when it takes a frame, drops the one that
is under way. A damaged header, which may read as any of `Damaged`, is in the buffer before
its checksum is tested; a damaged body is lost with its frame, and so is what follows a byte
that is late. `process_rx_frame` is one step per kind of frame, but for information frames,
whose header and body are read in two (`accepted`). Of a torn buffer the body may come out
whole or cut off (`Cut`), since its length is that of the bytes that have come in. `torn`
(bytes of a frame have come in over the last one), `mixed` (the main program has worked on a
torn buffer, never reset) and `executed` (the bodies that the server was given until then,
part by part) are history. The client is external: one frame at a time, repeated until it is
answered, polls, gives up, connects again; it reads what is on its way before it connects
again. (A client that did not could take an old UA for its own and have the meter join parts
of two of its requests.) `PlcAssociates` is the client of the other port. `abandoned` is
history: requests the client gave up half sent.

### Tariff

A unit is `Wh` watt-hours, prices depend on the band of the consumption of the month. The
steps of `CalculateTariff_New` and `increment_balance` are separate wherever the supply may
fail between two EEPROM writes. Tables of seasons, weeks and days are data: `RatesChange`
may bring any row into force. `energy` survives a power failure (`EnergyBackup` is about what
may not). `charged`, `ever`, `settled`, `unsaved` and `checked` are history.

### Tamper

A rising edge sets `flag`; `PortAwake` and `PortAsleep` are the interrupt handler on mains and on
battery. `ProcessTamper`, `LogTamper` and `Release` are the task, the last of them the point
where the request is taken again. `RestorePower` to `Reset_System` are the handler of the
returning supply, which logs what was noted on battery and ends in a reset. `initTamper` is the
first use of the tamper bits, five seconds after it. `noticed`, `missed`, `owed`, `known` and
`cleared` are history.

## 3. Runs

Every bound is a CONSTANT of its module and named in its comment.

| run | shows | bounds, and why they are enough | states |
|---|---|---|---|
| `energy_backup` | until the EEPROM refuses a backup no restore shows more than the meter had shown (`NeverOverbills`); until the first mishap the loss is bounded by the thresholds, also over a restore, an orderly stop loses nothing, hibernation saves, recovery can be cut short and repeated | thresholds 2 and 2, six units of energy: a full flash period and a half, so each kind of copy can be the newest | 3,445,083 |
| `event_log` | until a write fails, completed events stay listed over power failures and records stay inside the region; a reset is final over power failures or failed writes; until either, the ring implements `BoundedLog` | three records, eight events (two laps and a half), two power failures (the second may hit the recovery from the first), two failing writes | 961,964 |
| `queue` | the ring implements `Fifo` | four slots, two bytes: all combinations of indices | 624 |
| `plc_uart` | until one of the three mishaps, accepted bytes leave once and in their order, the end of a transmission is noticed and the ring drains | ring of three, frames to four of seven bytes, one received byte: every frame wraps, full rings occur, a byte may arrive at any point | 165,092 |
| `scheduler` | no spurious run, no run before its time but in the two known cases, every request ends unless the timer is stuck | three tasks, one of them a handler's, three calls, times to 2 | 111,893 |
| `relay` | a saved disconnection lasts; a limit opens a connected relay in the right second; the relay closes by itself only after its delay, and in the end | two limits that trip, one that blocks; trips after 2 seconds, timers of two bits, so that they run over while a limit stays exceeded, a delay of 3 seconds, longer than the second that a relay spends open anyway | 371,112 |
| `plc_receiver` | what is handled is one whole frame, in order and once, but for the windows the property names; a clean frame is handled; the parser comes to rest again | payloads of 2, 0 and 1 (even, empty, odd), one byte damaged or lost or one frame broken off: every state of the parser meets the fault, the reset and the next frame, and a byte out of place may be taken for a blob | 281,158 |
| `plc_session` | an attached meter has one of the two keep-alive tasks, never both; a session is idle only when its initialisation is over; a waiting meter has its timer but in the two known cases; a silent modem is noticed | two tries, one second's wait, two expiries of the attach timer, one request of a kind unanswered: late and crossing replies to all kinds at once | 449,556 |
| `hdlc_link` | requests are executed in order, once, and whole but for what was abandoned, until the main program first works on a torn buffer; a client that goes on is connected if the main program is in time from some time on | two requests of 2 and 1 parts, segments for 2, numbers modulo 3, which wrap, one loss or damaged header (an SNRM or an I frame), one repetition, one time-out or association of the other port: each may meet a frame that waits or is under way at any of its steps. Only a third part would overflow the segments: that is left to the theorems | 630,878 |
| `tariff` | charges stay between a third of the consumption and all of it; `LowTariff` tells whether the balance covers the price; a restart finds the balance before or after a change | units of 3 Wh measured in steps of 1 or 2, so that readings fall on every remainder; two bands, two rows of rates, 10 Wh, two restarts, one change by a client | 2,944,551 |
| `tariff_restart` (violated) | after a restart the whole register is charged again | as above | |
| `tamper` | an opening on battery is logged before the meter works again; one on mains that lasts is noticed; a recorded tamper lasts until it is reset; each but for the windows named | two openings, one magnet or imbalance, one power failure, one failed access, one reset by a client: each pair of them meets at every step | 323,899 |

The types of `Queue`, `Scheduler`, `EventLog` and `Relay` are proved (section 5) and not among
the properties of their runs. Runs of models whose bounds on events or calls end the
behaviour do not check deadlock; `EnergyBackup`, `Queue`, `Relay`, `PlcReceiver`, `HdlcLink` and
`Tamper` do.

## 4. Fairness

`PlcUart` assumes that the main program goes on inside the calls it has begun, that a pending
interrupt is taken and that the UART shifts. `Scheduler` assumes that the main loop runs and
that the timer interrupt is taken while the timer is on; it does not assume that anybody
schedules or cancels. `Relay` assumes that seconds go by: the main loop finds `SecondElapsed`
set and finishes `per_second_activity`; it assumes nothing of limits, credit or clients, and
`ClosesInTheEnd` says what they must not do for ever. `PlcReceiver` assumes that the main loop
goes on and the timer runs, and nothing of the modem. `PlcSession` assumes the same of each
handler, task and clock tick; the modem owes nothing. `HdlcLink` assumes that the main loop
processes frames, the port's interrupt is taken, and, since `Connects` is about a client that
does not tire, that it reads answers and repeats SNRM; the losses are finitely many. That the
main program is in time for a frame, before the next byte, no scheduling grants: `Connects`
has it as a condition, to hold from some time on (`<>[]InTime`). `EventuallyRuns` ends with a
stuck timer. `Tamper` assumes that interrupts are served, that a handler ends, and that the
loop runs each task again and again for as long as it runs (strong fairness, because the
supply may interrupt it). The code justifies these: the main loop has no blocking call but the
watchdog's, and interrupts are enabled after boot. The other specifications state no fairness
and no liveness.

## 5. Proofs

TLAPS checks all of them for every value of the constants that the assumptions allow.

* `EnergyBackupProofs`: `TypeCorrect` needs `Counters`, which ties the counters to the places
  where the program adds to them. `NeverOverbilled` follows from `CopyInv`: no copy, in flash,
  EEPROM or on its way, is ahead of what the meter has shown. It holds until the EEPROM
  refuses a backup, in whatever order power failures, faults and flickers come.
  `LossIsBounded`, `OrderlyIsExact`, `HibernationSaves` and `RecoveryIsIdempotent` follow from
  `LossInv` (the loss counts a restore in progress as well), which holds until the first
  mishap (`Dependable => LossInv`); a mishap is never forgotten, so a step need only be looked
  at while there is none. `LossInv` has one group of conjuncts per reason: what guards rely
  on, what one writer of the segment leaves to the next, how far each copy lags.
* `PlcProofs`: the three modules of the modem's port. `UartTypeCorrect` and
  `AcceptedBytesLeaveInOrder`: `SilentInv`, `RingInv` and `FetchInv` say where the bytes
  between the last sent and the last accepted are, and that main program and handler never
  both feed the UART; `TransmitterNeverStuck` adds from `ActiveInv` that a transmission that
  goes on has a byte in the UART or an interrupt to come. `SessionTypeCorrect` and
  `SessionWatched` from `WatchInv`: what each step of the initialisation leaves behind, that
  before the steps that ask for something no answer is owed, and that only the last step makes
  the session idle. `ReceiverTypeCorrect` and `HandlesWholeFrames` from `ArrivedInv` (nothing
  is stored that was not sent) and `HandledInv` (the frame handled last was sent to its end,
  the header is of it or of a later one, and what is sent from now on cannot be taken for it);
  what was written to during the check, and what has no checksums after a reset or behind a
  garbage type of a blob, is excepted there and nowhere else; `CleanFramesAreKept` from
  `CleanInv` (the first bytes of a clean frame are in their places, and nothing is in the way
  of the next).
* `ServiceProofs`: of the scheduler `SchedulerTypeCorrect`, `TimerNeverSleeps`, which takes in
  the two writes that start the timer and the tick that may stop it between them (`stuck`),
  `NeverSpurious`, `RequestsAreKept` (a request counts, is marked, or a call holds it) and
  `FreshIsOnTime`, which needs that counter and age agree wherever no tick struck inside a
  call. Of the byte queues `QueueTypeCorrect` and the refinement `QueueIsFifo`, from four
  lemmas on the contents of the ring.
* `EventLogProofs`: `EventLogTypeCorrect` over faults and power failures (the address may be one
  record behind the end, so the types alone are not inductive), and `RecordsStayInRegion` until
  a write fails. `ResetStaysFinal` from `NumbersInv`, `SyncInv` and `FinalInv`;
  `EventsAreDurable` from `DurableInv`, which says how far before the address in EEPROM a
  completed event lies: as many cells as there are newer ones; `RingIsBoundedLog`, the
  refinement, from lemmas on the two orders (`Straight`, `Rotated`) in which a ring is listed.
* `RelayProofs`: `RelayTypeCorrect`; `DisconnectionHolds` from `HoldInv` (the save finds the
  contact open; once saved, state, permission and EEPROM agree, which is what a restart relies
  on); `ClosesOnlyAfterDelay` from `CounterAgrees` (the counter is behind the seconds the
  contact has been open, or these are enough); `TripsExactlyOnTime` from `TimersAgree` (a limit
  is timed out exactly when it has been exceeded for its duration, and its timer has not run
  over before).
* `TariffProofs`: `TariffTypeCorrect` and `ChargesStayBounded` from `ChargeInv` (no reading is
  charged twice, and the consumption of the month is part of what is charged); `BalanceIsAtomic`
  and `LowTariffIsTold`. `Charges` is a recursive function: that the sum of prices exists and is
  a number is shown with a least counterexample.
* `TamperProofs`: `TamperTypeCorrect`; `OpeningIsKept` from `OwedInv` (an opening that is owed
  is in the backup registers until the handler of the restore has come past its cover);
  `CoverStaysLatched` from `LatchInv` (once the bits are read, what EEPROM holds of a cover is
  in RAM); `OpeningsPend` (an opening is on request, in a task, at the log, or in `missed`).
* `HdlcLinkProofs`: `HdlcTypeCorrect`, `ExecutesWholeRequests` and the refinement
  `RequestsDeliveredInOrder`, until the main program first works on a torn buffer. `BufferInv`
  says what is in the buffer at each state of the parser: a frame that waits, whole, for as
  long as no byte has come in over it. The invariant is `mixed \/ LinkInv`, so a step need
  only be looked at while the buffer that was worked on was whole. Of `LinkInv`, `PipeInv`
  says that the frames under way are of one session and in order, `SyncInv` that the meter has
  accepted the client's last frame or is ready for it, `AnswerInv` that an answer tells the
  client the truth, `AcceptedInv` that an accepted frame is still in the buffer or has been
  given up, `OrderInv` and `WholeInv` what has been joined and executed so far. `NeverRejects`
  and `NextRequestIsTaken` follow from `NrInv`: what the client acknowledges, in the frames
  under way as well, is what `check_rx_nr` expects, and it is at most one answer behind. Of
  the sequence numbers the proofs need that n + 1 differs from n and, for `NrInv`, that n + 2
  does.

Only model-checked: the liveness properties `Drains`, `EventuallyRuns`, `ClosesInTheEnd`,
`SilenceNoticed`, `OpeningNoticed`, `Connects`, `CleanHandled` and `Resynchronises`, since
liveness under fairness and ENABLED are beyond the proof system, and the violated
`ChargedOnce`. For four of them the state that fairness acts on is proved to stay:
`TransmitterNeverStuck` for `Drains`, `RequestsAreKept` for `EventuallyRuns`,
`CleanFramesAreKept` for `CleanHandled`, `OpeningsPend` for `OpeningNoticed`. What these
theorems and the two of `NrInv` state is defined beside their proofs; TLC agreed on the
instances of section 3 before they were proved, and no run repeats it. No module uses a
RECURSIVE operator.

## 6. Findings

`tariff_restart` shows one and PROJECT.json describes it with the line it contradicts: the reading
up to which energy is charged is saved and never read, so a restart charges the register again.

Met on the way; each is a behaviour the models have and a condition the properties name:

* Energy: an EEPROM backup whose first write is refused leaves the older image valid
  (I2C2EEPROM.c:125-153, Logger.c:3751-3756). If the boot has restored a low-battery record,
  which goes before the image (emeter-main.c:212) and may be older than it, the flash segment
  is retagged as a normal record all the same (emeter-main.c:1036), and the next boot restores
  the image (emeter-main.c:217), which may show more than the meter had (`"refused"`). A
  low-battery record outlives its failure and is preferred to a newer EEPROM image (the loss
  bound holds "until the first mishap"); a failure between `OPERATIONAL` and the restore saves
  empty registers with the tag of highest priority (`"flicker"`).
* Transmitter: the receive case of the port's handler falls through into the transmit case and
  overwrites the transmit buffer (`mixed`); a transmission that is started when the handler has
  already drained the ring never ends (`stalled`).
* Event log: when the overlap flag cannot be written, the next record goes behind the end.
* Relay: after a restart a contact that the failure left closed stays closed in the state "ready
  to auto connect", which Relay.c:104 calls the state where the relay is open, although a limit
  is exceeded or credit is missing; a post-paid meter never leaves this state (Tariff.c:402).
* Scheduler: a task that is due and is scheduled again runs at once (`wasDue`).
  `start_scheduler` starts the timer and then sets its flag (Scheduler.c:89-90); when the
  timer stops itself in between (Scheduler.c:100-101, 134-136), the flag says for good that it
  runs, no later call starts it and no request is ever executed (`stuck`).
* Receiver: the reset removes the checksums of a frame that waits to be checked, and 0 stands
  for "no checksum", so its damaged payload is handled; one byte damaged to 0x96 or 0x97 has a
  frame taken for a blob, with checksums of 0, whose body is received and handled unchecked
  (PLC_UART.c:139-147, PLC.c:550); header and payload may be overwritten while they are
  checked (PLC.c:538-551); the flag is cleared after the handling, so a frame that completes
  meanwhile is lost and one that overwrites the buffer is handled half (`disturbed`); a reset
  torn by a byte leaves the parser in a body without a timer (`Torn`); an empty payload
  swallows the first byte of the next frame; a frame that waits for its filler byte is handled
  early, and then again, if the flag of another is still set.
* Session: a repeated attach request has no timer (`unattended`).
* Data link: segments of a session that ended are put in front of the next request
  (`abandoned`). While a frame waits, or its body is still to be read, the bytes of the next
  one go into the same buffer before any checksum is tested (link.c:760-770, 839, 914-915),
  and DLMS.c:117-121 does not look whether one is under way (`mixed`). So the main program may
  take the header of the next frame with the body of the last, which is then executed twice;
  that header with a body that is cut off and unchecked; or, once the addresses are in, the
  cleared control field as an information frame numbered 0, which is answered with FRMR or
  advances the number expected although nothing was sent. A request that overflows the buffer
  is dropped without an answer; a client is refused with DM and its link is left open while
  the other port is associated.
* Tariff: the billed reading is advanced by the remainder once too often, so that up to two
  units of three are not charged (the bound of `ChargesBounded`); the balance of a post-paid
  meter is not saved; `LoadTodaysTariff` adds the first rate of the day's table twice.
* Tamper: an edge between the look at the switch and the release of the request, and one
  before the five seconds after a reset are over, come to nothing (`missed`); a status that is
  written in these five seconds erases recorded tampers (`known`); a magnet that stays is
  logged every other second.
* Limits: that of active power is said to disconnect and does not, since
  `ActivePowerExcededTimedOutStatus` is set nowhere; `disconnect_script_execute` builds its method
  number from one byte twice and never matches a script; a trip duration of more than eight
  bits, which a client can set, is never reached by the eight-bit timers.

## 7. Plan

In this order, the most important behaviour first. Done: 1 to 10.

1. `EnergyBackup` and its proofs.
2. `Queue`/`Fifo` and `PlcUart`.
3. `Scheduler` and its proofs.
4. `EventLog`/`BoundedLog`, types and region proved.
5. `Relay` with the trip timers and the credit condition, and its proofs.
6. `PlcReceiver` with its timeout task.
7. `HdlcLink` against a line that loses and a client that repeats, refining `RequestDelivery`.
8. `PlcSession`: attach, timeout, keep-alive.
9. `Tamper` and `Tariff`.
10. Proofs of the safety properties and refinements of `EventLog`, `Tariff`, `Tamper`, `PlcUart`,
    `PlcSession`, `PlcReceiver` and `HdlcLink`.
11. Next: block transfer of the DLMS server, one billing record per cut-off, the image transfer
    of a firmware update, a bounded check of the Ethiopian calendar's conversions.

## 8. Not modelled

Metrology (fixed-point signal processing and assembler), drawing and menus, register set-up,
the cipher, DLMS packing and the object tables, which are data or I/O. The bytes of a
32-bit word that a 16-bit processor writes in two halves are one value here. `_EINT` inside
`flashBackup` would let handlers nest; handlers do not nest here. EEPROM writes of one
page are atomic; records of a log, which may cross a page, are not.

Of modelled components: the time that PLC tasks run for, blob messages that the modem means
and what they carry; of the HDLC parser the mode E sign-on, addresses, negotiated lengths,
byte stuffing and flags inside a body, RNR and unnumbered frames a client does not send (a
control field is read and dispatched within the time of a byte); the rate tables and the
passive calendar, the counters and codes of tampers, the relay's coils, logged but not
tripping limits. Block transfer, billing periods, firmware update and calendars (plan, 11) are
not modelled yet.
