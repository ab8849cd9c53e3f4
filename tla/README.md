# Formal model of the 2026 Capra control board firmware

TLA+ specifications of the firmware under `src/`: the STM32 program that
supervises three LM5066H1 hot-swap power rails, an emergency stop, a winch and
its locks, keeps a fault history in flash and answers the host computer (RG)
over I2C. Every definition is translated from the C++ source; `PROJECT.json`
(`map`) names the lines of each.

To check a model, run TLC on a module with its configuration (for example
`tlc -config Rail.cfg Rail.tla`); to check a proof, `tlapm Rail_proofs.tla`.

## 1. The system

The firmware is one thread, `setup()` and then `loop()` for ever, and one
interrupt that matters, the I2C2 slave. There is no scheduler and no heap. What
makes it hard is everything outside the thread: the chips, the bus, the clock,
resets, and a host that may do anything at any time.

| Component | State it keeps | Operations | What makes it correct |
|---|---|---|---|
| Rail controller (`rail.cpp`), one per rail | `state_`, `present_`, `desired_on_`, the recovery flags `pending_on_recovery_` and `post_on_observe_` with their timestamps, the bus-error streak | `init`, `enable`, `disable`, `clearLatch`, `tick` | an acknowledged OFF is final; a restart respects its cooldown; a settling rail is left alone; a wanted rail is retried for ever |
| LM5066H1 driver and chip | the chip's registers, OPERATION bit, MOSFET; the driver's idea of the current range (`_adcFullScale2x`, `_currentLimitMilliVolts`) | register reads and writes, raw writes, limits in amps and volts, status bits | a configuration step changes its own fields only; a code means the amps it was made from |
| Software SMBus (`soft_smbus.cpp`), the 48 V rail's bus | the two lines, transmit and receive buffers | `endTransmission`, `requestFrom`, bit by bit | a transfer reported done was one; a fault is forgotten after as many transfers as an answer has bytes |
| E-Stop (`estop.cpp`) | raw and debounced level, time of the last edge, local command, VTX | `init`, `tick`, `assertLocal`, `setVtx` | only a steady level is promoted, and every steady level is |
| Supervisor (`main.cpp`) | `s_mode`, timestamps of the periodic work | `setup`, `loop`, `enterMode`, `disableAllRails`, `classifyMode` | the mode follows the E-Stop; in E-Stop nothing is driven |
| Winch (`winch.cpp`), locks (`winch_lock.cpp`) | mode, bridge inputs; energised locks | `setMode`, `setDcMotor`, `setStepperPhases`, `brakeAll`, `clearFault`; `set`, `setAll` | gated by E-Stop; asleep means coasting |
| Fault log (`fault_log.cpp`) | FIFO in RAM, one flash page, sequence and reset counters | `init`, `record`, `clear` | flash and RAM agree, a reset loses little, order is kept |
| Control API (`control_api.cpp`) | pending command and bridge slots, results, sequence, snapshot | `onReceive` and `onRequest` (interrupt), `processCommand`, `processBridge`, `publishSnapshot` | a result belongs to the command it is read for |
| Fault report (`tick()`, `describeRailFaults`) | the last reading of six status registers | read, cache, print | a standing fault is named, and nothing else passes for one |
| BIT (`bit.cpp`) | last results | `runPbit`, `runCbit` | CBIT degrades the mode, never hides E-Stop |
| Watchdog (`iwdg.cpp`, `serviceWatchdogIfHealthy`) | armed, time since the reload | `init`, `reload` | a stuck loop is reset, a healthy one is not |
| LEDs, SWO console, host tools | - | output only | - |

**How they interact.** One pass of `loop()` reloads the watchdog, samples the
E-Stop, serves at most one RG command and one PMBus bridge request that the
interrupt left in two slots, publishes the snapshot, acts on the E-Stop (and
returns early while it is active), then every 100 ms ticks each rail and
classifies the mode, and every 5 s runs CBIT. RG's commands call the rail,
winch, lock and E-Stop functions directly. A bridge request writes a PMBus
register past the controllers. The fault log is written by a rail tick that sees
a new fault. Nothing is persistent but the log; the chips outlive a reset of the
microcontroller.

**Hard behaviour.** Bus writes that fail half way through a sequence of steps;
the same chip commanded by the controller's recovery, by RG and by raw bridge
writes; a chip that loses its input and wakes with its output on; a clock line somebody else holds and a data line that lies; configuration steps
whose results nobody looks at; `millis()` wrapping; a reset between any two
steps, two halfwords of a flash record and an erase included; an E-Stop that is already asserted at boot; an interrupt that
overwrites a slot the loop is reading. `PROJECT.json` (`hazards`) lists them
each at its line.

## 2. Modules

| Module | Models | Composes |
|---|---|---|
| `Rail` | one `rail::Controller`, its chip and its bus, with time | instantiates `RailContract` |
| `Rail_proofs` | proofs about `Rail`, and that it implements `RailContract` | `Rail` |
| `RailOps` | what each controller call may leave behind, as sets of outcomes | |
| `RailContract` | the abstract rail: the outcomes of `RailOps` in any order | `RailOps` |
| `RailConfig` | `init()` and `configureDevice()` register by register, and what becomes of the configuration | `Registers` |
| `FaultReport` | the status registers `tick()` reads and caches, and the report printed from them | `Registers` |
| `RailChip` | a rail's chip from `init()` to the reports | `RailConfig`, `FaultReport` |
| `RailConfig_proofs` | proofs about `RailConfig`, the layouts and `FaultReport` | `RailConfig`, `FaultReport` |
| `Registers` | the driver's register layouts, status bits and conversions, as operators | |
| `SoftSmbus` | the bit-banged bus pulse by pulse, with the chip's interface at its end | |
| `SoftSmbusMC` | values for bytes of three bits | `SoftSmbus` |
| `SoftSmbus_proofs` | proofs about `SoftSmbus` | `SoftSmbus` |
| `EStop` | the E-Stop subsystem with time | |
| `LoopTiming` | when the E-Stop is sampled: `setup()` and `loop()` under the watchdog | `EStop` |
| `LoopTiming_proofs` | proofs about `EStop` and `LoopTiming`, and that the second implements the first | `LoopTiming` |
| `Supervisor` | `setup()` and `loop()`, all rails, winch, locks, commands, E-Stop | `RailOps` |
| `Supervisor_proofs` | proofs about `Supervisor`, and that each of its rails implements `RailContract` | `Supervisor`, `RailContract` |
| `HostCommands` | RG's command frames byte by byte, and the winch down to its PWM pins and its telemetry | `Supervisor` |
| `HostCommands_proofs` | proofs about `HostCommands`, and that it implements `Supervisor` and, rail by rail, `RailContract` | `HostCommands`, `Supervisor_proofs` |
| `FaultLog` | the fault FIFO and its flash page | instantiates `DurableLog` |
| `DurableLog` | the abstract log: what RG reads and what a boot would bring back | |
| `FaultLog_proofs` | proofs about `FaultLog`, and that it implements `DurableLog` | `FaultLog` |
| `ControlApi` | the request slots, results and sequence of the I2C API, with the interrupt and RG | |
| `ControlApi_proofs` | proofs about `ControlApi` | `ControlApi` |

The split follows what has to be seen together. Timing matters inside a rail and
between the watchdog and the E-Stop debounce, and nowhere else; so these have a
clock and the supervisor has none. The rail's bus failures are single choices in
`Rail` and `RailConfig`; `SoftSmbus` shows what those choices are worth. `RailContract` is the seam, and both sides
are shown to keep to it: `Rail` implements it (by TLC and by proof), and so does each rail
of `Supervisor` under everything `setup()`, `loop()`, RG, E-Stop and resets do to
it (by proof), whose calls use the outcome operators of `RailOps`.

### Rail

`state`, `desired_on`, `pending` and `observe` are the members `state_`,
`desired_on_`, `pending_on_recovery_` and `post_on_observe_`; `streak` is the
rail's entry of `bus_error_streak`. `present_` is `state \notin {"Boot",
"Absent"}`. The code compares `now - timestamp` in 32 bits; the model keeps that
difference as an age which wraps at `Wrap`. `op` and `fet` are the chip: bit 7
of OPERATION and the conducting MOSFET, which drops or conducts again on its own
(`FetOff`, `FetOn`).

`tick()` is split where the code branches: `TickBusError` (a critical read
failed), `TickOperationUnread` (OPERATION could not be read back), and three
exclusive ends of the recovery code: `TickRestart` (cooldown over, ON commanded),
`TickForceOff` (wanted but reported off) and `TickNothingDue`. Each of the last
three includes the mirroring of OPERATION into `state_` and the bookkeeping at
the end of the function. A write of OPERATION takes `landed`: the bus may lose a write that it
acknowledges (`SoftSmbus` shows how) and refuse one that arrives, so the calls that look
at the result (`EnableOk`, `EnableFailed`, ...) leave it open what the chip did. `PowerLost` is the
chip losing its input, or RG making it reload its defaults over the bridge: OPERATION is 80h then,
on (`lm5066h.txt:4638-4646`), and nothing tells the controller.

Calls that enter `kLatched` do not exist in the code: `evaluateTimeWindowed()`
is never called, so `Latched` is in the type and never reached.

`off_acked`, `off_age`, `undone`, `on_age`, `consecutive` and `ticked` are history: they
record what really happened, so that properties can compare it to what the code
believes. `off_age` is the true time the chip's OPERATION has been off, `on_age` that since an
ON; neither wraps. `undone` says that the OFF of a recovery was lost, or that
others turned OPERATION on since.

### E-Stop

`asserted_raw`, `asserted_stable`, `change_age`, `local_assert` and `vtx_state`
are the static variables of `estop.cpp`. The three ways through `tick()` are
`TickEdge`, `TickPromote` and `TickWait`. `line` is the pin and moves at any
time. `gap` bounds the time between two samples: `Advance` stops at `MaxGap`, past which the board has
been reset (`Reboot`, which runs `init()`). That the watchdog sees to it is what
`LoopTiming` shows.

### LoopTiming

`LoopTiming` adds to `EStop` the program around it. `stage` is 0 before
`iwdg::init()`, then the part of `setup()` it is in, each ended by a `kick()`
(`SetupKick`), then the loop. `NextPass` is the end of one pass and the start of
the next: `serviceWatchdogIfHealthy()` reloads if the pass took no more than
`HalfPeriod`, and the next pass samples the input first thing, so the `gap` of
`EStop` is the age of the pass. `FirstPass` has no reload before it: after its
last `kick()` `setup()` still enables the rails, and that time counts
(`slow`). `since` is the time since the last reload and `period` what this
board's own oscillator makes of the nominal period; at `since = period` only
`WatchdogReset` is left. Parts and passes may hang: nothing says they end.

### SoftSmbus

One step is one clock pulse, one START or one STOP of `Master`; `pc` is where
`endTransmission()` or `requestFrom()` is, `op` the call it is making, `at` and `nbit`
the byte and the bit of it on the wire, `got` the receive buffer. A byte is the
sequence of its bits. A step may lose its pulse (`stall`): SCL is held low past the
stretch timeout, the master goes on, the chip sees nothing. `short` holds SDA low
from outside; `Reset` floats both lines in the middle of a transfer. A `Transfer`
is one of the calls the driver makes: a probe, a send byte, a byte write, a read
of a byte, a word or a block (`Fetches`) with its repeated START. `slipped`,
`shorted` and `deaf` are history: whether a pulse of this transfer was lost, SDA was
held low in it, or the chip missed a START of it; `quiet` counts the transfers
begun since the last fault.

`slave` and `mem` are the chip's bus interface and registers. They are external,
modelled from the data sheet text in `src/` and from what the driver relies on: the chip refuses an unknown command and
a byte too many, answers a setting with its byte and any other code with the bytes of
`Answer`, leaves SDA released past them, commits a register when its byte is in, and resets its interface when SCL is low for 25 to 35 ms, which
a single stretch timeout may or may not reach and two in a row do. While it sends, it
sees no START: its own zeros hide it, and a reset of the microcontroller does not
interrupt it.

### Registers and RailConfig

`Registers` has the layout of every register with fields; the driver's `set` and
`read` functions shift and mask alike, and one layout (`Encode`, `Decode`) stands
for both. A content is the set of bits that are set. `Report` is
`describeRailFaults()` with the driver's decoding of STATUS_WORD and
its companions; `Status` is how the chip raises them (external), for faults (`Faults`) and for what
is none, warnings and news (`Remarks`).
`ValueToDirect` and the coefficient tables turn amps, volts and degrees into the
codes of a limit, `ChipCode` is what a code means in the chip's own range.

Three codes, 5Dh, D3h and F8h, are one register of the chip, the overcurrent warning
(`lm5066h.txt:4200`, `4881`, `6214`); `Cell` maps a code to it, in `configureDevice()`
and over the bridge.

`RailConfig` runs `configureDevice()` as a list of steps (`Plan`), in the order of
the code: read the fields, change some, write all back (`ChangeFields`); write a
struct that starts empty (`WriteFields`); write a limit (`WriteLimit`); update
the driver's cache. A read brings the content, nothing, or nonsense; a write is
done, refused, refused although it landed, or acknowledged and lost. Only two results are
looked at: that of WRITE_PROTECT (`Unprotect`) and that of the startup watchdog,
which is read back and tried again (`ConfigureWatchdog`). Afterwards the chip may
lose its power and RG may write its registers through the bridge. The current limit that the chip
goes by (`ChipLimit`) is its CL pin's unless DEVICE_SETUP gives it to the registers; where
the pin is, is left open. `doubtful`,
`misread` and `foreign` are history: the registers whose write, whose read or
whose present content is not what the driver takes it to be.

### FaultReport

`raised` is what the chip shows; faults, warnings and news come one by one and are cleared
together. `position` is the register `tick()` reads next, `cached` what it keeps: a read
that works replaces its register (`ReadExactly`), one that fails leaves it (`ReadFailed`), and one
of a bus held low or high brings a constant (`ReadGarbled`). So the registers that
`describeRailFaults()` prints between two ticks are from different moments, and of different
ticks. `ticking` and `since` are history: which events were up all the time, or some of
it, since this tick, and since the last one without a failed read, began.

### Supervisor

`setup()` is two steps: `Setup`, up to the probing of the rails, and
`EnableAtBoot`, which enables all of them whatever PBIT and the E-Stop say; a reset may come
between the two. From then on `pc` is the stage of `loop()`. Each stage is one action or a choice of actions;
each ends at the next stage. `command` offers every command the API dispatches to
state modelled here, gated as `processCommand()` and the drivers gate it, and
`NoCommand` for the rest. `check` is the E-Stop block; while E-Stop is held it
returns to the top (`HoldEStop`), as the code's `return` does. Rails move by the
outcome sets of `RailOps`; a chip may lose its power at any stage (`PowerLost`). `stopped`, `acked` and
`down` are history: the rails that E-Stop sent off, those whose `disable()` returned `kOk`, and
those of them whose OFF arrived in a chip that has kept its power and that RG has not written to.

### HostCommands

`HostCommands` keeps the variables of `Supervisor` and adds the winch's PWM
inputs (`duty`) and the percentages its telemetry repeats (`dc`, `phase`). Where
`Supervisor` takes any command, here a command is the bytes that arrived: all its
arguments or the first few (`Arriving`), copied into a frame of zeros by
`onReceive()` (`Received`) and decoded by `processCommand()`. A percentage is a
byte taken for a signed one (`Signed`), clamped (`ClampPct`), and becomes a duty of
8 bits (`AbsDuty`, `SignedBridge`). Each `Serve...` is one step of
`Supervisor` with what it does to the pins; a frame that is refused, or names
nothing there is, is `NothingToDo`. The command byte itself arrives, because a
frame without it is a `kNoop`. `asked` is history: what is on, as far as the
bytes that arrived asked for it. Parallel DC is left out: its mode can never be
entered, since its pins are not connected.

`RailChip` puts the two in order, as `setup()` and `loop()` do: a rail is ticked only after
`init()` (`Ticked`).

### FaultLog

`ram`, `next_sequence` and `reset_count` are `s_records`, `s_next_sequence` and
`s_reset_count`; `flash` is the page, slot by slot. A record is its sequence and
its reset count. A slot is programmed halfword by halfword. After the first, the magic, it is
`Phantom`: the erased rest makes `checksum()` 0xFFFF, which is what the erased checksum
reads, so `isValid()` accepts it with 0xFFFF in every field. After more of them it is `Torn`, or reads as
one of the records `Unfinished` when what was written happens to cancel; which, depends on
fields the model leaves out. `record()` is `RecordFault` and then `ProgramStart`, `ProgramMore`, `ProgramFinish`,
`ProgramNothing` or `Erase` until `pc` is `idle` again, so a reset may come
between any two halfwords; each may fail. `damage` is history: whether a
flash operation failed and whether a successful erase or a boot came after it.

`DurableLog` knows no page. `history` is what RG reads, `durable` the records whose writing
has ended, `half` what the one being written adds to them if a boot comes now, and
`phase` the call in progress. Writing a record may leave anything `Spoilt` in `half`
(`write`); it ends with the record durable (`commit`), or with `half` as it stands (`fallBack`, and
`reset` alike); a rewrite wipes everything
(`erase`) and makes it durable again from the front (`regrow`); only where a flash operation
failed may the two differ in other ways (`falter`), until an erase or a boot. The
mapping is `Durable`: `durable` and `half` are what `loadFromFlash()` would make of the page, without
and with the slot being programmed, so checksums, free slots and halfwords are all behind it.

### ControlApi

`pending`, `result` and `sequence` are `s_pending_command` and
`s_pending_bridge` with their flags, `s_command_result` and `s_bridge_result`,
and `s_sequence`. `pc` is the channel that `tick()` serves next and `taken` the
copy of a request that `processCommand()` or `processBridge()` works on. `Take`
and `Publish` are single steps because the code masks interrupts there;
everything else of RG may come between them. `kResetDevice` writes its result
with interrupts on, in fields whose order is the compiler's: `StartResetDevice`,
`SayResetDevice`, `FinishResetDevice`.

A request is its number on its channel, which RG counts (`written`); 0 is none. A
field of a result is the number of the request it is about, so a stale or a torn
result shows. RG is external: it writes a request only when it waits for none
(`awaited`), polls until the sequence is not the one it saw (`seen`), as the
README's example does, or gives up. `clean` is history: the channels on which
RG has not lost track, by giving up, by a reset or by asking for one. It is back
on track once it has read a result with nothing of its own left in the device
(`Resync`).

## 3. Runs

| Run | Question | Bounds |
|---|---|---|
| `rail` | does the recovery keep its waits, end with an acknowledged `disable()`, and stay within the contract? Is a wanted rail retried for ever? | waits of 1, 2 and 4 units, modulus 5, 2 errors |
| `rail_consecutive` (violation) | is a rail given up only after consecutive errors? | as `rail` |
| `smbus` | what is an acknowledge worth, and how soon does the bus recover? | bytes of 3 bits, an answer of 3 bytes, 3 lost pulses, 1 other fault |
| `rail_chip` | what can a rail that is called good be trusted to hold, and what do its readings and warnings mean? Does the report name what stands, and nothing that was not? | `RailChip`: all three rails, 2 faults, 2 tries; 4 faults, 2 remarks, 3 changes or spoilt reads |
| `estop` | does the debounce promote exactly the steady levels, with the input sampled by a loop that may hang? | `LoopTiming`: debounce 2, periods 4, 6, 8, half period 3, 6 parts, modulus 61 |
| `supervisor` | what does E-Stop guarantee, may telemetry be trusted about the winch, and what can a frame cut short do? | `HostCommands`: 1 rail, 2 bridges, 2 locks, percentage bytes 0, 1 and 128 |
| `supervisor_estop` (violation) | are the rails commanded off in E-Stop? | 2 rails, 1 bridge, 1 lock |
| `supervisor_reenable` (violation) | does a rail stay off after the release until RG asks? | as `supervisor_estop` |
| `fault_log` | what does a reset cost at each point of a call, is order kept, and is the page a log that forgets no more than `DurableLog` says? | 3 records, sequences to 4, resets to 2 |
| `fault_log_phantom` (violation) | are the records a reset leaves records of the history? | as `fault_log` |
| `control_api` | is each request done once, in order, and answered to the RG that waits for it? | 4 requests a channel, sequence modulo 5, burst 1 |
| `control_api_busy` (violation) | does `busy` tell RG that its answer is there? | as `control_api` |

**Why the bounds are enough.** In `Rail` the code's waits are 15 s, 30 s and 60 s
(hence 1, 2 and 4) out of 2^32 ms; what matters is their order, that each can
elapse or not, and that an age can wrap to a value below each wait while the true time is above it.
The modulus is just above the longest wait, so wraps come quickly. A streak limit
of 2 tells first from last; the code's is 5. In `LoopTiming` the nominal
period is 6 units of 2/3 s, half of it 3, and the periods 4 to 8 are what an LSI
oscillator between 30 and 60 kHz makes of it; a pass of exactly half the period
and one over it are both possible within the shortest of them. `setup()` has six parts that end in a `kick()`, and
`MaxGap` is the longest they and the enabling of the rails can take, plus one.
In `SoftSmbus` a byte of 3 bits has a first, a middle and a last bit, and room for
two addresses, two settings and a reading of three bytes. Three lost pulses are one more
than it takes to make the chip reset its interface (two in a row). Three bytes of answer are
what it takes to fake the three acknowledges of a write. Values are one that differs from the
initial 0. None of these bounds is needed by the proofs, which hold for bytes and
answers of any length and any number of faults.
In `RailConfig` two faults are what it takes to exhaust two tries at the watchdog
timer (the code's `kConfigWriteRetries` is 3), or to spoil a step and let the chip lose its
power or RG write it afterwards; the chip wakes with one of two contents
that are each other's complement, so that every field is seen set and clear. In `FaultReport` the
events share lines two by two: an over-temperature with its warning, two faults of
STATUS_CML with the noise bit that is muted, and an overcurrent with lines of its own. Three changes are an event, another one or a clearing, and a read that
fails or comes garbled between them; the theorems have all events and any number of changes.
`RailChip` lets either the configuration be disturbed or the reading, not both in one behaviour: the two
have no register and no variable of the driver in common. In `HostCommands` there are both bridges
and both locks, because a command names one, the other or all of them; the
percentages are none, the smallest, and -128, which is clamped. One rail is
enough for it: no property of the run relates two rails, no step of the model lets one
rail look at another but the classification and CBIT, and the proofs hold for all three.
The two runs of `Supervisor` that show a violation have two rails. In `FaultLog` three
slots are a first, a middle and a last; sequences saturate after four records and
resets after two, so both limits are reached with the page full and not full.
The counters of `FaultLog` saturate or wrap as the code's do, and ages wrap.

Bounds that end something are three. `MaxFaults` of `RailConfig` and `MaxLost` and
`MaxOther` of `SoftSmbus` end the faults, never the program. `MaxWritten` of
`ControlApi` (4 a channel) ends RG's
work: a first request, one that overtakes it in the slot, one after both, and one
more after the sequence has wrapped. `MaxBurst` is a real limit on the host, not a
convenience: with `2 * MaxBurst + 2 < Wrap`, that is at most 126 requests on one
channel between two of the other, the proof shows that an answer is always
recognised. With `Wrap = 4` and `MaxBurst = 1` TLC finds the one that is not: a
request of the other channel was in its slot when RG took a result, one was
written before RG's next request and one after, and that request's result is back
at the number RG saw.

**Properties.** Each is explained where it is defined. In short:

- `OffIsFinal`, `CooldownRespected`, `SettleRespected`:
  the restart recovery against calls, bridge writes, lost writes, power losses, late ticks and wraps.
- `ImplementsContract`: refinement of `RailContract`.
- `RetriesForever`: the "unlimited retry loop", under `FairSpec`.
- `DoneWasTaken`, `DoneReadIsExact`, `RecoversInTime`, `NoStrayWrite`: the
  bit-banged bus.
- `OkMeansLongWatchdog`, `OtherFieldsKept`, `WarningsMeanAmps`, `RangeIsKnown`:
  the configuration of a rail and what is read from it after.
- `StandingFaultsNamed`, `NoFaultInvented`: the report of a rail's faults.
- `PromotedOnlyWhenSteady`, `PromotedInTime`, `LevelsSeen`,
  `GapIsBounded`, `ResetNeedsSlowPass`: the E-Stop and the watchdog. A level is
  promoted only at the end of its window, and no later than the first sample there.
- `ModeTracksEStop`, `WinchStillInEStop`, `AckedRailsStayOff`: what E-Stop
  guarantees. The last is a promise of the firmware: it does not turn such a rail on. A chip that lost its
  OFF, or that wakes up on, stays on.
- `ReportedIsDriven`: the percentages in telemetry are the duty of the pins.
- `OnWasAsked`: bytes that did not arrive turn nothing on.
- `SurvivesReset`: what a reset leaves of the fault history, at every point of every call.
- `SequencesInOrder`, `ResetCountsInOrder`: the order of the history.
- `ImplementsDurableLog`: refinement of `DurableLog`.
- `OnceInOrder`, `NewestKept`, `AnswerIsOwn`, `AnswerComes`: the mailboxes and the
  shared sequence.

Each property of a passing run has a mutant in `PROJECT.json`: a definition
changed the way a plausible bug would, under which TLC finds the property
violated.

**What the bus properties say, and do not.** A write reported done is in the chip
whatever pulses were lost, because a slipped bit costs the acknowledge. Two things
fake one: SDA held low from outside, and a chip still in an answer of an earlier
transfer, which hears no START and whose zeros are taken for acknowledges.
This leans on the chip's own timeout: without it
a chip left giving an acknowledge would give it for a later byte. A read has no
such safeguard: one lost pulse of its own shifts it, and `requestFrom()` still
returns the count. After a fault an absent address may seem present, and a chip left
in mid-write takes the next address byte for data. Registers are safe from the
second transfer on (`NoStrayWrite`). A chip left in an answer gives at least a byte of
it to each transfer that drowns in it, so all is well after as many transfers as its
longest answer has bytes (`RecoversInTime`; TLC finds a behaviour that needs all
of them). For bytes and words these are
the two that `scan48VSmbusAddress()` makes at boot before anything depends on one.

`RangeIsKnown` and `WarningsMeanAmps` hold only for registers in no doubt: a rail that `init()` calls good may have refused any of its writes but two.

**What the cooldown is worth.** `CooldownRespected` says that the ON of a restart finds a
chip whose OPERATION has been off for the whole wait, with the exceptions the code leaves: the
OFF of the recovery is written with its result ignored, and `tick()` does not notice when RG, an
`enable()` that was refused or a power-up turns OPERATION on during the wait.

**Fairness.** Safety needs none. `FairSpec` of `Rail` assumes that the clock
advances and that ticks whose reads work go on: `loop()` is an
endless loop that blocks on nothing (E-Stop, which suspends ticks, is left out
of this question). `RetriesForever` has two premises besides: that a present rail
is ticked between two clock units (the unit is seconds, the tick period
100 ms), and that no tick loses its reading of OPERATION
just when a step is due. (The latter speaks of steps that are due, because a failed reading
with nothing due leaves the same state as a quiet tick.) `FairSpec` of
`LoopTiming` assumes that time passes, that the watchdog bites when its period is
over, and that the few statements before `iwdg::init()` come to their end. It
assumes of no later part of `setup()` and of no pass that it ends, and the input
is seen all the same: a level that stays is promoted unless the board is reset for ever.
The line is under no fairness. `FairSpec` of `ControlApi` assumes
that `loop()` goes on, and that RG goes on polling while it waits; writing,
giving up and resets are under none.

**Deadlock** is checked in every run. (`RailConfig` says with `Idle` that a rail is
configured once.)

## 4. Disagreements between the code and its documentation

Each is a run of its own, whose counterexample TLC prints.

1. *Bus errors need not be consecutive* (`rail_consecutive`). The comment of
   `kMaxBusErrorsInARow` promises consecutive errors; the streak is never
   reset.
2. *In E-Stop rails may be on* (`supervisor_estop`). When the line is asserted
   at boot, `setup()` enables the rails and enters `kEStop` itself, and
   `disableAllRails()`, which runs on the transition, never does.
3. *A rail may come back after E-Stop by itself* (`supervisor_reenable`). The
   OFF of a rail in its cooldown is refused, the pending restart survives, and
   `tick()` completes it after the release.
4. *A reset may add a fault that never was* (`fault_log_phantom`). A magic over erased
   halfwords is a valid record, since their checksum is the erased one. It is reported with sequence 0xFFFF and
   0xFF for its code and rail; the next sequence is 0, and the reset count stays at 0xFFFF.
5. *`busy` never says busy* (`control_api_busy`). The README's typical flow
   waits for `busy` to read 0 and then takes the status for that of its command.
   The code never sets it, so the flow reads the previous result. The example
   under `CommandStatus`, which watches the sequence, is what `ControlApi` models.

Seen while modelling and not given a run:

- *The recovery does not respect every OFF of RG.* The comment over it
  (`rail.cpp:629-632`) says that it does. An OPERATION write over the bridge, which the
  README shows (`README.md:814`), tells the controller nothing: the rail is still
  wanted, and `tick()` turns it on again (`BridgeOperation`, `TickRestart` of `Rail`).
- *The E-Stop does not start de-asserted.* `estop.h:29` says it does, and
  `estop.h:17-19` that a change takes two consistent samples; `init()` takes one sample for the
  debounced level, so a glitch at a reset is an E-Stop (`Reboot` of `EStop`).
- *A stuck pin is an E-Stop.* `estop.h:15-16` says that it must not be interpreted as a real
  assertion. The code promotes a stuck level as any
  other; `PromotedInTime` and `LevelsSeen` are properties of just that.
- *A reset may cost the whole fault history.* `fault_log.h:5` says that records survive it. A full
  page is erased and rewritten record by record (`fault_log.cpp:212`); `SurvivesReset` says what is left at each
  point.
- *Warnings are reported as faults.* `main.cpp:229-233` says that only protection events are
  printed. The chip sets the temperature bit of STATUS_WORD for a warning too
  (`lm5066h.txt:4947-4956`), and it is printed as `[FAULT]`; so are a VIN transient, an energy counter's
  overflow and a full black box (`Remarks` of `Registers`). `NoFaultInvented` says what is left of the
  claim: no warning is taken for one of the chip's faults, which raise other lines besides.

In the rails besides:
`main.cpp:235-237` says the bits are the driver's, but three of them
the driver does not decode; `avionics_config.h:124-132` and `rail.cpp:199-201`
say the firmware never writes OPERATION, but the recovery does;
`main.cpp:63` and `avionics_config.h` say software enforces 80 A for 3 min, but
`evaluateTimeWindowed()` is never called. A rail whose WRITE_PROTECT was refused
keeps the driver's first idea of its range, is enabled all the same, and its
readings are scaled by it. A dead clock line costs about 50 ms a transfer, which can
push a pass over half the watchdog's period. A rail that lost an acknowledged OFF of the E-Stop, or whose chip
wakes up in it, stays on until RG or a reset: `disableAllRails()` runs once and reads nothing
back. CLEAR_FAULTS in a recovery may erase
a status raised after the tick sampled it.

In RG's commands: the README (`README.md:614`, `:638`, and
`:587` for DC motors) says that a percentage outside -100..100 is answered `RANGE`;
`winch.cpp` clamps it and answers `OK`. `BrakeWinch` answers `OK` to a winch that
sleeps and does nothing. A frame cut short is executed with zeros for what is
missing: nothing is turned on by it (`OnWasAsked`), but a cut `SetRailEnable` turns the
48 V rail off and a cut `SetEstopLocal` ends RG's own E-Stop.

On the bit-banged bus: `begin()` clocks nothing out, so the first transfers after a
reset may meet a chip that is still sending, and be reported done with nothing taken
(`DoneWasTaken` and `RecoversInTime` say when and for how long). The two transfers of
`scan48VSmbusAddress()` come first and take bytes and words on themselves; what is left of a
block may outlast them.

Elsewhere: commands and bridge requests share one
sequence, which `docs/PONT_I2C_RG_PDU.md` says are two and of which it says that
bridge requests do not move it (so an RG that follows the README's example and
has 255 bridge requests served between two commands never sees the second one's
result); after a reset the result registers hold sequence 0
with status OK, which an RG that waits takes for the success of a command that was
lost, and the first answers may repeat sequences it saw; RG's `SetRailEnable` is accepted in
E-Stop; an E-Stop asserted locally by RG is released by a reset of the board;
the reset counter counts only boots that follow a record; the next sequence
wraps to 0 at a boot that finds 0xFFFF, where it saturates while running; a rail
that `configureDevice()` gave up on is enabled all the same at boot; the
software time-window protection of `rail.cpp` is never called.

The policy comment of `avionics_config.h` ("tick() never re-asserts OPERATION")
describes an earlier controller: the recovery of `tick()` writes OPERATION off
and on again. The model follows the code.

## 5. Proofs

Every theorem below is checked by `tlapm` for all values of the constants that
meet the assumptions of the module (`PeriodsAssumption`, `DebounceAssumption`:
positive waits below the modulus of the clock; `BurstAssumption`: what RG may
send between two looks, see section 3;
`LimitsAssumption`: the FIFO has room for a record, and a flash slot that holds one is
neither erased nor torn (`Phantom` is a record);
`ConfigAssumption`: the rails are among the board's three, and the watchdog timer is tried at
least once; `LayoutsApart`: no two fields of a register share a bit, which TLC
evaluates over the driver's own table on every run of `RailConfig`;
`TimingAssumption`: half the nominal period is below every period the oscillator may
give, and the parts of `setup()` add up to less than `MaxGap`;
`HostAssumption`: rails, bridges and locks are numbered as in a frame, and a
percentage is a byte; `BusAssumption`: an address ends in a 0, settings and readings have different codes, and
no answer is longer than `MaxAnswer`). The supervisor's theorems assume
nothing of its three sets, which need not even be finite.

| Module | Theorem | States |
|---|---|---|
| `Rail_proofs` | `TypeCorrect`, `OffStaysOff`, `BookkeepingHolds` | `[]TypeOK`, `[]OffIsFinal`, `[]RecoveryBookkeeping` |
| `Rail_proofs` | `CooldownHolds`, `SettleHolds` | `CooldownRespected`, `SettleRespected` |
| `Rail_proofs` | `RefinesContract` | `Spec => Contract!Spec` |
| `LoopTiming_proofs` | `TypeCorrect`, `AgeIsHonest`, `PromotionIsSteady` | `[]TypeOK`, `[]DebounceAgeHonest`, `PromotedOnlyWhenSteady` |
| `LoopTiming_proofs` | `PromotionIsPrompt`, `LoopReactsInTime` | `[]PromotedInTime`, and in the loop a wait below the debounce time and one watchdog period |
| `LoopTiming_proofs` | `LoopGapIsBounded`, `LoopResetNeedsSlowPass` | `[]GapIsBounded`, `ResetNeedsSlowPass` |
| `LoopTiming_proofs` | `LoopImplementsEStop`, `LoopKeepsEStopSafe` | `LoopSpec => Spec` of `EStop`, and with it the E-Stop's own invariants and `PromotedOnlyWhenSteady` |
| `Supervisor_proofs` | `TypeCorrect`, `ModeIsRight`, `WinchStaysStill`, `SleepCoasts`, `AckedStayOff` | `[]TypeOK`, `[]ModeTracksEStop`, `[]WinchStillInEStop`, `[]SleepingWinchCoasts`, `[]AckedRailsStayOff` |
| `Supervisor_proofs` | `EveryRailKeepsContract` | `Spec => Contract(r)!Spec` for every rail r |
| `HostCommands_proofs` | `HostImplementsSupervisor`, `HostKeepsSafety` | `HostSpec => Spec` of `Supervisor`, and with it its invariants |
| `HostCommands_proofs` | `HostKeepsContract` | `HostSpec => Contract(r)!Spec` for every rail r |
| `HostCommands_proofs` | `ReportedTruth`, `OnlyAskedOn` | `[]ReportedIsDriven`, `[]OnWasAsked` |
| `ControlApi_proofs` | `TypeCorrect`, `RequestsOnceInOrder`, `NewestRequestKept` | `[]TypeOK`, `[]OnceInOrder`, `[]NewestKept` |
| `ControlApi_proofs` | `NewMeansOwn`, `OwnMeansNew` | `AnswerIsOwn`, and that the answer, once published, shows a sequence RG did not see |
| `FaultLog_proofs` | `TypeCorrect`, `ResetLosesNoMore` | `[]TypeOK`, `[]SurvivesReset` |
| `FaultLog_proofs` | `HistoryInSequence`, `ResetsInSequence` | `[]SequencesInOrder`, `[]ResetCountsInOrder` |
| `FaultLog_proofs` | `PageIsDurableLog` | `Spec => Durable!Spec` |
| `RailConfig_proofs` | `TypeCorrect`, `WatchdogIsLong` | `[]TypeOK`, `[]OkMeansLongWatchdog` |
| `RailConfig_proofs` | `OthersKept` | `OtherFieldsKept` |
| `RailConfig_proofs` | `RangeStaysKnown`, `WarningsAreRight` | `[]RangeIsKnown`, `[]WarningsMeanAmps` |
| `RailConfig_proofs` | `StandingFaultsAreNamed`, `NoFaultIsInvented` | `ReportSpec => []StandingFaultsNamed`, `ReportSpec => []NoFaultInvented` |
| `RailConfig_proofs` | `ReportNamesFaults` | of any number of events raised at once: equal lines mean equal faults |
| `SoftSmbus_proofs` | `TypeCorrect`, `WritesAreTaken`, `ReadsAreExact` | `[]TypeOK`, `[]DoneWasTaken`, `[]DoneReadIsExact` |
| `SoftSmbus_proofs` | `ChipRecovers`, `NothingElseIsWritten` | `[]RecoversInTime`, `NoStrayWrite` |

**Rail.** The invariant is `TypeOK /\ OffIsFinal /\ RecoveryBookkeeping`. The last
part is what the two action properties need. While a restart is pending and its OFF is not
`undone`, the chip's OPERATION is off, and has been for no less than the age the code computes (or for the whole
cooldown); a wanted rail that was commanded on less than the observation period
ago is under observation with an age no greater than the true time. Neither is
visible in the code, which has only wrapped differences and ignores the result of its OFF. Every step that may put
OPERATION on, a refused `enable()`, the bridge and a power-up among them, has to set `undone`; a wrap makes an age
smaller, so it can only delay a restart; the delicate step is `TickForceOff`,
which ends an observation and is allowed only once the age has passed the period.
`streak < MaxBusErrors` for a present rail is needed for the type of `streak`.

**Refinement.** `shown` maps the detailed rail to the record of the contract. Each
call maps to the call of the same name, the six ways through `tick()` to the
contract's `tick`, a power loss to `powerLost`, clock and MOSFET steps to stuttering. Only the Boolean types are
needed: the contract leaves out every wait.

**E-Stop.** `TypeOK /\ DebounceAgeHonest` is inductive; a promotion then reads an
age of at least `Debounce`, and the true time is no smaller. `PromotedInTime` is the
converse. A wrap makes the age small, and a level that had waited its window would start it
again; but while a level waits its age is below the window plus the time since the last sample, and
`DebounceAssumption` has the two together below the modulus. With the bounds of the next paragraph
this is a worst case (`LoopReactsInTime`): the wire moved less than one watchdog period before
the sample that shows it, and the promotion is less than the debounce time and one more
period away. The liveness of `LevelsSeen` is left to TLC, what it comes down to is not.

**Loop timing.** `EStop` takes a bound on the time between two samples for granted;
here it is a consequence. The invariant is `TimingInv`: the type; `GapSoFar`, which
says that at each part of `setup()` no more than one period per finished part
has passed since `estop::init()`, and in the loop that the gap is within `since`;
and `SlowOrFresh`, that a loop in which nothing was slow was reloaded at the last
sample. The first needs the sum over the parts, for which the
assumption on `MaxGap` is stated; the last is what `ResetNeedsSlowPass` follows
from. Every step of `LoopNext` is a step of `EStop` or leaves it alone, which gives
the refinement and carries the safety theorems of `EStop` over.

**Supervisor.** Three of the properties are not inductive. `ModeTracksEStop` needs
`Staged`: protection and CBIT are reached only outside E-Stop. `WinchStillInEStop`
needs `Still`: at the stages before a command is served the winch is still in
`kEStop` whatever the samples say, because a release seen in this pass leaves the
mode at its check. `AckedRailsStayOff` is inductive in two parts, `AckedQuiet` (the rail is not
wanted and has no restart pending) and `DownOff` (its chip is off): a quiet rail has no outcome of `tick()`
that writes OPERATION on, so each call leaves it quiet, and off if it was (`Settles`). What does write it on, RG over
the bridge and a power-up, takes it out of `down` and leaves it quiet. And
the type of `mode` needs that no rail is ever latched (`LiveRecord`).

**Each rail and its contract.** A step of the supervisor may move several rails at
once and the contract moves one, so the step is first cut down to what it makes of a single
rail: `RailMove` says that it stays, is probed, moves by one of the outcomes of a call, or
reboots. The contract lets a rail be called only when it has been probed and
probed only when it has not; `Probed` (a rail is in `kBoot` exactly before `setup()`
has probed it) ties that to the stage of the program, and is inductive since no call leads back to `kBoot`
(`CallsKeepProbed`). `RailContract` has its own copies of the outcome operators, and
`SameOutcomes` shows that they are the same. For `HostCommands` it follows
from its refinement of `Supervisor`. With `RefinesContract` of `Rail`, the two models of a rail,
one with clocks and bus and one among the rest of the board, meet in one specification.

**Host commands.** Every `Serve...` is the supervisor's action of the same name with
arguments the frame can name (`Frames`, `CommandIsCommand`), which gives the
refinement and carries the safety theorems over. `ReportedIsDriven` is inductive
with the types of the pins: a percentage of at most 100 has a duty
below 256 (`DutyFits`), so the cast to 8 bits loses nothing, and every other
step stops the outputs or leaves them alone. `OnWasAsked` needs that no call but `enable()` makes a
rail wanted (`OnlyEnableWants`), the recovery of `tick()` included, and that a
missing byte is the one that says off, or a percentage of 0.

**Control API.** `OnceInOrder` and `NewestKept` are inductive together with
`NothingNewer`: nothing in the device is newer than what RG wrote, so a new write
is newer than all of it, and what is published is not yet done.

That a new sequence is RG's own answer (`NewMeansOwn`) needs `OnTrack`: on a
channel RG did not lose track of, no request but the awaited one is in the device. That its own
answer is new (`OwnMeansNew`) needs `Budget`: how far the shared sequence is past a
result, plus the requests of the other channel that will still move it, is
within what the bursts allow, and so below a full round.

**Fault log.** What `loadFromFlash()` makes of a page is a loop over its slots, and
the next sequence one over the records. Both are recursive functions of the model, and
their values are proved by induction over the numbers (`NumbersByInduction`, from
the well-foundedness the library has). `UsedUpTo` says that a page is used from its
first slot without a gap; then a load is a walk over those slots, and the slot programmed next comes
last in it (`LoadedIs`, `SlotLoads`, and the lemmas after them). The
invariant `Sane` is the type and three couplings: the shape of the page, what each part of a
call leaves to do, and `PageCoupling`, which says what a boot at this moment would
load but for the slot being programmed: all of RAM between two calls, all but the new record while it is
appended, and all but what is still to be written while the page is rewritten. That slot
adds nothing or one of the records `Unfinished`, which are records of their type (`UnfinishedType`) and
stay where they are when a reset comes.
`EraseCoupling` adds the moment before the erase: the page lacks the new record and may
still have the oldest one. `SurvivesReset` is these together. A failed
flash operation takes the claim away until an erase, since everything is
written again behind it. `Chronology` adds that the last record has the highest
sequence and reset count unless the maximum was reached, which a load keeps, as the sequence of the next record comes from the last
one loaded, and which a record cut short keeps too (`SpoiltInOrder`): its fields are its own or the maximum.

That the page implements `DurableLog` needs the same couplings, which say where in the history a
programmed record goes: a load after the last halfword is the load before the first and
that record (`SlotFinished`), any halfword before it changes what the slot adds and nothing else
(`SlotRewritten`, `LoadedIsIntactAndHalf`), and a reset or a refused halfword makes what it
adds stay (`PageCut`). One thing more is needed where nothing
is claimed of the page: `FromHistory`, that a rewrite on failing flash still writes records of
the history and no others.

**Rail configuration.** Three arguments. `OthersKept` is about bits: a register is
taken apart by shifts and masks and put together again, and `RoundTrip` shows for
every layout of the driver's table, every content and every field that what was not named
comes back (`Binary`, `BitEncoded`, `BitOfValue`); `LayoutsApart` is where the table enters. The other three
are about steps: `WhoWrites` says which step may touch which register, field and limit, so that each
invariant has to be looked at in the few steps that can disturb it.
`WatchdogDone` covers every number of tries: `init()` goes on only after it read the
longest timer back, and a bus that holds the line low reads back a zero.
`RangeInChip` and `LimitsInChip` say what the chip holds as long as the write was done and nobody changed
it since, and `CacheSet` that the driver's cache holds the same; the codes of the warnings
are then worked out for each of the three rails.

**Fault report.** A report shows
what its events raise, all but the summary bit of a communication error, which is
shown only beside a bit of STATUS_CML (`ReportLines`); and every fault has a line that
no other event, fault, warning or news, brings up (`Telltale`, `OneLineEach`), so the lines tell the
set of faults back (`ReportNamesFaults`). The rest is about time. The invariant (`ReportInv`) says of each
register whose last reading was not garbled that it shows a set of events which held all that has been up ever since
the last whole tick began, and nothing that has not been up since (`Mixed`); the sets may differ from register
to register, and during a tick the same holds of the registers it has read and its own beginning.
So a standing fault has its lines however the registers were mixed, and
a fault that is named was up when the register of its telltale was read (`Sources`).

**Bus.** Four invariants, each inductive given the ones before it. `Basic` is the
types and which phases and counts of the master and of the chip go together. `Writes` is about
lost pulses: a chip that heard the START of a write is at the master's bit with every
bit before it right, or is behind, or has given up; one that is behind is still in the byte
when its acknowledge is read, and so gives none. Therefore a slip cannot go unnoticed,
wherever in the transfer it happens. The one exception, an acknowledge
the chip is still giving, is over as soon as a second pulse in a row is lost.
`InStep` covers transfers without a fault of their own whose START was heard: master
and chip are at the same bit of the same byte (`InByte`, `InAck`, `InFetch`, `InReply`),
and the bytes read so far are those of the answer (`Exact`). `Settles` is about what
a fault leaves behind. `Left(slave, n)` says that the chip is in an answer of which it has
given n bytes, and at the end of the n-th transfer since the fault the
chip is idle or `Left` with n + 1, which `MaxAnswer + 1` ends, since past its own bytes a chip holds nothing
low and hears the START. `Drowned` is the same in the middle of a transfer: an
transfer whose START went by in an old byte clocks out, with its address and the
acknowledge, more bits than that byte has left, so the chip has to begin another or give up.

**Only model-checked.** The liveness properties (`RetriesForever`,
`LevelsSeen`, `AnswerComes`), which are out of the proof system's
reach. The strengthenings are only proved; `FaultReport` has no type invariant of its own, since its theorems need only a part of one. Every other property of a passing run is a theorem. The violated properties are counterexamples and have nothing to prove.

## 6. What is left out

- `setup()` is two steps of `Supervisor`. Between two rails it probes or enables nothing else
  observes the difference; a reset in the middle leaves the OPERATION bits of the
  rails enabled so far, which `Reset` after `EnableAtBoot` with refused enables covers.
- Garbled readings in `Rail`: `tick()` reads OPERATION exactly or not at all (a garbled one would move `state_` and
  nothing else), and sees device-off whenever the MOSFET does not conduct (a garbled one
  would put a retry off by a tick).
- The driver's word writes: `SoftSmbus` writes bytes only, so `DoneWasTaken` says nothing of a word.
  `RailConfig` and `Rail` let any write be lost, acknowledged or not.
- A rail given up as absent is no longer read, and goes on reporting what it last showed: `FaultReport` is about rails
  that are ticked.
- Measurements and NTC conversion: in `Rail` a tick is reduced to which reads worked and
  whether the chip reports off. The driver's black-box and block reads, its peak and average
  registers and its telemetry helpers change no state another part reads.
- Floating point: limits are computed in tenths with the driver's integer
  coefficients and compared within one code (`Near`).
- The layout of bridge requests, of results and of the telemetry: fixed-point
  fields that no part of the firmware reads back.
- LED commands, which move nothing but LEDs, and the parallel DC mode, which cannot
  be entered.
- The microseconds of the bit-banged bus: a half period is a step, and only
  whether SCL came up in time is a choice. The other two rails' bus is the
  microcontroller's own peripheral behind `Wire`, whose failures `Rail` and `RailConfig` take as given.
- The telemetry snapshot, which nothing in the firmware reads; the recovery of a
  deaf I2C peripheral (`rearmListenIfStuck`), whose state is the hardware's; PBIT's
  result, which gates nothing.
- `wasResetByWatchdog()`, which only adds one more record to the fault log at boot. Outside `LoopTiming`
  a reset may come at any step, which includes the watchdog's.
- LEDs, SWO console and the Python host tools keep no state another part reads.

## 7. Plan

1. Done: `Rail`, `RailOps`, `RailContract`, `EStop`, `Supervisor`, `FaultLog`, `DurableLog`,
   `ControlApi`, `SoftSmbus`, `Registers`, `RailConfig`, `FaultReport`, `LoopTiming`,
   `HostCommands`, and the proofs above.
2. `Frames`: the API's fixed-point telemetry fields and the bridge's requests,
   against reference definitions over bounded inputs.
