------------------------------- MODULE Rail --------------------------------
(***************************************************************************)
(* One power rail: the firmware's rail::Controller (src/src/rail.cpp), the *)
(* LM5066H1 hot-swap chip behind it and the bus between the two.           *)
(*                                                                         *)
(* The controller never blocks on a chip that dropped its MOSFET.  tick()  *)
(* runs a recovery in which it commands OPERATION off, waits RestartWait,  *)
(* commands it on again, and leaves the chip alone for ObservePeriod.      *)
(*                                                                         *)
(* Time.  The code keeps millis() timestamps and only ever looks at the    *)
(* unsigned 32-bit difference now - timestamp.  The model keeps that       *)
(* difference: an age in 0 .. Wrap-1, which wraps as the subtraction does. *)
(***************************************************************************)
EXTENDS Integers

CONSTANTS
  RetryPeriod,   \* kOnRecoveryRetryPeriodMs, in clock units
  RestartWait,   \* kOperationRestartWaitMs
  ObservePeriod, \* kPostOnObservePeriodMs
  MaxBusErrors,  \* kMaxBusErrorsInARow
  Wrap           \* 2^32 ms, the modulus of millis()

ASSUME PeriodsAssumption ==
  /\ RetryPeriod \in Nat \ {0}
  /\ RestartWait \in Nat \ {0}
  /\ ObservePeriod \in Nat \ {0}
  /\ MaxBusErrors \in Nat \ {0}
  /\ Wrap \in Nat
  /\ RetryPeriod < Wrap /\ RestartWait < Wrap /\ ObservePeriod < Wrap

VARIABLES
  state,        \* Controller::state_ ; present_ is state \notin {Boot, Absent}
  desired_on,   \* desired_on_
  pending,      \* pending_on_recovery_: OFF commanded, waiting to command ON
  observe,      \* post_on_observe_
  pending_age,  \* now - pending_on_recovery_ms_
  observe_age,  \* now - post_on_observe_ms_
  recovery_age, \* now - last_on_recovery_ms_
  uptime,       \* now itself, the age of a timestamp that holds 0
  streak,       \* bus_error_streak[rail]
  op,           \* chip: bit 7 of the OPERATION register
  fet,          \* chip: the MOSFET conducts
  ticked,       \* history: tick() ran since the clock last advanced
  off_acked,    \* history: the last call was a disable() that returned kOk
  off_age,      \* history: true time the chip's OPERATION has been off, capped
  undone,       \* history: the OFF of this cooldown was lost, or others turned
                \* OPERATION on since: RG, a refused enable(), a power loss
  on_age,       \* history: true time since a wanted ON was commanded, capped
  consecutive   \* history: failed ticks since the last good one, capped

timers == <<pending_age, observe_age, recovery_age, uptime>>
history == <<ticked, off_acked, off_age, undone, on_age, consecutive>>
controller == <<state, desired_on, pending, observe, streak>>
chip == <<op, fet>>
vars == <<controller, timers, chip, history>>

State == {"Boot", "Absent", "Ready", "Running", "Warning", "Tripped", "Latched"}
Age == 0 .. Wrap - 1

\* The three waits the history clocks have to tell apart.
OffCap == RestartWait
OnCap == ObservePeriod

FlagsType ==
  /\ state \in State
  /\ desired_on \in BOOLEAN /\ pending \in BOOLEAN /\ observe \in BOOLEAN
  /\ op \in BOOLEAN /\ fet \in BOOLEAN
  /\ ticked \in BOOLEAN /\ off_acked \in BOOLEAN
  /\ undone \in BOOLEAN

CountersType ==
  /\ pending_age \in Age /\ observe_age \in Age /\ recovery_age \in Age
  /\ uptime \in Age
  /\ streak \in 0 .. MaxBusErrors
  /\ off_age \in 0 .. OffCap
  /\ on_age \in 0 .. OnCap
  /\ consecutive \in 0 .. MaxBusErrors

\* Every variable has its type; a rail that used up its errors is no longer
\* ticked (tick() returns in kAbsent), which is what bounds the streak.
TypeOK == FlagsType /\ CountersType

\* The device answers: neither before init() nor given up as absent.
Present == state \notin {"Boot", "Absent"}

Init ==
  /\ state = "Boot"
  /\ desired_on = FALSE /\ pending = FALSE /\ observe = FALSE
  /\ pending_age = 0 /\ observe_age = 0 /\ recovery_age = 0 /\ uptime = 0
  /\ streak = 0
  /\ op \in BOOLEAN /\ fet = FALSE
  /\ ticked = FALSE /\ off_acked = FALSE
  /\ off_age = 0 /\ undone = FALSE /\ on_age = OnCap
  /\ consecutive = 0

-----------------------------------------------------------------------------
(* The bus and the chip.  Whatever a write reports, it landed or was lost:   *)
(* the bus may swallow a write it acknowledges and refuse one that arrives.  *)

WriteOperation(on, landed) ==
  /\ op' = IF landed THEN on ELSE op
  /\ fet' = (fet /\ op')
  /\ off_age' = IF op' THEN 0 ELSE off_age

\* The chip lost its input, or RG made it reload its defaults over the bridge:
\* OPERATION is 80h again, on, and is not among the settings the chip stores.
PowerLost ==
  /\ op' = TRUE /\ fet' = FALSE
  /\ off_age' = 0
  /\ undone' = pending
  /\ UNCHANGED <<controller, timers, ticked, off_acked, on_age, consecutive>>

\* Out of BREAKER retry, a fault or a cleared fault: the FET follows OPERATION
\* at a time of the chip's choosing and drops whenever a protection fires.
FetOn ==
  /\ op /\ ~fet
  /\ fet' = TRUE
  /\ UNCHANGED <<controller, timers, op, history>>

FetOff ==
  /\ fet
  /\ fet' = FALSE
  /\ UNCHANGED <<controller, timers, op, history>>

\* RG writes the OPERATION register through the PMBus bridge: no rail state is
\* consulted and none is told.
BridgeOperation(on, landed) ==
  /\ state # "Boot"
  /\ WriteOperation(on, landed)
  /\ undone' = (undone \/ (pending /\ op'))
  /\ UNCHANGED <<controller, timers, ticked, off_acked, on_age, consecutive>>

-----------------------------------------------------------------------------
(* Controller calls.                                                        *)

InitAbsent ==
  /\ state = "Boot"
  /\ state' = "Absent"
  /\ UNCHANGED <<desired_on, pending, observe, streak, timers, chip, history>>

\* configureDevice() gave up: write protect or the watchdog timer.
InitMisconfigured ==
  /\ state = "Boot"
  /\ state' = "Tripped"
  /\ UNCHANGED <<desired_on, pending, observe, streak, timers, chip, history>>

\* OPERATION is not written: the chip keeps whatever it was commanded.
InitReady ==
  /\ state = "Boot"
  /\ state' = "Ready"
  /\ UNCHANGED <<desired_on, pending, observe, streak, timers, chip, history>>

EnableRefused ==
  /\ state \in {"Absent", "Latched"}
  /\ UNCHANGED vars

EnableOk(landed) ==
  /\ state \notin {"Boot", "Absent", "Latched"}
  /\ WriteOperation(TRUE, landed)
  /\ desired_on' = TRUE
  /\ pending' = FALSE
  /\ observe' = TRUE /\ observe_age' = 0
  /\ recovery_age' = 0
  /\ state' = "Running"
  /\ off_acked' = FALSE
  /\ on_age' = 0
  /\ undone' = FALSE
  /\ UNCHANGED <<streak, pending_age, uptime, ticked, consecutive>>

\* desired_on_ is already set when the bus refuses the write, and a recovery in
\* flight goes on.
EnableFailed(landed) ==
  /\ state \notin {"Boot", "Absent", "Latched"}
  /\ WriteOperation(TRUE, landed)
  /\ desired_on' = TRUE
  /\ off_acked' = FALSE
  /\ undone' = (undone \/ (pending /\ op'))
  /\ UNCHANGED <<state, pending, observe, streak, timers, ticked, on_age,
                 consecutive>>

\* Mutant of DisableOk: a recovery in flight is not cancelled.
DisableOkKeepsRecovery(landed) ==
  /\ state # "Boot"
  /\ WriteOperation(FALSE, landed)
  /\ desired_on' = FALSE
  /\ observe' = FALSE
  /\ state' = IF state \in {"Running", "Warning"} THEN "Ready" ELSE state
  /\ off_acked' = TRUE
  /\ on_age' = OnCap
  /\ UNCHANGED <<streak, pending, timers, ticked, undone, consecutive>>

DisableOk(landed) ==
  /\ state # "Boot"
  /\ WriteOperation(FALSE, landed)
  /\ desired_on' = FALSE
  /\ pending' = FALSE
  /\ observe' = FALSE
  /\ state' = IF state \in {"Running", "Warning"} THEN "Ready" ELSE state
  /\ off_acked' = TRUE
  /\ on_age' = OnCap
  /\ undone' = FALSE
  /\ UNCHANGED <<streak, timers, ticked, consecutive>>

\* The early return leaves pending_on_recovery_ as it was.
DisableFailed(landed) ==
  /\ state # "Boot"
  /\ WriteOperation(FALSE, landed)
  /\ desired_on' = FALSE
  /\ off_acked' = FALSE
  /\ on_age' = OnCap
  /\ UNCHANGED <<state, pending, observe, streak, timers, ticked, undone,
                 consecutive>>

\* Nothing reaches kLatched, so a call finds nothing to clear.
ClearLatch ==
  /\ state' = IF state = "Latched" THEN "Ready" ELSE state
  /\ UNCHANGED <<desired_on, pending, observe, streak, timers, chip, history>>

-----------------------------------------------------------------------------
(* tick().                                                                  *)

\* Mutant of TickBusError: a rail is never given up.
TickBusErrorForgiving ==
  /\ Present
  /\ streak' = streak + 1
  /\ consecutive' = IF consecutive < MaxBusErrors THEN consecutive + 1
                                                  ELSE consecutive
  /\ ticked' = TRUE
  /\ UNCHANGED <<state, desired_on, pending, observe, timers, chip, off_acked,
                 off_age, undone, on_age>>

\* A critical read (IIN or STATUS_WORD) failed: count and bail.
TickBusError ==
  /\ Present
  /\ streak' = streak + 1
  /\ state' = IF streak' >= MaxBusErrors THEN "Absent" ELSE state
  /\ consecutive' = IF consecutive < MaxBusErrors THEN consecutive + 1
                                                  ELSE consecutive
  /\ ticked' = TRUE
  /\ UNCHANGED <<desired_on, pending, observe, timers, chip, off_acked,
                 off_age, undone, on_age>>

\* The critical reads worked but OPERATION could not be read back.
TickOperationUnread ==
  /\ Present
  /\ consecutive' = 0
  /\ ticked' = TRUE
  /\ UNCHANGED <<controller, timers, chip, off_acked, off_age, undone, on_age>>

\* state_ follows the OPERATION bit just read.
Mirrored ==
  CASE op /\ state = "Ready" -> "Running"
    [] ~op /\ ~desired_on /\ state = "Running" -> "Ready"
    [] OTHER -> state

\* STATUS_WORD or DIAGNOSTIC_WORD says device-off.  The chip may have switched
\* on again since it was sampled, so a conducting FET can still be reported off.
ReportsOff == IF fet THEN BOOLEAN ELSE {TRUE}

TickRead ==
  /\ Present
  /\ state' = Mirrored
  /\ consecutive' = 0
  /\ ticked' = TRUE
  /\ UNCHANGED <<desired_on, streak, uptime, off_acked>>

\* Mutants: no cooldown; an observation that never ends.
RestartDueAtOnce == pending
ObservingForever == observe

RestartDue == pending /\ pending_age >= RestartWait

Observing == observe /\ observe_age < ObservePeriod

\* Mutants: a recovery during the observation; a recovery nobody wants.
RecoveryDueUnobserved(reported_off) ==
  ~pending /\ desired_on /\ reported_off /\ recovery_age >= RetryPeriod
RecoveryDueUnwanted(reported_off) ==
  ~pending /\ ~Observing /\ reported_off /\ recovery_age >= RetryPeriod

RecoveryDue(reported_off) ==
  ~pending /\ ~Observing /\ desired_on /\ reported_off
           /\ recovery_age >= RetryPeriod

\* The last lines of tick(): a rail nobody wants forgets its recovery.
TickNothingDue ==
  /\ ~RestartDue
  /\ \E reported_off \in ReportsOff : ~RecoveryDue(reported_off)
  /\ TickRead
  /\ IF ~desired_on /\ ~pending
       THEN observe' = FALSE /\ recovery_age' = uptime
       ELSE UNCHANGED <<observe, recovery_age>>
  /\ UNCHANGED <<pending, pending_age, observe_age, chip, off_age, undone,
                 on_age>>

\* The cooldown is over: CLEAR_FAULTS and OPERATION on, results ignored, and
\* desired_on_ is not consulted.
TickRestart(landed) ==
  /\ RestartDue
  /\ TickRead
  /\ WriteOperation(TRUE, landed)
  /\ pending' = FALSE /\ undone' = FALSE
  /\ observe' = desired_on /\ observe_age' = 0
  /\ recovery_age' = IF desired_on THEN 0 ELSE uptime
  /\ on_age' = IF desired_on THEN 0 ELSE OnCap
  /\ UNCHANGED pending_age

\* Wanted on but reported off: CLEAR_FAULTS, MFR_POWER_CYCLE (which drops the
\* FET when it arrives), OPERATION off, results ignored, and the cooldown starts.
TickForceOff(landed, cycled) ==
  /\ \E reported_off \in ReportsOff : RecoveryDue(reported_off)
  /\ TickRead
  /\ op' = (op /\ ~landed)
  /\ fet' = (fet /\ op' /\ ~cycled)
  /\ off_age' = IF op' THEN 0 ELSE off_age
  /\ pending' = TRUE /\ pending_age' = 0
  /\ undone' = op'
  /\ observe' = FALSE
  /\ recovery_age' = 0
  /\ UNCHANGED <<observe_age, on_age>>

-----------------------------------------------------------------------------
(* Time and the microcontroller.                                           *)

Older(age) == IF age = Wrap - 1 THEN 0 ELSE age + 1

OlderUpTo(cap, age) == IF age = cap THEN cap ELSE age + 1

Advance ==
  /\ pending_age' = Older(pending_age)
  /\ observe_age' = Older(observe_age)
  /\ recovery_age' = Older(recovery_age)
  /\ uptime' = Older(uptime)
  /\ off_age' = IF op THEN 0 ELSE OlderUpTo(OffCap, off_age)
  /\ on_age' = OlderUpTo(OnCap, on_age)
  /\ ticked' = FALSE
  /\ UNCHANGED <<controller, chip, off_acked, undone, consecutive>>

\* Watchdog or host reset: RAM is lost, the chip keeps running.
Reset ==
  /\ state # "Boot"
  /\ state' = "Boot"
  /\ desired_on' = FALSE /\ pending' = FALSE /\ observe' = FALSE
  /\ pending_age' = 0 /\ observe_age' = 0 /\ recovery_age' = 0 /\ uptime' = 0
  /\ streak' = 0
  /\ ticked' = FALSE /\ off_acked' = FALSE
  /\ undone' = FALSE /\ on_age' = OnCap
  /\ consecutive' = 0
  /\ UNCHANGED <<chip, off_age>>

-----------------------------------------------------------------------------
Call ==
  \/ InitAbsent
  \/ InitMisconfigured
  \/ InitReady
  \/ EnableRefused
  \/ \E landed \in BOOLEAN : EnableOk(landed) \/ EnableFailed(landed)
  \/ \E landed \in BOOLEAN : DisableOk(landed) \/ DisableFailed(landed)
  \/ ClearLatch
  \/ \E on, landed \in BOOLEAN : BridgeOperation(on, landed)

GoodTick ==
  \/ TickNothingDue
  \/ \E landed \in BOOLEAN : TickRestart(landed)
  \/ \E landed, cycled \in BOOLEAN : TickForceOff(landed, cycled)

Tick ==
  \/ TickBusError
  \/ TickOperationUnread
  \/ GoodTick

Environment ==
  \/ FetOn
  \/ FetOff
  \/ PowerLost
  \/ Reset

Next == Call \/ Tick \/ Environment \/ Advance

Spec == Init /\ [][Next]_vars

(***************************************************************************)
(* Liveness.  loop() calls tick() every 100 ms unless E-Stop holds it back,*)
(* and the clock goes on forever.                                          *)
(***************************************************************************)
FairSpec == Spec /\ WF_vars(Advance) /\ WF_vars(GoodTick)

-----------------------------------------------------------------------------
(* Properties.                                                             *)

\* Nobody but a fresh enable() can make the controller command the rail on
\* again once a disable() has been acknowledged: no recovery survives it.
\* (rail.cpp: disable() cancels pending_on_recovery_, tick() restarts on it.)
OffIsFinal == off_acked => ~desired_on /\ ~pending

\* The bookkeeping behind the two action properties that follow: while a
\* recovery waits, the chip has been off for as long as tick() believes unless
\* its OFF was undone; the ages tick() compares never run ahead of true time; an
\* ON that is still settling is wanted and under observation; and a present rail
\* has errors to spare.
RecoveryBookkeeping ==
  /\ pending /\ ~undone => ~op /\ (off_age >= pending_age \/ off_age = OffCap)
  /\ on_age < OnCap => desired_on /\ observe /\ observe_age <= on_age
  /\ state # "Absent" => streak < MaxBusErrors

\* A restart commands ON only after the chip's OPERATION was really off for the
\* whole cooldown, however late the tick and however often millis() wrapped,
\* and whatever enable(), disable() and the bridge did meanwhile, unless the
\* OFF itself was lost (tick() does not look at its result) or RG, a refused
\* enable() or the chip's own power-up default turned OPERATION on in between,
\* which the controller does not notice: the cooldown is not started over.
CooldownRespected ==
  [][(\E landed \in BOOLEAN : TickRestart(landed))
       => undone \/ (~op /\ off_age = OffCap)]_vars

\* The controller never forces a wanted rail off again within the observation
\* period of the last ON it commanded, by enable() or by a restart.
SettleRespected ==
  [][(\E landed, cycled \in BOOLEAN : TickForceOff(landed, cycled))
       => on_age = OnCap]_vars

\* What the other components can tell of a rail.
shown == [state |-> state, desired_on |-> desired_on,
          pending |-> pending, op |-> op]

\* The controller is one of the rails RailContract allows: what the supervisor
\* model composes loses no behaviour of the detailed one.
Contract == INSTANCE RailContract WITH rail <- shown

\* Every call, tick, bridge write, power loss and reset of the detailed rail is
\* a step of the contract or changes nothing the contract shows.
ImplementsContract == Contract!Spec

\* The comment over kMaxBusErrorsInARow: a rail is given up as absent after
\* that many consecutive failed ticks.
AbsentAfterConsecutiveErrors ==
  [][state' = "Absent" /\ Present => consecutive' >= MaxBusErrors]_vars

\* The "unlimited retry loop" of tick(): while the rail stays wanted and its
\* FET stays off, the recovery starts and completes again and again, provided
\* no tick loses its reading of OPERATION just when a step is due and enable()
\* is not called over and over.  Failed critical reads need no proviso: a rail
\* that goes on being present has only finitely many of them.
Due == RestartDue \/ RecoveryDue(TRUE)

RetriesForever ==
  (/\ <>[](desired_on /\ ~fet /\ Present)
   /\ <>[][/\ Advance => ticked
           /\ ~\E landed \in BOOLEAN : EnableOk(landed)
           /\ ~(Due /\ TickOperationUnread)]_vars)
    => []<>pending /\ []<>(~pending)
=============================================================================
