----------------------------- MODULE Supervisor -----------------------------
(***************************************************************************)
(* The supervisor: setup() and loop() of src/src/main.cpp with everything  *)
(* they move.  One pass of loop() goes through the stages of pc            *)
(*                                                                         *)
(*   estop -> command -> bridge -> check -> protect -> cbit -> estop ...   *)
(*                                                                         *)
(* and is the only thread; the I2C interrupt only queues a request, so a   *)
(* stage that serves one takes any request.  The rails are those of        *)
(* RailOps; the debounced E-Stop level is any level at each sample (EStop  *)
(* says which); a bus may refuse any write or lose one it acknowledges.  A  *)
(* reset of the board, or a power loss of a rail's chip, may happen between  *)
(* any two stages.                                                          *)
(***************************************************************************)
EXTENDS RailOps

CONSTANTS
  Rails,  \* the rail controllers
  Motors, \* the DRV8262 bridges
  Locks   \* the winch locks

VARIABLES
  pc,           \* the next stage
  mode,         \* s_mode
  asserted,     \* estop::s_asserted_stable
  local_assert, \* estop::s_local_assert
  rails,        \* rail -> RailRecord
  winch_mode,   \* winch::s_mode
  bridges,      \* motor -> what its two inputs command
  locked,       \* the locks that are energised
  stopped,      \* history: rails sent OFF by E-Stop, with no ON asked for since
  acked,        \* history: those whose disable() at the E-Stop returned kOk, with
                \* no enable() asked for since
  down          \* history: those of them whose OFF also arrived, in a chip that
                \* has kept its power and that RG has not written to since

winch == <<winch_mode, bridges, locked>>
estop == <<asserted, local_assert>>
history == <<stopped, acked, down>>
vars == <<pc, mode, estop, rails, winch, history>>

Stage == {"setup", "pbit", "estop", "command", "bridge", "check", "protect", "cbit"}
Drive == {"Coast", "Brake", "Run"}

\* kFault is not among the modes: it takes a latched rail, and nothing latches.
\* kParallelDc is not among the winch modes: its pins are not connected.
TypeOK ==
  /\ pc \in Stage
  /\ mode \in {"Boot", "Pbit", "Nominal", "Degraded", "EStop"}
  /\ asserted \in BOOLEAN /\ local_assert \in BOOLEAN
  /\ rails \in [Rails -> RailRecord]
  /\ winch_mode \in {"Sleep", "DualDc", "Stepper"}
  /\ bridges \in [Motors -> Drive]
  /\ locked \subseteq Locks
  /\ stopped \subseteq Rails /\ acked \subseteq Rails /\ down \subseteq acked

isEStopActive == asserted \/ local_assert

Coasting == [m \in Motors |-> "Coast"]

Init ==
  /\ pc = "setup"
  /\ mode = "Boot"
  /\ asserted = FALSE /\ local_assert = FALSE
  /\ \E on \in SUBSET Rails :
       rails = [r \in Rails |-> [state |-> "Boot", desired_on |-> FALSE,
                                 pending |-> FALSE, op |-> r \in on]]
  /\ winch_mode = "Sleep" /\ bridges = Coasting /\ locked = {}
  /\ stopped = {} /\ acked = {} /\ down = {}

\* The ways to change every rail at once, each to one of its own outcomes.
Jointly(outcomes) ==
  {f \in [Rails -> UNION {outcomes[r] : r \in Rails}] :
     \A r \in Rails : f[r] \in outcomes[r]}

\* Mutant of classifyMode: a tripped rail counts as a latched one.
ClassifiedTripIsFault(active, rs) ==
  IF active THEN "EStop"
  ELSE IF \E r \in Rails : rs[r].state \in {"Latched", "Tripped"} THEN "Fault"
  ELSE IF \E r \in Rails : rs[r].state \in {"Running", "Warning"} THEN "Nominal"
  ELSE "Degraded"

\* classifyMode()
Classified(active, rs) ==
  IF active THEN "EStop"
  ELSE IF \E r \in Rails : rs[r].state = "Latched" THEN "Fault"
  ELSE IF \E r \in Rails : rs[r].state = "Tripped" THEN "Degraded"
  ELSE IF \E r \in Rails : rs[r].state \in {"Running", "Warning"} THEN "Nominal"
  ELSE "Degraded"

-----------------------------------------------------------------------------
(* setup(): every output to its safe level, the E-Stop input sampled, the  *)
(* rails probed; then, whatever PBIT and the E-Stop say, all of them        *)
(* enabled.  RG is answered by interrupt from the first half on.           *)
Setup ==
  /\ pc = "setup"
  /\ pc' = "pbit"
  /\ mode' = "Pbit"
  /\ asserted' \in BOOLEAN /\ local_assert' = FALSE
  /\ rails' \in Jointly([r \in Rails |-> InitOutcomes(rails[r])])
  /\ winch_mode' = "DualDc" /\ bridges' = Coasting /\ locked' = {}
  /\ UNCHANGED history

\* enableAllRails(), at the end of setup().
EnableAtBoot ==
  /\ pc = "pbit"
  /\ pc' = "estop"
  /\ rails' \in Jointly([r \in Rails |-> EnableOutcomes(rails[r])])
  /\ mode' = Classified(isEStopActive, rails')
  /\ UNCHANGED <<estop, winch, history>>

\* Watchdog, brown-out or RG's ResetDevice.  The chips keep their OPERATION
\* bit; the pins of the winch float low until setup() drives them.
Reset ==
  /\ pc # "setup"
  /\ pc' = "setup"
  /\ mode' = "Boot"
  /\ asserted' = FALSE /\ local_assert' = FALSE
  /\ rails' = [r \in Rails |-> Rebooted(rails[r])]
  /\ winch_mode' = "Sleep" /\ bridges' = Coasting /\ locked' = {}
  /\ stopped' = {} /\ acked' = {} /\ down' = {}

\* A chip loses its input and comes back with OPERATION on; a RESTORE command
\* over the bridge has the same effect.  Nothing in the firmware is told.
PowerLost(r) ==
  /\ rails' = [rails EXCEPT ![r] = PoweredUp(@)]
  /\ stopped' = stopped \ {r} /\ down' = down \ {r}
  /\ UNCHANGED <<pc, mode, estop, winch, acked>>

-----------------------------------------------------------------------------
(* loop(), first half: sample the E-Stop, serve one command, one bridge.   *)

EStopTick ==
  /\ pc = "estop"
  /\ pc' = "command"
  /\ asserted' \in BOOLEAN
  /\ UNCHANGED <<mode, local_assert, rails, winch, history>>

\* No command, one that moves nothing modelled here, or one that is refused.
NoCommand ==
  /\ pc = "command"
  /\ pc' = "bridge"
  /\ UNCHANGED <<mode, estop, rails, winch, history>>

\* A rail command names one rail or all of them.
Targets == {{r} : r \in Rails} \cup {Rails}

\* kSetRailEnable is not refused while E-Stop is active.
EnableRails(targets) ==
  /\ pc = "command"
  /\ pc' = "bridge"
  /\ rails' \in Jointly([r \in Rails |-> IF r \in targets
                           THEN EnableOutcomes(rails[r]) ELSE {rails[r]}])
  /\ stopped' = stopped \ targets
  /\ acked' = acked \ targets /\ down' = down \ targets
  /\ UNCHANGED <<mode, estop, winch>>

DisableRails(targets) ==
  /\ pc = "command"
  /\ pc' = "bridge"
  /\ rails' \in Jointly([r \in Rails |-> IF r \in targets
        THEN DisableAcks(rails[r]) \cup DisableRefusals(rails[r])
        ELSE {rails[r]}])
  /\ UNCHANGED <<mode, estop, winch, history>>

SetEStopLocal(engage) ==
  /\ pc = "command"
  /\ pc' = "bridge"
  /\ local_assert' = engage
  /\ UNCHANGED <<mode, asserted, rails, winch, history>>

\* Only sleep is accepted while E-Stop is active.
SetWinchMode(wanted) ==
  /\ pc = "command"
  /\ isEStopActive => wanted = "Sleep"
  /\ pc' = "bridge"
  /\ winch_mode' = wanted
  /\ bridges' = Coasting
  /\ UNCHANGED <<mode, estop, rails, locked, history>>

\* Mutant of SetWinchDcMotor: E-Stop is not looked at.
SetWinchDcMotorUngated(m, drive) ==
  /\ pc = "command"
  /\ winch_mode = "DualDc"
  /\ pc' = "bridge"
  /\ bridges' = [bridges EXCEPT ![m] = drive]
  /\ UNCHANGED <<mode, estop, rails, winch_mode, locked, history>>

SetWinchDcMotor(m, drive) ==
  /\ pc = "command"
  /\ ~isEStopActive /\ winch_mode = "DualDc"
  /\ pc' = "bridge"
  /\ bridges' = [bridges EXCEPT ![m] = drive]
  /\ UNCHANGED <<mode, estop, rails, winch_mode, locked, history>>

SetWinchStepperPhases(drives) ==
  /\ pc = "command"
  /\ ~isEStopActive /\ winch_mode = "Stepper"
  /\ pc' = "bridge"
  /\ bridges' = drives
  /\ UNCHANGED <<mode, estop, rails, winch_mode, locked, history>>

\* Accepted under E-Stop, and does nothing to a winch that is asleep.
BrakeWinch ==
  /\ pc = "command"
  /\ winch_mode # "Sleep"
  /\ pc' = "bridge"
  /\ bridges' = [m \in Motors |-> "Brake"]
  /\ UNCHANGED <<mode, estop, rails, winch_mode, locked, history>>

ClearWinchFault ==
  /\ pc = "command"
  /\ pc' = "bridge"
  /\ bridges' = Coasting
  /\ UNCHANGED <<mode, estop, rails, winch_mode, locked, history>>

\* One lock or all of them.
SetWinchLock(locks, on) ==
  /\ pc = "command"
  /\ ~isEStopActive
  /\ pc' = "bridge"
  /\ locked' = IF on THEN locked \cup locks ELSE locked \ locks
  /\ UNCHANGED <<mode, estop, rails, winch_mode, bridges, history>>

Command ==
  \/ NoCommand
  \/ \E targets \in Targets : EnableRails(targets) \/ DisableRails(targets)
  \/ \E engage \in BOOLEAN : SetEStopLocal(engage)
  \/ \E wanted \in {"Sleep", "DualDc", "Stepper"} : SetWinchMode(wanted)
  \/ \E m \in Motors, drive \in {"Coast", "Run"} : SetWinchDcMotor(m, drive)
  \/ \E drives \in [Motors -> {"Coast", "Run"}] : SetWinchStepperPhases(drives)
  \/ BrakeWinch
  \/ ClearWinchFault
  \/ \E locks \in {{l} : l \in Locks} \cup {Locks}, on \in BOOLEAN :
       SetWinchLock(locks, on)

NoBridge ==
  /\ pc = "bridge"
  /\ pc' = "check"
  /\ UNCHANGED <<mode, estop, rails, winch, history>>

\* A raw write of OPERATION, which no rail controller is told of.
BridgeOperation(r, on) ==
  /\ pc = "bridge"
  /\ pc' = "check"
  /\ rails' = [rails EXCEPT ![r].op = on]
  /\ stopped' = stopped \ {r} /\ down' = down \ {r}
  /\ UNCHANGED <<mode, estop, winch, acked>>

Bridge == NoBridge \/ \E r \in Rails, on \in BOOLEAN : BridgeOperation(r, on)

-----------------------------------------------------------------------------
(* loop(), second half: E-Stop, then protection and CBIT when they are due. *)

\* disableAllRails(): one OFF write per rail, its result dropped.
EnterEStop(refused) ==
  /\ pc = "check" /\ isEStopActive /\ mode # "EStop"
  /\ pc' = "estop"
  /\ mode' = "EStop"
  /\ rails' \in Jointly([r \in Rails |-> IF r \in refused
        THEN DisableRefusals(rails[r]) ELSE DisableAcks(rails[r])])
  /\ winch_mode' = "Sleep" /\ bridges' = Coasting /\ locked' = {}
  /\ stopped' = Rails /\ acked' = Rails \ refused
  /\ down' = {r \in acked' : ~rails'[r].op}
  /\ UNCHANGED estop

\* Mutant of HoldEStop: the early return is missing.
HoldEStopFallsThrough ==
  /\ pc = "check" /\ isEStopActive /\ mode = "EStop"
  /\ pc' = "protect"
  /\ UNCHANGED <<mode, estop, rails, winch, history>>

HoldEStop ==
  /\ pc = "check" /\ isEStopActive /\ mode = "EStop"
  /\ pc' = "estop"
  /\ UNCHANGED <<mode, estop, rails, winch, history>>

LeaveEStop ==
  /\ pc = "check" /\ ~isEStopActive /\ mode = "EStop"
  /\ pc' = "protect"
  /\ mode' = "Degraded"
  /\ UNCHANGED <<estop, rails, winch, history>>

NoEStop ==
  /\ pc = "check" /\ ~isEStopActive /\ mode # "EStop"
  /\ pc' = "protect"
  /\ UNCHANGED <<mode, estop, rails, winch, history>>

Check ==
  \/ \E refused \in SUBSET Rails : EnterEStop(refused)
  \/ HoldEStop
  \/ LeaveEStop
  \/ NoEStop

ProtectNotDue ==
  /\ pc = "protect"
  /\ pc' = "cbit"
  /\ UNCHANGED <<mode, estop, rails, winch, history>>

Protect ==
  /\ pc = "protect"
  /\ pc' = "cbit"
  /\ rails' \in Jointly([r \in Rails |-> TickOutcomes(rails[r])])
  /\ mode' = IF mode = "Fault" THEN mode ELSE Classified(isEStopActive, rails')
  /\ UNCHANGED <<estop, winch, history>>

\* Not due, or every present rail answered.
CbitPasses ==
  /\ pc = "cbit"
  /\ pc' = "estop"
  /\ UNCHANGED <<mode, estop, rails, winch, history>>

CbitFails ==
  /\ pc = "cbit"
  /\ \E r \in Rails : IsPresent(rails[r])
  /\ pc' = "estop"
  /\ mode' = "Degraded"
  /\ UNCHANGED <<estop, rails, winch, history>>

Loop ==
  \/ EStopTick
  \/ Command
  \/ Bridge
  \/ Check
  \/ ProtectNotDue
  \/ Protect
  \/ CbitPasses
  \/ CbitFails

Environment == Reset \/ \E r \in Rails : PowerLost(r)

Next == Setup \/ EnableAtBoot \/ Loop \/ Environment

Spec == Init /\ [][Next]_vars

-----------------------------------------------------------------------------
(* Properties.                                                             *)

\* Whenever loop() begins a pass, from setup() or from any way through the last
\* one, the mode says E-Stop exactly when the E-Stop of that pass was active:
\* protection and CBIT never run under it and never overwrite it.
ModeTracksEStop == pc = "estop" => (mode = "EStop" <=> isEStopActive)

\* Once the mode is E-Stop and as long as the E-Stop is active no winch bridge
\* turns a motor and no lock is energised, whatever RG commands and even when
\* the board booted into E-Stop, where disableAllRails() was never called.
WinchStillInEStop ==
  mode = "EStop" /\ isEStopActive
    => locked = {} /\ \A m \in Motors : bridges[m] # "Run"

\* No sequence of winch commands leaves a bridge driven or braked in sleep mode,
\* where no telemetry would show it.
SleepingWinchCoasts == winch_mode = "Sleep" => bridges = Coasting

\* After an E-Stop that a rail acknowledged, the firmware never turns the rail on
\* by itself: through the E-Stop, its release, every tick after it, RG's writes
\* over the bridge and power losses of the chip, the controller neither wants the
\* rail nor has a recovery of it in flight, until RG enables it or the board
\* resets.  So a chip that took the OFF stays off until RG writes its OPERATION
\* or it loses its input; one that did not, or that wakes up on, is not turned
\* off again by anything either, and the property does not say so.
AckedRailsStayOff ==
  /\ \A r \in acked : ~rails[r].desired_on /\ ~rails[r].pending
  /\ \A r \in down : ~rails[r].op

\* avionics_types.h of kEStop: "all rails commanded off".
EStopMeansRailsOff ==
  pc = "estop" /\ mode = "EStop" => \A r \in Rails : ~rails[r].op

\* README, Safety Behavior: "Rails are not automatically re-enabled after E-Stop
\* release; an explicit API command is required."
ReenableNeedsCommand ==
  [][\A r \in stopped \cap stopped' : rails'[r].op => rails[r].op]_vars
=============================================================================
