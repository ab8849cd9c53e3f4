---------------------------- MODULE HostCommands ----------------------------
(***************************************************************************)
(* RG's command frames byte by byte, and what they do to the winch down to  *)
(* its pins: processCommand() and the end of onReceive()                    *)
(* (src/src/control_api.cpp), src/src/winch.cpp.  A frame may be cut short   *)
(* on the bus; what is missing is zero.                                     *)
(*                                                                         *)
(* Everything else is Supervisor's: each step here is one of its steps.     *)
(***************************************************************************)
EXTENDS Supervisor, Integers, Sequences

CONSTANT Percents \* the bytes RG sends for a signed percentage

ASSUME HostAssumption ==
  /\ Rails \subseteq 0 .. 2 /\ Motors \subseteq 0 .. 1 /\ Locks \subseteq 0 .. 1
  /\ Percents \subseteq 0 .. 255

VARIABLES
  duty,  \* motor -> the PWM of its two inputs
  dc,    \* s_motor_a_cmd_pct, s_motor_b_cmd_pct
  phase, \* s_stepper_a_cmd_pct, s_stepper_b_cmd_pct
  asked  \* history: what is on because the bytes that arrived asked for it

pins == <<duty, dc, phase>>
hostVars == <<vars, pins, asked>>

(***************************************************************************)
(* What each command reads of its frame.  The other commands move nothing   *)
(* modelled here; kSetWinchParallelDc is refused in every mode there is.    *)
(***************************************************************************)
Arguments ==
  [SetRailEnable |-> <<0 .. 3, 0 .. 1>>,
   SetEstopLocal |-> <<0 .. 1>>,
   SetWinchMode |-> <<0 .. 3>>,
   SetWinchDcMotor |-> <<0 .. 2, Percents>>,
   SetWinchStepperPhases |-> <<Percents, Percents>>,
   BrakeWinch |-> <<>>,
   ClearWinchFault |-> <<>>,
   SetWinchLock |-> <<0 .. 2, 0 .. 1>>]

\* The arguments of a command that arrive, all of them or the first few.
Arriving(command) ==
  LET arguments == Arguments[command]
  IN CASE Len(arguments) = 0 -> {<<>>}
       [] Len(arguments) = 1 -> {<<>>} \cup {<<a>> : a \in arguments[1]}
       [] OTHER -> {<<>>} \cup {<<a>> : a \in arguments[1]}
                          \cup {<<a, b>> : a \in arguments[1], b \in arguments[2]}

\* Mutant of Received: read() of an empty buffer is -1.
ReceivedPastTheEnd(bytes) ==
  [i \in 1 .. 2 |-> IF i <= Len(bytes) THEN bytes[i] ELSE 255]

\* onReceive(): into a frame of zeros, as long as there are bytes.
Received(bytes) == [i \in 1 .. 2 |-> IF i <= Len(bytes) THEN bytes[i] ELSE 0]

-----------------------------------------------------------------------------
(* The winch's pins.                                                        *)

\* signedArg()
Signed(byte) == IF byte < 128 THEN byte ELSE byte - 256

Magnitude(n) == IF n < 0 THEN -n ELSE n

ClampPct(value) ==
  IF value > 100 THEN 100 ELSE IF value < -100 THEN -100 ELSE value

Percent(byte) == ClampPct(Signed(byte))

AbsDuty(pct) == ((Magnitude(pct) * 255) \div 100) % 256

SignedBridge(pct) ==
  CASE pct > 0 -> <<AbsDuty(pct), 0>>
    [] pct < 0 -> <<0, AbsDuty(pct)>>
    [] pct = 0 -> <<0, 0>>

Coasts == <<0, 0>>
Brakes == <<255, 255>>
Idle == [m \in Motors |-> 0]

DriveOf(pct) == IF pct = 0 THEN "Coast" ELSE "Run"

\* Mutant of ForgetCommands: the stepper's percentages are left.
ForgetDcOnly == dc' = Idle /\ UNCHANGED phase

ForgetCommands == dc' = Idle /\ phase' = Idle

\* stopOutputs()
StopOutputs == duty' = [m \in Motors |-> Coasts] /\ ForgetCommands

-----------------------------------------------------------------------------
(* History: what is on, and what the bytes that arrived asked for.          *)

On ==
  [rails |-> {r \in Rails : rails[r].desired_on},
   motors |-> {m \in Motors : bridges[m] = "Run"},
   locks |-> locked]

Nothing == [rails |-> {}, motors |-> {}, locks |-> {}]

Asks(new) ==
  asked' = [k \in DOMAIN asked |-> (asked[k] \cup new[k]) \cap On'[k]]

-----------------------------------------------------------------------------
(* Commands.  Supervisor's actions refuse what E-Stop or the winch's mode    *)
(* forbids; a frame that is refused moves nothing, like no frame at all.     *)

TargetRails(id) == IF id = 3 THEN Rails ELSE Rails \cap {id}
TargetLocks(id) == IF id = 2 THEN Locks ELSE Locks \cap {id}

\* The last byte a command reads has arrived, and says `on'.
SaysOn(bytes) == Len(bytes) = 2 /\ bytes[2] # 0

NothingToDo == NoCommand /\ UNCHANGED pins /\ Asks(Nothing)

ServeRailEnable(bytes) ==
  LET targets == TargetRails(Received(bytes)[1])
  IN /\ targets # {}
     /\ IF Received(bytes)[2] # 0 THEN EnableRails(targets) ELSE DisableRails(targets)
     /\ UNCHANGED pins
     /\ Asks([Nothing EXCEPT !.rails = IF SaysOn(bytes) THEN targets ELSE {}])

ServeEstopLocal(bytes) ==
  SetEStopLocal(Received(bytes)[1] # 0) /\ UNCHANGED pins /\ Asks(Nothing)

\* winch::Mode; kParallelDc needs the mode pins, which are not connected.
ModeOf == <<"Sleep", "DualDc", "Stepper">>

ServeWinchMode(bytes) ==
  LET code == Received(bytes)[1]
  IN code < 3 /\ SetWinchMode(ModeOf[code + 1]) /\ StopOutputs /\ Asks(Nothing)

ServeWinchDcMotor(bytes) ==
  LET m == Received(bytes)[1]
      pct == Percent(Received(bytes)[2])
  IN /\ m \in Motors
     /\ SetWinchDcMotor(m, DriveOf(pct))
     /\ duty' = [duty EXCEPT ![m] = SignedBridge(pct)]
     /\ dc' = [dc EXCEPT ![m] = pct]
     /\ UNCHANGED phase
     /\ Asks([Nothing EXCEPT !.motors = IF SaysOn(bytes) THEN {m} ELSE {}])

ServeWinchStepperPhases(bytes) ==
  LET pct == [m \in Motors |-> Percent(Received(bytes)[m + 1])]
  IN /\ SetWinchStepperPhases([m \in Motors |-> DriveOf(pct[m])])
     /\ duty' = [m \in Motors |-> SignedBridge(pct[m])]
     /\ phase' = pct
     /\ UNCHANGED dc
     /\ Asks([Nothing EXCEPT !.motors = {m \in Motors : m < Len(bytes)}])

ServeBrakeWinch ==
  /\ BrakeWinch
  /\ duty' = [m \in Motors |-> Brakes]
  /\ ForgetCommands
  /\ Asks(Nothing)

ServeClearWinchFault == ClearWinchFault /\ StopOutputs /\ Asks(Nothing)

ServeWinchLock(bytes) ==
  LET targets == TargetLocks(Received(bytes)[1])
  IN /\ targets # {}
     /\ SetWinchLock(targets, Received(bytes)[2] # 0)
     /\ UNCHANGED pins
     /\ Asks([Nothing EXCEPT !.locks = IF SaysOn(bytes) THEN targets ELSE {}])

HostCommand ==
  \/ NothingToDo
  \/ \E bytes \in Arriving("SetRailEnable") : ServeRailEnable(bytes)
  \/ \E bytes \in Arriving("SetEstopLocal") : ServeEstopLocal(bytes)
  \/ \E bytes \in Arriving("SetWinchMode") : ServeWinchMode(bytes)
  \/ \E bytes \in Arriving("SetWinchDcMotor") : ServeWinchDcMotor(bytes)
  \/ \E bytes \in Arriving("SetWinchStepperPhases") : ServeWinchStepperPhases(bytes)
  \/ ServeBrakeWinch
  \/ ServeClearWinchFault
  \/ \E bytes \in Arriving("SetWinchLock") : ServeWinchLock(bytes)

-----------------------------------------------------------------------------
(* The rest of setup() and loop(), as far as the winch is concerned.        *)

HostInit ==
  /\ Init
  /\ duty = [m \in Motors |-> Coasts] /\ dc = Idle /\ phase = Idle
  /\ asked = Nothing

HostSetup == Setup /\ StopOutputs /\ Asks(Nothing)

\* setup() asks for every rail itself.
HostEnableAtBoot ==
  EnableAtBoot /\ UNCHANGED pins /\ Asks([Nothing EXCEPT !.rails = Rails])

HostReset == Reset /\ StopOutputs /\ Asks(Nothing)

HostEnterEStop ==
  /\ \E refused \in SUBSET Rails : EnterEStop(refused)
  /\ StopOutputs
  /\ Asks(Nothing)

HostElse ==
  /\ \/ EStopTick
     \/ Bridge
     \/ HoldEStop
     \/ LeaveEStop
     \/ NoEStop
     \/ ProtectNotDue
     \/ Protect
     \/ CbitPasses
     \/ CbitFails
     \/ \E r \in Rails : PowerLost(r)
  /\ UNCHANGED pins
  /\ Asks(Nothing)

HostNext ==
  \/ HostSetup
  \/ HostEnableAtBoot
  \/ HostReset
  \/ HostCommand
  \/ HostEnterEStop
  \/ HostElse

HostSpec == HostInit /\ [][HostNext]_hostVars

-----------------------------------------------------------------------------
(* Properties.                                                             *)

\* A duty that is pct percent of full scale, rounded down, on one input only.
IsShare(pct, pair) ==
  LET driven == IF pct > 0 THEN 1 ELSE 2
  IN /\ pair[3 - driven] = 0
     /\ 100 * pair[driven] <= 255 * Magnitude(pct)
     /\ 255 * Magnitude(pct) < 100 * (pair[driven] + 1)

\* The percentage telemetry shows for a motor in the present mode.
Shown(m) ==
  CASE winch_mode = "DualDc" -> dc[m]
    [] winch_mode = "Stepper" -> phase[m]
    [] winch_mode = "Sleep" -> 0

\* Telemetry tells what the pins do, through any sequence of commands, mode
\* changes and E-Stops: the percentage of the present mode is what the bridge is
\* driven with, within -100 .. 100 whatever byte RG sent, every other percentage
\* is 0, and a bridge shown at 0 coasts, or brakes in a mode that is awake.
\* (README.md:1439, `the last commanded percentages'.)
ReportedIsDriven ==
  \A m \in Motors :
    /\ Shown(m) \in -100 .. 100
    /\ winch_mode # "DualDc" => dc[m] = 0
    /\ winch_mode # "Stepper" => phase[m] = 0
    /\ \/ IsShare(Shown(m), duty[m])
       \/ Shown(m) = 0 /\ duty[m] = Brakes /\ winch_mode # "Sleep"
    /\ bridges[m] = "Run" <=> Shown(m) # 0

\* What is on was asked for by bytes that arrived, or by setup(): a frame cut
\* short, at any byte, makes no rail wanted (desired_on_; OPERATION is also
\* written by others), energises no lock and drives no motor but a phase whose
\* own percentage arrived.  It may switch something off, the first
\* rail for one, or end RG's own E-Stop.  (onReceive(), processCommand().)
OnWasAsked ==
  \A k \in DOMAIN asked : On[k] \subseteq asked[k]
=============================================================================
