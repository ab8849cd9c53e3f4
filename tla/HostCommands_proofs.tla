------------------------ MODULE HostCommands_proofs ------------------------
(***************************************************************************)
(* Proofs about RG's command frames, for all the rails, bridges, locks and *)
(* percentages a frame can name: each frame is one step of the supervisor, *)
(* so all that is proved of the supervisor holds under them; telemetry     *)
(* tells what the winch's pins do; and nothing is on that was not asked for *)
(* by bytes that arrived.                                                  *)
(***************************************************************************)
EXTENDS HostCommands, Supervisor_proofs

-----------------------------------------------------------------------------
(* Frames.                                                                 *)

LEMMA OneArgument ==
  ASSUME NEW command \in DOMAIN Arguments, NEW A,
         Arguments[command] = <<A>>, A \subseteq Nat,
         NEW bytes \in Arriving(command)
  PROVE  /\ Len(bytes) <= 1
         /\ Received(bytes)[1] \in A \cup {0} /\ Received(bytes)[1] \in Nat
<1>1. Len(Arguments[command]) = 1 /\ Arguments[command][1] = A
  OBVIOUS
<1>2. bytes = <<>> \/ \E a \in A : bytes = <<a>>
  BY <1>1 DEF Arriving
<1>3. Received(bytes)[1] = IF 1 <= Len(bytes) THEN bytes[1] ELSE 0
  BY DEF Received
<1>4. CASE bytes = <<>>
  BY <1>3, <1>4
<1>5. CASE \E a \in A : bytes = <<a>>
  BY <1>3, <1>5
<1>6. QED
  BY <1>2, <1>4, <1>5

LEMMA TwoArguments ==
  ASSUME NEW command \in DOMAIN Arguments, NEW A, NEW B,
         Arguments[command] = <<A, B>>, A \subseteq Nat, B \subseteq Nat,
         NEW bytes \in Arriving(command)
  PROVE  /\ Len(bytes) \in 0 .. 2
         /\ Received(bytes)[1] \in A \cup {0}
         /\ Received(bytes)[2] \in B \cup {0}
         /\ Received(bytes)[2] # 0 => SaysOn(bytes)
<1>1. /\ Len(Arguments[command]) = 2
      /\ Arguments[command][1] = A /\ Arguments[command][2] = B
  OBVIOUS
<1>2. \/ bytes = <<>> \/ \E a \in A : bytes = <<a>>
      \/ \E a \in A, b \in B : bytes = <<a, b>>
  BY <1>1 DEF Arriving
<1>3. /\ Received(bytes)[1] = IF 1 <= Len(bytes) THEN bytes[1] ELSE 0
      /\ Received(bytes)[2] = IF 2 <= Len(bytes) THEN bytes[2] ELSE 0
  BY DEF Received
<1>4. CASE bytes = <<>>
  BY <1>3, <1>4
<1>5. CASE \E a \in A : bytes = <<a>>
  BY <1>3, <1>5
<1>6. CASE \E a \in A, b \in B : bytes = <<a, b>>
  BY <1>3, <1>6 DEF SaysOn
<1>7. QED
  BY <1>2, <1>4, <1>5, <1>6

\* What the frames of each command can be, as far as the proofs below need it.
LEMMA Frames ==
  /\ \A bytes \in Arriving("SetRailEnable") :
       Received(bytes)[2] # 0 => SaysOn(bytes)
  /\ \A bytes \in Arriving("SetWinchMode") : Received(bytes)[1] \in 0 .. 3
  /\ \A bytes \in Arriving("SetWinchDcMotor") :
       /\ Received(bytes)[2] \in 0 .. 255
       /\ Received(bytes)[2] # 0 => SaysOn(bytes)
  /\ \A bytes \in Arriving("SetWinchStepperPhases") :
       /\ Len(bytes) \in 0 .. 2
       /\ \A m \in Motors : Received(bytes)[m + 1] \in 0 .. 255
       /\ \A m \in Motors : Received(bytes)[m + 1] # 0 => m < Len(bytes)
  /\ \A bytes \in Arriving("SetWinchLock") :
       Received(bytes)[2] # 0 => SaysOn(bytes)
<1> USE HostAssumption
<1>0. DOMAIN Arguments =
        {"SetRailEnable", "SetEstopLocal", "SetWinchMode", "SetWinchDcMotor",
         "SetWinchStepperPhases", "BrakeWinch", "ClearWinchFault",
         "SetWinchLock"}
  BY DEF Arguments
<1>1. Percents \subseteq Nat /\ Percents \subseteq 0 .. 255
  OBVIOUS
<1>2. ASSUME NEW bytes \in Arriving("SetRailEnable")
      PROVE  Received(bytes)[2] # 0 => SaysOn(bytes)
  <2>1. Arguments["SetRailEnable"] = <<0 .. 3, 0 .. 1>>
    BY DEF Arguments
  <2>2. QED
    BY <1>0, <2>1, TwoArguments
<1>3. ASSUME NEW bytes \in Arriving("SetWinchMode")
      PROVE  Received(bytes)[1] \in 0 .. 3
  <2>1. Arguments["SetWinchMode"] = <<0 .. 3>>
    BY DEF Arguments
  <2>2. Received(bytes)[1] \in (0 .. 3) \cup {0}
    BY <1>0, <2>1, OneArgument
  <2>3. QED
    BY <2>2
<1>4. ASSUME NEW bytes \in Arriving("SetWinchDcMotor")
      PROVE  /\ Received(bytes)[2] \in 0 .. 255
             /\ Received(bytes)[2] # 0 => SaysOn(bytes)
  <2>1. Arguments["SetWinchDcMotor"] = <<0 .. 2, Percents>>
    BY DEF Arguments
  <2>2. "SetWinchDcMotor" \in DOMAIN Arguments /\ 0 .. 2 \subseteq Nat
    BY <1>0
  <2>3. Received(bytes)[2] \in Percents \cup {0}
    BY <1>1, <2>1, <2>2, TwoArguments
  <2>4. Received(bytes)[2] # 0 => SaysOn(bytes)
    BY <1>1, <2>1, <2>2, TwoArguments
  <2>5. Percents \cup {0} \subseteq 0 .. 255
    BY <1>1
  <2>6. QED
    BY <2>3, <2>4, <2>5
<1>5. ASSUME NEW bytes \in Arriving("SetWinchStepperPhases")
      PROVE  /\ Len(bytes) \in 0 .. 2
             /\ \A m \in Motors : Received(bytes)[m + 1] \in 0 .. 255
             /\ \A m \in Motors : Received(bytes)[m + 1] # 0 => m < Len(bytes)
  <2>1. Arguments["SetWinchStepperPhases"] = <<Percents, Percents>>
    BY DEF Arguments
  <2>0. "SetWinchStepperPhases" \in DOMAIN Arguments
    BY <1>0
  <2>2. /\ Len(bytes) \in 0 .. 2
        /\ Received(bytes)[1] \in Percents \cup {0}
        /\ Received(bytes)[2] \in Percents \cup {0}
    BY <1>1, <2>0, <2>1, TwoArguments
  <2>3. \A i \in 1 .. 2 : Received(bytes)[i] # 0 => i <= Len(bytes)
    BY DEF Received
  <2>4. ASSUME NEW m \in Motors
        PROVE  /\ Received(bytes)[m + 1] \in 0 .. 255
               /\ Received(bytes)[m + 1] # 0 => m < Len(bytes)
    <3>1. m = 0 \/ m = 1
      OBVIOUS
    <3>2. m + 1 \in 1 .. 2 /\ (m + 1 = 1 \/ m + 1 = 2)
      BY <3>1
    <3>3. Received(bytes)[m + 1] \in 0 .. 255
      <4>1. Percents \cup {0} \subseteq 0 .. 255
        BY <1>1
      <4>2. CASE m + 1 = 1
        BY <2>2, <4>1, <4>2
      <4>3. CASE m + 1 = 2
        BY <2>2, <4>1, <4>3
      <4>4. QED
        BY <3>2, <4>2, <4>3
    <3>4. Received(bytes)[m + 1] # 0 => m + 1 <= Len(bytes)
      BY <2>3, <3>2
    <3>5. QED
      BY <2>2, <3>1, <3>3, <3>4
  <2>5. QED
    BY <2>2, <2>4
<1>6. ASSUME NEW bytes \in Arriving("SetWinchLock")
      PROVE  Received(bytes)[2] # 0 => SaysOn(bytes)
  <2>1. Arguments["SetWinchLock"] = <<0 .. 2, 0 .. 1>>
    BY DEF Arguments
  <2>2. QED
    BY <1>0, <2>1, TwoArguments
<1>7. QED
  BY <1>2, <1>3, <1>4, <1>5, <1>6

-----------------------------------------------------------------------------
(* Every frame is a step of the supervisor.                                *)

LEMMA CommandIsCommand == HostCommand => Command
<1> SUFFICES ASSUME HostCommand PROVE Command
  OBVIOUS
<1>1. ASSUME NEW bytes, ServeRailEnable(bytes) PROVE Command
  <2>1. TargetRails(Received(bytes)[1]) \in Targets
    BY <1>1 DEF ServeRailEnable, TargetRails, Targets
  <2>2. \E targets \in Targets : EnableRails(targets) \/ DisableRails(targets)
    BY <1>1, <2>1 DEF ServeRailEnable
  <2>3. QED
    BY <2>2 DEF Command
<1>2. ASSUME NEW bytes, ServeEstopLocal(bytes) PROVE Command
  BY <1>2 DEF ServeEstopLocal, Command
<1>3. ASSUME NEW bytes \in Arriving("SetWinchMode"), ServeWinchMode(bytes)
      PROVE  Command
  <2>1. Received(bytes)[1] \in 0 .. 2
    BY <1>3, Frames DEF ServeWinchMode
  <2>2. ModeOf[Received(bytes)[1] + 1] \in {"Sleep", "DualDc", "Stepper"}
    BY <2>1 DEF ModeOf
  <2>3. QED
    BY <1>3, <2>2 DEF ServeWinchMode, Command
<1>4. ASSUME NEW bytes, ServeWinchDcMotor(bytes) PROVE Command
  <2>1. DriveOf(Percent(Received(bytes)[2])) \in {"Coast", "Run"}
    BY DEF DriveOf
  <2>2. \E m \in Motors, drive \in {"Coast", "Run"} : SetWinchDcMotor(m, drive)
    BY <1>4, <2>1 DEF ServeWinchDcMotor
  <2>3. QED
    BY <2>2 DEF Command
<1>5. ASSUME NEW bytes, ServeWinchStepperPhases(bytes) PROVE Command
  <2> DEFINE pct == [m \in Motors |-> Percent(Received(bytes)[m + 1])]
             drives == [m \in Motors |-> DriveOf(pct[m])]
  <2>1. drives \in [Motors -> {"Coast", "Run"}]
    BY DEF DriveOf
  <2>2. SetWinchStepperPhases(drives)
    BY <1>5 DEF ServeWinchStepperPhases
  <2>3. QED
    BY <2>1, <2>2 DEF Command
<1>6. ASSUME NEW bytes, ServeWinchLock(bytes) PROVE Command
  <2>1. TargetLocks(Received(bytes)[1]) \in {{l} : l \in Locks} \cup {Locks}
    BY <1>6 DEF ServeWinchLock, TargetLocks
  <2>2. (Received(bytes)[2] # 0) \in BOOLEAN
    OBVIOUS
  <2>3. \E locks \in {{l} : l \in Locks} \cup {Locks}, on \in BOOLEAN :
          SetWinchLock(locks, on)
    BY <1>6, <2>1, <2>2 DEF ServeWinchLock
  <2>4. QED
    BY <2>3 DEF Command
<1>7. CASE NothingToDo \/ ServeBrakeWinch \/ ServeClearWinchFault
  BY <1>7 DEF NothingToDo, ServeBrakeWinch, ServeClearWinchFault, Command
<1>8. QED
  BY <1>1, <1>2, <1>3, <1>4, <1>5, <1>6, <1>7 DEF HostCommand

LEMMA HostStepIsStep == [HostNext]_hostVars => [Next]_vars
<1> SUFFICES ASSUME [HostNext]_hostVars PROVE [Next]_vars
  OBVIOUS
<1>1. CASE HostSetup \/ HostEnableAtBoot \/ HostReset
  BY <1>1 DEF HostSetup, HostEnableAtBoot, HostReset, Environment, Next
<1>2. CASE HostCommand
  BY <1>2, CommandIsCommand DEF Next, Loop
<1>3. CASE HostEnterEStop
  BY <1>3 DEF HostEnterEStop, Check, Next, Loop
<1>4. CASE HostElse
  BY <1>4 DEF HostElse, Check, Next, Loop, Environment
<1>5. CASE UNCHANGED hostVars
  BY <1>5 DEF hostVars
<1>6. QED
  BY <1>1, <1>2, <1>3, <1>4, <1>5 DEF HostNext

\* The supervisor with its commands taken from frames, whole or cut short, is
\* the supervisor with any command: what is proved of Supervisor holds of it.
THEOREM HostImplementsSupervisor == HostSpec => Spec
<1>1. HostInit => Init
  BY DEF HostInit
<1>2. QED
  BY <1>1, HostStepIsStep, PTL DEF HostSpec, Spec

\* Whatever frames RG sends, cut short or not, every rail is used as its contract says.
THEOREM HostKeepsContract ==
  ASSUME NEW r \in Rails
  PROVE  HostSpec => Contract(r)!Spec
BY HostImplementsSupervisor, EveryRailKeepsContract, PTL

\* In particular its safety: the mode tracks the E-Stop, the winch is still in
\* it, and a rail that acknowledged the OFF is not turned on again by the
\* firmware.
THEOREM HostKeepsSafety ==
  HostSpec => [](TypeOK /\ ModeTracksEStop /\ WinchStillInEStop
                   /\ AckedRailsStayOff)
BY HostImplementsSupervisor, TypeCorrect, ModeIsRight, WinchStaysStill,
   AckedStayOff, PTL

-----------------------------------------------------------------------------
(* The winch's pins.                                                       *)

Pairs == (0 .. 255) \X (0 .. 255)

PinsTyped ==
  /\ duty \in [Motors -> Pairs]
  /\ dc \in [Motors -> -100 .. 100] /\ phase \in [Motors -> -100 .. 100]

LEMMA PercentRange ==
  ASSUME NEW byte \in 0 .. 255
  PROVE  Percent(byte) \in -100 .. 100 /\ (byte = 0 => Percent(byte) = 0)
BY DEF Percent, ClampPct, Signed

\* A full-scale share of at most 100 percent fits in the PWM's byte.
LEMMA DutyFits ==
  ASSUME NEW pct \in -100 .. 100
  PROVE  /\ AbsDuty(pct) \in 0 .. 255
         /\ 100 * AbsDuty(pct) <= 255 * Magnitude(pct)
         /\ 255 * Magnitude(pct) < 100 * (AbsDuty(pct) + 1)
<1> DEFINE n == Magnitude(pct)
           d == (n * 255) \div 100
<1>1. n \in 0 .. 100
  BY DEF Magnitude
<1> HIDE DEF n
<1>2. d \in 0 .. 255 /\ 100 * d <= 255 * n /\ 255 * n < 100 * (d + 1)
  BY <1>1
<1>3. d % 256 = d
  <2> HIDE DEF d
  <2>1. QED
    BY <1>2
<1>4. AbsDuty(pct) = d % 256
  BY DEF AbsDuty, n
<1> HIDE DEF d
<1>5. QED
  BY <1>2, <1>3, <1>4 DEF n

LEMMA BridgeShare ==
  ASSUME NEW pct \in -100 .. 100
  PROVE  SignedBridge(pct) \in Pairs /\ IsShare(pct, SignedBridge(pct))
<1>1. CASE pct > 0
  <2>1. SignedBridge(pct) = <<AbsDuty(pct), 0>>
    BY <1>1 DEF SignedBridge
  <2>2. AbsDuty(pct) \in 0 .. 255
    BY DutyFits
  <2>3. SignedBridge(pct) \in Pairs
    BY <2>1, <2>2 DEF Pairs
  <2>4. IsShare(pct, SignedBridge(pct)) <=>
          /\ SignedBridge(pct)[2] = 0
          /\ 100 * SignedBridge(pct)[1] <= 255 * Magnitude(pct)
          /\ 255 * Magnitude(pct) < 100 * (SignedBridge(pct)[1] + 1)
    BY <1>1 DEF IsShare
  <2>5. SignedBridge(pct)[1] = AbsDuty(pct) /\ SignedBridge(pct)[2] = 0
    BY <2>1
  <2>6. QED
    BY <2>3, <2>4, <2>5, DutyFits
<1>2. CASE pct < 0
  <2>1. SignedBridge(pct) = <<0, AbsDuty(pct)>>
    BY <1>2 DEF SignedBridge
  <2>2. QED
    BY <1>2, <2>1, DutyFits DEF IsShare, Pairs
<1>3. CASE pct = 0
  <2>1. SignedBridge(pct) = <<0, 0>>
    BY <1>3 DEF SignedBridge
  <2>2. Magnitude(pct) = 0
    BY <1>3 DEF Magnitude
  <2>3. QED
    BY <1>3, <2>1, <2>2 DEF IsShare, Pairs
<1>4. QED
  BY <1>1, <1>2, <1>3

LEMMA CoastsShare == Coasts \in Pairs /\ Brakes \in Pairs /\ IsShare(0, Coasts)
BY DEF Coasts, Brakes, Pairs, IsShare, Magnitude

\* A motor's pins and percentages agree in a mode.
Agree(m) ==
  /\ Shown(m) \in -100 .. 100
  /\ winch_mode # "DualDc" => dc[m] = 0
  /\ winch_mode # "Stepper" => phase[m] = 0
  /\ \/ IsShare(Shown(m), duty[m])
     \/ Shown(m) = 0 /\ duty[m] = Brakes /\ winch_mode # "Sleep"
  /\ bridges[m] = "Run" <=> Shown(m) # 0

HostInv == OthersTyped /\ PinsTyped /\ ReportedIsDriven

LEMMA AgreeEverywhere == ReportedIsDriven <=> \A m \in Motors : Agree(m)
BY DEF ReportedIsDriven, Agree

\* Any mode entered with the outputs stopped.
LEMMA StoppedAgrees ==
  ASSUME OthersTyped', StopOutputs, bridges' = Coasting
  PROVE  PinsTyped' /\ ReportedIsDriven'
<1>1. dc' = [m \in Motors |-> 0] /\ phase' = [m \in Motors |-> 0]
  BY DEF StopOutputs, ForgetCommands, Idle
<1>2. duty' = [m \in Motors |-> Coasts]
  BY DEF StopOutputs
<1>3. PinsTyped'
  BY <1>1, <1>2, CoastsShare DEF PinsTyped
<1>4. ASSUME NEW m \in Motors PROVE Agree(m)'
  <2>1. Shown(m)' = 0 /\ dc'[m] = 0 /\ phase'[m] = 0
    BY <1>1 DEF Shown, OthersTyped
  <2>2. duty'[m] = Coasts /\ bridges'[m] = "Coast"
    BY <1>2 DEF Coasting
  <2>3. IsShare(Shown(m)', duty'[m])
    BY <2>1, <2>2, CoastsShare
  <2>4. Shown(m)' \in -100 .. 100
    BY <2>1
  <2>5. QED
    BY <2>1, <2>2, <2>3, <2>4 DEF Agree
<1>5. QED
  BY <1>3, <1>4, AgreeEverywhere DEF Agree, ReportedIsDriven

LEMMA UntouchedAgrees ==
  ASSUME HostInv, UNCHANGED winch, UNCHANGED pins
  PROVE  PinsTyped' /\ ReportedIsDriven'
<1>1. /\ winch_mode' = winch_mode /\ bridges' = bridges
      /\ duty' = duty /\ dc' = dc /\ phase' = phase
  BY DEF winch, pins
<1>2. PinsTyped'
  BY <1>1 DEF HostInv, PinsTyped
<1>3. ASSUME NEW m \in Motors PROVE Agree(m)'
  <2>1. Agree(m)
    BY AgreeEverywhere DEF HostInv
  <2>2. Shown(m)' = Shown(m)
    BY <1>1 DEF Shown
  <2>3. (\/ IsShare(Shown(m), duty[m])
         \/ Shown(m) = 0 /\ duty[m] = Brakes /\ winch_mode # "Sleep")'
    BY <1>1, <2>1, <2>2 DEF Agree, Brakes, IsShare, Magnitude
  <2>4. QED
    BY <1>1, <2>1, <2>2, <2>3 DEF Agree
<1>4. QED
  BY <1>2, <1>3 DEF Agree, ReportedIsDriven

LEMMA DcMotorAgrees ==
  ASSUME HostInv, NEW bytes \in Arriving("SetWinchDcMotor"),
         ServeWinchDcMotor(bytes)
  PROVE  PinsTyped' /\ ReportedIsDriven'
<1> DEFINE n == Received(bytes)[1]
           pct == Percent(Received(bytes)[2])
<1>1. pct \in -100 .. 100
  BY Frames, PercentRange
<1>2. /\ n \in Motors /\ winch_mode = "DualDc" /\ winch_mode' = "DualDc"
      /\ bridges' = [bridges EXCEPT ![n] = DriveOf(pct)]
      /\ duty' = [duty EXCEPT ![n] = SignedBridge(pct)]
      /\ dc' = [dc EXCEPT ![n] = pct]
      /\ phase' = phase
  BY DEF ServeWinchDcMotor, SetWinchDcMotor
<1> HIDE DEF n, pct
<1>3. PinsTyped'
  BY <1>1, <1>2, BridgeShare DEF PinsTyped, HostInv
<1>4. ASSUME NEW m \in Motors PROVE Agree(m)'
  <2>1. Agree(m) /\ phase'[m] = 0
    BY <1>2, AgreeEverywhere DEF HostInv, Agree
  <2>2. Shown(m)' = dc'[m] /\ Shown(m) = dc[m]
    BY <1>2 DEF Shown
  <2>3. CASE m = n
    <3>1. dc'[m] = pct /\ duty'[m] = SignedBridge(pct)
      BY <1>2, <2>3 DEF HostInv, PinsTyped
    <3>2. bridges'[m] = "Run" <=> pct # 0
      BY <1>2, <2>3 DEF HostInv, OthersTyped, DriveOf
    <3>3. IsShare(Shown(m)', duty'[m])
      BY <1>1, <2>2, <3>1, BridgeShare
    <3>4. QED
      BY <1>1, <1>2, <2>1, <2>2, <3>1, <3>2, <3>3 DEF Agree
  <2>4. CASE m # n
    <3>1. dc'[m] = dc[m] /\ duty'[m] = duty[m] /\ bridges'[m] = bridges[m]
      BY <1>2, <2>4 DEF HostInv, PinsTyped, OthersTyped
    <3>2. \/ IsShare(Shown(m)', duty'[m])
          \/ Shown(m)' = 0 /\ duty'[m] = Brakes
      BY <2>1, <2>2, <3>1 DEF Agree
    <3>3. QED
      BY <1>2, <2>1, <2>2, <3>1, <3>2 DEF Agree, Brakes
  <2>5. QED
    BY <2>3, <2>4
<1>5. QED
  BY <1>3, <1>4 DEF Agree, ReportedIsDriven

LEMMA PhasesAgree ==
  ASSUME HostInv, NEW bytes \in Arriving("SetWinchStepperPhases"),
         ServeWinchStepperPhases(bytes)
  PROVE  PinsTyped' /\ ReportedIsDriven'
<1> DEFINE pct == [m \in Motors |-> Percent(Received(bytes)[m + 1])]
<1>1. pct \in [Motors -> -100 .. 100]
  <2>1. \A m \in Motors : Received(bytes)[m + 1] \in 0 .. 255
    BY Frames
  <2>2. \A m \in Motors : Percent(Received(bytes)[m + 1]) \in -100 .. 100
    BY <2>1, PercentRange
  <2>3. QED
    BY <2>2
<1>2. /\ winch_mode = "Stepper" /\ winch_mode' = "Stepper"
      /\ bridges' = [m \in Motors |-> DriveOf(pct[m])]
      /\ duty' = [m \in Motors |-> SignedBridge(pct[m])]
      /\ phase' = pct
      /\ dc' = dc
  BY DEF ServeWinchStepperPhases, SetWinchStepperPhases
<1> HIDE DEF pct
<1>3. \A m \in Motors : SignedBridge(pct[m]) \in Pairs
  BY <1>1, BridgeShare
<1>4. PinsTyped'
  BY <1>1, <1>2, <1>3 DEF PinsTyped, HostInv
<1>5. ASSUME NEW m \in Motors PROVE Agree(m)'
  <2>1. Shown(m)' = pct[m] /\ pct[m] \in -100 .. 100
    BY <1>1, <1>2 DEF Shown
  <2>2. dc'[m] = 0
    BY <1>2, AgreeEverywhere DEF HostInv, Agree
  <2>3. bridges'[m] = "Run" <=> pct[m] # 0
    BY <1>2 DEF DriveOf
  <2>4. IsShare(Shown(m)', duty'[m])
    BY <1>2, <2>1, BridgeShare
  <2>5. QED
    BY <1>2, <2>1, <2>2, <2>3, <2>4 DEF Agree
<1>6. QED
  BY <1>4, <1>5 DEF Agree, ReportedIsDriven

LEMMA BrakeAgrees ==
  ASSUME HostInv, ServeBrakeWinch
  PROVE  PinsTyped' /\ ReportedIsDriven'
<1>1. /\ winch_mode' = winch_mode /\ winch_mode # "Sleep"
      /\ bridges' = [m \in Motors |-> "Brake"]
      /\ duty' = [m \in Motors |-> Brakes]
      /\ dc' = [m \in Motors |-> 0] /\ phase' = [m \in Motors |-> 0]
  BY DEF ServeBrakeWinch, BrakeWinch, ForgetCommands, Idle
<1>2. PinsTyped'
  BY <1>1, CoastsShare DEF PinsTyped
<1>3. ASSUME NEW m \in Motors PROVE Agree(m)'
  <2>1. Shown(m)' = 0
    BY <1>1 DEF Shown, HostInv, OthersTyped
  <2>2. duty'[m] = Brakes' /\ bridges'[m] = "Brake"
    BY <1>1 DEF Brakes
  <2>3. QED
    BY <1>1, <2>1, <2>2 DEF Agree
<1>4. QED
  BY <1>2, <1>3 DEF Agree, ReportedIsDriven

\* No step but the winch's commands moves its pins without stopping them.
LEMMA AgreementPreserved ==
  ASSUME SupervisorInv, PinsTyped, ReportedIsDriven, [HostNext]_hostVars
  PROVE  PinsTyped' /\ ReportedIsDriven'
<1>1. HostInv
  BY DEF HostInv, SupervisorInv
<1>2. OthersTyped'
  BY HostStepIsStep, OthersPreserved DEF SupervisorInv
<1>3. ASSUME StopOutputs, bridges' = Coasting
      PROVE  PinsTyped' /\ ReportedIsDriven'
  BY <1>2, <1>3, StoppedAgrees
<1>4. ASSUME UNCHANGED winch, UNCHANGED pins
      PROVE  PinsTyped' /\ ReportedIsDriven'
  BY <1>1, <1>4, UntouchedAgrees
<1>5. ASSUME NEW locks, NEW on, SetWinchLock(locks, on), UNCHANGED pins
      PROVE  PinsTyped' /\ ReportedIsDriven'
  <2>1. winch_mode' = winch_mode /\ bridges' = bridges
    BY <1>5 DEF SetWinchLock
  <2>2. duty' = duty /\ dc' = dc /\ phase' = phase
    BY <1>5 DEF pins
  <2>3. PinsTyped'
    BY <1>1, <2>2 DEF HostInv, PinsTyped
  <2>4. ReportedIsDriven'
    <3>1. ASSUME NEW m \in Motors PROVE Agree(m)'
      <4>1. Agree(m)
        BY <1>1, AgreeEverywhere DEF HostInv
      <4>2. Shown(m)' = Shown(m)
        BY <2>1, <2>2 DEF Shown
      <4>3. (\/ IsShare(Shown(m), duty[m])
             \/ Shown(m) = 0 /\ duty[m] = Brakes /\ winch_mode # "Sleep")'
        BY <2>1, <2>2, <4>1, <4>2 DEF Agree, Brakes, IsShare, Magnitude
      <4>4. QED
        BY <2>1, <2>2, <4>1, <4>2, <4>3 DEF Agree
    <3>2. QED
      BY <3>1 DEF Agree, ReportedIsDriven
  <2>5. QED
    BY <2>3, <2>4
<1>6. CASE HostSetup \/ HostReset \/ HostEnterEStop \/ ServeClearWinchFault
  BY <1>3, <1>6 DEF HostSetup, HostReset, HostEnterEStop, ServeClearWinchFault,
                    Setup, Reset, EnterEStop, ClearWinchFault
<1>7. CASE \E bytes \in Arriving("SetWinchMode") : ServeWinchMode(bytes)
  BY <1>3, <1>7 DEF ServeWinchMode, SetWinchMode
<1>8. CASE \E bytes \in Arriving("SetRailEnable") : ServeRailEnable(bytes)
  BY <1>4, <1>8 DEF ServeRailEnable, EnableRails, DisableRails
<1>9. CASE \E bytes \in Arriving("SetEstopLocal") : ServeEstopLocal(bytes)
  BY <1>4, <1>9 DEF ServeEstopLocal, SetEStopLocal
<1>10. CASE NothingToDo \/ HostEnableAtBoot \/ HostElse \/ UNCHANGED hostVars
  <2>1. UNCHANGED winch /\ UNCHANGED pins
    BY <1>10 DEF HostEnableAtBoot, EnableAtBoot, NothingToDo, NoCommand, HostElse, EStopTick, Bridge, NoBridge,
                 BridgeOperation, HoldEStop, LeaveEStop, NoEStop, ProtectNotDue,
                 Protect, CbitPasses, CbitFails, PowerLost, hostVars, vars
  <2>2. QED
    BY <1>4, <2>1
<1>11. CASE \E bytes \in Arriving("SetWinchLock") : ServeWinchLock(bytes)
  BY <1>5, <1>11 DEF ServeWinchLock
<1>12. QED
  BY <1>1, <1>6, <1>7, <1>8, <1>9, <1>10, <1>11, DcMotorAgrees, PhasesAgree,
     BrakeAgrees DEF HostNext, HostCommand

LEMMA SupervisorKept == SupervisorInv /\ [HostNext]_hostVars => SupervisorInv'
BY HostStepIsStep, FlagsPreserved, RailsPreserved, OthersPreserved,
   StagedPreserved, StillPreserved, SleepPreserved, AckedPreserved
   DEF SupervisorInv

LEMMA InitReports ==
  HostInit => SupervisorInv /\ PinsTyped /\ ReportedIsDriven
<1> SUFFICES ASSUME HostInit PROVE SupervisorInv /\ PinsTyped /\ ReportedIsDriven
  OBVIOUS
<1>1. SupervisorInv
  BY InitEstablishes DEF HostInit
<1>2. PinsTyped
  BY CoastsShare DEF HostInit, PinsTyped, Idle
<1>3. ASSUME NEW m \in Motors PROVE Agree(m)
  BY CoastsShare DEF HostInit, Init, Agree, Shown, Idle, Coasting
<1>4. QED
  BY <1>1, <1>2, <1>3, AgreeEverywhere

\* Telemetry's percentages are what the pins do, for every byte RG can send and
\* through any sequence of commands, E-Stops and resets.
THEOREM ReportedTruth == HostSpec => []ReportedIsDriven
<1> DEFINE Inv == SupervisorInv /\ PinsTyped /\ ReportedIsDriven
<1>1. HostInit => Inv
  BY InitReports
<1>2. Inv /\ [HostNext]_hostVars => Inv'
  BY SupervisorKept, AgreementPreserved
<1>3. Inv => ReportedIsDriven
  OBVIOUS
<1>4. QED
  BY <1>1, <1>2, <1>3, PTL DEF HostSpec

-----------------------------------------------------------------------------
(* What is on was asked for.                                               *)

Kinds == {"rails", "motors", "locks"}

LEMMA OnKinds == DOMAIN On = Kinds /\ DOMAIN Nothing = Kinds
BY DEF On, Nothing, Kinds

\* A step that turns on no more than what is newly asked for.
LEMMA AsksKeeps ==
  ASSUME DOMAIN asked = Kinds, OnWasAsked, NEW new, Asks(new),
         \A k \in Kinds : On'[k] \subseteq On[k] \cup new[k]
  PROVE  DOMAIN asked' = Kinds /\ OnWasAsked'
<1>1. /\ DOMAIN asked' = Kinds
      /\ \A k \in Kinds : asked'[k] = (asked[k] \cup new[k]) \cap On'[k]
  BY DEF Asks
<1>2. \A k \in Kinds : On[k] \subseteq asked[k]
  BY DEF OnWasAsked
<1>3. \A k \in Kinds : On'[k] \subseteq asked'[k]
  BY <1>1, <1>2
<1>4. QED
  BY <1>1, <1>3 DEF OnWasAsked

\* The same, kind by kind.
LEMMA KindByKind ==
  ASSUME DOMAIN asked = Kinds, OnWasAsked, NEW R, NEW M, NEW L,
         Asks([rails |-> R, motors |-> M, locks |-> L]),
         \A r \in Rails \ R : rails'[r].desired_on => rails[r].desired_on,
         \A m \in Motors \ M : bridges'[m] = "Run" => bridges[m] = "Run",
         locked' \subseteq locked \cup L
  PROVE  DOMAIN asked' = Kinds /\ OnWasAsked'
<1> DEFINE new == [rails |-> R, motors |-> M, locks |-> L]
<1>1. On'.rails \subseteq On.rails \cup new.rails
  BY DEF On
<1>2. On'.motors \subseteq On.motors \cup new.motors
  BY DEF On
<1>3. On'.locks \subseteq On.locks \cup new.locks
  BY DEF On
<1>4. \A k \in Kinds : On'[k] \subseteq On[k] \cup new[k]
  BY <1>1, <1>2, <1>3 DEF Kinds
<1> HIDE DEF new
<1>5. Asks(new)
  BY DEF new
<1>6. QED
  BY <1>4, <1>5, AsksKeeps

\* Only enable() makes a rail wanted.
LEMMA OnlyEnableWants ==
  ASSUME NEW r \in LiveRecord
  PROVE  /\ ~Rebooted(r).desired_on
         /\ \A w \in DisableAcks(r) \cup DisableRefusals(r) : ~w.desired_on
         /\ PoweredUp(r).desired_on = r.desired_on
         /\ \A w \in TickOutcomes(r) \cup InitOutcomes(r) : w.desired_on = r.desired_on
<1>1. /\ ~Rebooted(r).desired_on
      /\ \A w \in DisableAcks(r) : ~w.desired_on
      /\ PoweredUp(r).desired_on = r.desired_on
  <2>1. \A u : ~Disabled(u).desired_on
    BY DEF Disabled
  <2>2. PoweredUp(r).desired_on = r.desired_on
    BY OpUpdate DEF PoweredUp
  <2>3. ~Rebooted(r).desired_on
    BY DEF Rebooted
  <2>4. QED
    BY <2>1, <2>2, <2>3 DEF DisableAcks
<1>2. ASSUME NEW s \in LiveRecord, NEW b \in BOOLEAN, NEW u \in Written(s, b)
      PROVE  u \in LiveRecord /\ u.desired_on = s.desired_on
  <2>1. u = s \/ u = [s EXCEPT !.op = b]
    BY DEF Written
  <2>2. CASE u = s
    BY <2>2
  <2>3. CASE u = [s EXCEPT !.op = b]
    <3>1. [s EXCEPT !.op = b] \in LiveRecord
      BY OpUpdate
    <3>2. [s EXCEPT !.op = b].desired_on = s.desired_on
      BY OpUpdate
    <3>3. QED
      BY <2>3, <3>1, <3>2
  <2>4. QED
    BY <2>1, <2>2, <2>3
<1>3. ASSUME NEW w \in DisableRefusals(r) PROVE ~w.desired_on
  <2>1. PICK u \in Written(r, FALSE) : w = [u EXCEPT !.desired_on = FALSE]
    BY DEF DisableRefusals
  <2>2. QED
    BY <1>2, <2>1, DesiredUpdate
<1>4. ASSUME NEW s \in LiveRecord, NEW b \in BOOLEAN
      PROVE  [s EXCEPT !.pending = b].desired_on = s.desired_on
  BY DEF LiveRecord
<1>5. ASSUME NEW w \in RecoveryOutcomes(Followed(r))
      PROVE  w.desired_on = r.desired_on
  <2>1. Followed(r) \in LiveRecord /\ Followed(r).desired_on = r.desired_on
    BY FollowedTyped
  <2>2. PICK b \in BOOLEAN :
          \E u \in Written(Followed(r), b) : w = [u EXCEPT !.pending = ~b]
    <3>1. CASE Followed(r).pending
      <4>1. \E u \in Written(Followed(r), TRUE) : w = [u EXCEPT !.pending = FALSE]
        BY <3>1 DEF RecoveryOutcomes
      <4>2. QED
        BY <4>1
    <3>2. CASE ~Followed(r).pending
      <4>1. \E u \in Written(Followed(r), FALSE) : w = [u EXCEPT !.pending = TRUE]
        BY <3>2 DEF RecoveryOutcomes
      <4>2. QED
        BY <4>1
    <3>3. QED
      BY <3>1, <3>2
  <2>3. PICK u \in Written(Followed(r), b) : w = [u EXCEPT !.pending = ~b]
    BY <2>2
  <2>4. u \in LiveRecord /\ u.desired_on = r.desired_on
    BY <1>2, <2>1
  <2>5. QED
    BY <1>4, <2>3, <2>4
<1>6. ASSUME NEW w \in TickOutcomes(r) PROVE w.desired_on = r.desired_on
  <2>1. [r EXCEPT !.state = "Absent"].desired_on = r.desired_on
    BY StateUpdate DEF RailState
  <2>2. QED
    BY <1>5, <2>1, FollowedTyped DEF TickOutcomes
<1>7. ASSUME NEW w \in InitOutcomes(r) PROVE w.desired_on = r.desired_on
  <2>1. PICK s \in {"Absent", "Tripped", "Ready"} : w = [r EXCEPT !.state = s]
    BY DEF InitOutcomes
  <2>2. s \in RailState \ {"Latched"}
    BY DEF RailState
  <2>3. QED
    BY <2>1, <2>2, StateUpdate
<1>8. QED
  BY <1>1, <1>3, <1>6, <1>7

LEMMA AsksOneKind ==
  \A S : /\ [Nothing EXCEPT !.motors = S]
               = [rails |-> {}, motors |-> S, locks |-> {}]
        /\ [Nothing EXCEPT !.locks = S]
               = [rails |-> {}, motors |-> {}, locks |-> S]
BY DEF Nothing

\* The arguments that did not arrive ask for nothing and turn nothing on.
LEMMA CommandsAskFirst ==
  ASSUME SupervisorInv, PinsTyped, ReportedIsDriven, DOMAIN asked = Kinds,
         OnWasAsked, HostCommand
  PROVE  DOMAIN asked' = Kinds /\ OnWasAsked'
<1> USE DEF Nothing, winch
<1>0. \A r \in Rails : rails[r] \in LiveRecord
  BY DEF SupervisorInv, RailsLive
<1>1. ASSUME NEW bytes \in Arriving("SetRailEnable"), ServeRailEnable(bytes)
      PROVE  DOMAIN asked' = Kinds /\ OnWasAsked'
  <2> DEFINE targets == TargetRails(Received(bytes)[1])
             R == IF SaysOn(bytes) THEN targets ELSE {}
  <2>1. Asks([rails |-> R, motors |-> {}, locks |-> {}])
    BY <1>1 DEF ServeRailEnable
  <2>2. bridges' = bridges /\ locked' = locked
    BY <1>1 DEF ServeRailEnable, EnableRails, DisableRails
  <2>3. \A r \in Rails \ R : rails'[r].desired_on => rails[r].desired_on
    <3>1. CASE Received(bytes)[2] # 0
      <4>1. SaysOn(bytes)
        BY <3>1, Frames
      <4>2. EnableRails(targets)
        BY <1>1, <3>1 DEF ServeRailEnable
      <4>3. \A r \in Rails \ targets : rails'[r] = rails[r]
        BY <4>2, JointlyTyped DEF EnableRails
      <4>4. QED
        BY <4>1, <4>3
    <3>2. CASE Received(bytes)[2] = 0
      <4>1. DisableRails(targets)
        BY <1>1, <3>2 DEF ServeRailEnable
      <4>2. ASSUME NEW r \in Rails
            PROVE  rails'[r].desired_on => rails[r].desired_on
        <5>1. rails'[r] \in {rails[r]} \cup DisableAcks(rails[r])
                              \cup DisableRefusals(rails[r])
          BY <4>1, JointlyTyped DEF DisableRails
        <5>2. QED
          BY <1>0, <5>1, OnlyEnableWants
      <4>3. QED
        BY <4>2
    <3>3. QED
      BY <3>1, <3>2
  <2> HIDE DEF R, targets
  <2>4. QED
    BY <2>1, <2>2, <2>3, KindByKind
<1>2. ASSUME rails' = rails, locked' = locked, NEW M,
             Asks([rails |-> {}, motors |-> M, locks |-> {}]),
             \A m \in Motors \ M : bridges'[m] = "Run" => bridges[m] = "Run"
      PROVE  DOMAIN asked' = Kinds /\ OnWasAsked'
  BY <1>2, KindByKind
<1>3. ASSUME NothingToDo \/ \E bytes \in Arriving("SetEstopLocal") :
                                ServeEstopLocal(bytes)
      PROVE  DOMAIN asked' = Kinds /\ OnWasAsked'
  BY <1>2, <1>3 DEF NothingToDo, NoCommand, ServeEstopLocal, SetEStopLocal
<1>4. ASSUME \/ ServeBrakeWinch \/ ServeClearWinchFault
             \/ \E bytes \in Arriving("SetWinchMode") : ServeWinchMode(bytes)
      PROVE  DOMAIN asked' = Kinds /\ OnWasAsked'
  <2>1. rails' = rails /\ locked' = locked
    BY <1>4 DEF ServeBrakeWinch, BrakeWinch, ServeClearWinchFault,
                ClearWinchFault, ServeWinchMode, SetWinchMode
  <2>2. \A m \in Motors : bridges'[m] # "Run"
    BY <1>4 DEF ServeBrakeWinch, BrakeWinch, ServeClearWinchFault,
                ClearWinchFault, ServeWinchMode, SetWinchMode, Coasting
  <2>3. Asks([rails |-> {}, motors |-> {}, locks |-> {}])
    BY <1>4 DEF ServeBrakeWinch, ServeClearWinchFault, ServeWinchMode
  <2>4. QED
    BY <1>2, <2>1, <2>2, <2>3
<1>5. ASSUME NEW bytes \in Arriving("SetWinchDcMotor"), ServeWinchDcMotor(bytes)
      PROVE  DOMAIN asked' = Kinds /\ OnWasAsked'
  <2> DEFINE n == Received(bytes)[1]
             byte == Received(bytes)[2]
             M == IF SaysOn(bytes) THEN {n} ELSE {}
  <2>1. /\ rails' = rails /\ locked' = locked
        /\ bridges' = [bridges EXCEPT ![n] = DriveOf(Percent(byte))]
    BY <1>5 DEF ServeWinchDcMotor, SetWinchDcMotor
  <2>2. Asks([rails |-> {}, motors |-> M, locks |-> {}])
    BY <1>5 DEF ServeWinchDcMotor
  <2>3. n \notin M => DriveOf(Percent(byte)) = "Coast"
    <3>1. byte \in 0 .. 255 /\ (byte # 0 => SaysOn(bytes))
      BY Frames
    <3>2. QED
      BY <3>1, PercentRange DEF DriveOf
  <2>4. bridges \in [Motors -> Drive]
    BY DEF SupervisorInv, OthersTyped
  <2> HIDE DEF M, n, byte
  <2>5. \A m \in Motors \ M : bridges'[m] = "Run" => bridges[m] = "Run"
    BY <2>1, <2>3, <2>4
  <2>6. QED
    BY <1>2, <2>1, <2>2, <2>5
<1>6. ASSUME NEW bytes \in Arriving("SetWinchStepperPhases"),
             ServeWinchStepperPhases(bytes)
      PROVE  DOMAIN asked' = Kinds /\ OnWasAsked'
  <2> DEFINE M == {m \in Motors : m < Len(bytes)}
  <2>1. /\ rails' = rails /\ locked' = locked
        /\ bridges' = [m \in Motors |-> DriveOf(Percent(Received(bytes)[m + 1]))]
    BY <1>6 DEF ServeWinchStepperPhases, SetWinchStepperPhases
  <2>2. Asks([rails |-> {}, motors |-> M, locks |-> {}])
    <3>1. Asks([Nothing EXCEPT !.motors = M])
      BY ONLY <1>6, Zenon DEF ServeWinchStepperPhases
    <3>2. QED
      BY ONLY <3>1, AsksOneKind, Zenon
  <2>3. ASSUME NEW m \in Motors \ M
        PROVE  DriveOf(Percent(Received(bytes)[m + 1])) = "Coast"
    <3>1. Received(bytes)[m + 1] = 0
      BY Frames
    <3>2. Percent(0) = 0
      BY PercentRange
    <3>3. QED
      BY <3>1, <3>2 DEF DriveOf
  <2>4. \A m \in Motors \ M : bridges'[m] = "Run" => bridges[m] = "Run"
    BY <2>1, <2>3
  <2> HIDE DEF M
  <2>5. QED
    BY <1>2, <2>1, <2>2, <2>4
<1>7. ASSUME NEW bytes \in Arriving("SetWinchLock"), ServeWinchLock(bytes)
      PROVE  DOMAIN asked' = Kinds /\ OnWasAsked'
  <2> DEFINE targets == TargetLocks(Received(bytes)[1])
             L == IF SaysOn(bytes) THEN targets ELSE {}
  <2>1. rails' = rails /\ bridges' = bridges
    BY <1>7 DEF ServeWinchLock, SetWinchLock
  <2>2. Asks([rails |-> {}, motors |-> {}, locks |-> L])
    <3>1. Asks([Nothing EXCEPT !.locks = L])
      BY ONLY <1>7, Zenon DEF ServeWinchLock
    <3>2. QED
      BY ONLY <3>1, AsksOneKind, Zenon
  <2>3. Received(bytes)[2] # 0 => SaysOn(bytes)
    BY <1>7, Frames
  <2>4. locked' \subseteq locked \cup L
    BY <1>7, <2>3 DEF ServeWinchLock, SetWinchLock
  <2> HIDE DEF L, targets
  <2>5. QED
    BY <2>1, <2>2, <2>4, KindByKind
<1>8. QED
  BY <1>1, <1>3, <1>4, <1>5, <1>6, <1>7 DEF HostCommand

LEMMA StepsAskFirst ==
  ASSUME SupervisorInv, PinsTyped, ReportedIsDriven, DOMAIN asked = Kinds,
         OnWasAsked, [HostNext]_hostVars
  PROVE  DOMAIN asked' = Kinds /\ OnWasAsked'
<1> USE DEF Nothing, winch
<1>0. \A r \in Rails : rails[r] \in LiveRecord
  BY DEF SupervisorInv, RailsLive
<1>1. CASE HostSetup
  <2>1. Asks([rails |-> {}, motors |-> {}, locks |-> {}])
    BY <1>1 DEF HostSetup
  <2>2. locked' = {} /\ \A m \in Motors : bridges'[m] # "Run"
    BY <1>1 DEF HostSetup, Setup, Coasting
  <2>3. \A r \in Rails : rails'[r] \in InitOutcomes(rails[r])
    BY <1>1, JointlyTyped DEF HostSetup, Setup
  <2>4. \A r \in Rails : rails'[r].desired_on => rails[r].desired_on
    BY <1>0, <2>3, OnlyEnableWants
  <2>5. QED
    BY <2>1, <2>2, <2>4, KindByKind
<1>2. CASE HostReset \/ HostEnterEStop
  <2>1. Asks([rails |-> {}, motors |-> {}, locks |-> {}])
    BY <1>2 DEF HostReset, HostEnterEStop
  <2>2. locked' = {} /\ \A m \in Motors : bridges'[m] # "Run"
    BY <1>2 DEF HostReset, Reset, HostEnterEStop, EnterEStop, Coasting
  <2>3. \A r \in Rails : ~rails'[r].desired_on
    <3>1. CASE HostReset
      BY <1>0, <3>1, OnlyEnableWants DEF HostReset, Reset
    <3>2. CASE HostEnterEStop
      <4>1. \A r \in Rails :
              rails'[r] \in DisableAcks(rails[r]) \cup DisableRefusals(rails[r])
        BY <3>2, JointlyTyped DEF HostEnterEStop, EnterEStop
      <4>2. QED
        BY <1>0, <4>1, OnlyEnableWants
    <3>3. QED
      BY <1>2, <3>1, <3>2
  <2>4. QED
    BY <2>1, <2>2, <2>3, KindByKind
<1>3. CASE HostElse
  <2>1. Asks([rails |-> {}, motors |-> {}, locks |-> {}])
    BY <1>3 DEF HostElse
  <2>2. locked' = locked /\ bridges' = bridges
    BY <1>3 DEF HostElse, EStopTick, Bridge, NoBridge, BridgeOperation,
                HoldEStop, LeaveEStop, NoEStop, ProtectNotDue, Protect,
                CbitPasses, CbitFails, PowerLost
  <2>3. \A r \in Rails : rails'[r].desired_on => rails[r].desired_on
    <3>1. CASE Protect
      <4>1. \A r \in Rails : rails'[r] \in TickOutcomes(rails[r])
        BY <3>1, JointlyTyped DEF Protect
      <4>2. QED
        BY <1>0, <4>1, OnlyEnableWants
    <3>2. ASSUME NEW s \in Rails, NEW on \in BOOLEAN, BridgeOperation(s, on)
          PROVE  \A r \in Rails : rails'[r].desired_on => rails[r].desired_on
      <4>1. rails \in [Rails -> LiveRecord]
        BY DEF SupervisorInv, RailsLive
      <4>2. rails' = [rails EXCEPT ![s] = [rails[s] EXCEPT !.op = on]]
        BY <3>2 DEF BridgeOperation
      <4>3. [rails[s] EXCEPT !.op = on].desired_on = rails[s].desired_on
        BY <1>0, OpUpdate
      <4>4. QED
        BY <4>1, <4>2, <4>3
    <3>3. CASE \/ EStopTick \/ NoBridge \/ HoldEStop \/ LeaveEStop \/ NoEStop
               \/ ProtectNotDue \/ CbitPasses \/ CbitFails
      BY <3>3 DEF EStopTick, NoBridge, HoldEStop, LeaveEStop, NoEStop,
                  ProtectNotDue, CbitPasses, CbitFails
    <3>4. ASSUME NEW s \in Rails, PowerLost(s)
          PROVE  \A r \in Rails : rails'[r].desired_on => rails[r].desired_on
      <4>1. rails \in [Rails -> LiveRecord]
        BY DEF SupervisorInv, RailsLive
      <4>2. rails' = [rails EXCEPT ![s] = PoweredUp(rails[s])]
        BY <3>4 DEF PowerLost
      <4>3. QED
        BY <1>0, <4>1, <4>2, OnlyEnableWants
    <3>5. QED
      BY <1>3, <3>1, <3>2, <3>3, <3>4 DEF HostElse, Bridge
  <2>4. QED
    BY <2>1, <2>2, <2>3, KindByKind
<1>4. CASE HostCommand
  BY <1>4, CommandsAskFirst
<1>5. CASE HostEnableAtBoot
  <2>1. Asks([rails |-> Rails, motors |-> {}, locks |-> {}])
    BY <1>5 DEF HostEnableAtBoot
  <2>2. locked' = locked /\ bridges' = bridges
    BY <1>5 DEF HostEnableAtBoot, EnableAtBoot
  <2>3. QED
    BY <2>1, <2>2, KindByKind
<1>6. CASE UNCHANGED hostVars
  BY <1>6 DEF hostVars, vars, OnWasAsked, On
<1>7. QED
  BY <1>1, <1>2, <1>3, <1>4, <1>5, <1>6 DEF HostNext

\* A frame cut short anywhere turns nothing on: every rail that is wanted, every
\* motor that runs and every lock that is energised was asked for by bytes that
\* arrived, or by setup().
THEOREM OnlyAskedOn == HostSpec => []OnWasAsked
<1> DEFINE Inv == /\ SupervisorInv /\ PinsTyped /\ ReportedIsDriven
                  /\ DOMAIN asked = Kinds /\ OnWasAsked
<1>1. HostInit => Inv
  <2> SUFFICES ASSUME HostInit PROVE Inv
    OBVIOUS
  <2>1. SupervisorInv /\ PinsTyped /\ ReportedIsDriven
    BY InitReports
  <2>2. asked = Nothing
    BY DEF HostInit
  <2>3. \A r \in Rails : ~rails[r].desired_on
    BY DEF HostInit, Init
  <2>4. locked = {} /\ \A m \in Motors : bridges[m] # "Run"
    BY DEF HostInit, Init, Coasting
  <2>5. \A k \in Kinds : On[k] = {}
    BY <2>3, <2>4 DEF On, Kinds
  <2>6. QED
    BY <2>1, <2>2, <2>5, OnKinds DEF OnWasAsked
<1>2. Inv /\ [HostNext]_hostVars => Inv'
  BY SupervisorKept, AgreementPreserved, StepsAskFirst
<1>3. Inv => OnWasAsked
  OBVIOUS
<1>4. QED
  BY <1>1, <1>2, <1>3, PTL DEF HostSpec
=============================================================================
