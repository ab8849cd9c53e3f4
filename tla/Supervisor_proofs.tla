------------------------- MODULE Supervisor_proofs -------------------------
(***************************************************************************)
(* Proofs about the supervisor, for every set of rails, bridges and locks. *)
(*                                                                         *)
(* The inductive invariant has five parts, each with its lemma:            *)
(*   - types, with the stronger fact that no rail is ever latched, without *)
(*     which the mode could be kFault;                                     *)
(*   - Staged: which modes a stage of loop() can find;                     *)
(*   - Still: the winch is still in E-Stop mode before commands are served *)
(*     and afterwards while the E-Stop is active;                          *)
(*   - SleepingWinchCoasts, inductive as it is;                            *)
(*   - AckedQuiet and DownOff: a rail whose OFF was acknowledged is not    *)
(*     wanted and not in a recovery, so no tick() can turn it on, and one  *)
(*     that took the OFF is off.                                           *)
(***************************************************************************)
EXTENDS Supervisor, TLAPS

\* A rail as the firmware can leave it: nothing latches.
LiveRecord == [state : RailState \ {"Latched"}, desired_on : BOOLEAN,
               pending : BOOLEAN, op : BOOLEAN]

\* Not wanted, and no restart pending.
Quiet(r) == ~r.pending /\ ~r.desired_on

\* A call that makes w of r leaves nothing to do and does not turn r on.
Settles(r, w) == Quiet(w) /\ (~r.op => ~w.op)

-----------------------------------------------------------------------------
(* The outcomes of the calls of one rail.                                  *)

LEMMA StateUpdate ==
  ASSUME NEW r \in LiveRecord, NEW s \in RailState \ {"Latched"}
  PROVE  /\ [r EXCEPT !.state = s] \in LiveRecord
         /\ [r EXCEPT !.state = s].op = r.op
         /\ [r EXCEPT !.state = s].pending = r.pending
         /\ [r EXCEPT !.state = s].desired_on = r.desired_on
BY DEF LiveRecord

LEMMA DesiredUpdate ==
  ASSUME NEW r \in LiveRecord, NEW b \in BOOLEAN
  PROVE  /\ [r EXCEPT !.desired_on = b] \in LiveRecord
         /\ [r EXCEPT !.desired_on = b].desired_on = b
         /\ [r EXCEPT !.desired_on = b].op = r.op
         /\ [r EXCEPT !.desired_on = b].pending = r.pending
BY DEF LiveRecord

LEMMA OpUpdate ==
  ASSUME NEW r \in LiveRecord, NEW b \in BOOLEAN
  PROVE  /\ [r EXCEPT !.op = b] \in LiveRecord
         /\ [r EXCEPT !.op = b].op = b
         /\ [r EXCEPT !.op = b].desired_on = r.desired_on
         /\ [r EXCEPT !.op = b].pending = r.pending
BY DEF LiveRecord

LEMMA PendingUpdate ==
  ASSUME NEW r \in LiveRecord, NEW b \in BOOLEAN
  PROVE  [r EXCEPT !.pending = b] \in LiveRecord
BY DEF LiveRecord

LEMMA WrittenTyped ==
  ASSUME NEW r \in LiveRecord, NEW b \in BOOLEAN
  PROVE  Written(r, b) \subseteq LiveRecord
BY OpUpdate DEF Written

LEMMA RebootTyped ==
  ASSUME NEW r \in LiveRecord
  PROVE  Rebooted(r) \in LiveRecord
BY DEF Rebooted, LiveRecord, RailState

LEMMA InitTyped ==
  ASSUME NEW r \in LiveRecord
  PROVE  InitOutcomes(r) \subseteq LiveRecord
<1>1. {"Absent", "Tripped", "Ready"} \subseteq RailState \ {"Latched"}
  BY DEF RailState
<1>2. QED
  BY <1>1, StateUpdate DEF InitOutcomes

LEMMA EnableTyped ==
  ASSUME NEW r \in LiveRecord
  PROVE  EnableOutcomes(r) \subseteq LiveRecord
<1>1. ASSUME NEW w \in LiveRecord PROVE Enabled(w) \in LiveRecord
  BY DEF Enabled, LiveRecord, RailState
<1>2. {Enabled(w) : w \in Written(r, TRUE)} \subseteq LiveRecord
  BY <1>1, WrittenTyped
<1>3. {[w EXCEPT !.desired_on = TRUE] : w \in Written(r, TRUE)}
        \subseteq LiveRecord
  BY WrittenTyped, DesiredUpdate
<1>4. QED
  BY <1>2, <1>3 DEF EnableOutcomes

\* After an OFF, landed or lost, the chip is on only if it was before.
LEMMA WrittenOff ==
  ASSUME NEW r \in LiveRecord, NEW u \in Written(r, FALSE)
  PROVE  u \in LiveRecord /\ (~r.op => ~u.op) /\ u.pending = r.pending
BY OpUpdate DEF Written

\* An acknowledged disable() leaves nothing to do, whether its OFF landed or not.
LEMMA DisableTyped ==
  ASSUME NEW r \in LiveRecord
  PROVE  /\ DisableAcks(r) \subseteq LiveRecord
         /\ \A w \in DisableAcks(r) : Settles(r, w)
         /\ DisableRefusals(r) \subseteq LiveRecord
<1>1. ASSUME NEW w \in LiveRecord
      PROVE  Disabled(w) \in LiveRecord /\ Quiet(Disabled(w)) /\ Disabled(w).op = w.op
  BY DEF Disabled, LiveRecord, RailState, Quiet
<1>2. ASSUME NEW w \in DisableAcks(r) PROVE w \in LiveRecord /\ Settles(r, w)
  <2>1. PICK u \in Written(r, FALSE) : w = Disabled(u)
    BY DEF DisableAcks
  <2>2. QED
    BY <1>1, <2>1, WrittenOff DEF Settles
<1>3. DisableRefusals(r) \subseteq LiveRecord
  BY WrittenTyped, DesiredUpdate DEF DisableRefusals
<1>4. QED
  BY <1>2, <1>3

\* A refused OFF does not wake a quiet rail.
LEMMA DisableQuiet ==
  ASSUME NEW r \in LiveRecord, Quiet(r), NEW w \in DisableRefusals(r)
  PROVE  Settles(r, w)
<1>1. PICK u \in Written(r, FALSE) : w = [u EXCEPT !.desired_on = FALSE]
  BY DEF DisableRefusals
<1>2. u \in LiveRecord /\ (~r.op => ~u.op) /\ ~u.pending
  BY <1>1, WrittenOff DEF Quiet
<1>3. QED
  BY <1>1, <1>2, DesiredUpdate DEF Quiet, Settles

LEMMA FollowedTyped ==
  ASSUME NEW r \in LiveRecord
  PROVE  /\ Followed(r) \in LiveRecord
         /\ Followed(r).op = r.op /\ Followed(r).pending = r.pending
         /\ Followed(r).desired_on = r.desired_on
<1> DEFINE s == CASE r.op /\ r.state = "Ready" -> "Running"
                  [] ~r.op /\ ~r.desired_on /\ r.state = "Running" -> "Ready"
                  [] OTHER -> r.state
<1>1. s \in RailState \ {"Latched"}
  BY DEF LiveRecord, RailState
<1>2. Followed(r) = [r EXCEPT !.state = s]
  BY DEF Followed
<1> HIDE DEF s
<1>3. QED
  BY <1>1, <1>2, StateUpdate

LEMMA TickTyped ==
  ASSUME NEW r \in LiveRecord
  PROVE  TickOutcomes(r) \subseteq LiveRecord
<1>1. [r EXCEPT !.state = "Absent"] \in LiveRecord
  BY StateUpdate DEF RailState
<1>2. Followed(r) \in LiveRecord
  BY FollowedTyped
<1>3. RecoveryOutcomes(Followed(r)) \subseteq LiveRecord
  <2>1. \A b \in BOOLEAN : Written(Followed(r), b) \subseteq LiveRecord
    BY <1>2, WrittenTyped
  <2>2. QED
    BY <2>1, PendingUpdate DEF RecoveryOutcomes
<1>4. QED
  BY <1>1, <1>2, <1>3 DEF TickOutcomes

\* tick() leaves a quiet rail quiet: there is no recovery it could run.
LEMMA TickQuiet ==
  ASSUME NEW r \in LiveRecord, Quiet(r), NEW w \in TickOutcomes(r)
  PROVE  Settles(r, w)
<1>1. Settles(r, Followed(r)) /\ Settles(r, r)
  BY FollowedTyped DEF Quiet, Settles
<1>2. RecoveryOutcomes(Followed(r)) = {}
  BY <1>1 DEF RecoveryOutcomes, Quiet, Settles
<1>3. Settles(r, [r EXCEPT !.state = "Absent"])
  BY StateUpdate DEF Quiet, Settles, RailState
<1>4. QED
  BY <1>1, <1>2, <1>3 DEF TickOutcomes

\* A power-up changes nothing but the OPERATION bit.
LEMMA PowerUpTyped ==
  ASSUME NEW r \in LiveRecord
  PROVE  PoweredUp(r) \in LiveRecord /\ (Quiet(r) => Quiet(PoweredUp(r)))
BY OpUpdate DEF PoweredUp, Quiet

LEMMA JointlyTyped ==
  ASSUME NEW outcomes, NEW f \in Jointly(outcomes)
  PROVE  /\ \A r \in Rails : f[r] \in outcomes[r]
         /\ \A S : (\A r \in Rails : outcomes[r] \subseteq S)
                     => f \in [Rails -> S]
BY DEF Jointly

-----------------------------------------------------------------------------
(* Types.                                                                  *)

RailsLive == rails \in [Rails -> LiveRecord]

FlagsTyped == asserted \in BOOLEAN /\ local_assert \in BOOLEAN

OthersTyped ==
  /\ pc \in Stage
  /\ mode \in {"Boot", "Pbit", "Nominal", "Degraded", "EStop"}
  /\ winch_mode \in {"Sleep", "DualDc", "Stepper"}
  /\ bridges \in [Motors -> Drive]
  /\ locked \subseteq Locks
  /\ stopped \subseteq Rails /\ acked \subseteq Rails /\ down \subseteq acked

\* Every call leaves a live rail live.
LEMMA RailsPreserved == RailsLive /\ [Next]_vars => RailsLive'
<1> SUFFICES ASSUME RailsLive, [Next]_vars PROVE RailsLive'
  OBVIOUS
<1>1. \A r \in Rails : rails[r] \in LiveRecord
  BY DEF RailsLive
<1>2. CASE Setup \/ EnableAtBoot
  <2>1. \A r \in Rails : /\ InitOutcomes(rails[r]) \subseteq LiveRecord
                         /\ EnableOutcomes(rails[r]) \subseteq LiveRecord
    BY <1>1, InitTyped, EnableTyped
  <2>2. QED
    BY <1>2, <2>1, JointlyTyped DEF Setup, EnableAtBoot, RailsLive
<1>3. CASE Command
  <2>1. ASSUME NEW targets \in Targets, EnableRails(targets) PROVE RailsLive'
    <3>1. \A r \in Rails : (IF r \in targets THEN EnableOutcomes(rails[r])
                            ELSE {rails[r]}) \subseteq LiveRecord
      BY <1>1, EnableTyped
    <3>2. QED
      BY <2>1, <3>1, JointlyTyped DEF EnableRails, RailsLive
  <2>2. ASSUME NEW targets \in Targets, DisableRails(targets) PROVE RailsLive'
    <3>1. \A r \in Rails :
            (IF r \in targets
               THEN DisableAcks(rails[r]) \cup DisableRefusals(rails[r])
               ELSE {rails[r]}) \subseteq LiveRecord
      BY <1>1, DisableTyped
    <3>2. QED
      BY <2>2, <3>1, JointlyTyped DEF DisableRails, RailsLive
  <2>3. QED
    BY <1>3, <2>1, <2>2
       DEF Command, NoCommand, SetEStopLocal, SetWinchMode, SetWinchDcMotor,
           SetWinchStepperPhases, BrakeWinch, ClearWinchFault, SetWinchLock,
           RailsLive
<1>4. CASE Bridge
  <2>1. ASSUME NEW r \in Rails, NEW on \in BOOLEAN, BridgeOperation(r, on)
        PROVE  RailsLive'
    <3>1. [rails[r] EXCEPT !.op = on] \in LiveRecord
      BY <1>1, OpUpdate
    <3>2. rails' = [rails EXCEPT ![r] = [rails[r] EXCEPT !.op = on]]
      BY <2>1 DEF BridgeOperation
    <3>3. QED
      BY <3>1, <3>2 DEF RailsLive
  <2>2. QED
    BY <1>4, <2>1 DEF Bridge, NoBridge, RailsLive
<1>5. CASE Check
  <2>1. ASSUME NEW refused \in SUBSET Rails, EnterEStop(refused)
        PROVE  RailsLive'
    <3>1. \A r \in Rails :
            (IF r \in refused THEN DisableRefusals(rails[r])
             ELSE DisableAcks(rails[r])) \subseteq LiveRecord
      BY <1>1, DisableTyped
    <3>2. QED
      BY <2>1, <3>1, JointlyTyped DEF EnterEStop, RailsLive
  <2>2. QED
    BY <1>5, <2>1 DEF Check, HoldEStop, LeaveEStop, NoEStop, RailsLive
<1>6. CASE Protect
  <2>1. \A r \in Rails : TickOutcomes(rails[r]) \subseteq LiveRecord
    BY <1>1, TickTyped
  <2>2. QED
    BY <1>6, <2>1, JointlyTyped DEF Protect, RailsLive
<1>7. CASE Reset
  BY <1>1, <1>7, RebootTyped DEF Reset, RailsLive
<1>8. CASE EStopTick \/ ProtectNotDue \/ CbitPasses \/ CbitFails
           \/ UNCHANGED vars
  BY <1>8 DEF EStopTick, ProtectNotDue, CbitPasses, CbitFails, vars, RailsLive
<1>9. ASSUME NEW r \in Rails, PowerLost(r) PROVE RailsLive'
  <2>1. rails' = [rails EXCEPT ![r] = PoweredUp(rails[r])]
    BY <1>9 DEF PowerLost
  <2>2. QED
    BY <1>1, <2>1, PowerUpTyped DEF RailsLive
<1>10. QED
  BY <1>2, <1>3, <1>4, <1>5, <1>6, <1>7, <1>8, <1>9 DEF Next, Loop, Environment

\* classifyMode() says E-Stop exactly when it is told so, and cannot say kFault.
LEMMA ClassifiedMode ==
  ASSUME NEW active \in BOOLEAN, NEW rs \in [Rails -> LiveRecord]
  PROVE  /\ Classified(active, rs) \in {"Nominal", "Degraded", "EStop"}
         /\ Classified(active, rs) = "EStop" <=> active
<1>1. \A r \in Rails : rs[r].state # "Latched"
  BY DEF LiveRecord
<1>2. QED
  BY <1>1 DEF Classified

LEMMA FlagsPreserved == FlagsTyped /\ [Next]_vars => FlagsTyped'
<1> SUFFICES ASSUME FlagsTyped, [Next]_vars PROVE FlagsTyped'
  OBVIOUS
<1> USE DEF FlagsTyped, estop
<1>1. CASE Setup \/ Reset \/ EStopTick
  BY <1>1 DEF Setup, Reset, EStopTick
<1>2. CASE Command
  BY <1>2 DEF Command, NoCommand, EnableRails, DisableRails, SetEStopLocal,
              SetWinchMode, SetWinchDcMotor, SetWinchStepperPhases, BrakeWinch,
              ClearWinchFault, SetWinchLock
<1>3. CASE Bridge \/ Check
  BY <1>3 DEF Bridge, NoBridge, BridgeOperation, Check, EnterEStop, HoldEStop,
              LeaveEStop, NoEStop
<1>4. CASE \/ EnableAtBoot \/ ProtectNotDue \/ Protect \/ CbitPasses \/ CbitFails
           \/ (\E r \in Rails : PowerLost(r)) \/ UNCHANGED vars
  BY <1>4 DEF EnableAtBoot, ProtectNotDue, Protect, CbitPasses, CbitFails,
              PowerLost, vars
<1>5. QED
  BY <1>1, <1>2, <1>3, <1>4 DEF Next, Loop, Environment

LEMMA CoastingTyped == Coasting \in [Motors -> Drive]
BY DEF Coasting, Drive

\* The mode is never kFault: that takes a latched rail.
LEMMA OthersPreserved ==
  ASSUME FlagsTyped, RailsLive, OthersTyped, [Next]_vars
  PROVE  OthersTyped'
<1>1. FlagsTyped' /\ RailsLive'
  BY FlagsPreserved, RailsPreserved
<1>2. isEStopActive \in BOOLEAN /\ isEStopActive' \in BOOLEAN
  BY <1>1 DEF isEStopActive, FlagsTyped
<1> USE DEF OthersTyped, Stage, winch, history
<1>3. CASE Setup \/ EnableAtBoot
  <2>1. ASSUME EnableAtBoot PROVE mode' \in {"Nominal", "Degraded", "EStop"}
    <3>1. rails' \in [Rails -> LiveRecord]
      BY <1>1 DEF RailsLive
    <3>2. mode' = Classified(isEStopActive, rails')
      BY <2>1 DEF EnableAtBoot
    <3>3. QED
      BY <1>2, <3>1, <3>2, ClassifiedMode
  <2>2. QED
    BY <1>3, <2>1, CoastingTyped DEF Setup, EnableAtBoot
<1>4. CASE Reset
  BY <1>4, CoastingTyped DEF Reset
<1>5. CASE EStopTick \/ ProtectNotDue \/ CbitPasses \/ CbitFails
  BY <1>5 DEF EStopTick, ProtectNotDue, CbitPasses, CbitFails
<1>6. CASE Command
  <2>1. CASE \E wanted \in {"Sleep", "DualDc", "Stepper"} : SetWinchMode(wanted)
    BY <2>1, CoastingTyped DEF SetWinchMode
  <2>2. CASE ClearWinchFault
    BY <2>2, CoastingTyped DEF ClearWinchFault
  <2>3. CASE \E m \in Motors, drive \in {"Coast", "Run"} :
               SetWinchDcMotor(m, drive)
    BY <2>3 DEF SetWinchDcMotor, Drive
  <2>4. CASE \E drives \in [Motors -> {"Coast", "Run"}] :
               SetWinchStepperPhases(drives)
    <3>1. bridges' \in [Motors -> {"Coast", "Run"}]
      BY <2>4 DEF SetWinchStepperPhases
    <3>2. bridges' \in [Motors -> Drive]
      BY <3>1 DEF Drive
    <3>3. QED
      BY <2>4, <3>2 DEF SetWinchStepperPhases
  <2>5. CASE BrakeWinch
    BY <2>5 DEF BrakeWinch, Drive
  <2>6. CASE \E locks \in {{l} : l \in Locks} \cup {Locks}, on \in BOOLEAN :
               SetWinchLock(locks, on)
    BY <2>6 DEF SetWinchLock
  <2>7. CASE \E targets \in Targets :
               EnableRails(targets) \/ DisableRails(targets)
    BY <2>7 DEF EnableRails, DisableRails
  <2>8. CASE NoCommand \/ \E engage \in BOOLEAN : SetEStopLocal(engage)
    BY <2>8 DEF NoCommand, SetEStopLocal
  <2>9. QED
    BY <1>6, <2>1, <2>2, <2>3, <2>4, <2>5, <2>6, <2>7, <2>8 DEF Command
<1>7. CASE Bridge
  BY <1>7 DEF Bridge, NoBridge, BridgeOperation
<1>8. CASE Check
  BY <1>8, CoastingTyped DEF Check, EnterEStop, HoldEStop, LeaveEStop, NoEStop
<1>9. CASE Protect
  <2>1. mode' \in {"Boot", "Pbit", "Nominal", "Degraded", "EStop"}
    <3>1. rails' \in [Rails -> LiveRecord]
      BY <1>1 DEF RailsLive
    <3>2. mode' = mode \/ mode' = Classified(isEStopActive, rails')
      BY <1>9 DEF Protect
    <3>3. QED
      BY <1>2, <3>1, <3>2, ClassifiedMode
  <2>2. QED
    BY <1>9, <2>1 DEF Protect
<1>10. CASE (\E r \in Rails : PowerLost(r)) \/ UNCHANGED vars
  BY <1>10 DEF PowerLost, vars
<1>11. QED
  BY <1>3, <1>4, <1>5, <1>6, <1>7, <1>8, <1>9, <1>10 DEF Next, Loop, Environment

-----------------------------------------------------------------------------
(* The mode, the winch and the acknowledged rails.                         *)

\* A pass reaches protection and CBIT only outside E-Stop, so that it ends with
\* the mode it had after the E-Stop check or another that is not kEStop.
Staged ==
  /\ pc = "estop" => (mode = "EStop" <=> isEStopActive)
  /\ pc \in {"protect", "cbit"} => mode # "EStop" /\ ~isEStopActive
  /\ pc \in {"setup", "pbit"} => mode \in {"Boot", "Pbit"} /\ acked = {}

Unmoving == locked = {} /\ \A m \in Motors : bridges[m] # "Run"

\* setup() stops the winch before it may find the E-Stop active, and
\* the samples of a new pass may release the E-Stop before the mode says so,
\* and RG may then drive the winch; asserting the E-Stop would take another
\* command, which finds the next pass.
Still ==
  \/ pc = "pbit"
  \/ mode = "EStop" /\ (pc \in {"estop", "command"} \/ isEStopActive)
  => Unmoving

AckedQuiet == \A r \in acked : Quiet(rails[r])

DownOff == \A r \in down : ~rails[r].op

LEMMA StagedPreserved ==
  ASSUME FlagsTyped, RailsLive, Staged, [Next]_vars
  PROVE  Staged'
<1>1. FlagsTyped' /\ RailsLive'
  BY FlagsPreserved, RailsPreserved
<1>2. isEStopActive \in BOOLEAN
  BY DEF isEStopActive, FlagsTyped
<1>3. CASE Setup \/ EnableAtBoot
  <2>1. ASSUME EnableAtBoot PROVE Staged'
    <3>1. rails' \in [Rails -> LiveRecord]
      BY <1>1 DEF RailsLive
    <3>2. mode' = "EStop" <=> isEStopActive
      BY <1>2, <2>1, <3>1, ClassifiedMode DEF EnableAtBoot
    <3>3. QED
      BY <2>1, <3>2 DEF EnableAtBoot, Staged, isEStopActive, estop
  <2>2. QED
    BY <1>3, <2>1 DEF Setup, Staged, history
<1>4. CASE Reset
  BY <1>4 DEF Reset, Staged
<1>5. CASE EStopTick \/ Command \/ Bridge
  <2>1. pc' \in {"command", "bridge", "check"}
    BY <1>5 DEF EStopTick, Command, NoCommand, EnableRails, DisableRails,
                SetEStopLocal, SetWinchMode, SetWinchDcMotor,
                SetWinchStepperPhases, BrakeWinch, ClearWinchFault,
                SetWinchLock, Bridge, NoBridge, BridgeOperation
  <2>2. QED
    BY <2>1 DEF Staged
<1>6. CASE Check
  <2>0. UNCHANGED estop
    BY <1>6 DEF Check, EnterEStop, HoldEStop, LeaveEStop, NoEStop
  <2>1. isEStopActive' <=> isEStopActive
    BY <2>0 DEF isEStopActive, estop
  <2>2. \/ pc' = "estop" /\ isEStopActive /\ mode' = "EStop"
        \/ pc' = "protect" /\ ~isEStopActive /\ mode' # "EStop"
    BY <1>6 DEF Check, EnterEStop, HoldEStop, LeaveEStop, NoEStop
  <2>3. QED
    BY <2>1, <2>2 DEF Staged
<1>7. CASE Protect
  <2>1. pc' = "cbit" /\ ~isEStopActive /\ mode # "EStop"
    BY <1>7 DEF Protect, Staged
  <2>2. rails' \in [Rails -> LiveRecord]
    BY <1>1 DEF RailsLive
  <2>3. mode' = mode \/ mode' = Classified(isEStopActive, rails')
    BY <1>7 DEF Protect
  <2>4. mode' # "EStop"
    BY <1>2, <2>1, <2>2, <2>3, ClassifiedMode
  <2>5. QED
    BY <1>7, <2>1, <2>4 DEF Protect, Staged, isEStopActive, estop
<1>8. CASE ProtectNotDue \/ CbitPasses \/ CbitFails
  <2>1. mode' # "EStop" /\ ~isEStopActive' /\ pc' \in {"cbit", "estop"}
    BY <1>8 DEF ProtectNotDue, CbitPasses, CbitFails, Staged, isEStopActive,
                estop
  <2>2. QED
    BY <2>1 DEF Staged
<1>9. CASE (\E r \in Rails : PowerLost(r)) \/ UNCHANGED vars
  BY <1>9 DEF PowerLost, vars, Staged, isEStopActive, estop, history
<1>10. QED
  BY <1>3, <1>4, <1>5, <1>6, <1>7, <1>8, <1>9 DEF Next, Loop, Environment

LEMMA CoastingStill == \A m \in Motors : Coasting[m] # "Run"
BY DEF Coasting

LEMMA StillPreserved ==
  ASSUME FlagsTyped, RailsLive, OthersTyped, Staged, Still, [Next]_vars
  PROVE  Still'
<1> USE DEF Still, Unmoving, winch, estop
<1>1. CASE Setup \/ EnableAtBoot \/ Reset
  BY <1>1, CoastingStill DEF Setup, EnableAtBoot, Reset
<1>2. CASE EStopTick
  BY <1>2 DEF EStopTick
<1>3. CASE Command
  <2>1. CASE NoCommand \/ \E engage \in BOOLEAN : SetEStopLocal(engage)
    BY <2>1 DEF NoCommand, SetEStopLocal
  <2>2. CASE \E targets \in Targets :
               EnableRails(targets) \/ DisableRails(targets)
    BY <2>2 DEF EnableRails, DisableRails, isEStopActive
  <2>3. CASE \/ \E wanted \in {"Sleep", "DualDc", "Stepper"} :
                  SetWinchMode(wanted)
             \/ ClearWinchFault
    BY <2>3, CoastingStill DEF SetWinchMode, ClearWinchFault, isEStopActive
  <2>4. CASE \/ \E m \in Motors, drive \in {"Coast", "Run"} :
                  SetWinchDcMotor(m, drive)
             \/ \E drives \in [Motors -> {"Coast", "Run"}] :
                  SetWinchStepperPhases(drives)
             \/ \E locks \in {{l} : l \in Locks} \cup {Locks}, on \in BOOLEAN :
                  SetWinchLock(locks, on)
    <3>1. pc' = "bridge" /\ ~isEStopActive'
      BY <2>4 DEF SetWinchDcMotor, SetWinchStepperPhases, SetWinchLock,
                  isEStopActive
    <3>2. QED
      BY <3>1
  <2>5. CASE BrakeWinch
    BY <2>5 DEF BrakeWinch, isEStopActive
  <2>6. QED
    BY <1>3, <2>1, <2>2, <2>3, <2>4, <2>5 DEF Command
<1>4. CASE Bridge
  BY <1>4 DEF Bridge, NoBridge, BridgeOperation, isEStopActive
<1>5. CASE Check
  BY <1>5, CoastingStill DEF Check, EnterEStop, HoldEStop, LeaveEStop, NoEStop,
                             isEStopActive
<1>6. CASE Protect
  <2>1. mode' # "EStop" /\ pc' = "cbit"
    BY <1>6, StagedPreserved DEF Protect, Staged
  <2>2. QED
    BY <2>1
<1>7. CASE ProtectNotDue \/ CbitPasses \/ CbitFails
  BY <1>7 DEF ProtectNotDue, CbitPasses, CbitFails, Staged
<1>8. CASE (\E r \in Rails : PowerLost(r)) \/ UNCHANGED vars
  BY <1>8 DEF PowerLost, vars, isEStopActive
<1>9. QED
  BY <1>1, <1>2, <1>3, <1>4, <1>5, <1>6, <1>7, <1>8 DEF Next, Loop, Environment

LEMMA SleepPreserved ==
  SleepingWinchCoasts /\ [Next]_vars => SleepingWinchCoasts'
<1> SUFFICES ASSUME SleepingWinchCoasts, [Next]_vars PROVE SleepingWinchCoasts'
  OBVIOUS
<1> USE DEF SleepingWinchCoasts, winch
<1>1. CASE Setup \/ EnableAtBoot \/ Reset \/ EStopTick
  BY <1>1 DEF Setup, EnableAtBoot, Reset, EStopTick, Coasting
<1>2. CASE Command
  BY <1>2 DEF Command, NoCommand, EnableRails, DisableRails, SetEStopLocal,
              SetWinchMode, SetWinchDcMotor, SetWinchStepperPhases, BrakeWinch,
              ClearWinchFault, SetWinchLock, Coasting
<1>3. CASE Bridge \/ Check
  BY <1>3 DEF Bridge, NoBridge, BridgeOperation, Check, EnterEStop, HoldEStop,
              LeaveEStop, NoEStop, Coasting
<1>4. CASE \/ ProtectNotDue \/ Protect \/ CbitPasses \/ CbitFails
           \/ (\E r \in Rails : PowerLost(r)) \/ UNCHANGED vars
  BY <1>4 DEF ProtectNotDue, Protect, CbitPasses, CbitFails, PowerLost, vars,
              Coasting
<1>5. QED
  BY <1>1, <1>2, <1>3, <1>4 DEF Next, Loop, Environment

\* A step that adds no rail to the lists and settles those that stay on them
\* keeps both facts.
LEMMA SettledKept ==
  ASSUME AckedQuiet, DownOff, acked' \subseteq acked, down' \subseteq down,
         down' \subseteq acked', \A r \in acked' : Settles(rails[r], rails'[r])
  PROVE  AckedQuiet' /\ DownOff'
BY DEF AckedQuiet, DownOff, Settles

LEMMA AckedPreserved ==
  ASSUME RailsLive, FlagsTyped, OthersTyped, Staged, AckedQuiet, DownOff,
         [Next]_vars
  PROVE  AckedQuiet' /\ DownOff'
<1>1. /\ \A r \in Rails : rails[r] \in LiveRecord
      /\ acked \subseteq Rails /\ down \subseteq acked
  BY DEF RailsLive, OthersTyped
<1>2. down' \subseteq acked'
  BY OthersPreserved DEF OthersTyped
<1>3. ASSUME acked' \subseteq acked, down' \subseteq down,
             \A r \in acked' : Settles(rails[r], rails'[r])
      PROVE  AckedQuiet' /\ DownOff'
  BY <1>2, <1>3, SettledKept
<1>4. ASSUME UNCHANGED <<rails, history>> PROVE AckedQuiet' /\ DownOff'
  BY <1>4 DEF AckedQuiet, DownOff, history
<1>5. CASE Setup \/ EnableAtBoot \/ Reset
  <2>1. acked' = {}
    BY <1>5 DEF Setup, EnableAtBoot, Reset, Staged, history
  <2>2. QED
    BY <1>2, <2>1 DEF AckedQuiet, DownOff
<1>6. CASE Command
  <2>1. ASSUME NEW targets \in Targets, EnableRails(targets)
        PROVE  AckedQuiet' /\ DownOff'
    <3>1. \A r \in Rails \ targets : rails'[r] = rails[r]
      BY <2>1, JointlyTyped DEF EnableRails
    <3>2. acked' = acked \ targets /\ down' = down \ targets
      BY <2>1 DEF EnableRails
    <3>3. QED
      BY <1>1, <3>1, <3>2 DEF AckedQuiet, DownOff
  <2>2. ASSUME NEW targets \in Targets, DisableRails(targets)
        PROVE  AckedQuiet' /\ DownOff'
    <3>1. ASSUME NEW r \in acked PROVE Settles(rails[r], rails'[r])
      <4>1. rails'[r] \in {rails[r]} \cup DisableAcks(rails[r])
                            \cup DisableRefusals(rails[r])
        BY <1>1, <2>2, JointlyTyped DEF DisableRails
      <4>2. rails[r] \in LiveRecord /\ Quiet(rails[r])
        BY <1>1 DEF AckedQuiet
      <4>3. Settles(rails[r], rails[r])
        BY <4>2 DEF Settles
      <4>4. QED
        BY <4>1, <4>2, <4>3, DisableTyped, DisableQuiet
    <3>2. acked' = acked /\ down' = down
      BY <2>2 DEF DisableRails, history
    <3>3. QED
      BY <1>3, <3>1, <3>2
  <2>3. QED
    BY <1>4, <1>6, <2>1, <2>2
       DEF Command, NoCommand, SetEStopLocal, SetWinchMode, SetWinchDcMotor,
           SetWinchStepperPhases, BrakeWinch, ClearWinchFault, SetWinchLock
<1>7. CASE Bridge
  <2>1. ASSUME NEW r \in Rails, NEW on \in BOOLEAN, BridgeOperation(r, on)
        PROVE  AckedQuiet' /\ DownOff'
    <3>1. rails' = [rails EXCEPT ![r] = [rails[r] EXCEPT !.op = on]]
      BY <2>1 DEF BridgeOperation
    <3>2. \A s \in Rails \ {r} : rails'[s] = rails[s]
      BY <3>1 DEF RailsLive
    <3>3. Quiet(rails[r]) => Quiet(rails'[r])
      <4>1. rails'[r] = [rails[r] EXCEPT !.op = on]
        BY <3>1 DEF RailsLive
      <4>2. QED
        BY <1>1, <4>1, OpUpdate DEF Quiet
    <3>4. acked' = acked /\ down' = down \ {r}
      BY <2>1 DEF BridgeOperation
    <3>5. QED
      BY <1>1, <3>2, <3>3, <3>4 DEF AckedQuiet, DownOff
  <2>2. QED
    BY <1>4, <1>7, <2>1 DEF Bridge, NoBridge
<1>8. CASE Check
  <2>1. ASSUME NEW refused \in SUBSET Rails, EnterEStop(refused)
        PROVE  AckedQuiet' /\ DownOff'
    <3>1. \A r \in Rails \ refused : rails'[r] \in DisableAcks(rails[r])
      BY <2>1, JointlyTyped DEF EnterEStop
    <3>2. acked' = Rails \ refused /\ down' = {r \in acked' : ~rails'[r].op}
      BY <2>1 DEF EnterEStop
    <3>3. AckedQuiet'
      BY <1>1, <3>1, <3>2, DisableTyped DEF AckedQuiet, Settles
    <3>4. QED
      BY <3>2, <3>3 DEF DownOff
  <2>2. QED
    BY <1>4, <1>8, <2>1 DEF Check, HoldEStop, LeaveEStop, NoEStop
<1>9. CASE Protect
  <2>1. \A r \in Rails : rails'[r] \in TickOutcomes(rails[r])
    BY <1>9, JointlyTyped DEF Protect
  <2>2. acked' = acked /\ down' = down
    BY <1>9 DEF Protect, history
  <2>3. \A r \in acked : Settles(rails[r], rails'[r])
    BY <1>1, <2>1, TickQuiet DEF AckedQuiet
  <2>4. QED
    BY <1>3, <2>2, <2>3
<1>10. ASSUME NEW r \in Rails, PowerLost(r) PROVE AckedQuiet' /\ DownOff'
  <2>1. rails' = [rails EXCEPT ![r] = PoweredUp(rails[r])]
    BY <1>10 DEF PowerLost
  <2>2. /\ \A s \in Rails \ {r} : rails'[s] = rails[s]
        /\ rails'[r] = PoweredUp(rails[r])
    BY <2>1 DEF RailsLive
  <2>3. acked' = acked /\ down' = down \ {r}
    BY <1>10 DEF PowerLost
  <2>4. Quiet(rails[r]) => Quiet(rails'[r])
    BY <1>1, <2>2, PowerUpTyped
  <2>5. QED
    BY <1>1, <2>2, <2>3, <2>4 DEF AckedQuiet, DownOff
<1>11. CASE EStopTick \/ ProtectNotDue \/ CbitPasses \/ CbitFails
            \/ UNCHANGED vars
  BY <1>4, <1>11 DEF EStopTick, ProtectNotDue, CbitPasses, CbitFails, vars
<1>12. QED
  BY <1>5, <1>6, <1>7, <1>8, <1>9, <1>10, <1>11 DEF Next, Loop, Environment

-----------------------------------------------------------------------------
SupervisorInv ==
  /\ FlagsTyped /\ RailsLive /\ OthersTyped
  /\ Staged /\ Still /\ SleepingWinchCoasts /\ AckedQuiet /\ DownOff

LEMMA InitEstablishes == Init => SupervisorInv
<1> SUFFICES ASSUME Init PROVE SupervisorInv
  OBVIOUS
<1>1. FlagsTyped
  BY DEF Init, FlagsTyped
<1>2. RailsLive
  <2>1. PICK on \in SUBSET Rails :
          rails = [r \in Rails |-> [state |-> "Boot", desired_on |-> FALSE,
                                    pending |-> FALSE, op |-> r \in on]]
    BY DEF Init
  <2>2. \A r \in Rails : [state |-> "Boot", desired_on |-> FALSE,
                          pending |-> FALSE, op |-> r \in on] \in LiveRecord
    BY DEF LiveRecord, RailState
  <2>3. QED
    BY <2>1, <2>2 DEF RailsLive
<1>3. OthersTyped
  BY CoastingTyped DEF Init, OthersTyped, Stage
<1>4. Staged /\ Still /\ SleepingWinchCoasts /\ AckedQuiet /\ DownOff
  BY DEF Init, Staged, Still, SleepingWinchCoasts, AckedQuiet, DownOff
<1>5. QED
  BY <1>1, <1>2, <1>3, <1>4 DEF SupervisorInv

LEMMA Invariance == Spec => []SupervisorInv
<1>1. SupervisorInv /\ [Next]_vars => SupervisorInv'
  BY FlagsPreserved, RailsPreserved, OthersPreserved, StagedPreserved,
     StillPreserved, SleepPreserved, AckedPreserved DEF SupervisorInv
<1>2. QED
  BY InitEstablishes, <1>1, PTL DEF Spec

\* Every variable keeps its type; in particular the mode is never kFault.
THEOREM TypeCorrect == Spec => []TypeOK
<1>1. SupervisorInv => TypeOK
  <2>1. LiveRecord \subseteq RailRecord
    BY DEF LiveRecord, RailRecord
  <2>2. QED
    BY <2>1 DEF SupervisorInv, TypeOK, FlagsTyped, RailsLive, OthersTyped
<1>2. QED
  BY <1>1, Invariance, PTL

\* At the start of every pass the mode is kEStop exactly when the E-Stop is
\* active, for any number of rails.
THEOREM ModeIsRight == Spec => []ModeTracksEStop
<1>1. SupervisorInv => ModeTracksEStop
  BY DEF SupervisorInv, Staged, ModeTracksEStop
<1>2. QED
  BY <1>1, Invariance, PTL

\* In E-Stop no bridge runs and no lock is energised.
THEOREM WinchStaysStill == Spec => []WinchStillInEStop
<1>1. SupervisorInv => WinchStillInEStop
  BY DEF SupervisorInv, Still, Unmoving, WinchStillInEStop
<1>2. QED
  BY <1>1, Invariance, PTL

\* A sleeping winch coasts, whatever the commands.
THEOREM SleepCoasts == Spec => []SleepingWinchCoasts
<1>1. SupervisorInv => SleepingWinchCoasts
  BY DEF SupervisorInv
<1>2. QED
  BY <1>1, Invariance, PTL

\* A rail whose OFF was acknowledged at E-Stop is neither wanted nor in a
\* recovery until RG enables it or the board resets, and is off as long as the
\* OFF reached the chip, RG leaves OPERATION alone and the chip keeps its power.
THEOREM AckedStayOff == Spec => []AckedRailsStayOff
<1>1. SupervisorInv => AckedRailsStayOff
  BY DEF SupervisorInv, AckedQuiet, DownOff, Quiet, AckedRailsStayOff
<1>2. QED
  BY <1>1, Invariance, PTL

-----------------------------------------------------------------------------
(* Each rail under the supervisor keeps the contract that Rail implements. *)

Contract(r) == INSTANCE RailContract WITH rail <- rails[r]

\* What the calls of loop() and the end of setup() may make of a rail.
CallOutcomes(r) ==
  EnableOutcomes(r) \cup DisableAcks(r) \cup DisableRefusals(r) \cup TickOutcomes(r)
    \cup {[r EXCEPT !.op = on] : on \in BOOLEAN}

\* init() comes before any other call of a controller, after every reset.
Probed == \A r \in Rails : rails[r].state = "Boot" <=> pc = "setup"

\* What one step of the supervisor makes of one rail.
RailMove(r) ==
  \/ rails'[r] = rails[r] /\ (pc' = "setup" <=> pc = "setup")
  \/ rails'[r] \in InitOutcomes(rails[r]) /\ pc = "setup" /\ pc' # "setup"
  \/ rails'[r] \in CallOutcomes(rails[r]) /\ pc # "setup" /\ pc' # "setup"
  \/ rails'[r] = Rebooted(rails[r]) /\ pc' = "setup"
  \/ rails'[r] = PoweredUp(rails[r]) /\ pc' = pc

LEMMA Moves ==
  ASSUME RailsLive, [Next]_vars, NEW r \in Rails
  PROVE  RailMove(r)
<1> USE DEF RailMove, CallOutcomes
<1>1. CASE Setup \/ EnableAtBoot \/ Reset
  BY <1>1, JointlyTyped DEF Setup, EnableAtBoot, Reset
<1>2. CASE Command
  <2>1. CASE \E targets \in Targets : EnableRails(targets) \/ DisableRails(targets)
    <3>1. rails'[r] \in {rails[r]} \cup EnableOutcomes(rails[r])
                          \cup DisableAcks(rails[r]) \cup DisableRefusals(rails[r])
      BY <2>1, JointlyTyped DEF EnableRails, DisableRails
    <3>2. pc = "command" /\ pc' = "bridge"
      BY <2>1 DEF EnableRails, DisableRails
    <3>3. QED
      BY <3>1, <3>2
  <2>2. QED
    BY <1>2, <2>1
       DEF Command, NoCommand, SetEStopLocal, SetWinchMode, SetWinchDcMotor,
           SetWinchStepperPhases, BrakeWinch, ClearWinchFault, SetWinchLock
<1>3. CASE Bridge
  <2>1. ASSUME NEW s \in Rails, NEW on \in BOOLEAN, BridgeOperation(s, on)
        PROVE  RailMove(r)
    <3>1. pc = "bridge" /\ pc' = "check"
      BY <2>1 DEF BridgeOperation
    <3>2. rails' = [rails EXCEPT ![s] = [rails[s] EXCEPT !.op = on]]
      BY <2>1 DEF BridgeOperation
    <3>3. rails'[r] = rails[r] \/ rails'[r] = [rails[r] EXCEPT !.op = on]
      BY <3>2 DEF RailsLive
    <3>4. QED
      BY <3>1, <3>3
  <2>2. QED
    BY <1>3, <2>1 DEF Bridge, NoBridge
<1>4. CASE Check
  <2>1. ASSUME NEW refused \in SUBSET Rails, EnterEStop(refused) PROVE RailMove(r)
    <3>1. rails'[r] \in DisableAcks(rails[r]) \cup DisableRefusals(rails[r])
      BY <2>1, JointlyTyped DEF EnterEStop
    <3>2. QED
      BY <2>1, <3>1 DEF EnterEStop
  <2>2. QED
    BY <1>4, <2>1 DEF Check, HoldEStop, LeaveEStop, NoEStop
<1>5. CASE Protect
  BY <1>5, JointlyTyped DEF Protect
<1>6. CASE EStopTick \/ ProtectNotDue \/ CbitPasses \/ CbitFails \/ UNCHANGED vars
  BY <1>6 DEF EStopTick, ProtectNotDue, CbitPasses, CbitFails, vars
<1>7. ASSUME NEW s \in Rails, PowerLost(s) PROVE RailMove(r)
  <2>1. rails' = [rails EXCEPT ![s] = PoweredUp(rails[s])] /\ pc' = pc
    BY <1>7 DEF PowerLost
  <2>2. rails'[r] = rails[r] \/ rails'[r] = PoweredUp(rails[r])
    BY <2>1 DEF RailsLive
  <2>3. QED
    BY <2>1, <2>2
<1>8. QED
  BY <1>1, <1>2, <1>3, <1>4, <1>5, <1>6, <1>7 DEF Next, Loop, Environment

LEMMA SameState ==
  ASSUME NEW r \in LiveRecord, NEW b \in BOOLEAN
  PROVE  /\ [r EXCEPT !.op = b].state = r.state
         /\ [r EXCEPT !.desired_on = b].state = r.state
         /\ [r EXCEPT !.pending = b].state = r.state
BY DEF LiveRecord

LEMMA SameStateWritten ==
  ASSUME NEW r \in LiveRecord, NEW b \in BOOLEAN, NEW u \in Written(r, b)
  PROVE  u \in LiveRecord /\ u.state = r.state
BY SameState, WrittenTyped DEF Written

\* No call but a reset takes a rail back to where init() has not been called.
LEMMA CallsKeepProbed ==
  ASSUME NEW r \in LiveRecord, r.state # "Boot", NEW w \in CallOutcomes(r)
  PROVE  w.state # "Boot"
<1>1. CASE w \in EnableOutcomes(r)
  <2>1. \A u : Enabled(u).state # "Boot"
    BY DEF Enabled
  <2>2. ASSUME NEW u \in Written(r, TRUE)
        PROVE  [u EXCEPT !.desired_on = TRUE].state # "Boot"
    <3>1. u \in LiveRecord /\ u.state # "Boot"
      BY <2>2, SameStateWritten
    <3>2. QED
      BY <3>1, SameState
  <2>3. QED
    BY <1>1, <2>1, <2>2 DEF EnableOutcomes
<1>2. CASE w \in DisableAcks(r)
  <2>1. PICK u \in Written(r, FALSE) : w = Disabled(u)
    BY <1>2 DEF DisableAcks
  <2>2. u.state # "Boot"
    BY SameStateWritten
  <2>3. QED
    BY <2>1, <2>2 DEF Disabled
<1>3. CASE w \in DisableRefusals(r)
  <2>1. PICK u \in Written(r, FALSE) : w = [u EXCEPT !.desired_on = FALSE]
    BY <1>3 DEF DisableRefusals
  <2>2. QED
    BY <2>1, SameState, SameStateWritten
<1>4. CASE w \in TickOutcomes(r)
  <2>1. Followed(r) \in LiveRecord /\ Followed(r).state # "Boot"
    BY FollowedTyped DEF Followed, LiveRecord
  <2>2. [r EXCEPT !.state = "Absent"].state # "Boot"
    BY DEF LiveRecord
  <2>3. ASSUME NEW b \in BOOLEAN, NEW u \in Written(Followed(r), b)
        PROVE  \A p \in BOOLEAN : [u EXCEPT !.pending = p].state # "Boot"
    BY <2>1, SameState, SameStateWritten
  <2>4. \A v \in RecoveryOutcomes(Followed(r)) : v.state # "Boot"
    BY <2>3 DEF RecoveryOutcomes
  <2>5. QED
    BY <1>4, <2>1, <2>2, <2>4 DEF TickOutcomes
<1>5. CASE \E on \in BOOLEAN : w = [r EXCEPT !.op = on]
  BY <1>5, SameState
<1>6. QED
  BY <1>1, <1>2, <1>3, <1>4, <1>5 DEF CallOutcomes

LEMMA ProbedPreserved ==
  ASSUME RailsLive, Probed, [Next]_vars
  PROVE  Probed'
<1> SUFFICES ASSUME NEW r \in Rails
             PROVE  rails'[r].state = "Boot" <=> pc' = "setup"
  BY DEF Probed
<1>1. rails[r] \in LiveRecord /\ (rails[r].state = "Boot" <=> pc = "setup")
  BY DEF RailsLive, Probed
<1>2. ASSUME rails'[r] \in InitOutcomes(rails[r]) PROVE rails'[r].state # "Boot"
  BY <1>1, <1>2 DEF InitOutcomes, LiveRecord
<1>3. Rebooted(rails[r]).state = "Boot"
  BY DEF Rebooted
<1>4. PoweredUp(rails[r]).state = rails[r].state
  BY <1>1, SameState DEF PoweredUp
<1>5. QED
  BY <1>1, <1>2, <1>3, <1>4, Moves, CallsKeepProbed DEF RailMove

\* The operators of the contract's own copy of RailOps are those used here.
LEMMA SameOutcomes ==
  ASSUME NEW r, NEW x
  PROVE  /\ Contract(r)!InitOutcomes(x) = InitOutcomes(x)
         /\ Contract(r)!EnableOutcomes(x) = EnableOutcomes(x)
         /\ Contract(r)!DisableAcks(x) = DisableAcks(x)
         /\ Contract(r)!DisableRefusals(x) = DisableRefusals(x)
         /\ Contract(r)!TickOutcomes(x) = TickOutcomes(x)
         /\ Contract(r)!Rebooted(x) = Rebooted(x)
         /\ Contract(r)!PoweredUp(x) = PoweredUp(x)
<1>1. ASSUME NEW y, NEW on PROVE Contract(r)!Written(y, on) = Written(y, on)
  BY DEF Contract!Written, Written
<1>2. Contract(r)!InitOutcomes(x) = InitOutcomes(x)
  BY DEF Contract!InitOutcomes, InitOutcomes
<1>3. Contract(r)!EnableOutcomes(x) = EnableOutcomes(x)
  BY <1>1 DEF Contract!EnableOutcomes, EnableOutcomes, Contract!Enabled, Enabled
<1>4. Contract(r)!DisableAcks(x) = DisableAcks(x)
  BY <1>1 DEF Contract!DisableAcks, DisableAcks, Contract!Disabled, Disabled
<1>5. Contract(r)!DisableRefusals(x) = DisableRefusals(x)
  BY <1>1 DEF Contract!DisableRefusals, DisableRefusals
<1>6. Contract(r)!TickOutcomes(x) = TickOutcomes(x)
  <2>1. Contract(r)!Followed(x) = Followed(x)
    BY DEF Contract!Followed, Followed
  <2>2. \A y : Contract(r)!RecoveryOutcomes(y) = RecoveryOutcomes(y)
    BY <1>1 DEF Contract!RecoveryOutcomes, RecoveryOutcomes
  <2>3. QED
    BY <2>1, <2>2 DEF Contract!TickOutcomes, TickOutcomes, Contract!IsPresent, IsPresent
<1>7. Contract(r)!Rebooted(x) = Rebooted(x)
  BY DEF Contract!Rebooted, Rebooted
<1>8. Contract(r)!PoweredUp(x) = PoweredUp(x)
  BY DEF Contract!PoweredUp, PoweredUp
<1>9. QED
  BY <1>2, <1>3, <1>4, <1>5, <1>6, <1>7, <1>8

LEMMA ContractInit ==
  ASSUME Init, NEW r \in Rails
  PROVE  Contract(r)!Init
<1>1. PICK on \in SUBSET Rails :
        rails = [s \in Rails |-> [state |-> "Boot", desired_on |-> FALSE,
                                  pending |-> FALSE, op |-> s \in on]]
  BY DEF Init
<1>2. rails[r] = [state |-> "Boot", desired_on |-> FALSE, pending |-> FALSE, op |-> r \in on]
  BY <1>1
<1>3. (r \in on) \in BOOLEAN
  OBVIOUS
<1>4. QED
  BY <1>2, <1>3, Zenon DEF Contract!Init

LEMMA ContractStep ==
  ASSUME RailsLive, Probed, [Next]_vars, NEW r \in Rails
  PROVE  [Contract(r)!Next]_(rails[r])
<1>1. rails[r].state = "Boot" <=> pc = "setup"
  BY DEF Probed
<1>2. RailMove(r)
  BY Moves
<1>3. CASE rails'[r] \in InitOutcomes(rails[r]) /\ pc = "setup"
  <2>1. Contract(r)!init
    BY <1>1, <1>3, SameOutcomes DEF Contract!init
  <2>2. QED
    BY <2>1 DEF Contract!Next
<1>4. CASE rails'[r] \in CallOutcomes(rails[r]) /\ pc # "setup"
  <2>1. rails[r].state # "Boot"
    BY <1>1, <1>4
  <2>2. CASE rails'[r] \in EnableOutcomes(rails[r])
    <3>1. Contract(r)!enable
      BY <2>1, <2>2, SameOutcomes DEF Contract!enable
    <3>2. QED
      BY <3>1 DEF Contract!Next
  <2>3. CASE rails'[r] \in DisableAcks(rails[r]) \cup DisableRefusals(rails[r])
    <3>1. Contract(r)!disable
      BY <2>1, <2>3, SameOutcomes DEF Contract!disable
    <3>2. QED
      BY <3>1 DEF Contract!Next
  <2>4. CASE rails'[r] \in TickOutcomes(rails[r])
    <3>1. Contract(r)!tick
      BY <2>4, SameOutcomes DEF Contract!tick
    <3>2. QED
      BY <3>1 DEF Contract!Next
  <2>5. CASE \E on \in BOOLEAN : rails'[r] = [rails[r] EXCEPT !.op = on]
    <3>1. Contract(r)!bridge
      BY <2>1, <2>5 DEF Contract!bridge
    <3>2. QED
      BY <3>1 DEF Contract!Next
  <2>6. QED
    BY <1>4, <2>2, <2>3, <2>4, <2>5 DEF CallOutcomes
<1>5. CASE rails'[r] = Rebooted(rails[r])
  <2>1. Contract(r)!reset
    BY <1>5, SameOutcomes DEF Contract!reset
  <2>2. QED
    BY <2>1 DEF Contract!Next
<1>6. CASE rails'[r] = PoweredUp(rails[r])
  <2>1. Contract(r)!powerLost
    BY <1>6, SameOutcomes DEF Contract!powerLost
  <2>2. QED
    BY <2>1 DEF Contract!Next
<1>7. QED
  BY <1>2, <1>3, <1>4, <1>5, <1>6 DEF RailMove

\* Whatever RG commands, however E-Stop, protection, CBIT and resets interleave, the
\* supervisor uses every rail the way its contract says: init() before any other
\* call and again after each reset, every change one outcome of one call.  Rail
\* implements that contract, so what is said here of rails holds of the controllers.
THEOREM EveryRailKeepsContract ==
  ASSUME NEW r \in Rails
  PROVE  Spec => Contract(r)!Spec
<1>1. Init => RailsLive /\ Probed
  <2> SUFFICES ASSUME Init PROVE RailsLive /\ Probed
    OBVIOUS
  <2>1. RailsLive
    BY InitEstablishes DEF SupervisorInv
  <2>2. pc = "setup" /\ \A s \in Rails : rails[s].state = "Boot"
    BY DEF Init
  <2>3. QED
    BY <2>1, <2>2 DEF Probed
<1>2. RailsLive /\ Probed /\ [Next]_vars => RailsLive' /\ Probed'
  BY RailsPreserved, ProbedPreserved
<1>3. Spec => [](RailsLive /\ Probed)
  BY <1>1, <1>2, PTL DEF Spec
<1>4. Init => Contract(r)!Init
  BY ContractInit
<1>5. RailsLive /\ Probed /\ [Next]_vars => [Contract(r)!Next]_(rails[r])
  BY ContractStep
<1>6. QED
  BY <1>3, <1>4, <1>5, PTL DEF Spec, Contract!Spec
=============================================================================
