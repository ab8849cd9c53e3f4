---------------------------- MODULE Rail_proofs ----------------------------
(***************************************************************************)
(* Proofs about one rail, for every choice of the periods, the error limit *)
(* and the modulus of millis().                                            *)
(*                                                                         *)
(* Each conjunct of the inductive invariant is preserved for a reason of   *)
(* its own, so each has its lemma; in all of them the step is split along  *)
(* the disjuncts of Next.                                                  *)
(***************************************************************************)
EXTENDS Rail, TLAPS

\* The inductive invariant: types, and what ties the flags of the recovery to
\* the true time that passed.
RailInv == FlagsType /\ CountersType /\ OffIsFinal /\ RecoveryBookkeeping

LEMMA OlderType ==
  ASSUME NEW a \in Age
  PROVE  Older(a) \in Age /\ Older(a) <= a + 1
BY PeriodsAssumption DEF Age, Older

LEMMA OlderUpToType ==
  ASSUME NEW cap \in Nat, NEW a \in 0 .. cap
  PROVE  /\ OlderUpTo(cap, a) \in 0 .. cap
         /\ OlderUpTo(cap, a) = cap \/ OlderUpTo(cap, a) = a + 1
BY DEF OlderUpTo

LEMMA InitEstablishes == Init => RailInv
<1> SUFFICES ASSUME Init PROVE RailInv
  OBVIOUS
<1>1. FlagsType
  BY DEF Init, FlagsType, State
<1>2. CountersType
  BY PeriodsAssumption DEF Init, CountersType, Age, OffCap, OnCap
<1>3. OffIsFinal /\ RecoveryBookkeeping
  BY PeriodsAssumption DEF Init, OffIsFinal, RecoveryBookkeeping, OnCap, Present
<1>4. QED
  BY <1>1, <1>2, <1>3 DEF RailInv

\* Flags stay Boolean and the state stays one of the enumeration.
LEMMA FlagsPreserved == FlagsType /\ [Next]_vars => FlagsType'
<1> SUFFICES ASSUME FlagsType, [Next]_vars PROVE FlagsType'
  OBVIOUS
<1> USE DEF FlagsType, State, controller, timers, chip, history
<1>1. CASE Call
  <2>1. CASE InitAbsent \/ InitMisconfigured \/ InitReady \/ ClearLatch
    BY <2>1 DEF InitAbsent, InitMisconfigured, InitReady, ClearLatch
  <2>2. CASE EnableRefused
    BY <2>2 DEF EnableRefused, vars
  <2>3. ASSUME NEW landed \in BOOLEAN, EnableOk(landed) PROVE FlagsType'
    BY <2>3 DEF EnableOk, WriteOperation
  <2>4. ASSUME NEW landed \in BOOLEAN, EnableFailed(landed) PROVE FlagsType'
    BY <2>4 DEF EnableFailed, WriteOperation
  <2>5. ASSUME NEW landed \in BOOLEAN, DisableOk(landed) PROVE FlagsType'
    BY <2>5 DEF DisableOk, WriteOperation
  <2>6. ASSUME NEW landed \in BOOLEAN, DisableFailed(landed) PROVE FlagsType'
    BY <2>6 DEF DisableFailed, WriteOperation
  <2>7. ASSUME NEW on \in BOOLEAN, NEW landed \in BOOLEAN,
               BridgeOperation(on, landed)
        PROVE  FlagsType'
    BY <2>7 DEF BridgeOperation, WriteOperation
  <2>8. QED
    BY <1>1, <2>1, <2>2, <2>3, <2>4, <2>5, <2>6, <2>7 DEF Call
<1>2. CASE Tick
  <2>1. CASE TickBusError \/ TickOperationUnread
    BY <2>1 DEF TickBusError, TickOperationUnread
  <2>2. Mirrored \in State
    BY DEF Mirrored
  <2>3. CASE TickNothingDue
    BY <2>2, <2>3 DEF TickNothingDue, TickRead
  <2>4. ASSUME NEW landed \in BOOLEAN, TickRestart(landed)
        PROVE  FlagsType'
    BY <2>2, <2>4 DEF TickRestart, TickRead, WriteOperation
  <2>5. ASSUME NEW landed \in BOOLEAN, NEW cycled \in BOOLEAN,
               TickForceOff(landed, cycled)
        PROVE  FlagsType'
    BY <2>2, <2>5 DEF TickForceOff, TickRead
  <2>6. QED
    BY <1>2, <2>1, <2>3, <2>4, <2>5 DEF Tick, GoodTick
<1>3. CASE Environment
  BY <1>3 DEF Environment, FetOn, FetOff, PowerLost, Reset
<1>4. CASE Advance
  BY <1>4 DEF Advance
<1>5. CASE UNCHANGED vars
  BY <1>5 DEF vars
<1>6. QED
  BY <1>1, <1>2, <1>3, <1>4, <1>5 DEF Next

\* Ages stay below the modulus, history clocks below their caps, and the error
\* streak below its limit: only a present rail is ticked.
LEMMA CountersPreserved ==
  CountersType /\ RecoveryBookkeeping /\ [Next]_vars => CountersType'
<1> SUFFICES ASSUME CountersType, RecoveryBookkeeping, [Next]_vars
             PROVE  CountersType'
  OBVIOUS
<1> USE PeriodsAssumption DEF CountersType, Age, OffCap, OnCap
<1>1. CASE Call
  <2>1. CASE \E landed \in BOOLEAN : EnableOk(landed)
    BY <2>1 DEF EnableOk, WriteOperation
  <2>2. CASE \E landed \in BOOLEAN : DisableOk(landed)
    BY <2>2 DEF DisableOk, WriteOperation, timers
  <2>3. CASE \E landed \in BOOLEAN : DisableFailed(landed)
    BY <2>3 DEF DisableFailed, WriteOperation, timers
  <2>4. CASE EnableRefused
    BY <2>4 DEF EnableRefused, vars, controller, timers, history
  <2>5. CASE InitAbsent \/ InitMisconfigured \/ InitReady \/ ClearLatch
    BY <2>5 DEF InitAbsent, InitMisconfigured, InitReady, ClearLatch, timers,
                history
  <2>6. CASE \E landed \in BOOLEAN : EnableFailed(landed)
    BY <2>6 DEF EnableFailed, WriteOperation, timers
  <2>7. CASE \E on, landed \in BOOLEAN : BridgeOperation(on, landed)
    BY <2>7 DEF BridgeOperation, WriteOperation, controller, timers
  <2>8. QED
    BY <1>1, <2>1, <2>2, <2>3, <2>4, <2>5, <2>6, <2>7 DEF Call
<1>2. CASE Tick
  <2>1. CASE TickBusError
    BY <2>1 DEF TickBusError, RecoveryBookkeeping, Present, timers
  <2>2. CASE TickOperationUnread
    BY <2>2 DEF TickOperationUnread, controller, timers
  <2>3. CASE TickNothingDue
    BY <2>3 DEF TickNothingDue, TickRead
  <2>4. ASSUME NEW landed \in BOOLEAN, TickRestart(landed)
        PROVE  CountersType'
    BY <2>4 DEF TickRestart, TickRead, WriteOperation
  <2>5. ASSUME NEW landed \in BOOLEAN, NEW cycled \in BOOLEAN,
               TickForceOff(landed, cycled)
        PROVE  CountersType'
    BY <2>5 DEF TickForceOff, TickRead
  <2>6. QED
    BY <1>2, <2>1, <2>2, <2>3, <2>4, <2>5 DEF Tick, GoodTick
<1>3. CASE Environment
  BY <1>3 DEF Environment, FetOn, FetOff, PowerLost, Reset, controller, timers,
              chip, history
<1>4. CASE Advance
  BY <1>4, OlderType, OlderUpToType DEF Advance, controller
<1>5. CASE UNCHANGED vars
  BY <1>5 DEF vars, controller, timers, history
<1>6. QED
  BY <1>1, <1>2, <1>3, <1>4, <1>5 DEF Next

\* off_acked is set by an acknowledged disable() only, which cancels the
\* recovery; a new recovery needs desired_on, which enable() alone sets.
LEMMA OffPreserved == OffIsFinal /\ [Next]_vars => OffIsFinal'
<1> SUFFICES ASSUME OffIsFinal, [Next]_vars PROVE OffIsFinal'
  OBVIOUS
<1> USE DEF OffIsFinal
<1>1. CASE Call
  BY <1>1 DEF Call, InitAbsent, InitMisconfigured, InitReady, EnableRefused,
              EnableOk, EnableFailed, DisableOk, DisableFailed, ClearLatch,
              BridgeOperation, vars, controller, history
<1>2. CASE Tick
  BY <1>2 DEF Tick, GoodTick, TickBusError, TickOperationUnread,
              TickNothingDue, TickRestart, TickForceOff, RecoveryDue, TickRead,
              controller
<1>3. CASE Environment \/ Advance
  BY <1>3 DEF Environment, FetOn, FetOff, PowerLost, Reset, Advance, controller,
              history
<1>4. CASE UNCHANGED vars
  BY <1>4 DEF vars, controller, history
<1>5. QED
  BY <1>1, <1>2, <1>3, <1>4 DEF Next

\* The ages tick() compares never run ahead of true time.  The one step that
\* could break it is TickForceOff on a rail that is still settling, and there
\* the observation flag is up and young enough to forbid it.
LEMMA BookkeepingPreserved ==
  CountersType /\ RecoveryBookkeeping /\ [Next]_vars => RecoveryBookkeeping'
<1> SUFFICES ASSUME CountersType, RecoveryBookkeeping, [Next]_vars
             PROVE  RecoveryBookkeeping'
  OBVIOUS
<1> USE PeriodsAssumption
    DEF CountersType, RecoveryBookkeeping, Age, OffCap, OnCap, Present
<1>1. CASE Call
  <2>1. CASE \E landed \in BOOLEAN : EnableOk(landed)
    BY <2>1 DEF EnableOk, WriteOperation
  <2>2. CASE \E landed \in BOOLEAN : DisableOk(landed)
    BY <2>2 DEF DisableOk, WriteOperation, timers
  <2>3. CASE \E landed \in BOOLEAN : DisableFailed(landed)
    BY <2>3 DEF DisableFailed, WriteOperation, timers
  <2>4. CASE EnableRefused
    BY <2>4 DEF EnableRefused, vars, controller, timers, chip, history
  <2>5. CASE InitAbsent \/ InitMisconfigured \/ InitReady
    BY <2>5 DEF InitAbsent, InitMisconfigured, InitReady, timers, chip, history
  <2>6. CASE ClearLatch
    <3>1. state' = "Absent" <=> state = "Absent"
      BY <2>6 DEF ClearLatch
    <3>2. UNCHANGED <<pending, undone, op, off_age, pending_age, on_age,
                      desired_on, observe, observe_age, streak>>
      BY <2>6 DEF ClearLatch, timers, chip, history
    <3>3. QED
      BY <3>1, <3>2
  <2>7. ASSUME NEW landed \in BOOLEAN, EnableFailed(landed)
        PROVE  RecoveryBookkeeping'
    <3>1. /\ pending' /\ ~undone' => pending /\ ~undone /\ ~op'
          /\ ~op' => off_age' = off_age
      BY ONLY <2>7, Zenon DEF EnableFailed, WriteOperation
    <3>2. /\ UNCHANGED <<pending_age, on_age, observe, observe_age, state, streak>>
          /\ desired_on'
      BY <2>7, Zenon DEF EnableFailed, timers
    <3>3. QED
      BY <3>1, <3>2
  <2>8. ASSUME NEW on \in BOOLEAN, NEW landed \in BOOLEAN,
               BridgeOperation(on, landed)
        PROVE  RecoveryBookkeeping'
    <3>1. /\ pending' /\ ~undone' => pending /\ ~undone /\ ~op'
          /\ ~op' => off_age' = off_age
      BY ONLY <2>8, Zenon DEF BridgeOperation, WriteOperation, controller
    <3>2. UNCHANGED <<pending_age, on_age, observe, observe_age, desired_on, state,
                      streak>>
      BY <2>8, Zenon DEF BridgeOperation, controller, timers
    <3>3. QED
      BY <3>1, <3>2
  <2>9. QED
    BY <1>1, <2>1, <2>2, <2>3, <2>4, <2>5, <2>6, <2>7, <2>8 DEF Call
<1>2. CASE Tick
  <2>1. CASE TickBusError
    BY <2>1 DEF TickBusError, timers, chip
  <2>2. CASE TickOperationUnread
    BY <2>2 DEF TickOperationUnread, controller, timers, chip
  <2>3. CASE TickNothingDue
    BY <2>3 DEF TickNothingDue, TickRead, chip
  <2>4. ASSUME NEW landed \in BOOLEAN, TickRestart(landed)
        PROVE  RecoveryBookkeeping'
    BY <2>4 DEF TickRestart, TickRead, WriteOperation
  <2>5. ASSUME NEW landed \in BOOLEAN, NEW cycled \in BOOLEAN,
               TickForceOff(landed, cycled)
        PROVE  RecoveryBookkeeping'
    <3>1. ~Observing /\ desired_on
      BY <2>5 DEF TickForceOff, RecoveryDue
    <3>2. on_age = OnCap
      BY <3>1 DEF Observing
    <3>3. QED
      BY <2>5, <3>1, <3>2 DEF TickForceOff, TickRead
  <2>6. QED
    BY <1>2, <2>1, <2>2, <2>3, <2>4, <2>5 DEF Tick, GoodTick
<1>3. CASE Environment
  BY <1>3 DEF Environment, FetOn, FetOff, PowerLost, Reset, controller, timers,
              chip, history
<1>4. CASE Advance
  <2>1. /\ pending_age' \in Age /\ pending_age' <= pending_age + 1
        /\ observe_age' \in Age /\ observe_age' <= observe_age + 1
    BY <1>4, OlderType DEF Advance
  <2>2. /\ off_age' \in 0 .. OffCap /\ on_age' \in 0 .. OnCap
        /\ ~op => off_age' = OffCap \/ off_age' = off_age + 1
        /\ on_age' = OnCap \/ on_age' = on_age + 1
    BY <1>4, OlderUpToType DEF Advance
  <2>3. UNCHANGED <<state, desired_on, pending, observe, streak, op, undone>>
    BY <1>4 DEF Advance, controller, chip
  <2>4. (pending /\ ~undone
           => ~op /\ (off_age >= pending_age \/ off_age = OffCap))'
    BY <2>1, <2>2, <2>3
  <2>5. (on_age < OnCap => desired_on /\ observe /\ observe_age <= on_age)'
    BY <2>1, <2>2, <2>3
  <2>6. (state # "Absent" => streak < MaxBusErrors)'
    BY <2>3
  <2>7. QED
    BY <2>4, <2>5, <2>6
<1>5. CASE UNCHANGED vars
  BY <1>5 DEF vars, controller, timers, chip, history
<1>6. QED
  BY <1>1, <1>2, <1>3, <1>4, <1>5 DEF Next

LEMMA Invariance == Spec => []RailInv
<1>1. RailInv /\ [Next]_vars => RailInv'
  BY FlagsPreserved, CountersPreserved, OffPreserved, BookkeepingPreserved
     DEF RailInv
<1>2. QED
  BY InitEstablishes, <1>1, PTL DEF Spec

-----------------------------------------------------------------------------
\* Every variable keeps its type; in particular the error streak never passes
\* its limit, because a rail that reaches it stops being ticked.
THEOREM TypeCorrect == Spec => []TypeOK
<1>1. RailInv => TypeOK
  BY DEF RailInv, TypeOK
<1>2. QED
  BY <1>1, Invariance, PTL

\* An acknowledged disable() is final until enable() is called.
THEOREM OffStaysOff == Spec => []OffIsFinal
<1>1. RailInv => OffIsFinal
  BY DEF RailInv
<1>2. QED
  BY <1>1, Invariance, PTL

\* The ages tick() compares never run ahead of true time.
THEOREM BookkeepingHolds == Spec => []RecoveryBookkeeping
<1>1. RailInv => RecoveryBookkeeping
  BY DEF RailInv
<1>2. QED
  BY <1>1, Invariance, PTL

\* A restart never shortens the time a chip that took its OFF is left off.
THEOREM CooldownHolds == Spec => CooldownRespected
<1>1. RailInv /\ [Next]_vars
        => [(\E landed \in BOOLEAN : TickRestart(landed))
              => undone \/ (~op /\ off_age = OffCap)]_vars
  <2> SUFFICES ASSUME RailInv, NEW landed \in BOOLEAN, TickRestart(landed)
               PROVE  undone \/ (~op /\ off_age = OffCap)
    OBVIOUS
  <2>1. pending /\ pending_age >= RestartWait
    BY DEF TickRestart, RestartDue
  <2>2. off_age \in 0 .. RestartWait /\ pending_age \in Age
    BY DEF RailInv, CountersType, OffCap
  <2>3. undone \/ (~op /\ (off_age >= pending_age \/ off_age = OffCap))
    BY <2>1 DEF RailInv, RecoveryBookkeeping
  <2>4. QED
    BY <2>1, <2>2, <2>3, PeriodsAssumption DEF OffCap, Age
<1>2. QED
  BY <1>1, Invariance, PTL DEF Spec, CooldownRespected

\* A wanted rail that was just commanded on is left alone.
THEOREM SettleHolds == Spec => SettleRespected
<1>1. RailInv /\ [Next]_vars
        => [(\E landed, cycled \in BOOLEAN : TickForceOff(landed, cycled))
              => on_age = OnCap]_vars
  <2> SUFFICES ASSUME RailInv, NEW landed \in BOOLEAN, NEW cycled \in BOOLEAN,
                      TickForceOff(landed, cycled)
               PROVE  on_age = OnCap
    OBVIOUS
  <2>1. ~(observe /\ observe_age < ObservePeriod)
    BY DEF TickForceOff, RecoveryDue, Observing
  <2>2. on_age \in 0 .. ObservePeriod /\ observe_age \in Age
    BY DEF RailInv, CountersType, OnCap
  <2>3. on_age < OnCap => observe /\ observe_age <= on_age
    BY DEF RailInv, RecoveryBookkeeping
  <2>4. QED
    BY <2>1, <2>2, <2>3, PeriodsAssumption DEF OnCap, Age
<1>2. QED
  BY <1>1, Invariance, PTL DEF Spec, SettleRespected

-----------------------------------------------------------------------------
(* The detailed rail implements RailContract: the initial states of Rail     *)
(* show an initial state of the contract, and every step of Rail shows one   *)
(* of its steps or nothing.  Only the types of the flags are needed.         *)

LEMMA InitRefines == Init => Contract!Init
BY DEF Init, Contract!Init, shown

\* A write landed or was lost.
LEMMA WithOp ==
  ASSUME NEW s, NEW d, NEW p, NEW o, NEW on, NEW o2 \in {on, o}
  PROVE  [state |-> s, desired_on |-> d, pending |-> p, op |-> o2] \in
           Contract!Written(
             [state |-> s, desired_on |-> d, pending |-> p, op |-> o], on)
<1>1. [[state |-> s, desired_on |-> d, pending |-> p, op |-> o]
         EXCEPT !.op = on] =
        [state |-> s, desired_on |-> d, pending |-> p, op |-> on]
  OBVIOUS
<1>2. QED
  BY <1>1 DEF Contract!Written

\* In the cases of a refused write the truth value the call assigns is hidden
\* behind a name while a record is updated: the provers take it for a term.
LEMMA CallRefines ==
  ASSUME FlagsType, Call
  PROVE  [Contract!Next]_shown
<1> USE DEF shown
<1>1. CASE InitAbsent \/ InitMisconfigured \/ InitReady
  <2>1. shown' \in Contract!InitOutcomes(shown)
    BY <1>1 DEF InitAbsent, InitMisconfigured, InitReady, chip,
                Contract!InitOutcomes
  <2>2. shown.state = "Boot"
    BY <1>1 DEF InitAbsent, InitMisconfigured, InitReady
  <2>3. QED
    BY <2>1, <2>2 DEF Contract!Next, Contract!init
<1>2. CASE EnableRefused
  BY <1>2 DEF EnableRefused, vars, controller, chip
<1>3. ASSUME NEW landed \in BOOLEAN, EnableOk(landed)
      PROVE  Contract!Next
  <2>1. op' \in {TRUE, op}
    BY <1>3 DEF EnableOk, WriteOperation
  <2>2. shown.state \notin {"Boot", "Absent", "Latched"}
    BY <1>3 DEF EnableOk
  <2> DEFINE w == [state |-> state, desired_on |-> desired_on,
                   pending |-> pending, op |-> op']
  <2>3. w \in Contract!Written(shown, TRUE)
    BY <2>1, WithOp
  <2>4. shown' = Contract!Enabled(w)
    BY <1>3 DEF EnableOk, Contract!Enabled
  <2> HIDE DEF w
  <2>5. QED
    BY <2>2, <2>3, <2>4
       DEF Contract!Next, Contract!enable, Contract!EnableOutcomes
<1>4. ASSUME NEW landed \in BOOLEAN, EnableFailed(landed)
      PROVE  Contract!Next
  <2>1. op' \in {TRUE, op}
    BY <1>4 DEF EnableFailed, WriteOperation
  <2>2. shown.state \notin {"Boot", "Absent", "Latched"}
    BY <1>4 DEF EnableFailed
  <2> DEFINE w == [state |-> state, desired_on |-> desired_on,
                   pending |-> pending, op |-> op']
  <2>3. w \in Contract!Written(shown, TRUE)
    BY <2>1, WithOp
  <2> DEFINE wanted == TRUE
  <2> HIDE DEF wanted
  <2>4. [w EXCEPT !.desired_on = wanted] =
          [state |-> state, desired_on |-> wanted,
           pending |-> pending, op |-> op']
    OBVIOUS
  <2>5. [w EXCEPT !.desired_on = TRUE] =
          [state |-> state, desired_on |-> TRUE, pending |-> pending, op |-> op']
    BY <2>4 DEF wanted
  <2>6. shown' = [w EXCEPT !.desired_on = TRUE]
    BY <1>4, <2>5 DEF EnableFailed
  <2> HIDE DEF w
  <2>7. QED
    BY <2>2, <2>3, <2>6
       DEF Contract!Next, Contract!enable, Contract!EnableOutcomes
<1>5. ASSUME NEW landed \in BOOLEAN, DisableOk(landed)
      PROVE  Contract!Next
  <2>1. op' \in {FALSE, op}
    BY <1>5 DEF DisableOk, WriteOperation
  <2>2. shown.state # "Boot"
    BY <1>5 DEF DisableOk
  <2> DEFINE w == [state |-> state, desired_on |-> desired_on,
                   pending |-> pending, op |-> op']
  <2>3. w \in Contract!Written(shown, FALSE)
    BY <2>1, WithOp
  <2>4. shown' = Contract!Disabled(w)
    BY <1>5 DEF DisableOk, Contract!Disabled
  <2> HIDE DEF w
  <2>5. QED
    BY <2>2, <2>3, <2>4 DEF Contract!Next, Contract!disable, Contract!DisableAcks
<1>6. ASSUME NEW landed \in BOOLEAN, DisableFailed(landed)
      PROVE  Contract!Next
  <2>1. op' \in {FALSE, op}
    BY <1>6 DEF DisableFailed, WriteOperation
  <2>2. shown.state # "Boot"
    BY <1>6 DEF DisableFailed
  <2> DEFINE w == [state |-> state, desired_on |-> desired_on,
                   pending |-> pending, op |-> op']
  <2>3. w \in Contract!Written(shown, FALSE)
    BY <2>1, WithOp
  <2> DEFINE wanted == FALSE
  <2> HIDE DEF wanted
  <2>4. [w EXCEPT !.desired_on = wanted] =
          [state |-> state, desired_on |-> wanted,
           pending |-> pending, op |-> op']
    OBVIOUS
  <2>5. [w EXCEPT !.desired_on = FALSE] =
          [state |-> state, desired_on |-> FALSE, pending |-> pending, op |-> op']
    BY <2>4 DEF wanted
  <2>6. shown' = [w EXCEPT !.desired_on = FALSE]
    BY <1>6, <2>5 DEF DisableFailed
  <2> HIDE DEF w
  <2>7. QED
    BY <2>2, <2>3, <2>6
       DEF Contract!Next, Contract!disable, Contract!DisableRefusals
<1>7. CASE ClearLatch
  <2>1. shown' = Contract!Unlatched(shown)
    BY <1>7 DEF ClearLatch, chip, Contract!Unlatched
  <2>2. QED
    BY <2>1 DEF Contract!Next, Contract!clearLatch
<1>8. ASSUME NEW on \in BOOLEAN, NEW landed \in BOOLEAN,
             BridgeOperation(on, landed)
      PROVE  Contract!Next
  <2>1. op' \in BOOLEAN
    BY <1>8 DEF BridgeOperation, WriteOperation, FlagsType
  <2>2. shown' = [shown EXCEPT !.op = op'] /\ shown.state # "Boot"
    BY <1>8 DEF BridgeOperation, controller
  <2>3. QED
    BY <2>1, <2>2 DEF Contract!Next, Contract!bridge
<1>9. QED
  BY <1>1, <1>2, <1>3, <1>4, <1>5, <1>6, <1>7, <1>8 DEF Call

\* Mirroring OPERATION into state_ is the contract's Followed.
LEMMA MirrorShows ==
  Contract!Followed(shown) =
    [state |-> Mirrored, desired_on |-> desired_on,
     pending |-> pending, op |-> op]
BY DEF shown, Contract!Followed, Mirrored

LEMMA TickRefines ==
  ASSUME FlagsType, Tick
  PROVE  Contract!Next
<1> DEFINE followed == Contract!Followed(shown)
<1>1. followed = [state |-> Mirrored, desired_on |-> desired_on,
                  pending |-> pending, op |-> op]
  BY MirrorShows
<1>2. Contract!IsPresent(shown)
  BY DEF Tick, TickBusError, TickOperationUnread, GoodTick, TickNothingDue,
         TickRestart, TickForceOff, TickRead, Present, Contract!IsPresent, shown
<1>3. ASSUME \/ shown' = shown
             \/ shown' = [shown EXCEPT !.state = "Absent"]
             \/ shown' = followed
             \/ shown' \in Contract!RecoveryOutcomes(followed)
      PROVE  Contract!Next
  BY <1>2, <1>3 DEF Contract!Next, Contract!tick, Contract!TickOutcomes
<1> HIDE DEF followed
<1>4. CASE TickBusError
  BY <1>3, <1>4 DEF TickBusError, shown, chip
<1>5. CASE TickOperationUnread
  BY <1>3, <1>5 DEF TickOperationUnread, shown, controller, chip
<1>6. CASE TickNothingDue
  BY <1>1, <1>3, <1>6 DEF TickNothingDue, TickRead, shown, chip
<1>7. ASSUME NEW landed \in BOOLEAN, TickRestart(landed)
      PROVE  Contract!Next
  <2>1. op' \in {TRUE, op}
    BY <1>7 DEF TickRestart, WriteOperation
  <2>2. followed.pending
    BY <1>1, <1>7 DEF TickRestart, RestartDue
  <2> DEFINE w == [state |-> Mirrored, desired_on |-> desired_on,
                   pending |-> pending, op |-> op']
  <2>3. w \in Contract!Written(followed, TRUE)
    BY <1>1, <2>1, WithOp
  <2> DEFINE recovering == FALSE
  <2> HIDE DEF recovering
  <2>4. [w EXCEPT !.pending = recovering] =
          [state |-> Mirrored, desired_on |-> desired_on,
           pending |-> recovering, op |-> op']
    OBVIOUS
  <2>5. [w EXCEPT !.pending = FALSE] =
          [state |-> Mirrored, desired_on |-> desired_on,
           pending |-> FALSE, op |-> op']
    BY <2>4 DEF recovering
  <2>6. shown' = [w EXCEPT !.pending = FALSE]
    BY <1>7, <2>5 DEF TickRestart, TickRead, shown
  <2> HIDE DEF w
  <2>7. QED
    BY <1>3, <2>2, <2>3, <2>6 DEF Contract!RecoveryOutcomes
<1>8. ASSUME NEW landed \in BOOLEAN, NEW cycled \in BOOLEAN,
             TickForceOff(landed, cycled)
      PROVE  Contract!Next
  <2>1. op' \in {FALSE, op}
    BY <1>8 DEF TickForceOff, FlagsType
  <2>2. ~followed.pending /\ followed.desired_on
    BY <1>1, <1>8 DEF TickForceOff, RecoveryDue
  <2> DEFINE w == [state |-> Mirrored, desired_on |-> desired_on,
                   pending |-> pending, op |-> op']
  <2>3. w \in Contract!Written(followed, FALSE)
    BY <1>1, <2>1, WithOp
  <2> DEFINE recovering == TRUE
  <2> HIDE DEF recovering
  <2>4. [w EXCEPT !.pending = recovering] =
          [state |-> Mirrored, desired_on |-> desired_on,
           pending |-> recovering, op |-> op']
    OBVIOUS
  <2>5. [w EXCEPT !.pending = TRUE] =
          [state |-> Mirrored, desired_on |-> desired_on,
           pending |-> TRUE, op |-> op']
    BY <2>4 DEF recovering
  <2>6. shown' = [w EXCEPT !.pending = TRUE]
    BY <1>8, <2>5 DEF TickForceOff, TickRead, shown
  <2> HIDE DEF w
  <2>7. QED
    BY <1>3, <2>2, <2>3, <2>6 DEF Contract!RecoveryOutcomes
<1>9. QED
  BY <1>4, <1>5, <1>6, <1>7, <1>8 DEF Tick, GoodTick

LEMMA StepRefines ==
  ASSUME FlagsType, [Next]_vars
  PROVE  [Contract!Next]_shown
<1>1. CASE Call
  BY <1>1, CallRefines
<1>2. CASE Tick
  BY <1>2, TickRefines
<1>3. CASE FetOn \/ FetOff \/ Advance
  BY <1>3 DEF FetOn, FetOff, Advance, shown, controller, chip
<1>4. CASE Reset
  <2>1. shown' = Contract!Rebooted(shown)
    BY <1>4 DEF Reset, shown, chip, Contract!Rebooted
  <2>2. QED
    BY <2>1 DEF Contract!Next, Contract!reset
<1>5. CASE PowerLost
  <2>1. UNCHANGED <<state, desired_on, pending>> /\ op' = TRUE
    BY <1>5 DEF PowerLost, controller
  <2> DEFINE on == TRUE
  <2> HIDE DEF on
  <2>2. [shown EXCEPT !.op = on] = [state |-> state, desired_on |-> desired_on,
                                    pending |-> pending, op |-> on]
    BY DEF shown
  <2>3. shown' = [shown EXCEPT !.op = TRUE]
    BY <2>1, <2>2 DEF shown, on
  <2>4. QED
    BY <2>3 DEF Contract!Next, Contract!powerLost, Contract!PoweredUp
<1>6. CASE UNCHANGED vars
  BY <1>6 DEF vars, controller, chip, shown
<1>7. QED
  BY <1>1, <1>2, <1>3, <1>4, <1>5, <1>6 DEF Next, Environment

\* Every behaviour of the detailed rail is one the supervisor may meet: what is
\* shown of a rail moves only by the outcomes of its calls, ticks, bridge writes,
\* power losses and resets.
THEOREM RefinesContract == Spec => ImplementsContract
<1>1. RailInv => FlagsType
  BY DEF RailInv
<1>2. RailInv /\ [Next]_vars => [Contract!Next]_shown
  BY <1>1, StepRefines
<1>3. QED
  BY InitRefines, Invariance, <1>2, PTL
     DEF Spec, ImplementsContract, Contract!Spec
=============================================================================
