------------------------- MODULE LoopTiming_proofs -------------------------
(***************************************************************************)
(* Proofs about the watchdog and the loop, for every period, every number  *)
(* of parts of setup() and every tolerance of the oscillator: the watchdog *)
(* delivers the bound EStop takes for granted, bites in loop() only after   *)
(* a slow pass, and leaves the E-Stop's own safety intact.                 *)
(***************************************************************************)
EXTENDS LoopTiming, TLAPS

-----------------------------------------------------------------------------
(* The debounce, for every debounce time, watchdog bound and clock modulus:  *)
(* TypeOK and DebounceAgeHonest are inductive together, and the action       *)
(* property follows from them.                                              *)

EStopInv == TypeOK /\ DebounceAgeHonest

LEMMA InitEstablishes == Init => EStopInv
<1> SUFFICES ASSUME Init PROVE EStopInv
  OBVIOUS
<1>1. /\ line \in BOOLEAN
      /\ asserted_raw \in BOOLEAN /\ asserted_stable \in BOOLEAN
      /\ local_assert \in BOOLEAN /\ vtx_state \in BOOLEAN
  BY DEF Init
<1>2. /\ change_age \in 0 .. EStopWrap - 1 /\ steady_age \in 0 .. Debounce
      /\ gap \in 0 .. MaxGap
      /\ steady_age >= change_age
  BY DebounceAssumption DEF Init
<1>3. QED
  BY <1>1, <1>2 DEF EStopInv, TypeOK, DebounceAgeHonest

\* The levels are copies of one another or of a Boolean argument.
LEMMA LevelsPreserved ==
  ASSUME TypeOK, [Next]_vars
  PROVE  /\ line' \in BOOLEAN
         /\ asserted_raw' \in BOOLEAN /\ asserted_stable' \in BOOLEAN
         /\ local_assert' \in BOOLEAN /\ vtx_state' \in BOOLEAN
<1> USE DEF TypeOK
<1>1. CASE LineMoves \/ Advance \/ Reboot
  BY <1>1 DEF LineMoves, Advance, Reboot, inputs, outputs
<1>2. CASE Tick
  BY <1>2 DEF Tick, TickEdge, TickPromote, TickWait, inputs, outputs
<1>3. ASSUME NEW engage \in BOOLEAN, AssertLocal(engage) \/ SetVtx(engage)
      PROVE  /\ line' \in BOOLEAN
             /\ asserted_raw' \in BOOLEAN /\ asserted_stable' \in BOOLEAN
             /\ local_assert' \in BOOLEAN /\ vtx_state' \in BOOLEAN
  BY <1>3 DEF AssertLocal, SetVtx, inputs
<1>4. CASE UNCHANGED vars
  BY <1>4 DEF vars, inputs, outputs
<1>5. QED
  BY <1>1, <1>2, <1>3, <1>4 DEF Next

Clocks ==
  /\ change_age \in 0 .. EStopWrap - 1
  /\ steady_age \in 0 .. Debounce
  /\ gap \in 0 .. MaxGap
  /\ steady_age >= change_age \/ steady_age = Debounce

\* The clocks move together in Advance, where the age may wrap to 0 but never
\* gains on the true time; every edge and every reboot restarts both.
LEMMA ClocksPreserved == Clocks /\ [Next]_vars => Clocks'
<1> SUFFICES ASSUME Clocks, [Next]_vars PROVE Clocks'
  OBVIOUS
<1> USE DebounceAssumption DEF Clocks
<1>1. CASE LineMoves
  BY <1>1 DEF LineMoves, inputs
<1>2. CASE Tick
  BY <1>2 DEF Tick, TickEdge, TickPromote, TickWait, inputs
<1>3. CASE \E engage \in BOOLEAN : AssertLocal(engage) \/ SetVtx(engage)
  BY <1>3 DEF AssertLocal, SetVtx, inputs
<1>4. CASE Advance
  BY <1>4 DEF Advance
<1>5. CASE Reboot
  BY <1>5 DEF Reboot
<1>6. CASE UNCHANGED vars
  BY <1>6 DEF vars, inputs
<1>7. QED
  BY <1>1, <1>2, <1>3, <1>4, <1>5, <1>6 DEF Next

LEMMA Invariance == Spec => []EStopInv
<1>1. EStopInv => TypeOK /\ Clocks
  BY DEF EStopInv, TypeOK, DebounceAgeHonest, Clocks
<1>2. EStopInv /\ [Next]_vars => EStopInv'
  BY <1>1, LevelsPreserved, ClocksPreserved
     DEF EStopInv, TypeOK, DebounceAgeHonest, Clocks
<1>3. QED
  BY InitEstablishes, <1>2, PTL DEF Spec

-----------------------------------------------------------------------------
\* The debounce clocks stay in range and the levels stay Boolean.
THEOREM TypeCorrect == Spec => []TypeOK
<1>1. EStopInv => TypeOK
  BY DEF EStopInv
<1>2. QED
  BY <1>1, Invariance, PTL

\* The elapsed time tick() computes is never more than the true time, up to the
\* debounce window, for any modulus of millis().
THEOREM AgeIsHonest == Spec => []DebounceAgeHonest
<1>1. EStopInv => DebounceAgeHonest
  BY DEF EStopInv
<1>2. QED
  BY <1>1, Invariance, PTL

\* Outside a reboot only tick() moves the debounced level, and it promotes a
\* level that every sample has shown for the whole debounce time.
THEOREM PromotionIsSteady == Spec => PromotedOnlyWhenSteady
<1>1. EStopInv /\ [Next]_vars
        => [asserted_stable' # asserted_stable /\ ~Reboot
              => steady_age = Debounce /\ asserted_stable' = asserted_raw]_vars
  <2> SUFFICES ASSUME EStopInv, [Next]_vars,
                      asserted_stable' # asserted_stable, ~Reboot
               PROVE  steady_age = Debounce /\ asserted_stable' = asserted_raw
    OBVIOUS
  <2>1. TickPromote
    BY DEF Next, LineMoves, Tick, TickEdge, TickWait, AssertLocal, SetVtx,
           Advance, vars, inputs
  <2>2. change_age >= Debounce /\ asserted_stable' = asserted_raw
    BY <2>1 DEF TickPromote
  <2>3. steady_age = Debounce
    BY <2>2, DebounceAssumption DEF EStopInv, TypeOK, DebounceAgeHonest
  <2>4. QED
    BY <2>2, <2>3
<1>2. QED
  BY <1>1, Invariance, PTL DEF Spec, PromotedOnlyWhenSteady

\* What steady_age keeps of a time.
Capped(age) == IF age < Debounce THEN age ELSE Debounce

\* The other half: no clock can wrap while a level waits, since the bound on the
\* time between two samples and the window together are below the modulus.
LEMMA StillInTime ==
  ASSUME Clocks, PromotedInTime, [Next]_vars
  PROVE  PromotedInTime'
<1> SUFFICES ASSUME asserted_raw' # asserted_stable'
             PROVE  /\ gap' <= change_age' /\ change_age' < gap' + Debounce
                    /\ steady_age' = Capped(change_age')
  BY DEF PromotedInTime, Capped
<1> USE DebounceAssumption DEF Clocks, Capped
<1>1. CASE LineMoves \/ (\E engage \in BOOLEAN : AssertLocal(engage) \/ SetVtx(engage))
           \/ UNCHANGED vars
  <2>1. UNCHANGED <<inputs, steady_age, gap>>
    BY <1>1 DEF LineMoves, AssertLocal, SetVtx, vars
  <2>2. QED
    BY <2>1 DEF inputs, PromotedInTime
<1>2. CASE Tick
  <2>1. gap' = 0
    BY <1>2 DEF Tick
  <2>2. CASE TickEdge
    <3>1. change_age' = 0 /\ steady_age' = 0
      BY <2>2 DEF TickEdge
    <3>2. QED
      BY <2>1, <3>1
  <2>3. CASE TickPromote
    BY <2>3 DEF TickPromote
  <2>4. CASE TickWait
    <3>1. change_age' = change_age /\ change_age < Debounce /\ steady_age' = steady_age
      BY <2>4 DEF TickWait, inputs
    <3>2. steady_age = Capped(change_age)
      BY <2>4 DEF TickWait, inputs, PromotedInTime
    <3>3. QED
      BY <2>1, <3>1, <3>2
  <2>5. QED
    BY <1>2, <2>2, <2>3, <2>4 DEF Tick
<1>3. CASE Advance
  <2>1. /\ gap < MaxGap /\ gap' = gap + 1
        /\ change_age' = IF change_age = EStopWrap - 1 THEN 0 ELSE change_age + 1
        /\ steady_age' = IF steady_age = Debounce THEN Debounce ELSE steady_age + 1
    BY <1>3 DEF Advance
  <2>2. gap <= change_age /\ change_age < gap + Debounce /\ steady_age = Capped(change_age)
    BY <1>3 DEF Advance, PromotedInTime
  <2>3. QED
    BY <2>1, <2>2
<1>4. CASE Reboot
  BY <1>4 DEF Reboot
<1>5. QED
  BY <1>1, <1>2, <1>3, <1>4 DEF Next

\* A sampled level that holds is promoted by the first sample at the end of its
\* window, however far apart samples are and however millis() wraps.
THEOREM PromotionIsPrompt == Spec => []PromotedInTime
<1>1. Init => PromotedInTime
  BY DEF Init, PromotedInTime
<1>2. EStopInv => Clocks
  BY DEF EStopInv, TypeOK, DebounceAgeHonest, Clocks
<1>3. QED
  BY <1>1, <1>2, Invariance, StillInTime, PTL DEF Spec

-----------------------------------------------------------------------------
(* The watchdog and the loop.                                               *)

TimingType ==
  /\ stage \in 0 .. Looping
  /\ period \in Periods
  /\ since \in 0 .. period
  /\ slow \in BOOLEAN
  /\ gap \in Nat

\* How long ago the last sample is, part by part.
GapSoFar ==
  /\ stage = 0 => gap <= Early /\ since = 0
  /\ stage \in 1 .. Parts + 1 => gap <= Early + (stage - 1) * period + since
  /\ stage = Looping => gap <= since

\* As long as no pass was slow, the watchdog is as old as this pass.
SlowOrFresh == stage = Looping /\ ~slow => since = gap

TimingInv == TimingType /\ GapSoFar /\ SlowOrFresh

\* A step in which nothing of the timing moves.
LEMMA TimingUntouched ==
  ASSUME TimingInv, UNCHANGED timing, UNCHANGED gap
  PROVE  TimingInv'
BY DEF TimingInv, TimingType, GapSoFar, SlowOrFresh, timing, Looping

LEMMA TimingInit == LoopInit => TimingInv
<1> SUFFICES ASSUME LoopInit PROVE TimingInv
  OBVIOUS
<1>1. stage = 0 /\ since = 0 /\ gap = 0 /\ period \in Periods /\ slow = FALSE
  BY DEF LoopInit, Init
<1>2. 0 \in 0 .. Looping /\ 0 \notin 1 .. Parts + 1 /\ Looping # 0
  BY TimingAssumption DEF Looping
<1>3. 0 \in 0 .. period /\ 0 <= Early
  BY <1>1, TimingAssumption
<1>4. slow \in BOOLEAN
  BY <1>1
<1>5. TimingType
  BY <1>1, <1>2, <1>3, <1>4 DEF TimingType
<1>6. GapSoFar /\ SlowOrFresh
  BY <1>1, <1>2, <1>3 DEF GapSoFar, SlowOrFresh
<1>7. QED
  BY <1>5, <1>6 DEF TimingInv

\* A kick closes a part: what the watchdog counted moves into the sum.
LEMMA KickKeepsTiming == TimingInv /\ SetupKick => TimingInv'
<1> SUFFICES ASSUME TimingInv, SetupKick PROVE TimingInv'
  OBVIOUS
<1> USE TimingAssumption DEF TimingInv, TimingType, Looping
<1>1. /\ stage <= Parts /\ since < period
      /\ stage' = stage + 1 /\ since' = 0
      /\ period' = period /\ slow' = slow /\ gap' = gap
  BY DEF SetupKick, vars
<1>2. TimingType'
  <2>1. stage' \in 0 .. Looping /\ since' \in 0 .. period' /\ gap' \in Nat
    BY <1>1
  <2>2. slow' \in BOOLEAN /\ period' \in Periods
    BY <1>1
  <2>3. QED
    BY <2>1, <2>2
<1>3. stage' \in 1 .. Parts + 1 /\ stage' # Looping
  BY <1>1
<1>4. gap' <= Early + (stage' - 1) * period' + since'
  <2>1. CASE stage = 0
    BY <1>1, <2>1 DEF GapSoFar
  <2>2. CASE stage # 0
    <3>1. gap <= Early + (stage - 1) * period + since
      BY <1>1, <2>2 DEF GapSoFar
    <3>2. stage * period = (stage - 1) * period + period
      BY <1>1
    <3>3. QED
      BY <1>1, <3>1, <3>2
  <2>3. QED
    BY <2>1, <2>2
<1>5. stage' # 0 /\ stage' \in Nat
  BY <1>3
<1>6. GapSoFar' /\ SlowOrFresh'
  BY <1>3, <1>4, <1>5 DEF GapSoFar, SlowOrFresh
<1>7. QED
  BY <1>2, <1>6

\* A pass starts with a sample.
LEMMA PassKeepsTiming == TimingInv /\ (FirstPass \/ NextPass) => TimingInv'
<1> SUFFICES ASSUME TimingInv, FirstPass \/ NextPass PROVE TimingInv'
  OBVIOUS
<1> USE TimingAssumption DEF TimingInv, TimingType, Looping
<1>1. gap' = 0 /\ stage' = Looping /\ period' = period
  BY DEF FirstPass, NextPass, Tick
<1>2. since' \in 0 .. period'
  BY DEF FirstPass, NextPass
<1>3. slow' \in BOOLEAN /\ (~slow' => since' = 0)
  <2>1. CASE FirstPass
    <3> DEFINE late == since > 0
    <3>1. slow' = late /\ since' = since
      BY <2>1 DEF FirstPass
    <3>2. ~late => since = 0
      OBVIOUS
    <3>3. late \in BOOLEAN
      OBVIOUS
    <3> HIDE DEF late
    <3>4. QED
      BY <3>1, <3>2, <3>3, Zenon
  <2>2. CASE NextPass
    <3> DEFINE fine == Healthy(gap)
               over == gap > HalfPeriod
    <3>1. slow' = (~fine /\ (slow \/ over)) /\ (fine => since' = 0)
      BY <2>2 DEF NextPass
    <3>2. ~fine => over
      BY DEF Healthy
    <3> HIDE DEF fine, over
    <3>3. QED
      BY <3>1, <3>2, Zenon
  <2>3. QED
    BY <2>1, <2>2
<1>4. gap' \in Nat /\ stage' \in 0 .. Looping /\ period' \in Periods
  BY <1>1
<1>5. TimingType'
  BY <1>2, <1>3, <1>4
<1>6. stage' # 0 /\ stage' \notin 1 .. Parts + 1 /\ gap' <= since'
  BY <1>1, <1>2
<1>7. GapSoFar' /\ SlowOrFresh'
  BY <1>1, <1>3, <1>6 DEF GapSoFar, SlowOrFresh
<1>8. QED
  BY <1>5, <1>7

\* Time passes on both clocks alike once the watchdog is armed.
LEMMA TimeKeepsTiming == TimingInv /\ Time => TimingInv'
<1> SUFFICES ASSUME TimingInv, Time PROVE TimingInv'
  OBVIOUS
<1> USE TimingAssumption DEF TimingInv, TimingType, Looping
<1>1. gap' = gap + 1 /\ stage' = stage /\ period' = period /\ slow' = slow
  BY DEF Time, Advance
<1>2. stage = 0 => gap < Early /\ since' = since
  BY DEF Time, Armed
<1>3. stage # 0 => since < period /\ since' = since + 1
  BY DEF Time, Armed
<1>4. TimingType'
  <2>1. since' \in 0 .. period' /\ gap' \in Nat /\ stage' \in 0 .. Looping
    BY <1>1, <1>2, <1>3
  <2>2. slow' \in BOOLEAN /\ period' \in Periods
    BY <1>1
  <2>3. QED
    BY <2>1, <2>2
<1>5. GapSoFar'
  <2>1. CASE stage = 0
    BY <1>1, <1>2, <2>1 DEF GapSoFar
  <2>2. CASE stage \in 1 .. Parts + 1
    <3> DEFINE before == (stage - 1) * period
    <3>1. before \in Nat /\ gap <= Early + before + since
      BY <2>2 DEF GapSoFar
    <3>2. (stage' - 1) * period' = before
      BY <1>1
    <3> HIDE DEF before
    <3>3. gap' <= Early + before + since'
      BY <1>1, <1>3, <2>2, <3>1
    <3>4. QED
      BY <1>1, <2>2, <3>2, <3>3 DEF GapSoFar
  <2>3. CASE stage = Looping
    BY <1>1, <1>3, <2>3 DEF GapSoFar
  <2>4. QED
    BY <2>1, <2>2, <2>3
<1>6. SlowOrFresh'
  BY <1>1, <1>3 DEF SlowOrFresh
<1>7. QED
  BY <1>4, <1>5, <1>6

LEMMA RestartKeepsTiming == TimingInv /\ Restart => TimingInv'
<1> SUFFICES ASSUME TimingInv, Restart PROVE TimingInv'
  OBVIOUS
<1> USE TimingAssumption DEF TimingInv, TimingType, Looping
<1>1. stage' = 0 /\ since' = 0 /\ slow' = FALSE /\ period' = period /\ gap' = 0
  BY DEF Restart, Reboot
<1>2. 0 \in 0 .. Looping /\ 0 \notin 1 .. Parts + 1 /\ Looping # 0
  OBVIOUS
<1>3. 0 \in 0 .. period /\ 0 <= Early
  OBVIOUS
<1>4. slow' \in BOOLEAN
  BY <1>1
<1>5. gap' \in Nat /\ stage' \in 0 .. Looping /\ since' \in 0 .. period'
  BY <1>1, <1>2, <1>3
<1>6. period' \in Periods
  BY <1>1
<1>7. TimingType'
  BY <1>4, <1>5, <1>6
<1>8. GapSoFar' /\ SlowOrFresh'
  BY <1>1, <1>2, <1>3 DEF GapSoFar, SlowOrFresh
<1>9. QED
  BY <1>7, <1>8

LEMMA TimingStep == TimingInv /\ [LoopNext]_loopVars => TimingInv'
<1> SUFFICES ASSUME TimingInv, [LoopNext]_loopVars PROVE TimingInv'
  OBVIOUS
<1>1. CASE LineMoves /\ UNCHANGED timing
  BY <1>1, TimingUntouched DEF LineMoves
<1>2. CASE SetupKick
  BY <1>2, KickKeepsTiming
<1>3. CASE FirstPass \/ NextPass
  BY <1>3, PassKeepsTiming
<1>4. CASE Command
  BY <1>4, TimingUntouched DEF Command, AssertLocal, SetVtx
<1>5. CASE Time
  BY <1>5, TimeKeepsTiming
<1>6. CASE WatchdogReset \/ Restart
  BY <1>6, RestartKeepsTiming DEF WatchdogReset
<1>7. CASE UNCHANGED loopVars
  BY <1>7, TimingUntouched DEF loopVars, vars
<1>8. QED
  BY <1>1, <1>2, <1>3, <1>4, <1>5, <1>6, <1>7 DEF LoopNext

LEMMA TimingAlways == LoopSpec => []TimingInv
BY TimingInit, TimingStep, PTL DEF LoopSpec

\* The sum of the parts stays under MaxGap.
LEMMA TimingBounds == TimingInv => GapIsBounded
<1> SUFFICES ASSUME TimingInv PROVE GapIsBounded
  OBVIOUS
<1> USE TimingAssumption DEF TimingInv, TimingType, Looping
<1>1. /\ period \in Nat /\ HalfPeriod < period
      /\ Early + (Parts + 1) * period < MaxGap
  OBVIOUS
<1>2. (Parts + 1) * period = Parts * period + period
  BY <1>1
<1>3. Parts * period \in Nat
  BY <1>1
<1> MaxGap \in Nat
  BY DebounceAssumption
<1>4. gap < MaxGap
  <2>1. CASE stage = 0
    BY <1>1, <1>2, <1>3, <2>1 DEF GapSoFar
  <2>2. CASE stage \in 1 .. Parts + 1
    <3> DEFINE before == (stage - 1) * period
    <3>1. before <= Parts * period
      BY <1>1, <2>2
    <3>2. before \in Nat /\ gap <= Early + before + since
      BY <1>1, <2>2 DEF GapSoFar
    <3> HIDE DEF before
    <3>3. QED
      BY <1>1, <1>2, <1>3, <3>1, <3>2
  <2>3. CASE stage = Looping
    BY <1>1, <1>2, <1>3, <2>3 DEF GapSoFar
  <2>4. QED
    BY <2>1, <2>2, <2>3
<1>5. QED
  BY <1>4 DEF GapIsBounded, GapSoFar

\* The watchdog bounds the time between two samples of the E-Stop input, in the
\* loop and in setup(), whatever passes overrun or hang.
THEOREM LoopGapIsBounded == LoopSpec => []GapIsBounded
BY TimingAlways, TimingBounds, PTL

LEMMA ResetStep ==
  TimingInv => (since = period /\ since' = 0 /\ stage = Looping
                  => slow \/ gap > HalfPeriod)
BY TimingAssumption DEF TimingInv, TimingType, SlowOrFresh

\* A loop whose passes take no more than half the period is never reset.
THEOREM LoopResetNeedsSlowPass == LoopSpec => ResetNeedsSlowPass
BY TimingAlways, ResetStep, PTL DEF ResetNeedsSlowPass

\* Every step of the loop and its watchdog is a step of EStop, or none at all.
LEMMA LoopStepIsEStopStep == [LoopNext]_loopVars => [Next]_vars
<1> SUFFICES ASSUME [LoopNext]_loopVars PROVE [Next]_vars
  OBVIOUS
<1>1. CASE LineMoves /\ UNCHANGED timing
  BY <1>1 DEF Next
<1>2. CASE SetupKick
  BY <1>2 DEF SetupKick
<1>3. CASE FirstPass \/ NextPass
  BY <1>3 DEF FirstPass, NextPass, Next
<1>4. CASE Command
  BY <1>4 DEF Command, Next
<1>5. CASE Time
  BY <1>5 DEF Time, Next
<1>6. CASE WatchdogReset \/ Restart
  BY <1>6 DEF WatchdogReset, Restart, Next
<1>7. CASE UNCHANGED loopVars
  BY <1>7 DEF loopVars
<1>8. QED
  BY <1>1, <1>2, <1>3, <1>4, <1>5, <1>6, <1>7 DEF LoopNext

\* The loop under its watchdog implements the E-Stop specification, so what is
\* proved of that holds of the board: its safety needs nothing more of the loop.
THEOREM LoopImplementsEStop == LoopSpec => Spec
<1>1. LoopInit => Init
  BY DEF LoopInit
<1>2. QED
  BY <1>1, LoopStepIsEStopStep, PTL DEF LoopSpec, Spec

\* Under the watchdog, with nothing assumed of the length of a pass, the E-Stop's
\* variables keep their types and the debounced level moves only after a steady
\* window.
THEOREM LoopKeepsEStopSafe ==
  LoopSpec => []TypeOK /\ []DebounceAgeHonest /\ PromotedOnlyWhenSteady
BY LoopImplementsEStop, TypeCorrect, AgeIsHonest, PromotionIsSteady

\* Under the watchdog, with nothing assumed of the length of a pass, a level that
\* tick() has sampled and that holds waits for its promotion less than the debounce
\* time and one watchdog period (MaxGap while setup() runs).
THEOREM LoopReactsInTime ==
  LoopSpec => [](asserted_raw # asserted_stable
                   => change_age < Debounce + IF stage = Looping THEN period ELSE MaxGap)
<1>1. LoopSpec => []PromotedInTime
  BY LoopImplementsEStop, PromotionIsPrompt
<1>2. LoopSpec => []TypeOK
  BY LoopImplementsEStop, TypeCorrect
<1>3. ASSUME PromotedInTime, TypeOK, TimingInv, GapIsBounded, asserted_raw # asserted_stable
      PROVE  change_age < Debounce + IF stage = Looping THEN period ELSE MaxGap
  <2>1. change_age < gap + Debounce /\ change_age \in Nat /\ gap \in Nat
    BY <1>3, DebounceAssumption DEF PromotedInTime, TypeOK
  <2>2. gap < MaxGap /\ (stage = Looping => gap <= period) /\ period \in Nat
    BY <1>3, TimingAssumption DEF GapIsBounded, TimingInv, TimingType
  <2>3. QED
    BY <2>1, <2>2, DebounceAssumption
<1>4. QED
  BY <1>1, <1>2, <1>3, TimingAlways, LoopGapIsBounded, PTL
=============================================================================
