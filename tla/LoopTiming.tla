----------------------------- MODULE LoopTiming -----------------------------
(***************************************************************************)
(* When the E-Stop input is sampled: setup() and loop() of src/src/main.cpp *)
(* under the independent watchdog (src/src/iwdg.cpp).  setup() reloads it   *)
(* between its parts; loop() samples the input first thing and reloads the  *)
(* watchdog last, if the pass took no more than half the period.  A part or *)
(* a pass may hang.                                                         *)
(*                                                                         *)
(* In the loop EStop's `gap' is the age of the pass: loop() is called again *)
(* as soon as it returns.                                                   *)
(***************************************************************************)
EXTENDS EStop

CONSTANTS
  HalfPeriod, \* kWatchdogMaxHealthyLoop_ms
  Periods,    \* what the watchdog's own oscillator makes of kIwdgTimeout_ms
  Early,      \* the longest estop::init() .. iwdg::init() takes
  Parts       \* watched parts of setup(), each ended by a kick()

ASSUME TimingAssumption ==
  /\ HalfPeriod \in Nat /\ Early \in Nat /\ Parts \in Nat \ {0}
  /\ Periods \subseteq Nat
  /\ \A p \in Periods : HalfPeriod < p /\ Early + (Parts + 1) * p < MaxGap

VARIABLES
  stage,  \* 0: not armed; 1 .. Parts + 1: parts of setup(); Parts + 2: in loop()
  period, \* of this board's watchdog
  since,  \* since the watchdog was started or reloaded
  slow    \* history: a pass since then took more than HalfPeriod, or setup() went on

timing == <<stage, period, since, slow>>
loopVars == <<vars, timing>>

Looping == Parts + 2

LoopInit ==
  /\ Init
  /\ stage = 0 /\ period \in Periods /\ since = 0 /\ slow = FALSE

\* iwdg::init(), and the kick() after each part of setup().
SetupKick ==
  /\ stage <= Parts
  /\ since < period
  /\ stage' = stage + 1 /\ since' = 0
  /\ UNCHANGED <<vars, period, slow>>

\* After the last kick() setup() still enables the rails: no reload ends that part.
FirstPass ==
  /\ stage = Parts + 1
  /\ since < period
  /\ Tick
  /\ stage' = Looping
  /\ slow' = (since > 0)
  /\ UNCHANGED <<period, since>>

\* Mutant of Healthy: a pass of exactly half the period is too long.
HealthyStrict(elapsed) == elapsed < HalfPeriod

Healthy(elapsed) == elapsed <= HalfPeriod

\* serviceWatchdogIfHealthy(), loop() returns, and is called again.
NextPass ==
  /\ stage = Looping
  /\ since < period
  /\ since' = IF Healthy(gap) THEN 0 ELSE since
  /\ slow' = (~Healthy(gap) /\ (slow \/ gap > HalfPeriod))
  /\ Tick
  /\ UNCHANGED <<stage, period>>

\* Commands of RG, in the middle of a pass.
Command ==
  /\ stage = Looping
  /\ \E engage \in BOOLEAN : AssertLocal(engage) \/ SetVtx(engage)
  /\ UNCHANGED timing

\* Mutant of Armed: IWatchdog.begin() was never called.
ArmedNever == FALSE

Armed == stage > 0

Time ==
  /\ IF Armed THEN since < period /\ since' = since + 1
              ELSE gap < Early /\ UNCHANGED since
  /\ Advance
  /\ UNCHANGED <<stage, period, slow>>

Restart ==
  /\ Reboot
  /\ stage' = 0 /\ since' = 0 /\ slow' = FALSE
  /\ UNCHANGED period

WatchdogReset == since = period /\ Restart

LoopNext ==
  \/ LineMoves /\ UNCHANGED timing
  \/ SetupKick
  \/ FirstPass
  \/ NextPass
  \/ Command
  \/ Time
  \/ WatchdogReset
  \/ Restart

LoopSpec == LoopInit /\ [][LoopNext]_loopVars

\* The clocks run, the watchdog bites, and what runs before it is armed ends.
\* Nothing is said of the rest of setup() or of loop(): they may hang.
FairSpec ==
  /\ LoopSpec
  /\ WF_loopVars(Time) /\ WF_loopVars(WatchdogReset)
  /\ WF_loopVars(stage = 0 /\ SetupKick)

-----------------------------------------------------------------------------
(* Properties.                                                             *)

\* The watchdog bounds the time between two samples of the input by its period,
\* slow passes included, and the time from estop::init() to the first tick() by
\* that of the parts of setup(): what EStop takes for granted.
GapIsBounded ==
  /\ gap < MaxGap
  /\ stage = Looping => gap <= since /\ since <= period

\* In loop() the watchdog bites only if this pass, or one since the last reload,
\* took more than half the nominal period, or the end of setup() was in between,
\* however far off its oscillator is.  (serviceWatchdogIfHealthy().)
ResetNeedsSlowPass ==
  [][since = period /\ since' = 0 /\ stage = Looping => slow \/ gap > HalfPeriod]_loopVars
=============================================================================
