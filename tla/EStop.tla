------------------------------- MODULE EStop -------------------------------
(***************************************************************************)
(* The emergency-stop subsystem (src/src/estop.cpp): a debounced status    *)
(* input on PB12, the local command on PA0 and the companion VTX output on *)
(* PB13.  tick() samples the input once per loop; a new level is promoted  *)
(* when it is still there Debounce after the sample that first showed it.  *)
(* change_age is the unsigned difference now - s_last_change_ms.           *)
(***************************************************************************)
EXTENDS Integers

CONSTANTS
  Debounce,  \* kPgDebounce_ms, in clock units
  MaxGap,    \* the longest the watchdog lets pass between two samples
  EStopWrap  \* 2^32 ms, the modulus of millis()

ASSUME DebounceAssumption ==
  /\ Debounce \in Nat \ {0} /\ MaxGap \in Nat \ {0} /\ EStopWrap \in Nat
  /\ Debounce + MaxGap < EStopWrap

VARIABLES
  line,            \* level of PB12, HIGH = asserted
  asserted_raw,    \* s_asserted_raw: the last sample
  asserted_stable, \* s_asserted_stable: the debounced level
  change_age,      \* now - s_last_change_ms
  local_assert,    \* s_local_assert, and PA0 driven LOW
  vtx_state,       \* s_vtx_state, and PB13 driven HIGH
  steady_age,      \* history: true time since asserted_raw changed, capped
  gap              \* history: true time since the last tick() or reset

inputs == <<asserted_raw, asserted_stable, change_age>>
outputs == <<local_assert, vtx_state>>
vars == <<line, inputs, outputs, steady_age, gap>>

TypeOK ==
  /\ line \in BOOLEAN
  /\ asserted_raw \in BOOLEAN /\ asserted_stable \in BOOLEAN
  /\ change_age \in 0 .. EStopWrap - 1
  /\ local_assert \in BOOLEAN /\ vtx_state \in BOOLEAN
  /\ steady_age \in 0 .. Debounce
  /\ gap \in 0 .. MaxGap

isEStopActive == asserted_stable \/ local_assert

\* init(): the first sample is taken as the debounced level.
Init ==
  /\ line \in BOOLEAN
  /\ asserted_raw = line /\ asserted_stable = line
  /\ change_age = 0
  /\ local_assert = FALSE /\ vtx_state = FALSE
  /\ steady_age = 0
  /\ gap = 0

-----------------------------------------------------------------------------
\* Another node, or the operator, moves the E-Stop bus.
LineMoves ==
  /\ line' = ~line
  /\ UNCHANGED <<inputs, outputs, steady_age, gap>>

\* Mutants of TickEdge: the end of the window is kept instead of its start, and
\* the difference is signed; the sample is compared with the debounced level,
\* which restarts the window on every tick.
TickEdgeDeadline ==
  /\ line # asserted_raw
  /\ asserted_raw' = line
  /\ change_age' = 0 - Debounce
  /\ UNCHANGED asserted_stable
  /\ steady_age' = 0

TickEdgeAgainstStable ==
  /\ line # asserted_stable
  /\ asserted_raw' = line
  /\ change_age' = 0
  /\ UNCHANGED asserted_stable
  /\ steady_age' = 0

\* An edge restarts the debounce window.
TickEdge ==
  /\ line # asserted_raw
  /\ asserted_raw' = line
  /\ change_age' = 0
  /\ UNCHANGED asserted_stable
  /\ steady_age' = 0

\* Mutants of TickPromote: no debounce; an E-Stop that latches.
TickPromoteAtOnce ==
  /\ line = asserted_raw
  /\ asserted_stable' = line
  /\ UNCHANGED <<asserted_raw, change_age, steady_age>>

TickPromoteLatching ==
  /\ line = asserted_raw /\ change_age >= Debounce
  /\ asserted_stable' = (asserted_stable \/ line)
  /\ UNCHANGED <<asserted_raw, change_age, steady_age>>

TickPromote ==
  /\ line = asserted_raw /\ change_age >= Debounce
  /\ asserted_stable' = line
  /\ UNCHANGED <<asserted_raw, change_age, steady_age>>

TickWait ==
  /\ line = asserted_raw /\ change_age < Debounce
  /\ UNCHANGED <<inputs, steady_age>>

Tick ==
  /\ TickEdge \/ TickPromote \/ TickWait
  /\ gap' = 0
  /\ UNCHANGED <<line, outputs>>

AssertLocal(engage) ==
  /\ local_assert' = engage
  /\ UNCHANGED <<line, inputs, vtx_state, steady_age, gap>>

SetVtx(engage) ==
  /\ vtx_state' = engage
  /\ UNCHANGED <<line, inputs, local_assert, steady_age, gap>>

\* Time passes; past MaxGap without a tick the watchdog has reset the chip, so
\* only Tick and Reboot are left (LoopTiming derives the bound).
Advance ==
  /\ gap < MaxGap
  /\ gap' = gap + 1
  /\ change_age' = IF change_age = EStopWrap - 1 THEN 0 ELSE change_age + 1
  /\ steady_age' = IF steady_age = Debounce THEN Debounce ELSE steady_age + 1
  /\ UNCHANGED <<line, asserted_raw, asserted_stable, outputs>>

\* A reset runs init() again: the local command is released and the level on
\* the wire at that instant becomes the debounced one.
Reboot ==
  /\ asserted_raw' = line /\ asserted_stable' = line
  /\ change_age' = 0
  /\ local_assert' = FALSE /\ vtx_state' = FALSE
  /\ steady_age' = 0
  /\ gap' = 0
  /\ UNCHANGED line

Next ==
  \/ LineMoves
  \/ Tick
  \/ \E engage \in BOOLEAN : AssertLocal(engage) \/ SetVtx(engage)
  \/ Advance
  \/ Reboot

Spec == Init /\ [][Next]_vars

-----------------------------------------------------------------------------
(* Properties.                                                             *)

\* Outside a reboot the debounced level moves only to a level that every
\* sample has shown for a whole debounce window of true time: neither a glitch
\* nor a wrap of millis() can set or release the E-Stop.
PromotedOnlyWhenSteady ==
  [][asserted_stable' # asserted_stable /\ ~Reboot
       => steady_age = Debounce /\ asserted_stable' = asserted_raw]_vars

\* The elapsed time tick() computes never exceeds the true time for which every
\* sample has shown the same level, up to the debounce window it is compared
\* with: a wrapped or stale timestamp never makes a fresh level look old.
DebounceAgeHonest == steady_age >= change_age \/ steady_age = Debounce

\* A level that waits to be promoted was first sampled less than Debounce before the
\* last sample, and the time tick() computes for it is the true one: the first sample
\* at the end of the window promotes it, however far apart samples are, and no wrap of
\* millis() makes the window start again.
PromotedInTime ==
  asserted_raw # asserted_stable =>
    /\ gap <= change_age /\ change_age < gap + Debounce
    /\ steady_age = IF change_age < Debounce THEN change_age ELSE Debounce

\* An E-Stop asserted on the wire and held is seen, whatever happened before; and the
\* firmware does not stay in E-Stop on a line that is released for good, unless RG
\* holds the local command.
LevelsSeen ==
  /\ <>[]line => <>[]asserted_stable
  /\ <>[](~line) => <>[](~asserted_stable)
=============================================================================
