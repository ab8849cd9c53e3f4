----------------------------- MODULE RailConfig -----------------------------
(***************************************************************************)
(* How a rail's chip gets its configuration: Controller::init() and         *)
(* configureDevice() (src/src/rail.cpp), step by step, on a bus where a     *)
(* read may fail or bring nonsense and a write may be refused, land without *)
(* an acknowledge, or be acknowledged and lost.  Nearly every result is     *)
(* ignored by the code.  Afterwards the chip may lose its power and RG may  *)
(* write its registers through the bridge, neither of which the driver      *)
(* learns of.                                                              *)
(***************************************************************************)
EXTENDS Registers

CONSTANTS
  Rails,     \* the rails considered
  MaxFaults, \* faults, losses of power, bridge writes and resets
  WatchdogTries \* kConfigWriteRetries

(***************************************************************************)
(* The rail descriptors, with amps, volts and milliohms in tenths.         *)
(***************************************************************************)
AllRails ==
  [r48 |-> [vcl |-> 2, ocb1 |-> 0, ocb1Timer |-> 15, ocb2 |-> 0, ocb2Timer |-> 3,
            sense |-> 1, warn |-> 1275, vinOv |-> 600, vinUv |-> 360],
   r24 |-> [vcl |-> 6, ocb1 |-> 0, ocb1Timer |-> 0, ocb2 |-> 0, ocb2Timer |-> 0,
            sense |-> 13, warn |-> 170, vinOv |-> 300, vinUv |-> 180],
   r12 |-> [vcl |-> 4, ocb1 |-> 0, ocb1Timer |-> 0, ocb2 |-> 0, ocb2Timer |-> 0,
            sense |-> 20, warn |-> 85, vinOv |-> 150, vinUv |-> 90]]

ASSUME ConfigAssumption ==
  /\ Rails \subseteq DOMAIN AllRails
  /\ MaxFaults \in Nat /\ WatchdogTries \in Nat \ {0}

\* kVclMv: the current limit of a code, in tenths of a millivolt.
Vcl == <<500, 100, 125, 150, 175, 200, 225, 250>>
VclOf(code) == Vcl[code + 1]

\* Three codes are one register of the chip, which IIN_OC_WARN_LIMIT stands for.
Mirrors == {"IIN_OC_WARN_LIMIT", "MFR_IIN_OC_WARN_LIMIT", "OC_WARN_LIMIT"}
Cell(code) == IF code \in Mirrors THEN "IIN_OC_WARN_LIMIT" ELSE code

Rmw(reg, set) == [do |-> "change", reg |-> reg, set |-> set]
Fresh(reg, set) == [do |-> "write", reg |-> reg, set |-> set]
Limit(code, amount) == [do |-> "limit", reg |-> Cell(code), set |-> [amount |-> amount]]
Call(what) == [do |-> what, reg |-> "none", set |-> <<>>]

\* Mutant of OneTimesRange: the bit is left as it was read.
TwoTimesKept == Rmw("ADC_CONFIG_2", <<>>)

OneTimesRange == Rmw("ADC_CONFIG_2", [fullScale |-> 0])

\* configureDevice(), in order; its last readback is only printed.
Plan(descriptor) ==
  <<Call("protect"),
    Call("clearFaults"),
    OneTimesRange,
    Call("setAdcFullScale2x"),
    Rmw("DEVICE_SETUP",
        [retrySetting |-> 7, currentLimitConfig |-> 1, cbClRatio |-> 0,
         permanentWriteDisable |-> 0]),
    Rmw("DEVICE_SETUP_4",
        [immediateRetry |-> 0, regulationTimerDischarge |-> 1]),
    Rmw("RETRY_INSERTION_DELAY", [retryDelay |-> 5]),
    Rmw("DEVICE_SETUP_2",
        [currentLimitSetting2 |-> descriptor.vcl, cbClRatio2 |-> 1, vinTranEnable |-> 0,
         fastRecoveryCb |-> 0]),
    Call("setCurrentLimitMilliVolts"),
    Rmw("DEVICE_SETUP_3",
        [currentLimitingDisable |-> 1, ocBlanking1Threshold |-> descriptor.ocb1,
         ocBlanking2Threshold |-> descriptor.ocb2, foldbackCurrentLimit |-> 0,
         powerLimitProfile |-> 0]),
    Fresh("OC_BLANKING_TIMERS",
          [blanking1 |-> descriptor.ocb1Timer, blanking2 |-> descriptor.ocb2Timer]),
    Limit("VIN_OV_WARN_LIMIT", descriptor.vinOv),
    Limit("VIN_UV_WARN_LIMIT", descriptor.vinUv),
    Limit("OT_WARN_LIMIT", 1000),
    Limit("OT_FAULT_LIMIT", 1250),
    Limit("MFR_IIN_OC_WARN_LIMIT", descriptor.warn),
    Limit("IIN_OC_WARN_LIMIT", descriptor.warn),
    Fresh("MFR_ALERT_MASK", ZeroFields("MFR_ALERT_MASK")),
    Fresh("BLACK_BOX_CONFIG",
          [fetOffWr |-> 1, fltWr |-> 1, alertWr |-> 1, bbTick |-> 0]),
    Fresh("MFR_GATE_MASK", ZeroFields("MFR_GATE_MASK")),
    Rmw("WATCHDOG_PL_TIMER", [watchdogTimer |-> 15]),
    Call("clearFaults")>>

Plans ==
  [r48 |-> Plan(AllRails.r48), r24 |-> Plan(AllRails.r24), r12 |-> Plan(AllRails.r12)]
Length == Len(Plans.r48)
WatchdogStep == Length - 1

FieldRegisters ==
  {"ADC_CONFIG_2", "DEVICE_SETUP", "DEVICE_SETUP_2", "DEVICE_SETUP_3",
   "DEVICE_SETUP_4", "RETRY_INSERTION_DELAY", "OC_BLANKING_TIMERS",
   "MFR_ALERT_MASK", "BLACK_BOX_CONFIG", "MFR_GATE_MASK", "WATCHDOG_PL_TIMER"}
LimitRegisters ==
  {"VIN_OV_WARN_LIMIT", "VIN_UV_WARN_LIMIT", "OT_WARN_LIMIT", "OT_FAULT_LIMIT",
   "IIN_OC_WARN_LIMIT"}

VARIABLES
  rail,      \* the descriptor this controller was built with
  pc,        \* 0: init() attaches; then the step of Plan; Length + 1: init() is over
  tries,     \* attempts at the watchdog timer
  result,    \* what init() returned
  cache,     \* the driver's _adcFullScale2x and _currentLimitMilliVolts
  regs,      \* the chip's registers with fields
  limits,    \* its limits
  protected, \* its WRITE_PROTECT is on
  faults,    \* history: MaxFaults counts them
  doubtful,  \* history: registers whose last write may not be in the chip
  misread,   \* history: registers whose read before the write was not exact
  foreign    \* history: registers somebody else changed since

driver == <<rail, pc, tries, result, cache>>
chip == <<regs, limits, protected>>
history == <<faults, doubtful, misread, foreign>>
vars == <<driver, chip, history>>

AllBits(reg) == IF reg \in WordRegisters THEN 0 .. 15 ELSE 0 .. 7
EveryRegister == FieldRegisters \cup LimitRegisters

TypeOK ==
  /\ rail \in DOMAIN AllRails
  /\ pc \in 0 .. Length + 1 /\ tries \in 0 .. WatchdogTries
  /\ result \in {"none", "kOk", "kNotPresent", "kBusError"}
  /\ cache \in [twice : BOOLEAN, limit : {Vcl[i] : i \in DOMAIN Vcl}]
  /\ \A reg \in FieldRegisters : regs[reg] \subseteq AllBits(reg)
  /\ limits \in [LimitRegisters -> 0 .. 4095]
  /\ protected \in BOOLEAN
  /\ faults \in 0 .. MaxFaults
  /\ doubtful \subseteq EveryRegister /\ misread \subseteq FieldRegisters
  /\ foreign \subseteq EveryRegister

\* What a chip holds when it wakes up, and what somebody else may have put there:
\* between them every bit is seen set and clear.
Defaults == {1, 3, 5, 6, 8, 12}
Contents == {Defaults, (0 .. 15) \ Defaults}
Holding(bits) == [reg \in FieldRegisters |-> bits \cap AllBits(reg)]

Init ==
  /\ rail \in Rails
  /\ pc = 0 /\ tries = 0 /\ result = "none"
  /\ cache = [twice |-> FALSE, limit |-> 500]
  /\ \E bits \in Contents : regs = Holding(bits)
  /\ limits = [reg \in LimitRegisters |-> 4095]
  /\ protected \in BOOLEAN
  /\ faults = 0 /\ doubtful = EveryRegister /\ misread = {} /\ foreign = {}

-----------------------------------------------------------------------------
(* The bus, as SoftSmbus shows it and Wire is taken to be.                  *)

\* A write is done, refused, refused although it landed, or lost although it is
\* reported done (SDA held low).
WriteOutcomes == {"done", "refused", "landed", "lost"}

Lands(outcome) == outcome \in {"done", "landed"} /\ ~protected
Acknowledged(outcome) == outcome \in {"done", "lost"}

\* A read brings the content, fails, or brings nonsense.
ReadOutcomes == {"exact", "failed", "low", "noise"}

Brought(reg, outcome) ==
  CASE outcome = "exact" -> regs[reg]
    [] outcome = "low" -> {}
    [] outcome = "noise" -> AllBits(reg)

FaultsOf(outcomes) ==
  LET bad(i) == IF outcomes[i] \in {"done", "exact"} THEN 0 ELSE 1
  IN IF Len(outcomes) = 1 THEN bad(1) ELSE bad(1) + bad(2)

Suffer(outcomes) ==
  /\ faults' = faults + FaultsOf(outcomes)
  /\ faults' <= MaxFaults

\* Whether the chip has what was written is in doubt until the next write.
Doubt(reg, outcome) ==
  doubtful' = IF outcome = "done" /\ ~protected THEN doubtful \ {reg}
                                                ELSE doubtful \cup {reg}

-----------------------------------------------------------------------------
(* init() and configureDevice().                                            *)

Step == Plans[rail][pc]
At(what) == pc \in 1 .. Length /\ pc # WatchdogStep /\ Step.do = what

Finish(status) == pc' = Length + 1 /\ result' = status
Continue == pc' = pc + 1 /\ UNCHANGED result

Attach ==
  /\ pc = 0
  /\ Continue
  /\ UNCHANGED <<rail, tries, cache, chip, history>>

\* beginAttached(): the probe is not acknowledged.
NotPresent ==
  /\ pc = 0
  /\ Suffer(<<"refused">>)
  /\ Finish("kNotPresent")
  /\ UNCHANGED <<rail, tries, cache, chip, doubtful, misread, foreign>>

\* setWriteProtect(0x00), the only early result that is looked at.
Unprotect ==
  /\ At("protect")
  /\ \E outcome \in WriteOutcomes :
       /\ Suffer(<<outcome>>)
       /\ protected' = (protected /\ outcome \notin {"done", "landed"})
       /\ IF Acknowledged(outcome) THEN Continue ELSE Finish("kBusError")
  /\ UNCHANGED <<rail, tries, cache, regs, limits, doubtful, misread, foreign>>

ClearFaults ==
  /\ At("clearFaults")
  /\ IF pc = Length THEN Finish("kOk") ELSE Continue
  /\ UNCHANGED <<rail, tries, cache, chip, history>>

\* setAdcConfig2() believes in its write, readAdcConfig2() in its reading.
ScaleAfter(reg, raw) ==
  IF reg = "ADC_CONFIG_2" THEN [cache EXCEPT !.twice = 6 \in raw] ELSE cache

\* A failed read leaves the struct empty, and nobody looks.
StructRead(reg, outcome) ==
  IF outcome = "failed" THEN ZeroFields(reg) ELSE Decode(reg, Brought(reg, outcome))

\* Mutant of Assigned: a struct of zeros is filled in.
AssignedAfresh(fields, set) ==
  [f \in DOMAIN fields |-> IF f \in DOMAIN set THEN set[f] ELSE 0]

Assigned(fields, set) ==
  [f \in DOMAIN fields |-> IF f \in DOMAIN set THEN set[f] ELSE fields[f]]

PutRegister(reg, raw, outcome) ==
  /\ regs' = IF Lands(outcome) THEN [regs EXCEPT ![reg] = raw] ELSE regs
  /\ Doubt(reg, outcome)
  /\ foreign' = foreign \ {reg}
  /\ UNCHANGED <<limits, protected>>

\* Read the fields, change some, write them all back.
ChangeFields ==
  /\ At("change")
  /\ \E read \in ReadOutcomes, write \in WriteOutcomes :
       /\ Suffer(<<read, write>>)
       /\ LET raw == Encode(Step.reg, Assigned(StructRead(Step.reg, read), Step.set))
          IN PutRegister(Step.reg, raw, write) /\ cache' = ScaleAfter(Step.reg, raw)
       /\ misread' = IF read = "exact" THEN misread \ {Step.reg}
                                       ELSE misread \cup {Step.reg}
  /\ Continue
  /\ UNCHANGED <<rail, tries>>

WriteFields ==
  /\ At("write")
  /\ \E write \in WriteOutcomes :
       /\ Suffer(<<write>>)
       /\ PutRegister(Step.reg, Encode(Step.reg, Step.set), write)
  /\ Continue
  /\ UNCHANGED <<rail, tries, cache, misread>>

SetAdcFullScale2x ==
  /\ At("setAdcFullScale2x")
  /\ cache' = [cache EXCEPT !.twice = FALSE]
  /\ Continue
  /\ UNCHANGED <<rail, tries, chip, history>>

\* Mutant of LimitCached: forgotten.
LimitForgotten(code) == cache.limit

LimitCached(code) == VclOf(code)

SetCurrentLimitMilliVolts ==
  /\ At("setCurrentLimitMilliVolts")
  /\ cache' = [cache EXCEPT !.limit = LimitCached(AllRails[rail].vcl)]
  /\ Continue
  /\ UNCHANGED <<rail, tries, chip, history>>

\* The code of a limit, with the coefficients the driver believes in.
LimitCode(reg, amount) ==
  CASE reg \in {"VIN_OV_WARN_LIMIT", "VIN_UV_WARN_LIMIT"} ->
         ValueToDirect(amount, CoeffVin, 10)
    [] reg \in {"OT_WARN_LIMIT", "OT_FAULT_LIMIT"} ->
         ValueToDirect(amount, CoeffTemperature, 10)
    [] OTHER ->
         ValueToDirect(amount, CoeffIin(cache.limit, cache.twice),
                       AllRails[rail].sense)

WriteLimit ==
  /\ At("limit")
  /\ \E write \in WriteOutcomes :
       /\ Suffer(<<write>>)
       /\ limits' = IF Lands(write)
                      THEN [limits EXCEPT ![Step.reg] = LimitCode(Step.reg, Step.set.amount)]
                      ELSE limits
       /\ Doubt(Step.reg, write)
  /\ foreign' = foreign \ {Step.reg}
  /\ Continue
  /\ UNCHANGED <<rail, tries, cache, regs, protected, misread>>

\* Mutant of Verified: an acknowledged write is enough.
VerifiedByAck(brought, write) == Acknowledged(write)

Verified(brought, write) ==
  /\ Acknowledged(write)
  /\ Decode("WATCHDOG_PL_TIMER", brought).watchdogTimer = 15

\* Mutant of GaveUp: one attempt too many.
GaveUpLate(attempts) == attempts > WatchdogTries

GaveUp(attempts) == attempts = WatchdogTries

\* One attempt at the watchdog timer: read, write, read back.
ConfigureWatchdog ==
  /\ pc = WatchdogStep
  /\ \E read, verify \in ReadOutcomes, write \in WriteOutcomes :
       /\ (~Acknowledged(write) => verify = "exact")
       /\ faults' = faults + FaultsOf(<<read, write>>) + FaultsOf(<<verify>>)
       /\ faults' <= MaxFaults
       /\ LET fields == Assigned(StructRead(Step.reg, read), Step.set)
          IN PutRegister(Step.reg, Encode(Step.reg, fields), write)
       /\ misread' = IF read = "exact" /\ verify # "noise" THEN misread \ {Step.reg}
                                                           ELSE misread \cup {Step.reg}
       /\ tries' = tries + 1
       /\ LET brought == IF verify = "exact" THEN regs'[Step.reg]
                                             ELSE Brought(Step.reg, verify)
          IN IF verify # "failed" /\ Verified(brought, write) THEN Continue
             ELSE IF GaveUp(tries') THEN Finish("kBusError")
             ELSE UNCHANGED <<pc, result>>
  /\ UNCHANGED <<rail, cache>>

-----------------------------------------------------------------------------
(* Afterwards.                                                              *)

Disturb == faults < MaxFaults /\ faults' = faults + 1

\* The rail's input goes away and comes back, or RG sends a RESTORE command: the chip
\* holds its own defaults.
PowerLost ==
  /\ Disturb
  /\ regs' = Holding(Defaults)
  /\ limits' = [reg \in LimitRegisters |-> 4095]
  /\ protected' \in BOOLEAN
  /\ foreign' = EveryRegister
  /\ UNCHANGED <<driver, doubtful, misread>>

\* RG's bridge: writeRegisterRaw() knows nothing of the cache.
BridgeWrite ==
  /\ result \in {"kOk", "kBusError"}
  /\ Disturb
  /\ \E code \in EveryRegister \cup Mirrors, bits \in Contents, length \in {1, 2} :
       /\ length \in RawLengths(code)
       /\ regs' = IF code \in FieldRegisters /\ ~protected
                    THEN [regs EXCEPT ![code] = bits \cap AllBits(code)] ELSE regs
       /\ limits' = IF Cell(code) \in LimitRegisters /\ ~protected
                      THEN [limits EXCEPT ![Cell(code)] = 0] ELSE limits
       /\ foreign' = foreign \cup {Cell(code)}
  /\ UNCHANGED <<driver, protected, doubtful, misread>>

\* A reset: setup() calls init() again, with a driver as constructed.
Reset ==
  /\ pc > 0
  /\ Disturb
  /\ pc' = 0 /\ tries' = 0 /\ result' = "none"
  /\ cache' = [twice |-> FALSE, limit |-> 500]
  /\ doubtful' = EveryRegister /\ misread' = {}
  /\ UNCHANGED <<rail, chip, foreign>>

Configure ==
  \/ Attach
  \/ NotPresent
  \/ ClearFaults
  \/ SetAdcFullScale2x
  \/ SetCurrentLimitMilliVolts
  \/ Unprotect
  \/ ChangeFields
  \/ WriteFields
  \/ WriteLimit
  \/ ConfigureWatchdog

\* Once init() has returned it is not called again.
Idle == pc = Length + 1 /\ UNCHANGED vars

Next ==
  \/ Configure
  \/ PowerLost
  \/ BridgeWrite
  \/ Reset
  \/ Idle

Spec == Init /\ [][Next]_vars

-----------------------------------------------------------------------------
(* Properties.                                                              *)

Trusted(registers) == registers \cap (doubtful \cup foreign) = {}

\* A rail that init() calls good has the longest startup watchdog in its chip,
\* whatever the bus did to any write, unless the last reading of the register,
\* before its write or back after it, failed or was garbled, or somebody else
\* changed the chip.  (rail.cpp: watchdog_config_ok.)
OkMeansLongWatchdog ==
  result = "kOk" /\ "WATCHDOG_PL_TIMER" \notin foreign \cup misread
    => Decode("WATCHDOG_PL_TIMER", regs["WATCHDOG_PL_TIMER"]).watchdogTimer = 15

OthersAlike(reg, before, after) ==
  \A f \in DOMAIN LayoutOf(reg) \ DOMAIN Step.set :
    Decode(reg, after)[f] = Decode(reg, before)[f]

\* A configuration step changes no field of the chip but those it names, unless
\* its own read was not exact.  (configureDevice(): read, modify, write, with the
\* result of the read thrown away, through the masks and shifts of the driver.)
OtherFieldsKept ==
  [][pc' > pc /\ pc \in 1 .. Length /\ Step.do = "change" /\ Step.reg \notin misread'
       => OthersAlike(Step.reg, regs[Step.reg], regs'[Step.reg])]_vars

\* The registers that decide what a current code means.
RangeRegisters == {"ADC_CONFIG_2", "DEVICE_SETUP", "DEVICE_SETUP_2"}

ChipTwice == Decode("ADC_CONFIG_2", regs["ADC_CONFIG_2"]).fullScale = 1

\* The current limit that the chip goes by: its CL pin's, at VDD or at GND, unless
\* DEVICE_SETUP gives it to the registers (lm5066h.txt: tables 7-64 and 7-65).
PinLimits == {250, 500}
ChipLimit(pin) ==
  LET setup == Decode("DEVICE_SETUP", regs["DEVICE_SETUP"])
      setup2 == Decode("DEVICE_SETUP_2", regs["DEVICE_SETUP_2"])
  IN CASE setup.currentLimitConfig = 0 -> pin
       [] setup.currentLimitConfig # 0 /\ setup2.currentLimitSetting2 # 0 ->
            VclOf(setup2.currentLimitSetting2)
       [] OTHER -> IF setup.currentLimitSetting = 1 THEN 250 ELSE 500

\* The overcurrent warning in the chip means 85 % of the rail's trip current in the
\* chip's own range, not only in the driver's idea of it, wherever the CL pin is,
\* as long as the writes of the limit and of the range were done and nobody
\* changed them since, under any of the codes they have.
\* (setIinOcWarnLimit..(), coeffFromTable(), DEVICE_SETUP, _2 and kVclMv, clamped.)
WarningsMeanAmps ==
  Trusted(RangeRegisters \cup {"IIN_OC_WARN_LIMIT"}) =>
    \A pin \in PinLimits :
      Near(limits["IIN_OC_WARN_LIMIT"],
           ChipCode(AllRails[rail].warn, AllRails[rail].sense, ChipLimit(pin), ChipTwice))

\* What the driver multiplies every current and power reading with is the chip's
\* range, wherever the CL pin is, on a rail init() calls good, until a write that
\* went wrong, a loss of power or the bridge makes it stale.  (_adcFullScale2x,
\* _currentLimitMilliVolts.)
RangeIsKnown ==
  result = "kOk" =>
    /\ Trusted({"ADC_CONFIG_2"}) => cache.twice = ChipTwice
    /\ Trusted({"DEVICE_SETUP", "DEVICE_SETUP_2"}) =>
         \A pin \in PinLimits : cache.limit = ChipLimit(pin)
=============================================================================
