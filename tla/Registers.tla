----------------------------- MODULE Registers -----------------------------
(***************************************************************************)
(* The LM5066H1 driver's view of the chip's registers                      *)
(* (src/lib/LM5066H1/LM5066H1.cpp): which code may be written raw, where    *)
(* the fields of each register lie, what its status bits mean, and how amps *)
(* become the codes of a limit.  RailConfig puts it to use.                 *)
(*                                                                         *)
(* A register's content is the set of its bits that are set.                *)
(***************************************************************************)
EXTENDS Integers, Sequences

-----------------------------------------------------------------------------
(* The descriptor table, by access and width.                               *)

ReadWriteBytes ==
  {"OPERATION", "WRITE_PROTECT", "MFR_USER_DATA", "DEVICE_SETUP",
   "DEVICE_SETUP_2", "DEVICE_SETUP_3", "DEVICE_SETUP_4", "DEVICE_SETUP_5",
   "MFR_GATE_MASK", "SAMPLES_FOR_AVG", "BLACK_BOX_CONFIG",
   "OC_BLANKING_TIMERS", "RETRY_INSERTION_DELAY", "WATCHDOG_PL_TIMER",
   "PK_MIN_AVG", "P2T_TIMER", "ADC_CONFIG_1", "ADC_CONFIG_2",
   "IIN_OFFSET_CALIBRATION", "PMBUS_ADDRESS"}

ReadWriteWords ==
  {"VOUT_UV_WARN_LIMIT", "OT_FAULT_LIMIT", "OT_WARN_LIMIT",
   "VIN_OV_WARN_LIMIT", "VIN_UV_WARN_LIMIT", "IIN_OC_WARN_LIMIT",
   "MFR_IIN_OC_WARN_LIMIT", "MFR_PIN_OP_WARN_LIMIT", "MFR_ALERT_MASK",
   "OC_WARN_LIMIT"}

\* The lengths writeRegisterRaw() sends to a code of the table; a code it does
\* not know goes out as it is (bridgeWrite()).
RawLengths(code) ==
  CASE code \in ReadWriteBytes -> {1}
    [] code \in ReadWriteWords -> {2}
    [] OTHER -> {}

-----------------------------------------------------------------------------
(* Fields.  Each pair of set...() and read...() shifts and masks alike, so   *)
(* one layout stands for both.                                              *)

Bit(n) == [low |-> n, width |-> 1]
Bits(low, width) == [low |-> low, width |-> width]

MaskLayouts ==
  [MFR_ALERT_MASK |->
     [voutUndervoltageWarn |-> Bit(15), iinLimitWarn |-> Bit(14),
      vinUndervoltageWarn |-> Bit(13), vinOvervoltageWarn |-> Bit(12),
      powerGood |-> Bit(11), overtempWarn |-> Bit(10),
      watchdogFault |-> Bit(9), overpowerLimitWarn |-> Bit(8),
      scpFault |-> Bit(7), fetFailFault |-> Bit(6),
      vinUndervoltageFault |-> Bit(5), vinOvervoltageFault |-> Bit(4),
      iinPfetFault |-> Bit(3), overtempFault |-> Bit(2), cmlFault |-> Bit(1),
      circuitBreakerFault |-> Bit(0)],
   MFR_GATE_MASK |->
     [scpFault |-> Bit(7), fetFail |-> Bit(6), vinUvFault |-> Bit(5),
      vinOvFault |-> Bit(4), iinPfetFault |-> Bit(3), overtempFault |-> Bit(2),
      watchdogFault |-> Bit(1), circuitBreakerFault |-> Bit(0)]]

SetupLayouts ==
  [DEVICE_SETUP |->
     [retrySetting |-> Bits(5, 3), currentLimitSetting |-> Bit(4),
      cbClRatio |-> Bit(3), currentLimitConfig |-> Bit(2),
      permanentWriteDisable |-> Bit(0)],
   DEVICE_SETUP_2 |->
     [cbClRatio2 |-> Bits(6, 2), currentLimitSetting2 |-> Bits(3, 3),
      fastRecoveryCb |-> Bit(1), vinTranEnable |-> Bit(0)],
   DEVICE_SETUP_3 |->
     [currentLimitingDisable |-> Bit(7), powerLimitProfile |-> Bit(6),
      foldbackCurrentLimit |-> Bits(4, 2), ocBlanking2Threshold |-> Bits(2, 2),
      ocBlanking1Threshold |-> Bits(0, 2)],
   DEVICE_SETUP_4 |->
     [immediateRetry |-> Bit(7), regulationTimerDischarge |-> Bit(6),
      syncPinFunction |-> Bit(5), sftSrt |-> Bit(4),
      regulationTimerSetting |-> Bits(2, 2), powerLimitBlankingVds |-> Bits(0, 2)],
   DEVICE_SETUP_5 |->
     [gate1OvercurrentPullDown |-> Bit(4), gate2OvercurrentPullDown |-> Bit(3),
      gate12OvertempPullDown |-> Bit(2), gate12OvloPullDown |-> Bit(1),
      gate12UvloPullDown |-> Bit(0)]]

TimerLayouts ==
  [OC_BLANKING_TIMERS |-> [blanking2 |-> Bits(4, 4), blanking1 |-> Bits(0, 4)],
   RETRY_INSERTION_DELAY |->
     [retryDelay |-> Bits(4, 4), insertionDelay |-> Bits(0, 4)],
   WATCHDOG_PL_TIMER |->
     [watchdogTimer |-> Bits(4, 4), powerLimitBlanking |-> Bits(0, 4)],
   PK_MIN_AVG |-> [resetPeak |-> Bit(7), resetAvg |-> Bit(6), resetMin |-> Bit(5)],
   P2T_TIMER |-> [absTempMode |-> Bit(4), maxDuration |-> Bits(0, 4)]]

BlackBoxLayouts ==
  [BLACK_BOX_CONFIG |->
     [fetOffWr |-> Bit(7), fltWr |-> Bit(6), alertWr |-> Bit(5),
      bbTick |-> Bits(0, 2)],
   BLACK_BOX_TIMER |->
     [bbPtr |-> Bits(5, 3), timerExpired |-> Bit(4), bbTick |-> Bits(0, 4)]]

AdcLayouts ==
  [ADC_CONFIG_1 |->
     [eoc |-> Bit(7), convst |-> Bit(6), mode |-> Bits(4, 2),
      convChSel |-> Bits(0, 4)],
   ADC_CONFIG_2 |->
     [fullScale |-> Bit(6), bufChSel |-> Bits(3, 3), decRate |-> Bits(0, 3)],
   IIN_OFFSET_CALIBRATION |->
     [negative |-> Bit(7), offsetFactor |-> Bits(0, 7)]]

LaidOut ==
  UNION {DOMAIN MaskLayouts, DOMAIN SetupLayouts, DOMAIN TimerLayouts,
         DOMAIN BlackBoxLayouts, DOMAIN AdcLayouts}

LayoutOf(reg) ==
  CASE reg \in DOMAIN MaskLayouts     -> MaskLayouts[reg]
    [] reg \in DOMAIN SetupLayouts    -> SetupLayouts[reg]
    [] reg \in DOMAIN TimerLayouts    -> TimerLayouts[reg]
    [] reg \in DOMAIN BlackBoxLayouts -> BlackBoxLayouts[reg]
    [] reg \in DOMAIN AdcLayouts      -> AdcLayouts[reg]

FieldBits(field) == field.low .. field.low + field.width - 1

\* set...(): a value too large for its field loses its high bits.
Encode(reg, values) ==
  LET layout == LayoutOf(reg)
  IN UNION {{b \in FieldBits(layout[f]) :
               (values[f] \div 2^(b - layout[f].low)) % 2 = 1} : f \in DOMAIN layout}

\* No field is wider than seven bits.
FieldValue(field, raw) ==
  LET part(k) == IF k < field.width /\ field.low + k \in raw THEN 2^k ELSE 0
  IN part(0) + part(1) + part(2) + part(3) + part(4) + part(5) + part(6)

\* read...(): bits outside every field are dropped.
Decode(reg, raw) == [f \in DOMAIN LayoutOf(reg) |-> FieldValue(LayoutOf(reg)[f], raw)]

\* The struct a caller starts from: `= {}'.
ZeroFields(reg) == [f \in DOMAIN LayoutOf(reg) |-> 0]

WordRegisters == {"MFR_ALERT_MASK"}

ASSUME LayoutsApart ==
  \A reg \in LaidOut :
    LET layout == LayoutOf(reg)
    IN \A f \in DOMAIN layout :
         /\ layout[f].low \in Nat /\ layout[f].width \in 1 .. 7
         /\ FieldBits(layout[f]) \subseteq IF reg \in WordRegisters THEN 0 .. 15
                                                                    ELSE 0 .. 7
         /\ \A g \in DOMAIN layout \ {f} :
              FieldBits(layout[f]) \cap FieldBits(layout[g]) = {}

-----------------------------------------------------------------------------
(* Status registers, as the driver names their bits.                        *)

StatusBits ==
  [STATUS_WORD |->
     [outStatus |-> 15, inputStatus |-> 13, fetFail |-> 12, pgoodb |-> 11,
      cbFault |-> 9, unknown |-> 8, off |-> 6, vinUvFault |-> 3,
      temperature |-> 2, cml |-> 1, other |-> 0],
   STATUS_INPUT |->
     [vinOvFault |-> 7, vinOvWarn |-> 6, vinUvWarn |-> 5, vinUvFault |-> 4,
      ocFault |-> 2, ocWarn |-> 1, inOpWarn |-> 0],
   STATUS_CML |->
     [invCmd |-> 7, invData |-> 6, invPec |-> 5, memoryFault |-> 4,
      noneOfAbove |-> 1],
   STATUS_MFR_SPECIFIC |->
     [cbFault |-> 7, fetFail |-> 6, defaultsLoaded |-> 4, bbRamFull |-> 3,
      fetFaultGate2 |-> 2, fetFaultGate1 |-> 1, fetFaultDrain |-> 0]]

MfrStatusBits ==
  [STATUS_MFR_SPECIFIC_2 |->
     [watchdogFault |-> 12, scFault |-> 11, einOfWarn |-> 9, vinTran |-> 8,
      eeProg |-> 6, avgDone |-> 5, retryRec |-> 3, powerCycleRec |-> 2,
      initDone |-> 1],
   DIAGNOSTIC_WORD |->
     [voutUndervoltageWarn |-> 15, iinOpWarn |-> 14, vinUndervoltageWarn |-> 13,
      vinOvervoltageWarn |-> 12, powerGood |-> 11, overTemperatureWarn |-> 10,
      timerLatchedOff |-> 9, fetFail |-> 8, configPreset |-> 7, deviceOff |-> 6,
      vinUndervoltageFault |-> 5, vinOvervoltageFault |-> 4,
      iinOcPfetOpFault |-> 3, overTemperatureFault |-> 2, cmlFault |-> 1,
      circuitBreakerFault |-> 0]]

StatusRegisters == DOMAIN StatusBits \cup DOMAIN MfrStatusBits

StatusBit(reg, name) ==
  IF reg \in DOMAIN StatusBits THEN StatusBits[reg][name] ELSE MfrStatusBits[reg][name]

\* Mutant of ReportedBits: an over-temperature is left to the summary bit.
ReportedSummaries ==
  [STATUS_WORD |-> {7, 5, 4, 3, 2},
   STATUS_INPUT |-> {7, 4, 2},
   STATUS_CML |-> {7, 6, 5, 4},
   STATUS_MFR_SPECIFIC |-> {7, 6, 3, 2, 1, 0},
   STATUS_MFR_SPECIFIC_2 |-> {12, 11, 9, 8},
   DIAGNOSTIC_WORD |-> {9, 8, 5, 4, 3, 1, 0}]

\* describeRailFaults(): the bits it prints a line for.
ReportedBits ==
  [STATUS_WORD |-> {7, 5, 4, 3, 2},
   STATUS_INPUT |-> {7, 4, 2},
   STATUS_CML |-> {7, 6, 5, 4},
   STATUS_MFR_SPECIFIC |-> {7, 6, 3, 2, 1, 0},
   STATUS_MFR_SPECIFIC_2 |-> {12, 11, 9, 8},
   DIAGNOSTIC_WORD |-> {9, 8, 5, 4, 3, 2, 1, 0}]

\* The lines of a report.  DIAGNOSTIC_WORD's CML bit needs a real one beside it.
Report(status) ==
  LET lines(reg) == {<<reg, b>> : b \in status[reg] \cap ReportedBits[reg]}
      all == UNION {lines(reg) : reg \in StatusRegisters}
  IN IF status["STATUS_CML"] \cap {7, 6, 5, 4} = {}
       THEN all \ {<<"DIAGNOSTIC_WORD", 1>>} ELSE all

\* What the chip raises (lm5066h.txt: tables 7-11 to 7-19 and 7-53): faults, and
\* what is none, warnings and news.
Faults ==
  [vinOv |-> [STATUS_INPUT |-> {"vinOvFault"}, STATUS_WORD |-> {"inputStatus"},
              DIAGNOSTIC_WORD |-> {"vinOvervoltageFault"}],
   vinUv |-> [STATUS_INPUT |-> {"vinUvFault"}, STATUS_WORD |-> {"inputStatus", "vinUvFault"},
              DIAGNOSTIC_WORD |-> {"vinUndervoltageFault"}],
   overcurrent |-> [STATUS_INPUT |-> {"ocFault"}, STATUS_WORD |-> {"inputStatus"},
                    DIAGNOSTIC_WORD |-> {"iinOcPfetOpFault"}],
   circuitBreaker |-> [STATUS_MFR_SPECIFIC |-> {"cbFault"}, STATUS_WORD |-> {"cbFault"},
                       DIAGNOSTIC_WORD |-> {"circuitBreakerFault"}],
   fetFail |-> [STATUS_MFR_SPECIFIC |-> {"fetFail", "fetFaultGate1"},
                STATUS_WORD |-> {"fetFail"}, DIAGNOSTIC_WORD |-> {"fetFail"}],
   overTemperature |-> [STATUS_WORD |-> {"temperature"},
                        DIAGNOSTIC_WORD |-> {"overTemperatureFault"}],
   timerExpired |-> [DIAGNOSTIC_WORD |-> {"timerLatchedOff"}],
   shortCircuit |-> [STATUS_MFR_SPECIFIC_2 |-> {"scFault"}],
   watchdog |-> [STATUS_MFR_SPECIFIC_2 |-> {"watchdogFault"}],
   invalidCommand |-> [STATUS_CML |-> {"invCmd"}, STATUS_WORD |-> {"cml"},
                       DIAGNOSTIC_WORD |-> {"cmlFault"}],
   memory |-> [STATUS_CML |-> {"memoryFault"}, STATUS_WORD |-> {"cml"},
               DIAGNOSTIC_WORD |-> {"cmlFault"}]]

Remarks ==
  [vinOvWarn |-> [STATUS_INPUT |-> {"vinOvWarn"}, STATUS_WORD |-> {"inputStatus"},
                  DIAGNOSTIC_WORD |-> {"vinOvervoltageWarn"}],
   vinUvWarn |-> [STATUS_INPUT |-> {"vinUvWarn"}, STATUS_WORD |-> {"inputStatus"},
                  DIAGNOSTIC_WORD |-> {"vinUndervoltageWarn"}],
   inputWarn |-> [STATUS_INPUT |-> {"ocWarn", "inOpWarn"}, STATUS_WORD |-> {"inputStatus"},
                  DIAGNOSTIC_WORD |-> {"iinOpWarn"}],
   voutUvWarn |-> [STATUS_WORD |-> {"outStatus", "unknown"},
                   DIAGNOSTIC_WORD |-> {"voutUndervoltageWarn"}],
   otherCommunication |-> [STATUS_CML |-> {"noneOfAbove"}, STATUS_WORD |-> {"cml", "other"},
                           DIAGNOSTIC_WORD |-> {"cmlFault"}],
   overTemperatureWarn |-> [STATUS_WORD |-> {"temperature"},
                            DIAGNOSTIC_WORD |-> {"overTemperatureWarn"}],
   vinTransient |-> [STATUS_MFR_SPECIFIC_2 |-> {"vinTran"}],
   energyOverflow |-> [STATUS_MFR_SPECIFIC_2 |-> {"einOfWarn"}],
   blackBoxFull |-> [STATUS_MFR_SPECIFIC |-> {"bbRamFull"}],
   gateOff |-> [STATUS_WORD |-> {"off", "pgoodb"}, DIAGNOSTIC_WORD |-> {"deviceOff"}],
   asDelivered |-> [STATUS_MFR_SPECIFIC |-> {"defaultsLoaded"},
                    STATUS_MFR_SPECIFIC_2 |-> {"eeProg", "avgDone", "retryRec", "initDone"},
                    DIAGNOSTIC_WORD |-> {"configPreset", "powerGood"}]]

Events == DOMAIN Faults \cup DOMAIN Remarks

Raises(event) == IF event \in DOMAIN Faults THEN Faults[event] ELSE Remarks[event]

Raised(event, reg) ==
  IF reg \in DOMAIN Raises(event) THEN {StatusBit(reg, n) : n \in Raises(event)[reg]} ELSE {}

Status(events) == [reg \in StatusRegisters |-> UNION {Raised(e, reg) : e \in events}]

-----------------------------------------------------------------------------
(* Direct format.  Numbers are fixed point: m and b carry one and two       *)
(* decimals, and rows the table gives with R = -1 are written with R = -2.  *)

\* cl_mv_x10 of the rows: the current limit in tenths of a millivolt.
RangeRows == <<100, 125, 150, 175, 200, 225, 250, 500>>

IinOne == [m |-> <<379170, 303333, 252778, 216668, 189583, 168519, 151667, 75833>>,
           b |-> <<10250, 39557, -20900, 423, -24636, -5493, 6389, 23703>>]
IinTwo == [m |-> <<189583, 151667, 126389, 108333, 94792, 84259, 75833, 37917>>,
           b |-> <<46102, 62166, 12111, 25083, 5824, 19376, 28186, 41451>>]

Abs(n) == IF n < 0 THEN -n ELSE n

\* coeffFromTable(): the nearest row, the first of two as near.
NearestRow(target) ==
  CHOOSE i \in DOMAIN RangeRows :
    /\ \A j \in DOMAIN RangeRows :
         Abs(target - RangeRows[i]) <= Abs(target - RangeRows[j])
    /\ \A j \in 1 .. i - 1 :
         Abs(target - RangeRows[i]) < Abs(target - RangeRows[j])

CoeffIin(limit, twice) ==
  LET table == IF twice THEN IinTwo ELSE IinOne
      row == NearestRow(limit)
  IN [m |-> table.m[row], b |-> table.b[row]]

CoeffVin == [m |-> 45960, b |-> 25500]
CoeffTemperature == [m |-> 1000, b |-> 2643700]

Clamp12(n) == IF n < 0 THEN 0 ELSE IF n > 4095 THEN 4095 ELSE n

\* valueToDirect() with its clamp; `value' in tenths, `scale' in tenths of what
\* coeffFromTable() multiplies m with (the sense resistor), 10 where it does not.
ValueToDirect(value, coeff, scale) ==
  Clamp12((value * coeff.m * scale + coeff.b * 10 + 50000) \div 100000)

-----------------------------------------------------------------------------
(* What the chip means by a current code: its full scale is proportional to  *)
(* the current limit and doubled by the 2x range.                            *)

ChipCode(amps, sense, limit, twice) ==
  (amps * sense * 37917) \div ((IF twice THEN 200 ELSE 100) * limit)

Near(code, reference) == 100 * Abs(code - reference) <= reference + 1000

\* Every row follows it within one percent and ten codes.
ASSUME RowsFollowTheRange ==
  \A row \in DOMAIN RangeRows : \A twice \in BOOLEAN : \A amps \in {10, 100, 170} :
    Near(ValueToDirect(amps, CoeffIin(RangeRows[row], twice), 10),
         IF ChipCode(amps, 10, RangeRows[row], twice) > 4095 THEN 4095
         ELSE ChipCode(amps, 10, RangeRows[row], twice))
=============================================================================
