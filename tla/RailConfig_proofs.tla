------------------------- MODULE RailConfig_proofs -------------------------
(***************************************************************************)
(* What is proved of a rail's configuration, for every number of faults,   *)
(* losses of power, bridge writes and resets, and every number of attempts  *)
(* at the watchdog; and of its report (FaultReport), for all events of the  *)
(* chip at once and any number of bad readings.                            *)
(***************************************************************************)
EXTENDS RailConfig, FaultReport, TLAPS

-----------------------------------------------------------------------------
(* Registers and their fields.                                              *)

LEMMA FieldPowers ==
  /\ 2^0 = 1 /\ 2^1 = 2 /\ 2^2 = 4 /\ 2^3 = 8 /\ 2^4 = 16 /\ 2^5 = 32 /\ 2^6 = 64
  /\ 2^7 = 128
OBVIOUS

LEMMA PowerTable ==
  ASSUME NEW w
  PROVE  /\ w = 0 => 2^w = 1
         /\ w = 1 => 2^w = 2
         /\ w = 2 => 2^w = 4
         /\ w = 3 => 2^w = 8
         /\ w = 4 => 2^w = 16
         /\ w = 5 => 2^w = 32
         /\ w = 6 => 2^w = 64
         /\ w = 7 => 2^w = 128
<1>1. /\ w = 0 => 2^w = 1
      /\ w = 1 => 2^w = 2
      /\ w = 2 => 2^w = 4
      /\ w = 3 => 2^w = 8
      /\ w = 4 => 2^w = 16
      /\ w = 5 => 2^w = 32
  BY FieldPowers, Zenon
<1>2. w = 6 => 2^w = 64
  BY FieldPowers, Zenon
<1>3. w = 7 => 2^w = 128
  BY FieldPowers, ZenonT(30)
<1>4. QED
  BY <1>1, <1>2, <1>3, Zenon

LEMMA PowerRange == \A w \in 0 .. 7 : 2^w \in 1 .. 128
BY PowerTable

LEMMA Binary ==
  ASSUME NEW v \in 0 .. 127
  PROVE  v = (v % 2) + 2 * ((v \div 2) % 2) + 4 * ((v \div 4) % 2) + 8 * ((v \div 8) % 2)
               + 16 * ((v \div 16) % 2) + 32 * ((v \div 32) % 2) + 64 * ((v \div 64) % 2)
OBVIOUS

LEMMA NoHighBits ==
  ASSUME NEW v \in 0 .. 127
  PROVE  /\ v < 2 => (v \div 2) % 2 = 0
         /\ v < 4 => (v \div 4) % 2 = 0
         /\ v < 8 => (v \div 8) % 2 = 0
         /\ v < 16 => (v \div 16) % 2 = 0
         /\ v < 32 => (v \div 32) % 2 = 0
         /\ v < 64 => (v \div 64) % 2 = 0
BY SMTT(30)

LEMMA FieldShape ==
  ASSUME NEW reg \in LaidOut, NEW f \in DOMAIN LayoutOf(reg)
  PROVE  /\ LayoutOf(reg)[f].low \in Nat /\ LayoutOf(reg)[f].width \in 1 .. 7
         /\ \A k \in 0 .. LayoutOf(reg)[f].width - 1 :
              LayoutOf(reg)[f].low + k \in FieldBits(LayoutOf(reg)[f])
<1>1. LayoutOf(reg)[f].low \in Nat /\ LayoutOf(reg)[f].width \in 1 .. 7
  BY LayoutsApart
<1> DEFINE low == LayoutOf(reg)[f].low
           width == LayoutOf(reg)[f].width
<1>2. \A k \in 0 .. width - 1 : low + k \in low .. low + width - 1
  <2>1. low \in Nat /\ width \in 1 .. 7
    BY <1>1
  <2> HIDE DEF low, width
  <2>2. QED
    BY <2>1
<1>3. QED
  BY <1>1, <1>2 DEF FieldBits

\* Fields lie apart, so a bit of the register is a bit of one value.
LEMMA BitEncoded ==
  ASSUME NEW reg \in LaidOut, NEW values, NEW f \in DOMAIN LayoutOf(reg),
         NEW k \in 0 .. LayoutOf(reg)[f].width - 1
  PROVE  LayoutOf(reg)[f].low + k \in Encode(reg, values)
           <=> (values[f] \div 2^k) % 2 = 1
<1> DEFINE layout == LayoutOf(reg)
           bit == layout[f].low + k
<1>1. bit \in FieldBits(layout[f]) /\ bit - layout[f].low = k
  BY FieldShape
<1>2. \A g \in DOMAIN layout \ {f} : bit \notin FieldBits(layout[g])
  BY <1>1, LayoutsApart
<1> HIDE DEF bit
<1>3. bit \in Encode(reg, values)
        <=> \E g \in DOMAIN layout : /\ bit \in FieldBits(layout[g])
                                     /\ (values[g] \div 2^(bit - layout[g].low)) % 2 = 1
  BY DEF Encode
<1>4. QED
  BY <1>1, <1>2, <1>3 DEF bit

LEMMA EncodedBits ==
  ASSUME NEW reg \in LaidOut, NEW values
  PROVE  Encode(reg, values) \subseteq AllBits(reg)
BY LayoutsApart DEF Encode, AllBits

\* A field's value depends on its own bits only.
LEMMA SameBits ==
  ASSUME NEW field, field.low \in Nat, field.width \in 1 .. 7, NEW raw, NEW other,
         \A k \in 0 .. field.width - 1 : field.low + k \in raw <=> field.low + k \in other
  PROVE  FieldValue(field, raw) = FieldValue(field, other)
<1>1. \A k \in Nat : (k < field.width /\ field.low + k \in raw)
                       <=> (k < field.width /\ field.low + k \in other)
  OBVIOUS
<1>2. QED
  BY <1>1 DEF FieldValue

\* What a value is made of: its bits.
LEMMA BitOfValue ==
  ASSUME NEW field, field.low \in Nat, field.width \in 1 .. 7, NEW raw,
         NEW k \in 0 .. field.width - 1
  PROVE  (FieldValue(field, raw) \div 2^k) % 2 = 1 <=> field.low + k \in raw
<1> DEFINE part(i) == IF i < field.width /\ field.low + i \in raw THEN 1 ELSE 0
<1>1. FieldValue(field, raw) = part(0) + 2 * part(1) + 4 * part(2) + 8 * part(3)
                                 + 16 * part(4) + 32 * part(5) + 64 * part(6)
  BY FieldPowers DEF FieldValue
<1>2. \A i \in 0 .. 6 : part(i) \in {0, 1}
  OBVIOUS
<1>3. part(k) = 1 <=> field.low + k \in raw
  OBVIOUS
<1>4. k \in 0 .. 6
  OBVIOUS
<1> HIDE DEF part
<1>5. (FieldValue(field, raw) \div 2^k) % 2 = part(k)
  <2>1. /\ part(0) \in {0, 1} /\ part(1) \in {0, 1} /\ part(2) \in {0, 1}
        /\ part(3) \in {0, 1} /\ part(4) \in {0, 1} /\ part(5) \in {0, 1}
        /\ part(6) \in {0, 1}
    BY <1>2
  <2>2. CASE k = 0
    BY ONLY <1>1, <2>1, <2>2, FieldPowers
  <2>3. CASE k = 1
    BY ONLY <1>1, <2>1, <2>3, FieldPowers
  <2>4. CASE k = 2
    BY ONLY <1>1, <2>1, <2>4, FieldPowers
  <2>5. CASE k = 3
    BY ONLY <1>1, <2>1, <2>5, FieldPowers
  <2>6. CASE k = 4
    BY ONLY <1>1, <2>1, <2>6, FieldPowers
  <2>7. CASE k = 5
    BY ONLY <1>1, <2>1, <2>7, FieldPowers
  <2>8. CASE k = 6
    BY ONLY <1>1, <2>1, <2>8, FieldPowers
  <2>9. QED
    BY <1>4, <2>2, <2>3, <2>4, <2>5, <2>6, <2>7, <2>8
<1>6. QED
  BY <1>3, <1>5

\* What was encoded reads back as it was, if it fits.
LEMMA EncodedValue ==
  ASSUME NEW reg \in LaidOut, NEW values, NEW f \in DOMAIN LayoutOf(reg),
         values[f] \in 0 .. 2^LayoutOf(reg)[f].width - 1
  PROVE  Decode(reg, Encode(reg, values))[f] = values[f]
<1> DEFINE field == LayoutOf(reg)[f]
           raw == Encode(reg, values)
           v == values[f]
           part(i) == IF i < field.width /\ field.low + i \in raw THEN 1 ELSE 0
           bit(i) == IF i < field.width THEN (v \div 2^i) % 2 ELSE 0
<1>1. field.low \in Nat /\ field.width \in 1 .. 7
  BY FieldShape
<1>2. \A i \in 0 .. 6 : i < field.width => (field.low + i \in raw <=> (v \div 2^i) % 2 = 1)
  <2>1. ASSUME NEW i \in 0 .. 6, i < field.width
        PROVE  field.low + i \in raw <=> (v \div 2^i) % 2 = 1
    <3>1. i \in 0 .. field.width - 1
      BY <1>1, <2>1
    <3>2. QED
      BY <3>1, BitEncoded
  <2>2. QED
    BY <2>1
<1> HIDE DEF raw
<1>3. v \in 0 .. 127 /\ v < 2^field.width
  <2> HIDE DEF field, v
  <2>1. v \in 0 .. 2^field.width - 1
    BY DEF field, v
  <2>2. 2^field.width \in 1 .. 128
    <3>1. field.width \in 0 .. 7
      BY <1>1
    <3>2. QED
      BY <3>1, PowerRange, Zenon
  <2>3. QED
    BY <2>1, <2>2
<1>4. \A i \in 0 .. 6 : part(i) = bit(i)
  <2>1. ASSUME NEW i \in 0 .. 6 PROVE part(i) = bit(i)
    <3>1. (v \div 2^i) % 2 \in {0, 1}
      <4>1. 2^i \in 1 .. 128
        <5>1. i \in 0 .. 7
          OBVIOUS
        <5>2. QED
          BY <5>1, PowerRange, Zenon
      <4> HIDE DEF v
      <4>2. v \div 2^i \in Int
        BY <1>3, <4>1
      <4>3. QED
        BY <4>2
    <3>2. QED
      BY <1>2, <3>1
  <2>2. QED
    BY <2>1
<1>5. FieldValue(field, raw) = part(0) + 2 * part(1) + 4 * part(2) + 8 * part(3)
                                 + 16 * part(4) + 32 * part(5) + 64 * part(6)
  BY <1>1, FieldPowers DEF FieldValue
<1>6. v = bit(0) + 2 * bit(1) + 4 * bit(2) + 8 * bit(3) + 16 * bit(4) + 32 * bit(5)
            + 64 * bit(6)
  <2> DEFINE w == field.width
  <2>1. w \in 1 .. 7 /\ v \in 0 .. 127 /\ v < 2^w
    BY <1>1, <1>3
  <2>2. /\ bit(0) = (IF 0 < w THEN v % 2 ELSE 0)
        /\ bit(1) = (IF 1 < w THEN (v \div 2) % 2 ELSE 0)
        /\ bit(2) = (IF 2 < w THEN (v \div 4) % 2 ELSE 0)
        /\ bit(3) = (IF 3 < w THEN (v \div 8) % 2 ELSE 0)
        /\ bit(4) = (IF 4 < w THEN (v \div 16) % 2 ELSE 0)
        /\ bit(5) = (IF 5 < w THEN (v \div 32) % 2 ELSE 0)
        /\ bit(6) = (IF 6 < w THEN (v \div 64) % 2 ELSE 0)
    BY <1>3, FieldPowers
  <2>3. /\ v < 2 => (v \div 2) % 2 = 0 /\ (v \div 4) % 2 = 0 /\ (v \div 8) % 2 = 0
        /\ v < 4 => (v \div 4) % 2 = 0 /\ (v \div 8) % 2 = 0
        /\ v < 8 => (v \div 8) % 2 = 0
        /\ v < 16 => (v \div 16) % 2 = 0 /\ (v \div 32) % 2 = 0 /\ (v \div 64) % 2 = 0
        /\ v < 32 => (v \div 32) % 2 = 0 /\ (v \div 64) % 2 = 0
        /\ v < 64 => (v \div 64) % 2 = 0
    <3> HIDE DEF v
    <3>1. QED
      BY <2>1, NoHighBits
  <2>4. v = (v % 2) + 2 * ((v \div 2) % 2) + 4 * ((v \div 4) % 2) + 8 * ((v \div 8) % 2)
              + 16 * ((v \div 16) % 2) + 32 * ((v \div 32) % 2) + 64 * ((v \div 64) % 2)
    BY <2>1, Binary
  <2>5. (w < 2 => v < 2) /\ (w < 3 => v < 4) /\ (w < 4 => v < 8) /\ (w < 5 => v < 16)
        /\ (w < 6 => v < 32) /\ (w < 7 => v < 64)
    <3> HIDE DEF w, v
    <3>1. QED
      BY <2>1, PowerTable
  <2>6. v % 2 = bit(0)
    BY <2>1, <2>2
  <2>7. (v \div 2) % 2 = bit(1) /\ (v \div 4) % 2 = bit(2) /\ (v \div 8) % 2 = bit(3)
    BY ONLY <2>1, <2>2, <2>3, <2>5
  <2>8. (v \div 16) % 2 = bit(4) /\ (v \div 32) % 2 = bit(5) /\ (v \div 64) % 2 = bit(6)
    BY ONLY <2>1, <2>2, <2>3, <2>5
  <2>9. QED
    BY ONLY <2>4, <2>6, <2>7, <2>8
<1>7. FieldValue(field, raw) = v
  <2> HIDE DEF part, bit
  <2>1. /\ part(0) = bit(0) /\ part(1) = bit(1) /\ part(2) = bit(2) /\ part(3) = bit(3)
        /\ part(4) = bit(4) /\ part(5) = bit(5) /\ part(6) = bit(6)
    BY <1>4
  <2>2. QED
    BY <1>5, <1>6, <2>1
<1>8. QED
  BY <1>7 DEF Decode, raw

\* Read, changed and written back, a field that was not changed reads as before,
\* whatever the others were given.
LEMMA RoundTrip ==
  ASSUME NEW reg \in LaidOut, NEW raw, NEW values, NEW f \in DOMAIN LayoutOf(reg),
         values[f] = Decode(reg, raw)[f]
  PROVE  Decode(reg, Encode(reg, values))[f] = Decode(reg, raw)[f]
<1> DEFINE field == LayoutOf(reg)[f]
<1>1. field.low \in Nat /\ field.width \in 1 .. 7
  BY FieldShape
<1>2. values[f] = FieldValue(field, raw)
  BY DEF Decode
<1>3. ASSUME NEW k \in 0 .. field.width - 1
      PROVE  field.low + k \in Encode(reg, values) <=> field.low + k \in raw
  <2>1. field.low + k \in Encode(reg, values) <=> (values[f] \div 2^k) % 2 = 1
    BY BitEncoded
  <2>2. (FieldValue(field, raw) \div 2^k) % 2 = 1 <=> field.low + k \in raw
    BY <1>1, BitOfValue
  <2>3. QED
    BY <1>2, <2>1, <2>2
<1>4. FieldValue(field, Encode(reg, values)) = FieldValue(field, raw)
  <2> HIDE DEF field
  <2>1. QED
    BY <1>1, <1>3, SameBits
<1>5. QED
  BY <1>4 DEF Decode

-----------------------------------------------------------------------------
(* The plan: which step writes which register.                              *)

LEMMA PlanLength == Length = 22 /\ WatchdogStep = 21
BY DEF Length, WatchdogStep, Plans, Plan

LEMMA PlanOfRail == \A r \in DOMAIN AllRails : Plans[r] = Plan(AllRails[r])
BY DEF Plans, AllRails

\* Each step of the plan by its number.
LEMMA PlanTable ==
  ASSUME NEW d, NEW i \in 1 .. 22
  PROVE  /\ i \in {3, 5, 6, 7, 8, 10, 21} => Plan(d)[i].do = "change"
         /\ i \in {11, 18, 19, 20} => Plan(d)[i].do = "write"
         /\ i \in 12 .. 17 => Plan(d)[i].do = "limit"
         /\ i = 1 => Plan(d)[i].do = "protect"
         /\ i \in {2, 22} => Plan(d)[i].do = "clearFaults"
         /\ i = 4 => Plan(d)[i].do = "setAdcFullScale2x"
         /\ i = 9 => Plan(d)[i].do = "setCurrentLimitMilliVolts"
<1>1. /\ Plan(d)[1].do = "protect" /\ Plan(d)[2].do = "clearFaults"
      /\ Plan(d)[3].do = "change" /\ Plan(d)[4].do = "setAdcFullScale2x"
      /\ Plan(d)[5].do = "change" /\ Plan(d)[6].do = "change" /\ Plan(d)[7].do = "change"
      /\ Plan(d)[8].do = "change" /\ Plan(d)[9].do = "setCurrentLimitMilliVolts"
      /\ Plan(d)[10].do = "change" /\ Plan(d)[11].do = "write"
  BY DEF Plan, Call, Rmw, Fresh, OneTimesRange
<1>2. /\ Plan(d)[12].do = "limit" /\ Plan(d)[13].do = "limit" /\ Plan(d)[14].do = "limit"
      /\ Plan(d)[15].do = "limit" /\ Plan(d)[16].do = "limit" /\ Plan(d)[17].do = "limit"
      /\ Plan(d)[18].do = "write" /\ Plan(d)[19].do = "write" /\ Plan(d)[20].do = "write"
      /\ Plan(d)[21].do = "change" /\ Plan(d)[22].do = "clearFaults"
  BY DEF Plan, Call, Rmw, Fresh, Limit
<1>3. QED
  BY <1>1, <1>2

LEMMA RegisterTable ==
  ASSUME NEW d
  PROVE  /\ Plan(d)[3].reg = "ADC_CONFIG_2" /\ Plan(d)[5].reg = "DEVICE_SETUP"
         /\ Plan(d)[6].reg = "DEVICE_SETUP_4" /\ Plan(d)[7].reg = "RETRY_INSERTION_DELAY"
         /\ Plan(d)[8].reg = "DEVICE_SETUP_2" /\ Plan(d)[10].reg = "DEVICE_SETUP_3"
         /\ Plan(d)[11].reg = "OC_BLANKING_TIMERS"
         /\ Plan(d)[12].reg = "VIN_OV_WARN_LIMIT" /\ Plan(d)[13].reg = "VIN_UV_WARN_LIMIT"
         /\ Plan(d)[14].reg = "OT_WARN_LIMIT" /\ Plan(d)[15].reg = "OT_FAULT_LIMIT"
         /\ Plan(d)[16].reg = "IIN_OC_WARN_LIMIT"
         /\ Plan(d)[17].reg = "IIN_OC_WARN_LIMIT"
         /\ Plan(d)[18].reg = "MFR_ALERT_MASK" /\ Plan(d)[19].reg = "BLACK_BOX_CONFIG"
         /\ Plan(d)[20].reg = "MFR_GATE_MASK" /\ Plan(d)[21].reg = "WATCHDOG_PL_TIMER"
<1>1. /\ Plan(d)[3].reg = "ADC_CONFIG_2" /\ Plan(d)[5].reg = "DEVICE_SETUP"
      /\ Plan(d)[6].reg = "DEVICE_SETUP_4" /\ Plan(d)[7].reg = "RETRY_INSERTION_DELAY"
      /\ Plan(d)[8].reg = "DEVICE_SETUP_2" /\ Plan(d)[10].reg = "DEVICE_SETUP_3"
      /\ Plan(d)[11].reg = "OC_BLANKING_TIMERS"
  BY DEF Plan, Rmw, Fresh, OneTimesRange
<1>2. /\ Plan(d)[12].reg = "VIN_OV_WARN_LIMIT" /\ Plan(d)[13].reg = "VIN_UV_WARN_LIMIT"
      /\ Plan(d)[14].reg = "OT_WARN_LIMIT" /\ Plan(d)[15].reg = "OT_FAULT_LIMIT"
      /\ Plan(d)[16].reg = "IIN_OC_WARN_LIMIT"
      /\ Plan(d)[17].reg = "IIN_OC_WARN_LIMIT"
  BY DEF Plan, Limit, Cell, Mirrors
<1>3. /\ Plan(d)[18].reg = "MFR_ALERT_MASK" /\ Plan(d)[19].reg = "BLACK_BOX_CONFIG"
      /\ Plan(d)[20].reg = "MFR_GATE_MASK" /\ Plan(d)[21].reg = "WATCHDOG_PL_TIMER"
  BY DEF Plan, Rmw, Fresh
<1>4. QED
  BY <1>1, <1>2, <1>3

LEMMA PlanRegisters ==
  ASSUME NEW d, NEW i \in 1 .. 22
  PROVE  /\ Plan(d)[i].do \in {"change", "write"} => Plan(d)[i].reg \in FieldRegisters
         /\ Plan(d)[i].do = "limit" => Plan(d)[i].reg \in LimitRegisters
<1>1. CASE i \in {1, 2, 4, 9, 22}
  BY <1>1, PlanTable
<1>2. CASE i \in {3, 5, 6, 7, 8, 10, 11, 18, 19, 20, 21}
  BY <1>2, PlanTable, RegisterTable DEF FieldRegisters
<1>3. CASE i \in 12 .. 17
  BY <1>3, PlanTable, RegisterTable DEF LimitRegisters
<1>4. QED
  BY <1>1, <1>2, <1>3

LEMMA PlanWrites ==
  ASSUME NEW d, NEW i \in 1 .. 22, Plan(d)[i].do \in {"change", "write"}
  PROVE  /\ Plan(d)[i].reg = "ADC_CONFIG_2" <=> i = 3
         /\ Plan(d)[i].reg = "DEVICE_SETUP" <=> i = 5
         /\ Plan(d)[i].reg = "DEVICE_SETUP_2" <=> i = 8
         /\ Plan(d)[i].reg = "WATCHDOG_PL_TIMER" <=> i = 21
<1>1. i \in {3, 5, 6, 7, 8, 10, 11, 18, 19, 20, 21}
  BY PlanTable
<1>2. QED
  BY <1>1, RegisterTable

-----------------------------------------------------------------------------
(* The codes of limits.                                                     *)

VclValues == {Vcl[i] : i \in DOMAIN Vcl}

LEMMA VclTable ==
  /\ DOMAIN Vcl = 1 .. 8 /\ DOMAIN RangeRows = 1 .. 8
  /\ \A v \in VclValues : v \in Nat /\ \E i \in 1 .. 8 : RangeRows[i] = v
  /\ \A i \in 1 .. 8 : RangeRows[i] \in Nat
  /\ \A i, j \in 1 .. 8 : RangeRows[i] = RangeRows[j] => i = j
<1>1. /\ DOMAIN Vcl = 1 .. 8 /\ DOMAIN RangeRows = 1 .. 8
      /\ \A i \in 1 .. 8 : RangeRows[i] \in Nat
  BY DEF Vcl, RangeRows
<1>2. \A i, j \in 1 .. 8 : RangeRows[i] = RangeRows[j] => i = j
  BY DEF RangeRows
<1>3. VclValues = {100, 125, 150, 175, 200, 225, 250, 500}
  BY DEF VclValues, Vcl
<1>4. \A v \in {100, 125, 150, 175, 200, 225, 250, 500} :
        v \in Nat /\ \E i \in 1 .. 8 : RangeRows[i] = v
  <2>1. /\ RangeRows[1] = 100 /\ RangeRows[2] = 125 /\ RangeRows[3] = 150
        /\ RangeRows[4] = 175 /\ RangeRows[5] = 200 /\ RangeRows[6] = 225
        /\ RangeRows[7] = 250 /\ RangeRows[8] = 500
    BY DEF RangeRows
  <2>2. QED
    BY <2>1
<1>5. QED
  BY <1>1, <1>2, <1>3, <1>4

\* A current limit of the chip has a row of its own.
LEMMA NearestExact ==
  ASSUME NEW i \in 1 .. 8
  PROVE  NearestRow(RangeRows[i]) = i
<1> DEFINE Nearest(n) == /\ \A j \in 1 .. 8 : Abs(RangeRows[i] - RangeRows[n])
                                                 <= Abs(RangeRows[i] - RangeRows[j])
                         /\ \A j \in 1 .. n - 1 : Abs(RangeRows[i] - RangeRows[n])
                                                    < Abs(RangeRows[i] - RangeRows[j])
<1>1. Nearest(i)
  BY VclTable DEF Abs
<1>2. \A n \in 1 .. 8 : Nearest(n) => n = i
  <2>1. \A n \in 1 .. 8 : Abs(RangeRows[i] - RangeRows[n]) <= 0 => n = i
    BY VclTable DEF Abs
  <2>2. Abs(RangeRows[i] - RangeRows[i]) = 0
    BY VclTable DEF Abs
  <2>3. QED
    BY <2>1, <2>2
<1>3. NearestRow(RangeRows[i]) = CHOOSE n \in 1 .. 8 : Nearest(n)
  BY VclTable, Zenon DEF NearestRow
<1> HIDE DEF Nearest
<1>4. QED
  BY <1>1, <1>2, <1>3

Coefficients == [m : Int, b : Int]
Codes == 0 .. 4095

LEMMA CoeffTypes ==
  /\ CoeffVin \in Coefficients /\ CoeffTemperature \in Coefficients
  /\ \A limit \in VclValues, twice \in BOOLEAN : CoeffIin(limit, twice) \in Coefficients
<1>1. CoeffVin \in Coefficients /\ CoeffTemperature \in Coefficients
  BY DEF CoeffVin, CoeffTemperature, Coefficients
<1>2. ASSUME NEW limit \in VclValues, NEW twice \in BOOLEAN
      PROVE  CoeffIin(limit, twice) \in Coefficients
  <2>1. PICK i \in 1 .. 8 : RangeRows[i] = limit
    BY VclTable
  <2>2. NearestRow(limit) = i
    BY <2>1, NearestExact
  <2>3. \A n \in 1 .. 8 : /\ IinOne.m[n] \in Int /\ IinOne.b[n] \in Int
                          /\ IinTwo.m[n] \in Int /\ IinTwo.b[n] \in Int
    BY DEF IinOne, IinTwo
  <2>4. QED
    BY <2>2, <2>3 DEF CoeffIin, Coefficients
<1>3. QED
  BY <1>1, <1>2

LEMMA DirectRange ==
  \A value, scale \in Int : \A coeff \in Coefficients :
    ValueToDirect(value, coeff, scale) \in Codes
<1> SUFFICES ASSUME NEW value \in Int, NEW scale \in Int, NEW coeff \in Coefficients
             PROVE  ValueToDirect(value, coeff, scale) \in Codes
  OBVIOUS
<1> DEFINE n == (value * coeff.m * scale + coeff.b * 10 + 50000) \div 100000
<1>1. value * coeff.m * scale + coeff.b * 10 + 50000 \in Int
  <2>1. coeff.m \in Int /\ coeff.b \in Int
    BY DEF Coefficients
  <2>2. value * coeff.m \in Int
    BY <2>1
  <2>3. (value * coeff.m) * scale \in Int
    BY <2>2
  <2>4. QED
    BY <2>1, <2>3
<1>2. n \in Int
  BY <1>1
<1>3. ValueToDirect(value, coeff, scale) = Clamp12(n)
  BY DEF ValueToDirect
<1> HIDE DEF n
<1>4. QED
  BY ONLY <1>2, <1>3 DEF Clamp12, Codes

LEMMA RailTable ==
  \A r \in DOMAIN AllRails :
    /\ AllRails[r].vcl \in {2, 4, 6}
    /\ AllRails[r].warn \in Int /\ AllRails[r].vinOv \in Int /\ AllRails[r].vinUv \in Int
    /\ AllRails[r].sense \in Int
BY DEF AllRails

LEMMA VclOfRail == \A r \in DOMAIN AllRails : VclOf(AllRails[r].vcl) \in VclValues
<1>1. \A code \in 0 .. 7 : VclOf(code) \in VclValues
  BY VclTable DEF VclOf, VclValues
<1>2. QED
  BY <1>1, RailTable

-----------------------------------------------------------------------------
(* Types.  The watchdog is never tried more often than WatchdogTries, and    *)
(* init() has a result exactly when it is over.                             *)

DriverTypes ==
  /\ rail \in Rails /\ rail \in DOMAIN AllRails
  /\ pc \in 0 .. Length + 1
  /\ tries \in 0 .. WatchdogTries
  /\ pc <= WatchdogStep => tries < WatchdogTries
  /\ result \in {"none", "kOk", "kNotPresent", "kBusError"}
  /\ result = "none" <=> pc <= Length
  /\ cache \in [twice : BOOLEAN, limit : VclValues]

ChipTypes ==
  /\ regs \in [FieldRegisters -> SUBSET (0 .. 15)]
  /\ \A reg \in FieldRegisters : regs[reg] \subseteq AllBits(reg)
  /\ limits \in [LimitRegisters -> Codes]
  /\ protected \in BOOLEAN

HistoryTypes ==
  /\ faults \in 0 .. MaxFaults
  /\ doubtful \subseteq EveryRegister /\ misread \subseteq FieldRegisters
  /\ foreign \subseteq EveryRegister

Types == DriverTypes /\ ChipTypes /\ HistoryTypes

LEMMA TypesGiveTypeOK == Types => TypeOK
BY DEF Types, DriverTypes, ChipTypes, HistoryTypes, TypeOK, VclValues, Codes

LEMMA FieldRegistersLaidOut == FieldRegisters \subseteq LaidOut
BY DEF FieldRegisters, LaidOut, MaskLayouts, SetupLayouts, TimerLayouts, BlackBoxLayouts,
       AdcLayouts

LEMMA AllBitsBounded == \A reg : AllBits(reg) \subseteq 0 .. 15
BY DEF AllBits

LEMMA FaultCounts ==
  /\ \A x : FaultsOf(<<x>>) \in {0, 1}
  /\ \A x, y : FaultsOf(<<x, y>>) \in {0, 1, 2}
<1>1. ASSUME NEW x PROVE FaultsOf(<<x>>) \in {0, 1}
  <2>1. Len(<<x>>) = 1 /\ <<x>>[1] = x
    OBVIOUS
  <2>2. QED
    BY <2>1 DEF FaultsOf
<1>2. ASSUME NEW x, NEW y PROVE FaultsOf(<<x, y>>) \in {0, 1, 2}
  <2>1. Len(<<x, y>>) = 2 /\ <<x, y>>[1] = x /\ <<x, y>>[2] = y
    OBVIOUS
  <2>2. QED
    BY <2>1 DEF FaultsOf
<1>3. QED
  BY <1>1, <1>2

LEMMA SufferTypes ==
  ASSUME Types, NEW n \in Nat, faults' = faults + n, faults' <= MaxFaults
  PROVE  faults' \in 0 .. MaxFaults
BY ConfigAssumption DEF Types, HistoryTypes

LEMMA InitTypes == Init => Types
<1> SUFFICES ASSUME Init PROVE Types
  OBVIOUS
<1>1. DriverTypes
  <2>1. [twice |-> FALSE, limit |-> 500] \in [twice : BOOLEAN, limit : VclValues]
    BY DEF VclValues, Vcl
  <2>2. QED
    BY <2>1, PlanLength, ConfigAssumption DEF Init, DriverTypes
<1>2. ChipTypes
  <2>1. PICK bits \in Contents : regs = Holding(bits)
    BY DEF Init
  <2>2. regs \in [FieldRegisters -> SUBSET (0 .. 15)]
    BY <2>1, AllBitsBounded DEF Holding
  <2>3. \A reg \in FieldRegisters : regs[reg] \subseteq AllBits(reg)
    BY <2>1 DEF Holding
  <2>4. QED
    BY <2>2, <2>3 DEF Init, ChipTypes, Codes
<1>3. HistoryTypes
  BY ConfigAssumption DEF Init, HistoryTypes
<1>4. QED
  BY <1>1, <1>2, <1>3 DEF Types

LEMMA PutTypes ==
  ASSUME Types, NEW reg \in FieldRegisters, NEW raw \in SUBSET AllBits(reg), NEW outcome,
         PutRegister(reg, raw, outcome)
  PROVE  ChipTypes' /\ doubtful' \subseteq EveryRegister /\ foreign' \subseteq EveryRegister
<1>1. raw \subseteq 0 .. 15
  BY AllBitsBounded
<1>2. regs' \in [FieldRegisters -> SUBSET (0 .. 15)]
      /\ \A r \in FieldRegisters : regs'[r] \subseteq AllBits(r)
  <2>1. CASE Lands(outcome)
    <3>1. regs' = [regs EXCEPT ![reg] = raw]
      BY <2>1 DEF PutRegister
    <3>2. regs' \in [FieldRegisters -> SUBSET (0 .. 15)]
      BY <1>1, <3>1 DEF Types, ChipTypes
    <3>3. ASSUME NEW r \in FieldRegisters PROVE regs'[r] \subseteq AllBits(r)
      <4>1. CASE r = reg
        BY <3>1, <4>1 DEF Types, ChipTypes
      <4>2. CASE r # reg
        BY <3>1, <4>2 DEF Types, ChipTypes
      <4>3. QED
        BY <4>1, <4>2
    <3>4. QED
      BY <3>2, <3>3
  <2>2. CASE ~Lands(outcome)
    BY <2>2 DEF PutRegister, Types, ChipTypes
  <2>3. QED
    BY <2>1, <2>2
<1>3. ChipTypes'
  BY <1>2 DEF PutRegister, Types, ChipTypes
<1>4. QED
  BY <1>3 DEF PutRegister, Doubt, EveryRegister, Types, HistoryTypes

\* The step of the plan that is due.
LEMMA CurrentStep ==
  ASSUME Types, pc \in 1 .. Length
  PROVE  /\ pc \in 1 .. 22 /\ rail \in DOMAIN AllRails /\ Step = Plan(AllRails[rail])[pc]
         /\ Step.do \in {"change", "write"} => Step.reg \in FieldRegisters
         /\ Step.do = "limit" => Step.reg \in LimitRegisters
         /\ Step.do = "change" <=> pc \in {3, 5, 6, 7, 8, 10, 21}
         /\ Step.do = "write" <=> pc \in {11, 18, 19, 20}
         /\ Step.do = "limit" <=> pc \in 12 .. 17
         /\ Step.do = "protect" <=> pc = 1
         /\ Step.do = "clearFaults" <=> pc \in {2, 22}
         /\ Step.do = "setAdcFullScale2x" <=> pc = 4
         /\ Step.do = "setCurrentLimitMilliVolts" <=> pc = 9
<1>1. pc \in 1 .. 22 /\ rail \in DOMAIN AllRails /\ Step = Plan(AllRails[rail])[pc]
  BY PlanLength, PlanOfRail DEF Types, DriverTypes, Step
<1>2. PICK i \in 1 .. 22 : i = pc
  BY <1>1
<1> DEFINE d == AllRails[rail]
<1> HIDE DEF d
<1>3. Step = Plan(d)[i]
  BY <1>1, <1>2 DEF d
<1>4. /\ Plan(d)[i].do \in {"change", "write"} => Plan(d)[i].reg \in FieldRegisters
      /\ Plan(d)[i].do = "limit" => Plan(d)[i].reg \in LimitRegisters
  BY ONLY PlanRegisters
<1>5. /\ i \in {3, 5, 6, 7, 8, 10, 21} => Plan(d)[i].do = "change"
      /\ i \in {11, 18, 19, 20} => Plan(d)[i].do = "write"
      /\ i \in 12 .. 17 => Plan(d)[i].do = "limit"
      /\ i = 1 => Plan(d)[i].do = "protect"
      /\ i \in {2, 22} => Plan(d)[i].do = "clearFaults"
      /\ i = 4 => Plan(d)[i].do = "setAdcFullScale2x"
      /\ i = 9 => Plan(d)[i].do = "setCurrentLimitMilliVolts"
  BY ONLY PlanTable
<1>6. QED
  BY ONLY <1>1, <1>2, <1>3, <1>4, <1>5

LEMMA CurrentWrite ==
  ASSUME Types, pc \in 1 .. Length, Step.do \in {"change", "write"}
  PROVE  /\ Step.reg = "ADC_CONFIG_2" <=> pc = 3
         /\ Step.reg = "DEVICE_SETUP" <=> pc = 5
         /\ Step.reg = "DEVICE_SETUP_2" <=> pc = 8
         /\ Step.reg = "WATCHDOG_PL_TIMER" <=> pc = 21
<1>1. pc \in 1 .. 22 /\ Step = Plan(AllRails[rail])[pc]
  BY CurrentStep
<1>2. PICK i \in 1 .. 22 : i = pc
  BY <1>1
<1> DEFINE d == AllRails[rail]
<1> HIDE DEF d
<1>3. Step = Plan(d)[i]
  BY <1>1, <1>2 DEF d
<1>4. Plan(d)[i].do \in {"change", "write"}
  BY <1>3
<1>5. /\ Plan(d)[i].reg = "ADC_CONFIG_2" <=> i = 3
      /\ Plan(d)[i].reg = "DEVICE_SETUP" <=> i = 5
      /\ Plan(d)[i].reg = "DEVICE_SETUP_2" <=> i = 8
      /\ Plan(d)[i].reg = "WATCHDOG_PL_TIMER" <=> i = 21
  BY ONLY <1>4, PlanWrites
<1>6. QED
  BY ONLY <1>2, <1>3, <1>5

LEMMA CurrentLimit ==
  ASSUME Types, pc \in 1 .. Length, Step.do = "limit"
  PROVE  /\ Step.set.amount \in {AllRails[rail].vinOv, AllRails[rail].vinUv, 1000, 1250,
                                 AllRails[rail].warn}
         /\ Step.reg = "IIN_OC_WARN_LIMIT" => Step.set.amount = AllRails[rail].warn
<1>1. pc \in 12 .. 17 /\ Step = Plan(AllRails[rail])[pc]
  BY CurrentStep
<1>2. PICK i \in 12 .. 17 : i = pc
  BY <1>1
<1> DEFINE d == AllRails[rail]
<1> HIDE DEF d
<1>3. Step = Plan(d)[i]
  BY <1>1, <1>2 DEF d
<1>4. /\ Plan(d)[i].set.amount \in {d.vinOv, d.vinUv, 1000, 1250, d.warn}
      /\ Plan(d)[i].reg = "IIN_OC_WARN_LIMIT" => Plan(d)[i].set.amount = d.warn
  BY ONLY i \in 12 .. 17 DEF Plan, Limit, Cell, Mirrors
<1>5. QED
  BY <1>3, <1>4 DEF d

LEMMA LimitCodeRange ==
  ASSUME Types, pc \in 1 .. Length, Step.do = "limit"
  PROVE  LimitCode(Step.reg, Step.set.amount) \in Codes
<1>1. Step.set.amount \in Int
  <2>1. /\ AllRails[rail].vinOv \in Int /\ AllRails[rail].vinUv \in Int
        /\ AllRails[rail].warn \in Int
    BY RailTable DEF Types, DriverTypes
  <2>2. QED
    BY <2>1, CurrentLimit
<1>2. AllRails[rail].sense \in Int
  BY RailTable DEF Types, DriverTypes
<1>3. CoeffIin(cache.limit, cache.twice) \in Coefficients
  BY CoeffTypes DEF Types, DriverTypes
<1>4. 10 \in Int
  OBVIOUS
<1>5. ValueToDirect(Step.set.amount, CoeffVin, 10) \in Codes
  BY ONLY <1>1, <1>4, CoeffTypes, DirectRange
<1>6. ValueToDirect(Step.set.amount, CoeffTemperature, 10) \in Codes
  BY ONLY <1>1, <1>4, CoeffTypes, DirectRange
<1>7. ValueToDirect(Step.set.amount, CoeffIin(cache.limit, cache.twice),
                    AllRails[rail].sense) \in Codes
  BY ONLY <1>1, <1>2, <1>3, DirectRange, Zenon
<1>8. \/ LimitCode(Step.reg, Step.set.amount) = ValueToDirect(Step.set.amount, CoeffVin, 10)
      \/ LimitCode(Step.reg, Step.set.amount)
           = ValueToDirect(Step.set.amount, CoeffTemperature, 10)
      \/ LimitCode(Step.reg, Step.set.amount)
           = ValueToDirect(Step.set.amount, CoeffIin(cache.limit, cache.twice),
                           AllRails[rail].sense)
  <2>1. CASE Step.reg \in {"VIN_OV_WARN_LIMIT", "VIN_UV_WARN_LIMIT"}
    BY <2>1, Zenon DEF LimitCode
  <2>2. CASE Step.reg \in {"OT_WARN_LIMIT", "OT_FAULT_LIMIT"}
    <3>1. Step.reg \notin {"VIN_OV_WARN_LIMIT", "VIN_UV_WARN_LIMIT"}
      BY <2>2
    <3>2. QED
      BY <2>2, <3>1, Zenon DEF LimitCode
  <2>3. CASE Step.reg = "IIN_OC_WARN_LIMIT"
    <3>1. /\ Step.reg \notin {"VIN_OV_WARN_LIMIT", "VIN_UV_WARN_LIMIT"}
          /\ Step.reg \notin {"OT_WARN_LIMIT", "OT_FAULT_LIMIT"}
      BY <2>3
    <3>2. QED
      BY <2>3, <3>1, Zenon DEF LimitCode
  <2>4. Step.reg \in LimitRegisters
    BY CurrentStep
  <2>5. \/ Step.reg \in {"VIN_OV_WARN_LIMIT", "VIN_UV_WARN_LIMIT"}
        \/ Step.reg \in {"OT_WARN_LIMIT", "OT_FAULT_LIMIT"}
        \/ Step.reg = "IIN_OC_WARN_LIMIT"
    BY ONLY <2>4 DEF LimitRegisters
  <2>6. QED
    BY ONLY <2>1, <2>2, <2>3, <2>5, Zenon
<1>9. QED
  BY ONLY <1>5, <1>6, <1>7, <1>8, Zenon

\* Whatever code RG names, one register is written.
LEMMA Bridged ==
  ASSUME BridgeWrite
  PROVE  \E reg \in EveryRegister, bits \in Contents :
           /\ regs' = IF reg \in FieldRegisters /\ ~protected
                        THEN [regs EXCEPT ![reg] = bits \cap AllBits(reg)] ELSE regs
           /\ limits' = IF reg \in LimitRegisters /\ ~protected
                          THEN [limits EXCEPT ![reg] = 0] ELSE limits
           /\ foreign' = foreign \cup {reg}
<1>1. PICK code \in EveryRegister \cup Mirrors, bits \in Contents :
        /\ regs' = IF code \in FieldRegisters /\ ~protected
                     THEN [regs EXCEPT ![code] = bits \cap AllBits(code)] ELSE regs
        /\ limits' = IF Cell(code) \in LimitRegisters /\ ~protected
                       THEN [limits EXCEPT ![Cell(code)] = 0] ELSE limits
        /\ foreign' = foreign \cup {Cell(code)}
  BY DEF BridgeWrite
<1>2. CASE code \in Mirrors
  <2>1. /\ Cell(code) = "IIN_OC_WARN_LIMIT" /\ "IIN_OC_WARN_LIMIT" \in LimitRegisters
        /\ code \notin FieldRegisters /\ "IIN_OC_WARN_LIMIT" \notin FieldRegisters
    BY <1>2 DEF Cell, Mirrors, FieldRegisters, LimitRegisters
  <2>2. QED
    BY <1>1, <2>1, Zenon DEF EveryRegister
<1>3. CASE code \notin Mirrors
  <2>1. Cell(code) = code /\ code \in EveryRegister
    BY <1>3 DEF Cell
  <2>2. QED
    BY <1>1, <2>1, Zenon
<1>4. QED
  BY <1>2, <1>3

LEMMA Moves ==
  ASSUME Types, pc \in 1 .. Length, pc # WatchdogStep, rail' = rail, tries' = tries,
         cache' \in [twice : BOOLEAN, limit : VclValues],
         \/ Continue /\ pc # Length
         \/ Finish("kOk")
         \/ Finish("kBusError")
  PROVE  DriverTypes'
<1>1. CASE Continue /\ pc # Length
  BY <1>1, PlanLength DEF Continue, Types, DriverTypes
<1>2. CASE Finish("kOk") \/ Finish("kBusError")
  BY <1>2, PlanLength DEF Finish, Types, DriverTypes
<1>3. QED
  BY <1>1, <1>2

LEMMA SameCache ==
  ASSUME Types, cache' = cache
  PROVE  cache' \in [twice : BOOLEAN, limit : VclValues]
BY DEF Types, DriverTypes

LEMMA Suffers ==
  ASSUME Types, NEW x, NEW y, Suffer(<<x>>) \/ Suffer(<<x, y>>)
  PROVE  faults' \in 0 .. MaxFaults
<1>1. PICK n \in {0, 1, 2} : faults' = faults + n /\ faults' <= MaxFaults
  BY FaultCounts DEF Suffer
<1>2. QED
  BY <1>1, SufferTypes

LEMMA EncodedStep ==
  ASSUME Types, pc \in 1 .. Length, Step.do \in {"change", "write"}, NEW values
  PROVE  Step.reg \in FieldRegisters /\ Encode(Step.reg, values) \in SUBSET AllBits(Step.reg)
<1>1. Step.reg \in FieldRegisters
  BY CurrentStep
<1>2. Step.reg \in LaidOut
  BY <1>1, FieldRegistersLaidOut
<1>3. QED
  BY <1>1, <1>2, EncodedBits

LEMMA StepTypes == Types /\ [Next]_vars => Types'
<1> SUFFICES ASSUME Types, [Next]_vars PROVE Types'
  OBVIOUS
<1>1. CASE Attach
  <2>1. DriverTypes'
    BY <1>1, PlanLength DEF Attach, Continue, Types, DriverTypes
  <2>2. ChipTypes' /\ HistoryTypes'
    BY <1>1 DEF Attach, chip, history, Types, ChipTypes, HistoryTypes
  <2>3. QED
    BY <2>1, <2>2 DEF Types
<1>2. CASE NotPresent
  <2>1. DriverTypes'
    BY <1>2, PlanLength DEF NotPresent, Finish, Types, DriverTypes
  <2>2. ChipTypes'
    BY <1>2 DEF NotPresent, chip, Types, ChipTypes
  <2>3. faults' \in 0 .. MaxFaults
    BY <1>2, Suffers DEF NotPresent
  <2>4. HistoryTypes'
    BY <1>2, <2>3 DEF NotPresent, Types, HistoryTypes
  <2>5. QED
    BY <2>1, <2>2, <2>4 DEF Types
<1>3. CASE ClearFaults
  <2>1. DriverTypes'
    BY <1>3, SameCache, Moves DEF ClearFaults, At
  <2>2. ChipTypes' /\ HistoryTypes'
    BY <1>3 DEF ClearFaults, chip, history, Types, ChipTypes, HistoryTypes
  <2>3. QED
    BY <2>1, <2>2 DEF Types
<1>4. CASE SetAdcFullScale2x
  <2>1. cache' \in [twice : BOOLEAN, limit : VclValues]
    BY <1>4 DEF SetAdcFullScale2x, Types, DriverTypes
  <2>2. pc # Length
    BY <1>4, CurrentStep, PlanLength DEF SetAdcFullScale2x, At
  <2>3. DriverTypes'
    BY <1>4, <2>1, <2>2, Moves DEF SetAdcFullScale2x, At
  <2>4. ChipTypes' /\ HistoryTypes'
    BY <1>4 DEF SetAdcFullScale2x, chip, history, Types, ChipTypes, HistoryTypes
  <2>5. QED
    BY <2>3, <2>4 DEF Types
<1>5. CASE SetCurrentLimitMilliVolts
  <2>1. cache' \in [twice : BOOLEAN, limit : VclValues]
    <3>1. LimitCached(AllRails[rail].vcl) \in VclValues
      BY VclOfRail DEF LimitCached, Types, DriverTypes
    <3>2. QED
      BY <1>5, <3>1 DEF SetCurrentLimitMilliVolts, Types, DriverTypes
  <2>2. pc # Length
    BY <1>5, CurrentStep, PlanLength DEF SetCurrentLimitMilliVolts, At
  <2>3. DriverTypes'
    BY <1>5, <2>1, <2>2, Moves DEF SetCurrentLimitMilliVolts, At
  <2>4. ChipTypes' /\ HistoryTypes'
    BY <1>5 DEF SetCurrentLimitMilliVolts, chip, history, Types, ChipTypes, HistoryTypes
  <2>5. QED
    BY <2>3, <2>4 DEF Types
<1>6. CASE Unprotect
  <2>1. PICK outcome \in WriteOutcomes :
          /\ Suffer(<<outcome>>)
          /\ protected' = (protected /\ outcome \notin {"done", "landed"})
          /\ IF Acknowledged(outcome) THEN Continue ELSE Finish("kBusError")
    BY <1>6 DEF Unprotect
  <2>2. pc # Length
    BY <1>6, CurrentStep, PlanLength DEF Unprotect, At
  <2>3. DriverTypes'
    BY <1>6, <2>1, <2>2, SameCache, Moves DEF Unprotect, At
  <2>4. ChipTypes'
    BY <1>6, <2>1 DEF Unprotect, Types, ChipTypes
  <2>5. HistoryTypes'
    BY <1>6, <2>1, Suffers DEF Unprotect, Types, HistoryTypes
  <2>6. QED
    BY <2>3, <2>4, <2>5 DEF Types
<1>7. CASE ChangeFields
  <2> DEFINE raw(read) == Encode(Step.reg, Assigned(StructRead(Step.reg, read), Step.set))
  <2>1. PICK read \in ReadOutcomes, write \in WriteOutcomes :
          /\ Suffer(<<read, write>>)
          /\ PutRegister(Step.reg, raw(read), write) /\ cache' = ScaleAfter(Step.reg, raw(read))
          /\ misread' = IF read = "exact" THEN misread \ {Step.reg}
                                          ELSE misread \cup {Step.reg}
    BY <1>7 DEF ChangeFields
  <2>2. pc \in 1 .. Length /\ Step.do = "change"
    BY <1>7 DEF ChangeFields, At
  <2>3. Step.reg \in FieldRegisters /\ raw(read) \in SUBSET AllBits(Step.reg)
    BY <2>2, EncodedStep
  <2> HIDE DEF raw
  <2>4. ChipTypes' /\ doubtful' \subseteq EveryRegister /\ foreign' \subseteq EveryRegister
    BY <2>1, <2>3, PutTypes
  <2>5. HistoryTypes'
    BY <2>1, <2>3, <2>4, Suffers DEF Types, HistoryTypes
  <2>6. cache' \in [twice : BOOLEAN, limit : VclValues]
    <3>1. CASE Step.reg = "ADC_CONFIG_2"
      <4> DEFINE believed == 6 \in raw(read)
      <4>1. cache' = [cache EXCEPT !.twice = believed] /\ believed \in BOOLEAN
        BY <2>1, <3>1 DEF ScaleAfter
      <4> HIDE DEF believed
      <4>2. QED
        BY <4>1 DEF Types, DriverTypes
    <3>2. CASE Step.reg # "ADC_CONFIG_2"
      BY <2>1, <3>2 DEF ScaleAfter, Types, DriverTypes
    <3>3. QED
      BY <3>1, <3>2
  <2>7. pc # Length
    BY <2>2, CurrentStep, PlanLength
  <2>8. DriverTypes'
    BY <1>7, <2>6, <2>7, Moves DEF ChangeFields, At
  <2>9. QED
    BY <2>4, <2>5, <2>8 DEF Types
<1>8. CASE WriteFields
  <2>1. PICK write \in WriteOutcomes :
          Suffer(<<write>>) /\ PutRegister(Step.reg, Encode(Step.reg, Step.set), write)
    BY <1>8 DEF WriteFields
  <2>2. pc \in 1 .. Length /\ Step.do = "write"
    BY <1>8 DEF WriteFields, At
  <2>3. ChipTypes' /\ doubtful' \subseteq EveryRegister /\ foreign' \subseteq EveryRegister
    BY <2>1, <2>2, EncodedStep, PutTypes
  <2>4. HistoryTypes'
    BY <1>8, <2>1, <2>3, Suffers DEF WriteFields, Types, HistoryTypes
  <2>5. pc # Length
    BY <2>2, CurrentStep, PlanLength
  <2>6. DriverTypes'
    BY <1>8, <2>5, SameCache, Moves DEF WriteFields, At
  <2>7. QED
    BY <2>3, <2>4, <2>6 DEF Types
<1>9. CASE WriteLimit
  <2> DEFINE code == LimitCode(Step.reg, Step.set.amount)
  <2>1. PICK write \in WriteOutcomes :
          /\ Suffer(<<write>>)
          /\ limits' = IF Lands(write) THEN [limits EXCEPT ![Step.reg] = code] ELSE limits
          /\ Doubt(Step.reg, write)
    BY <1>9 DEF WriteLimit
  <2>2. pc \in 1 .. Length /\ Step.do = "limit"
    BY <1>9 DEF WriteLimit, At
  <2>3. Step.reg \in LimitRegisters /\ code \in Codes
    BY <2>2, CurrentStep, LimitCodeRange
  <2> HIDE DEF code
  <2>4. limits' \in [LimitRegisters -> Codes]
    BY <2>1, <2>3 DEF Types, ChipTypes
  <2>5. ChipTypes'
    BY <1>9, <2>4 DEF WriteLimit, Types, ChipTypes
  <2>6. HistoryTypes'
    <3>1. doubtful' \subseteq EveryRegister /\ foreign' \subseteq EveryRegister
      BY <1>9, <2>1, <2>3 DEF WriteLimit, Doubt, EveryRegister, Types, HistoryTypes
    <3>2. QED
      BY <1>9, <2>1, <3>1, Suffers DEF WriteLimit, Types, HistoryTypes
  <2>7. pc # Length
    BY <2>2, CurrentStep, PlanLength
  <2>8. DriverTypes'
    BY <1>9, <2>7, SameCache, Moves DEF WriteLimit, At
  <2>9. QED
    BY <2>5, <2>6, <2>8 DEF Types
<1>10. CASE ConfigureWatchdog
  <2> DEFINE raw(read) == Encode(Step.reg, Assigned(StructRead(Step.reg, read), Step.set))
  <2>1. PICK read \in ReadOutcomes, verify \in ReadOutcomes, write \in WriteOutcomes :
          /\ faults' = faults + FaultsOf(<<read, write>>) + FaultsOf(<<verify>>)
          /\ faults' <= MaxFaults
          /\ PutRegister(Step.reg, raw(read), write)
          /\ misread' = IF read = "exact" /\ verify # "noise" THEN misread \ {Step.reg}
                                                              ELSE misread \cup {Step.reg}
          /\ \/ Continue
             \/ GaveUp(tries') /\ Finish("kBusError")
             \/ ~GaveUp(tries') /\ UNCHANGED <<pc, result>>
    BY <1>10 DEF ConfigureWatchdog
  <2>2. pc = 21 /\ pc \in 1 .. Length /\ Step.do = "change"
    BY <1>10, PlanLength, CurrentStep DEF ConfigureWatchdog
  <2>3. Step.reg \in FieldRegisters /\ raw(read) \in SUBSET AllBits(Step.reg)
    BY <2>2, EncodedStep
  <2> HIDE DEF raw
  <2>4. ChipTypes' /\ doubtful' \subseteq EveryRegister /\ foreign' \subseteq EveryRegister
    BY <2>1, <2>3, PutTypes
  <2>5. faults' \in 0 .. MaxFaults
    <3>1. PICK m \in {0, 1, 2}, n \in {0, 1} : faults' = faults + m + n
      BY <2>1, FaultCounts
    <3>2. QED
      BY <2>1, <3>1, ConfigAssumption DEF Types, HistoryTypes
  <2>6. HistoryTypes'
    BY <2>1, <2>3, <2>4, <2>5 DEF Types, HistoryTypes
  <2>7. tries' \in 0 .. WatchdogTries
    BY <1>10, <2>2, PlanLength, ConfigAssumption DEF ConfigureWatchdog, Types, DriverTypes
  <2>8. DriverTypes'
    <3>1. rail' = rail /\ cache' = cache
      BY <1>10 DEF ConfigureWatchdog
    <3>2. CASE Continue
      BY <2>2, <2>7, <3>1, <3>2, PlanLength DEF Continue, Types, DriverTypes
    <3>3. CASE GaveUp(tries') /\ Finish("kBusError")
      BY <2>2, <2>7, <3>1, <3>3, PlanLength DEF Finish, Types, DriverTypes
    <3>4. CASE ~GaveUp(tries') /\ UNCHANGED <<pc, result>>
      BY <2>2, <2>7, <3>1, <3>4, PlanLength, ConfigAssumption DEF GaveUp, Types, DriverTypes
    <3>5. QED
      BY <2>1, <3>2, <3>3, <3>4
  <2>9. QED
    BY <2>4, <2>6, <2>8 DEF Types
<1>11. CASE PowerLost
  <2>1. DriverTypes'
    BY <1>11 DEF PowerLost, driver, Types, DriverTypes
  <2>2. ChipTypes'
    <3>1. regs' \in [FieldRegisters -> SUBSET (0 .. 15)]
          /\ \A reg \in FieldRegisters : regs'[reg] \subseteq AllBits(reg)
      BY <1>11, AllBitsBounded DEF PowerLost, Holding
    <3>2. limits' \in [LimitRegisters -> Codes]
      BY <1>11 DEF PowerLost, Codes
    <3>3. QED
      BY <1>11, <3>1, <3>2 DEF PowerLost, ChipTypes
  <2>3. HistoryTypes'
    BY <1>11, ConfigAssumption DEF PowerLost, Disturb, Types, HistoryTypes
  <2>4. QED
    BY <2>1, <2>2, <2>3 DEF Types
<1>12. CASE BridgeWrite
  <2>1. DriverTypes'
    BY <1>12 DEF BridgeWrite, driver, Types, DriverTypes
  <2>2. PICK reg \in EveryRegister, bits \in Contents :
          /\ regs' = IF reg \in FieldRegisters /\ ~protected
                       THEN [regs EXCEPT ![reg] = bits \cap AllBits(reg)] ELSE regs
          /\ limits' = IF reg \in LimitRegisters /\ ~protected
                         THEN [limits EXCEPT ![reg] = 0] ELSE limits
          /\ foreign' = foreign \cup {reg}
    BY <1>12, Bridged
  <2>3. bits \cap AllBits(reg) \subseteq 0 .. 15
    BY AllBitsBounded
  <2>4. regs' \in [FieldRegisters -> SUBSET (0 .. 15)]
    BY <2>2, <2>3 DEF Types, ChipTypes
  <2>5. ASSUME NEW r \in FieldRegisters PROVE regs'[r] \subseteq AllBits(r)
    <3>1. CASE r = reg
      BY <2>2, <3>1 DEF Types, ChipTypes
    <3>2. CASE r # reg
      BY <2>2, <3>2 DEF Types, ChipTypes
    <3>3. QED
      BY <3>1, <3>2
  <2>6. limits' \in [LimitRegisters -> Codes]
    <3>1. 0 \in Codes
      BY DEF Codes
    <3>2. QED
      BY <2>2, <3>1 DEF Types, ChipTypes
  <2>7. ChipTypes'
    BY <1>12, <2>4, <2>5, <2>6 DEF BridgeWrite, Types, ChipTypes
  <2>8. HistoryTypes'
    BY <1>12, <2>2, ConfigAssumption DEF BridgeWrite, Disturb, Types, HistoryTypes
  <2>9. QED
    BY <2>1, <2>7, <2>8 DEF Types
<1>13. CASE Reset
  <2>1. DriverTypes'
    <3>1. [twice |-> FALSE, limit |-> 500] \in [twice : BOOLEAN, limit : VclValues]
      BY DEF VclValues, Vcl
    <3>2. QED
      BY <1>13, <3>1, PlanLength, ConfigAssumption DEF Reset, Types, DriverTypes
  <2>2. ChipTypes'
    BY <1>13 DEF Reset, chip, Types, ChipTypes
  <2>3. HistoryTypes'
    BY <1>13, ConfigAssumption DEF Reset, Disturb, Types, HistoryTypes
  <2>4. QED
    BY <2>1, <2>2, <2>3 DEF Types
<1>14. CASE UNCHANGED vars
  BY <1>14 DEF vars, driver, chip, history, Types, DriverTypes, ChipTypes, HistoryTypes
<1>15. QED
  BY <1>1, <1>2, <1>3, <1>4, <1>5, <1>6, <1>7, <1>8, <1>9, <1>10, <1>11, <1>12, <1>13, <1>14
     DEF Next, Configure, Idle

LEMMA AlwaysTypes == Spec => []Types
<1>1. QED
  BY InitTypes, StepTypes, PTL DEF Spec

\* The chip's registers hold bits of their width, its limits codes of twelve bits,
\* the cache a range the chip knows, and the watchdog is tried at most WatchdogTries
\* times, whatever the bus, the power and the bridge do.
THEOREM TypeCorrect == Spec => []TypeOK
BY AlwaysTypes, TypesGiveTypeOK, PTL

-----------------------------------------------------------------------------
(* Read, modify, write.                                                     *)

LEMMA OthersSurvive ==
  ASSUME Types, NEW reg \in FieldRegisters, NEW set, NEW outcome,
         PutRegister(reg, Encode(reg, Assigned(StructRead(reg, "exact"), set)), outcome)
  PROVE  \A f \in DOMAIN LayoutOf(reg) \ DOMAIN set :
           Decode(reg, regs'[reg])[f] = Decode(reg, regs[reg])[f]
<1> DEFINE values == Assigned(StructRead(reg, "exact"), set)
<1>1. StructRead(reg, "exact") = Decode(reg, regs[reg])
  BY DEF StructRead, Brought
<1> TAKE f \in DOMAIN LayoutOf(reg) \ DOMAIN set
<1>2. values[f] = Decode(reg, regs[reg])[f]
  BY <1>1 DEF Assigned, Decode
<1>3. Decode(reg, Encode(reg, values))[f] = Decode(reg, regs[reg])[f]
  <2> HIDE DEF values
  <2>1. reg \in LaidOut
    BY FieldRegistersLaidOut
  <2>2. QED
    BY <1>2, <2>1, RoundTrip
<1>4. CASE Lands(outcome)
  <2>1. regs'[reg] = Encode(reg, values)
    BY <1>4 DEF PutRegister, Types, ChipTypes
  <2>2. QED
    BY <1>3, <2>1
<1>5. CASE ~Lands(outcome)
  BY <1>5 DEF PutRegister
<1>6. QED
  BY <1>4, <1>5

\* Which steps advance the configuration at a step of the plan that changes fields.
LEMMA Advances ==
  ASSUME Types, [Next]_vars, pc' > pc, pc \in 1 .. Length, Step.do = "change"
  PROVE  ChangeFields \/ ConfigureWatchdog
<1>1. pc \in Nat /\ pc # 0
  BY PlanLength
<1>2. ~Attach /\ ~NotPresent
  BY <1>1 DEF Attach, NotPresent
<1>3. ~ClearFaults /\ ~SetAdcFullScale2x /\ ~SetCurrentLimitMilliVolts /\ ~Unprotect
      /\ ~WriteFields /\ ~WriteLimit
  BY DEF ClearFaults, SetAdcFullScale2x, SetCurrentLimitMilliVolts, Unprotect, WriteFields,
         WriteLimit, At
<1>4. ~PowerLost /\ ~BridgeWrite /\ ~Idle /\ ~UNCHANGED vars
  BY <1>1 DEF PowerLost, BridgeWrite, Idle, vars, driver
<1>5. ~Reset
  BY <1>1 DEF Reset
<1>6. QED
  BY <1>2, <1>3, <1>4, <1>5 DEF Next, Configure

LEMMA StepKeepsOthers ==
  ASSUME Types, [Next]_vars, pc' > pc, pc \in 1 .. Length, Step.do = "change",
         Step.reg \notin misread'
  PROVE  OthersAlike(Step.reg, regs[Step.reg], regs'[Step.reg])
<1>1. Step.reg \in FieldRegisters
  BY CurrentStep
<1>2. \E outcome : PutRegister(Step.reg,
        Encode(Step.reg, Assigned(StructRead(Step.reg, "exact"), Step.set)), outcome)
  <2>1. CASE ChangeFields
    BY <2>1 DEF ChangeFields
  <2>2. CASE ConfigureWatchdog
    BY <2>2 DEF ConfigureWatchdog
  <2>3. QED
    BY <2>1, <2>2, Advances
<1>3. \A f \in DOMAIN LayoutOf(Step.reg) \ DOMAIN Step.set :
        Decode(Step.reg, regs'[Step.reg])[f] = Decode(Step.reg, regs[Step.reg])[f]
  BY <1>1, <1>2, OthersSurvive
<1>4. QED
  BY <1>3 DEF OthersAlike

\* A configuration step changes no field but those it names, unless its own read was
\* not exact: what the masks and shifts of the driver take apart they put together
\* again, in every register and for every content.
THEOREM OthersKept == Spec => OtherFieldsKept
<1>1. Types /\ [Next]_vars
        => [pc' > pc /\ pc \in 1 .. Length /\ Step.do = "change" /\ Step.reg \notin misread'
              => OthersAlike(Step.reg, regs[Step.reg], regs'[Step.reg])]_vars
  BY StepKeepsOthers
<1>2. QED
  BY <1>1, AlwaysTypes, PTL DEF Spec, OtherFieldsKept

-----------------------------------------------------------------------------
(* The watchdog.                                                            *)

WatchdogInChip ==
  "WATCHDOG_PL_TIMER" \notin foreign \cup misread
    => Decode("WATCHDOG_PL_TIMER", regs["WATCHDOG_PL_TIMER"]).watchdogTimer = 15

\* From the step after the watchdog's on, and on every rail called good.
WatchdogDone == (pc = Length \/ result = "kOk") => WatchdogInChip

LEMMA OneLayout ==
  ASSUME NEW reg
  PROVE  /\ /\ reg \in DOMAIN SetupLayouts
            /\ reg \notin DOMAIN MaskLayouts /\ reg \notin DOMAIN TimerLayouts
            /\ reg \notin DOMAIN BlackBoxLayouts /\ reg \notin DOMAIN AdcLayouts
            => LayoutOf(reg) = SetupLayouts[reg]
         /\ /\ reg \in DOMAIN TimerLayouts
            /\ reg \notin DOMAIN MaskLayouts /\ reg \notin DOMAIN SetupLayouts
            /\ reg \notin DOMAIN BlackBoxLayouts /\ reg \notin DOMAIN AdcLayouts
            => LayoutOf(reg) = TimerLayouts[reg]
         /\ /\ reg \in DOMAIN AdcLayouts
            /\ reg \notin DOMAIN MaskLayouts /\ reg \notin DOMAIN SetupLayouts
            /\ reg \notin DOMAIN TimerLayouts /\ reg \notin DOMAIN BlackBoxLayouts
            => LayoutOf(reg) = AdcLayouts[reg]
BY Zenon DEF LayoutOf

LEMMA LayoutsWritten ==
  /\ LayoutOf("WATCHDOG_PL_TIMER") = TimerLayouts.WATCHDOG_PL_TIMER
  /\ LayoutOf("ADC_CONFIG_2") = AdcLayouts.ADC_CONFIG_2
  /\ LayoutOf("DEVICE_SETUP_2") = SetupLayouts.DEVICE_SETUP_2
  /\ LayoutOf("DEVICE_SETUP") = SetupLayouts.DEVICE_SETUP
<1>1. /\ DOMAIN MaskLayouts = {"MFR_ALERT_MASK", "MFR_GATE_MASK"}
      /\ DOMAIN SetupLayouts = {"DEVICE_SETUP", "DEVICE_SETUP_2", "DEVICE_SETUP_3",
                               "DEVICE_SETUP_4", "DEVICE_SETUP_5"}
      /\ DOMAIN TimerLayouts = {"OC_BLANKING_TIMERS", "RETRY_INSERTION_DELAY",
                               "WATCHDOG_PL_TIMER", "PK_MIN_AVG", "P2T_TIMER"}
      /\ DOMAIN BlackBoxLayouts = {"BLACK_BOX_CONFIG", "BLACK_BOX_TIMER"}
      /\ DOMAIN AdcLayouts = {"ADC_CONFIG_1", "ADC_CONFIG_2", "IIN_OFFSET_CALIBRATION"}
  BY DEF MaskLayouts, SetupLayouts, TimerLayouts, BlackBoxLayouts, AdcLayouts
<1>2. QED
  BY <1>1, OneLayout

LEMMA WatchdogField ==
  /\ "watchdogTimer" \in DOMAIN LayoutOf("WATCHDOG_PL_TIMER")
  /\ LayoutOf("WATCHDOG_PL_TIMER")["watchdogTimer"] = Bits(4, 4)
BY LayoutsWritten DEF TimerLayouts

LEMMA NothingRead == Decode("WATCHDOG_PL_TIMER", {}).watchdogTimer = 0
<1>1. FieldValue(Bits(4, 4), {}) = 0
  BY DEF FieldValue
<1>2. QED
  BY <1>1, WatchdogField DEF Decode

LEMMA WatchdogVerified ==
  ASSUME Types, ConfigureWatchdog, pc' # pc, result' # "kBusError"
  PROVE  WatchdogInChip'
<1>1. pc = 21 /\ pc \in 1 .. Length
  BY PlanLength DEF ConfigureWatchdog
<1>2. Step.reg = "WATCHDOG_PL_TIMER"
  BY <1>1, CurrentStep, CurrentWrite
<1>3. PICK read \in ReadOutcomes, verify \in ReadOutcomes, write \in WriteOutcomes :
        /\ misread' = IF read = "exact" /\ verify # "noise" THEN misread \ {Step.reg}
                                                            ELSE misread \cup {Step.reg}
        /\ verify # "failed"
        /\ Verified(IF verify = "exact" THEN regs'[Step.reg] ELSE Brought(Step.reg, verify),
                    write)
  BY DEF ConfigureWatchdog, Finish
<1> SUFFICES ASSUME "WATCHDOG_PL_TIMER" \notin misread'
             PROVE  Decode("WATCHDOG_PL_TIMER", regs'["WATCHDOG_PL_TIMER"]).watchdogTimer = 15
  BY DEF WatchdogInChip
<1>4. verify = "exact" \/ verify = "low"
  BY <1>2, <1>3 DEF ReadOutcomes
<1>5. CASE verify = "exact"
  BY <1>2, <1>3, <1>5 DEF Verified
<1>6. CASE verify = "low"
  <2>1. Brought(Step.reg, verify) = {}
    BY <1>6 DEF Brought
  <2>2. Decode("WATCHDOG_PL_TIMER", {}).watchdogTimer = 15
    BY <1>3, <1>6, <2>1 DEF Verified
  <2>3. QED
    BY <2>2, NothingRead
<1>7. QED
  BY <1>4, <1>5, <1>6

\* Before the watchdog's step no step leads to where the watchdog is settled.
LEMMA NotYetSettled ==
  ASSUME Types, Configure, ~ConfigureWatchdog, ~ClearFaults
  PROVE  pc' # Length /\ result' # "kOk"
<1>1. CASE Attach
  BY <1>1, PlanLength DEF Attach, Continue, Types, DriverTypes
<1>2. CASE NotPresent
  BY <1>2, PlanLength DEF NotPresent, Finish
<1>3. CASE Unprotect
  <2>1. pc = 1 /\ (Continue \/ Finish("kBusError"))
    BY <1>3, CurrentStep DEF Unprotect, At
  <2>2. QED
    BY <2>1, PlanLength DEF Continue, Finish, Types, DriverTypes
<1>4. CASE SetAdcFullScale2x \/ SetCurrentLimitMilliVolts \/ ChangeFields \/ WriteFields
           \/ WriteLimit
  <2>1. pc \in 1 .. 20 /\ Continue
    BY <1>4, CurrentStep, PlanLength
       DEF SetAdcFullScale2x, SetCurrentLimitMilliVolts, ChangeFields, WriteFields, WriteLimit,
           At
  <2>2. QED
    BY <2>1, PlanLength DEF Continue, Types, DriverTypes
<1>5. QED
  BY <1>1, <1>2, <1>3, <1>4 DEF Configure

LEMMA StepWatchdog == Types /\ WatchdogDone /\ [Next]_vars => WatchdogDone'
<1> SUFFICES ASSUME Types, WatchdogDone, [Next]_vars PROVE WatchdogDone'
  OBVIOUS
<1>1. CASE Configure /\ ~ConfigureWatchdog /\ ~ClearFaults
  BY <1>1, NotYetSettled DEF WatchdogDone
<1>2. CASE ClearFaults
  <2>1. pc = 2 \/ pc = Length
    BY <1>2, CurrentStep, PlanLength DEF ClearFaults, At
  <2>2. CASE pc = 2
    BY <1>2, <2>2, PlanLength DEF ClearFaults, Continue, WatchdogDone, Types, DriverTypes
  <2>3. CASE pc = Length
    BY <1>2, <2>3 DEF ClearFaults, chip, history, WatchdogDone, WatchdogInChip
  <2>4. QED
    BY <2>1, <2>2, <2>3
<1>3. CASE ConfigureWatchdog
  <2>1. pc = 21 /\ result = "none"
    BY <1>3, PlanLength DEF ConfigureWatchdog, Types, DriverTypes
  <2>2. CASE pc' = pc
    <3>1. result' = result
      BY <1>3, <2>1, <2>2, PlanLength DEF ConfigureWatchdog, Continue, Finish
    <3>2. QED
      BY <2>1, <2>2, <3>1, PlanLength DEF WatchdogDone
  <2>3. CASE result' = "kBusError"
    <3>1. pc' # Length
      BY <1>3, <2>1, <2>3, PlanLength DEF ConfigureWatchdog, Continue, Finish
    <3>2. QED
      BY <2>3, <3>1 DEF WatchdogDone
  <2>4. CASE pc' # pc /\ result' # "kBusError"
    BY <1>3, <2>4, WatchdogVerified DEF WatchdogDone
  <2>5. QED
    BY <2>2, <2>3, <2>4
<1>4. CASE PowerLost
  BY <1>4 DEF PowerLost, WatchdogDone, WatchdogInChip, EveryRegister, FieldRegisters
<1>5. CASE BridgeWrite
  <2>1. pc' = pc /\ result' = result /\ misread' = misread
    BY <1>5 DEF BridgeWrite, driver
  <2>2. PICK reg \in EveryRegister, bits \in Contents :
          /\ regs' = IF reg \in FieldRegisters /\ ~protected
                       THEN [regs EXCEPT ![reg] = bits \cap AllBits(reg)] ELSE regs
          /\ foreign' = foreign \cup {reg}
    BY <1>5, Bridged
  <2>3. CASE reg = "WATCHDOG_PL_TIMER"
    BY <2>2, <2>3 DEF WatchdogDone, WatchdogInChip
  <2>4. CASE reg # "WATCHDOG_PL_TIMER"
    <3>1. regs'["WATCHDOG_PL_TIMER"] = regs["WATCHDOG_PL_TIMER"]
      BY <2>2, <2>4 DEF Types, ChipTypes
    <3>2. QED
      BY <2>1, <2>2, <3>1 DEF WatchdogDone, WatchdogInChip
  <2>5. QED
    BY <2>3, <2>4
<1>6. CASE Reset
  BY <1>6, PlanLength DEF Reset, WatchdogDone
<1>7. CASE UNCHANGED vars
  BY <1>7 DEF vars, driver, chip, history, WatchdogDone, WatchdogInChip
<1>8. QED
  BY <1>1, <1>2, <1>3, <1>4, <1>5, <1>6, <1>7 DEF Next, Idle

\* A rail that init() calls good has the longest startup watchdog in its chip, for
\* every number of attempts: what counts is what was read back, and a bus held low
\* reads back a zero.
THEOREM WatchdogIsLong == Spec => []OkMeansLongWatchdog
<1>1. Init => WatchdogDone
  BY PlanLength DEF Init, WatchdogDone
<1>2. WatchdogDone => OkMeansLongWatchdog
  BY DEF WatchdogDone, WatchdogInChip, OkMeansLongWatchdog
<1>3. QED
  BY <1>1, <1>2, StepWatchdog, AlwaysTypes, PTL DEF Spec

-----------------------------------------------------------------------------
(* Who writes what: a register the driver believes in holds what it held, or  *)
(* what the current step put there.                                         *)

Believed(reg) == reg \notin doubtful \cup foreign

\* The chip's content of a register is what it was, as far as it is believed in.
Kept(reg) == Believed(reg)' => Believed(reg) /\ regs'[reg] = regs[reg]
KeptLimit(reg) == Believed(reg)' => Believed(reg) /\ limits'[reg] = limits[reg]

\* The current step wrote it, from a struct with its own fields filled in.
WrittenFields(reg) ==
  /\ pc \in 1 .. Length /\ Step.do \in {"change", "write"} /\ Step.reg = reg
  /\ Believed(reg)'
       => \E values : /\ regs'[reg] = Encode(reg, values)
                      /\ \A f \in DOMAIN LayoutOf(reg) \cap DOMAIN Step.set :
                           values[f] = Step.set[f]

WrittenLimit(reg) ==
  /\ pc \in 1 .. Length /\ Step.do = "limit" /\ Step.reg = reg
  /\ Believed(reg)' => limits'[reg] = LimitCode(reg, Step.set.amount)

LEMMA FieldsOrLimits ==
  FieldRegisters \cap LimitRegisters = {}
BY DEF FieldRegisters, LimitRegisters

LEMMA AssignedFields ==
  ASSUME NEW reg, NEW read, NEW set
  PROVE  \A f \in DOMAIN LayoutOf(reg) \cap DOMAIN set :
           Assigned(StructRead(reg, read), set)[f] = set[f]
BY DEF Assigned, StructRead, ZeroFields, Decode

\* A register put into the chip.
LEMMA Put ==
  ASSUME Types, NEW reg \in FieldRegisters, NEW raw, NEW outcome,
         PutRegister(reg, raw, outcome)
  PROVE  /\ Believed(reg)' => regs'[reg] = raw
         /\ \A r \in FieldRegisters \ {reg} : Kept(r)
         /\ \A r \in LimitRegisters : KeptLimit(r)
<1>1. Believed(reg)' => regs'[reg] = raw
  BY DEF PutRegister, Doubt, Lands, Believed, Types, ChipTypes
<1>2. ASSUME NEW r \in FieldRegisters \ {reg} PROVE Kept(r)
  <2>1. regs'[r] = regs[r]
    BY DEF PutRegister, Types, ChipTypes
  <2>2. Believed(r)' => Believed(r)
    BY DEF PutRegister, Doubt, Believed
  <2>3. QED
    BY <2>1, <2>2 DEF Kept
<1>3. ASSUME NEW r \in LimitRegisters PROVE KeptLimit(r)
  <2>1. r # reg /\ limits'[r] = limits[r]
    BY FieldsOrLimits DEF PutRegister
  <2>2. Believed(r)' => Believed(r)
    BY <2>1 DEF PutRegister, Doubt, Believed
  <2>3. QED
    BY <2>1, <2>2 DEF KeptLimit
<1>4. QED
  BY <1>1, <1>2, <1>3

LEMMA Unwritten ==
  ASSUME regs' = regs, limits' = limits,
         doubtful' = doubtful \/ doubtful' = EveryRegister,
         foreign' = foreign
  PROVE  /\ \A r \in FieldRegisters : Kept(r)
         /\ \A r \in LimitRegisters : KeptLimit(r)
BY DEF Kept, KeptLimit, Believed, EveryRegister

LEMMA WhoWrites ==
  ASSUME Types, [Next]_vars
  PROVE  /\ \A r \in FieldRegisters : Kept(r) \/ WrittenFields(r)
         /\ \A r \in LimitRegisters : KeptLimit(r) \/ WrittenLimit(r)
<1>1. CASE ClearFaults \/ SetAdcFullScale2x \/ SetCurrentLimitMilliVolts \/ Attach
           \/ UNCHANGED vars
  <2>1. regs' = regs /\ limits' = limits /\ doubtful' = doubtful /\ foreign' = foreign
    BY <1>1 DEF ClearFaults, SetAdcFullScale2x, SetCurrentLimitMilliVolts, Attach, vars, chip,
                history
  <2>2. QED
    BY <2>1, Unwritten
<1>2. CASE NotPresent \/ Unprotect \/ Reset
  <2>1. /\ regs' = regs /\ limits' = limits /\ foreign' = foreign
        /\ doubtful' = doubtful \/ doubtful' = EveryRegister
    BY <1>2 DEF NotPresent, Unprotect, Reset, chip
  <2>2. QED
    BY <2>1, Unwritten
<1>3. CASE ChangeFields \/ ConfigureWatchdog
  <2>1. pc \in 1 .. Length /\ Step.do \in {"change", "write"} /\ Step.reg \in FieldRegisters
    BY <1>3, CurrentStep, PlanLength DEF ChangeFields, ConfigureWatchdog, At
  <2>2. PICK reg \in FieldRegisters : reg = Step.reg
    BY <2>1
  <2>3. PICK read, outcome :
          PutRegister(reg, Encode(reg, Assigned(StructRead(reg, read), Step.set)), outcome)
    BY <1>3, <2>2 DEF ChangeFields, ConfigureWatchdog
  <2>4. PICK values : values = Assigned(StructRead(reg, read), Step.set)
    OBVIOUS
  <2>5. \A f \in DOMAIN LayoutOf(reg) \cap DOMAIN Step.set : values[f] = Step.set[f]
    BY <2>4, AssignedFields
  <2>6. PutRegister(reg, Encode(reg, values), outcome)
    BY <2>3, <2>4
  <2>7. Believed(reg)' => regs'[reg] = Encode(reg, values)
    BY <2>6, Put
  <2>8. WrittenFields(reg)
    BY <2>1, <2>2, <2>5, <2>7 DEF WrittenFields
  <2>9. /\ \A r \in FieldRegisters \ {reg} : Kept(r)
        /\ \A r \in LimitRegisters : KeptLimit(r)
    BY <2>6, Put
  <2>10. QED
    BY <2>8, <2>9
<1>4. CASE WriteFields
  <2>1. pc \in 1 .. Length /\ Step.do \in {"change", "write"} /\ Step.reg \in FieldRegisters
    BY <1>4, CurrentStep DEF WriteFields, At
  <2>2. PICK reg \in FieldRegisters : reg = Step.reg
    BY <2>1
  <2>3. PICK values : values = Step.set
    OBVIOUS
  <2>4. PICK outcome : PutRegister(reg, Encode(reg, values), outcome)
    BY <1>4, <2>2, <2>3 DEF WriteFields
  <2>5. Believed(reg)' => regs'[reg] = Encode(reg, values)
    BY <2>4, Put
  <2>6. WrittenFields(reg)
    BY <2>1, <2>2, <2>3, <2>5 DEF WrittenFields
  <2>7. /\ \A r \in FieldRegisters \ {reg} : Kept(r)
        /\ \A r \in LimitRegisters : KeptLimit(r)
    BY <2>4, Put
  <2>8. QED
    BY <2>6, <2>7
<1>5. CASE WriteLimit
  <2>1. pc \in 1 .. Length /\ Step.do = "limit" /\ Step.reg \in LimitRegisters
    BY <1>5, CurrentStep DEF WriteLimit, At
  <2>2. PICK reg \in LimitRegisters : reg = Step.reg
    BY <2>1
  <2> DEFINE code == LimitCode(reg, Step.set.amount)
  <2>3. PICK write \in WriteOutcomes :
          /\ limits' = IF Lands(write) THEN [limits EXCEPT ![reg] = code] ELSE limits
          /\ Doubt(reg, write)
    BY <1>5, <2>2 DEF WriteLimit
  <2>4. foreign' = foreign \ {reg} /\ regs' = regs
    BY <1>5, <2>2 DEF WriteLimit
  <2> HIDE DEF code
  <2>5. Believed(reg)' => limits'[reg] = code
    BY <2>3 DEF Doubt, Lands, Believed, Types, ChipTypes
  <2>6. WrittenLimit(reg)
    BY <2>1, <2>2, <2>5 DEF WrittenLimit, code
  <2>7. ASSUME NEW r, r # reg PROVE Believed(r)' => Believed(r)
    BY <2>3, <2>4, <2>7 DEF Doubt, Believed
  <2>8. ASSUME NEW r \in LimitRegisters, r # reg PROVE KeptLimit(r)
    <3>1. limits'[r] = limits[r]
      BY <2>3, <2>8 DEF Types, ChipTypes
    <3>2. QED
      BY <2>7, <2>8, <3>1 DEF KeptLimit
  <2>9. ASSUME NEW r \in FieldRegisters PROVE Kept(r)
    <3>1. r # reg
      BY FieldsOrLimits
    <3>2. QED
      BY <2>4, <2>7, <3>1 DEF Kept
  <2>10. QED
    BY <2>6, <2>8, <2>9
<1>6. CASE PowerLost
  BY <1>6 DEF PowerLost, Kept, KeptLimit, Believed, EveryRegister
<1>7. CASE BridgeWrite
  <2>1. PICK reg \in EveryRegister, bits \in Contents :
          /\ regs' = IF reg \in FieldRegisters /\ ~protected
                       THEN [regs EXCEPT ![reg] = bits \cap AllBits(reg)] ELSE regs
          /\ limits' = IF reg \in LimitRegisters /\ ~protected
                         THEN [limits EXCEPT ![reg] = 0] ELSE limits
          /\ foreign' = foreign \cup {reg}
    BY <1>7, Bridged
  <2>2. doubtful' = doubtful
    BY <1>7 DEF BridgeWrite
  <2>3. ASSUME NEW r \in FieldRegisters PROVE Kept(r)
    <3>1. r = reg \/ regs'[r] = regs[r]
      BY <2>1 DEF Types, ChipTypes
    <3>2. QED
      BY <2>1, <2>2, <3>1 DEF Kept, Believed
  <2>4. ASSUME NEW r \in LimitRegisters PROVE KeptLimit(r)
    <3>1. r = reg \/ limits'[r] = limits[r]
      BY <2>1 DEF Types, ChipTypes
    <3>2. QED
      BY <2>1, <2>2, <3>1 DEF KeptLimit, Believed
  <2>5. QED
    BY <2>3, <2>4
<1>8. QED
  BY <1>1, <1>2, <1>3, <1>4, <1>5, <1>6, <1>7 DEF Next, Configure, Idle

-----------------------------------------------------------------------------
(* The range: what the driver believes, what the chip has, and what the      *)
(* warnings were computed with.                                             *)

RailVcl == VclOf(AllRails[rail].vcl)

\* What the driver believes from steps 5 and 10 on.
CacheSet ==
  /\ pc \in 5 .. Length => cache.twice = FALSE
  /\ (pc \in 10 .. Length \/ result = "kOk") => cache.twice = FALSE /\ cache.limit = RailVcl

RangeInChip ==
  /\ Believed("ADC_CONFIG_2")
       => Decode("ADC_CONFIG_2", regs["ADC_CONFIG_2"]).fullScale = 0
  /\ Believed("DEVICE_SETUP_2")
       => Decode("DEVICE_SETUP_2", regs["DEVICE_SETUP_2"]).currentLimitSetting2
            = AllRails[rail].vcl
  /\ Believed("DEVICE_SETUP")
       => Decode("DEVICE_SETUP", regs["DEVICE_SETUP"]).currentLimitConfig = 1

\* With the range the rails use, the 1x one.
CoeffOne(limit) == CoeffIin(limit, FALSE)
ChipCodeOne(amps, sense, limit) == ChipCode(amps, sense, limit, FALSE)

WarnCode == ValueToDirect(AllRails[rail].warn, CoeffOne(RailVcl), AllRails[rail].sense)

LimitsInChip == Believed("IIN_OC_WARN_LIMIT") => limits["IIN_OC_WARN_LIMIT"] = WarnCode

LEMMA SameRail == [Next]_vars => rail' = rail
BY DEF Next, Configure, Idle, vars, driver, Attach, NotPresent, ClearFaults, SetAdcFullScale2x,
       SetCurrentLimitMilliVolts, Unprotect, ChangeFields, WriteFields, WriteLimit,
       ConfigureWatchdog, PowerLost, BridgeWrite, Reset

LEMMA StepCache == Types /\ CacheSet /\ [Next]_vars => CacheSet'
<1> SUFFICES ASSUME Types, CacheSet, [Next]_vars PROVE CacheSet'
  OBVIOUS
<1>1. RailVcl' = RailVcl
  BY SameRail DEF RailVcl
<1>2. CASE Attach
  BY <1>2, PlanLength DEF Attach, Continue, CacheSet, Types, DriverTypes
<1>3. CASE NotPresent
  BY <1>3, PlanLength DEF NotPresent, Finish, CacheSet
<1>4. CASE Unprotect
  <2>1. pc = 1 /\ (Continue \/ Finish("kBusError"))
    BY <1>4, CurrentStep DEF Unprotect, At
  <2>2. QED
    BY <2>1, PlanLength DEF Continue, Finish, CacheSet, Types, DriverTypes
<1>5. CASE ClearFaults
  <2>1. pc = 2 \/ pc = Length
    BY <1>5, CurrentStep, PlanLength DEF ClearFaults, At
  <2>2. CASE pc = 2
    BY <1>5, <2>2, PlanLength DEF ClearFaults, Continue, CacheSet, Types, DriverTypes
  <2>3. CASE pc = Length
    BY <1>1, <1>5, <2>3, PlanLength DEF ClearFaults, Finish, CacheSet
  <2>4. QED
    BY <2>1, <2>2, <2>3
<1>6. CASE SetAdcFullScale2x
  <2>1. pc = 4 /\ pc' = 5 /\ result' = "none" /\ cache'.twice = FALSE
    BY <1>6, CurrentStep, PlanLength DEF SetAdcFullScale2x, At, Continue, Types, DriverTypes
  <2>2. QED
    BY <2>1 DEF CacheSet
<1>7. CASE SetCurrentLimitMilliVolts
  <2>1. pc = 9 /\ cache'.twice = cache.twice /\ cache'.limit = RailVcl
    BY <1>7, CurrentStep
       DEF SetCurrentLimitMilliVolts, At, LimitCached, RailVcl, Types, DriverTypes
  <2>2. cache.twice = FALSE
    BY <2>1, PlanLength DEF CacheSet
  <2>3. QED
    BY <1>1, <2>1, <2>2 DEF CacheSet
<1>8. CASE ChangeFields
  <2>1. pc \in 1 .. Length /\ Step.do = "change"
    BY <1>8 DEF ChangeFields, At
  <2>2. pc' = pc + 1 /\ result' = "none" /\ pc \in {3, 5, 6, 7, 8, 10}
    BY <1>8, <2>1, CurrentStep, PlanLength DEF ChangeFields, At, Continue, Types, DriverTypes
  <2>3. CASE pc = 3
    BY <2>2, <2>3 DEF CacheSet
  <2>4. CASE pc # 3
    <3>1. cache' = cache
      BY <1>8, <2>1, <2>4, CurrentWrite DEF ChangeFields, ScaleAfter
    <3>2. QED
      BY <1>1, <2>2, <2>4, <3>1, PlanLength DEF CacheSet
  <2>5. QED
    BY <2>3, <2>4
<1>9. CASE WriteFields \/ WriteLimit
  <2>1. pc \in 11 .. 20 /\ pc' = pc + 1 /\ result' = "none" /\ cache' = cache
    BY <1>9, CurrentStep, PlanLength
       DEF WriteFields, WriteLimit, At, Continue, Types, DriverTypes
  <2>2. QED
    BY <1>1, <2>1, PlanLength DEF CacheSet
<1>10. CASE ConfigureWatchdog
  <2>1. pc = 21 /\ cache' = cache
    BY <1>10, PlanLength DEF ConfigureWatchdog
  <2>2. QED
    BY <1>1, <2>1, PlanLength DEF CacheSet
<1>11. CASE PowerLost \/ BridgeWrite \/ UNCHANGED vars
  <2>1. pc' = pc /\ result' = result /\ cache' = cache
    BY <1>11 DEF PowerLost, BridgeWrite, vars, driver
  <2>2. QED
    BY <1>1, <2>1 DEF CacheSet
<1>12. CASE Reset
  BY <1>12 DEF Reset, CacheSet
<1>13. QED
  BY <1>2, <1>3, <1>4, <1>5, <1>6, <1>7, <1>8, <1>9, <1>10, <1>11, <1>12
     DEF Next, Configure, Idle

LEMMA RangeFields ==
  /\ "fullScale" \in DOMAIN LayoutOf("ADC_CONFIG_2")
  /\ LayoutOf("ADC_CONFIG_2")["fullScale"].width = 1
  /\ "currentLimitSetting2" \in DOMAIN LayoutOf("DEVICE_SETUP_2")
  /\ LayoutOf("DEVICE_SETUP_2")["currentLimitSetting2"].width = 3
  /\ "currentLimitConfig" \in DOMAIN LayoutOf("DEVICE_SETUP")
  /\ LayoutOf("DEVICE_SETUP")["currentLimitConfig"].width = 1
BY LayoutsWritten DEF AdcLayouts, SetupLayouts, Bit, Bits

LEMMA RangeSteps ==
  ASSUME Types
  PROVE  /\ pc = 3 => "fullScale" \in DOMAIN Step.set /\ Step.set["fullScale"] = 0
         /\ pc = 8 => /\ "currentLimitSetting2" \in DOMAIN Step.set
                      /\ Step.set["currentLimitSetting2"] = AllRails[rail].vcl
         /\ pc = 5 => /\ "currentLimitConfig" \in DOMAIN Step.set
                      /\ Step.set["currentLimitConfig"] = 1
<1> DEFINE d == AllRails[rail]
<1>1. pc \in 1 .. Length => Step = Plan(d)[pc]
  BY CurrentStep
<1> HIDE DEF d
<1>2. Plan(d)[3].set = [fullScale |-> 0]
  BY DEF Plan, OneTimesRange, Rmw
<1>3. Plan(d)[8].set = [currentLimitSetting2 |-> d.vcl, cbClRatio2 |-> 1, vinTranEnable |-> 0,
                        fastRecoveryCb |-> 0]
  BY DEF Plan, Rmw
<1>4. pc = 3 => "fullScale" \in DOMAIN Step.set /\ Step.set["fullScale"] = 0
  BY <1>1, <1>2, PlanLength
<1>5. pc = 8 => /\ "currentLimitSetting2" \in DOMAIN Step.set
                /\ Step.set["currentLimitSetting2"] = d.vcl
  BY <1>1, <1>3, PlanLength
<1>6. Plan(d)[5].set = [retrySetting |-> 7, currentLimitConfig |-> 1, cbClRatio |-> 0,
                        permanentWriteDisable |-> 0]
  BY DEF Plan, Rmw
<1>7. pc = 5 => /\ "currentLimitConfig" \in DOMAIN Step.set
                /\ Step.set["currentLimitConfig"] = 1
  BY <1>1, <1>6, PlanLength
<1>8. QED
  BY <1>4, <1>5, <1>7 DEF d

LEMMA StepRange == Types /\ RangeInChip /\ [Next]_vars => RangeInChip'
<1> SUFFICES ASSUME Types, RangeInChip, [Next]_vars PROVE RangeInChip'
  OBVIOUS
<1> DEFINE adc == "ADC_CONFIG_2"
           setup == "DEVICE_SETUP_2"
           one == "DEVICE_SETUP"
<1>1. adc \in FieldRegisters /\ setup \in FieldRegisters /\ one \in FieldRegisters
  BY DEF FieldRegisters
<1>2. adc \in LaidOut /\ setup \in LaidOut /\ one \in LaidOut
  BY <1>1, FieldRegistersLaidOut
<1>3. ASSUME Believed(adc)'
      PROVE  Decode(adc, regs'[adc]).fullScale = 0
  <2>1. CASE Kept(adc)
    BY <1>3, <2>1 DEF Kept, RangeInChip
  <2>2. CASE WrittenFields(adc)
    <3>1. pc = 3
      BY <2>2, CurrentWrite DEF WrittenFields
    <3>2. PICK values :
            /\ regs'[adc] = Encode(adc, values)
            /\ \A f \in DOMAIN LayoutOf(adc) \cap DOMAIN Step.set : values[f] = Step.set[f]
      BY <1>3, <2>2 DEF WrittenFields
    <3>3. values["fullScale"] = 0
      BY <3>1, <3>2, RangeFields, RangeSteps
    <3>4. values["fullScale"] \in 0 .. 2^LayoutOf(adc)["fullScale"].width - 1
      <4>1. 2^LayoutOf(adc)["fullScale"].width = 2
        BY RangeFields, FieldPowers
      <4>2. QED
        BY <3>3, <4>1
    <3>5. Decode(adc, Encode(adc, values))["fullScale"] = values["fullScale"]
      BY <1>2, <3>4, RangeFields, EncodedValue
    <3>6. QED
      BY <3>2, <3>3, <3>5
  <2>3. QED
    BY <1>1, <2>1, <2>2, WhoWrites
<1>4. ASSUME Believed(setup)'
      PROVE  Decode(setup, regs'[setup]).currentLimitSetting2 = AllRails[rail].vcl
  <2>1. CASE Kept(setup)
    BY <1>4, <2>1 DEF Kept, RangeInChip
  <2>2. CASE WrittenFields(setup)
    <3>1. pc = 8
      BY <2>2, CurrentWrite DEF WrittenFields
    <3>2. PICK values :
            /\ regs'[setup] = Encode(setup, values)
            /\ \A f \in DOMAIN LayoutOf(setup) \cap DOMAIN Step.set : values[f] = Step.set[f]
      BY <1>4, <2>2 DEF WrittenFields
    <3>3. values["currentLimitSetting2"] = AllRails[rail].vcl
      BY <3>1, <3>2, RangeFields, RangeSteps
    <3>4. values["currentLimitSetting2"]
            \in 0 .. 2^LayoutOf(setup)["currentLimitSetting2"].width - 1
      <4>1. AllRails[rail].vcl \in {2, 4, 6}
        BY RailTable DEF Types, DriverTypes
      <4>2. 2^LayoutOf(setup)["currentLimitSetting2"].width = 8
        BY RangeFields, FieldPowers
      <4>3. QED
        BY <3>3, <4>1, <4>2
    <3>5. Decode(setup, Encode(setup, values))["currentLimitSetting2"]
            = values["currentLimitSetting2"]
      BY <1>2, <3>4, RangeFields, EncodedValue
    <3>6. QED
      BY <3>2, <3>3, <3>5
  <2>3. QED
    BY <1>1, <2>1, <2>2, WhoWrites
<1>5. ASSUME Believed(one)'
      PROVE  Decode(one, regs'[one]).currentLimitConfig = 1
  <2>1. CASE Kept(one)
    BY <1>5, <2>1 DEF Kept, RangeInChip
  <2>2. CASE WrittenFields(one)
    <3>1. pc = 5
      BY <2>2, CurrentWrite DEF WrittenFields
    <3>2. PICK values :
            /\ regs'[one] = Encode(one, values)
            /\ \A f \in DOMAIN LayoutOf(one) \cap DOMAIN Step.set : values[f] = Step.set[f]
      BY <1>5, <2>2 DEF WrittenFields
    <3>3. values["currentLimitConfig"] = 1
      BY <3>1, <3>2, RangeFields, RangeSteps
    <3>4. values["currentLimitConfig"]
            \in 0 .. 2^LayoutOf(one)["currentLimitConfig"].width - 1
      <4>1. 2^LayoutOf(one)["currentLimitConfig"].width = 2
        BY RangeFields, FieldPowers
      <4>2. QED
        BY <3>3, <4>1
    <3>5. Decode(one, Encode(one, values))["currentLimitConfig"] = values["currentLimitConfig"]
      BY <1>2, <3>4, RangeFields, EncodedValue
    <3>6. QED
      BY <3>2, <3>3, <3>5
  <2>3. QED
    BY <1>1, <2>1, <2>2, WhoWrites
<1>6. QED
  BY <1>3, <1>4, <1>5, SameRail DEF RangeInChip

LEMMA StepLimits == Types /\ CacheSet /\ LimitsInChip /\ [Next]_vars => LimitsInChip'
<1> DEFINE reg == "IIN_OC_WARN_LIMIT"
<1> SUFFICES ASSUME Types, CacheSet, LimitsInChip, [Next]_vars, Believed(reg)'
             PROVE  limits'[reg] = WarnCode'
  BY DEF LimitsInChip
<1>1. WarnCode' = WarnCode
  BY SameRail DEF WarnCode, RailVcl
<1>2. reg \in LimitRegisters
  BY DEF LimitRegisters
<1>3. CASE KeptLimit(reg)
  BY <1>1, <1>3 DEF KeptLimit, LimitsInChip
<1>4. CASE WrittenLimit(reg)
  <2>1. pc \in 1 .. Length /\ Step.do = "limit" /\ Step.reg = reg
    BY <1>4 DEF WrittenLimit
  <2>2. limits'[reg] = LimitCode(reg, Step.set.amount)
    BY <1>4 DEF WrittenLimit
  <2>3. Step.set.amount = AllRails[rail].warn
    BY <2>1, CurrentLimit
  <2>4. pc \in 12 .. 17
    BY <2>1, CurrentStep
  <2>5. cache.twice = FALSE /\ cache.limit = RailVcl
    BY <2>4, PlanLength DEF CacheSet
  <2>6. LimitCode(reg, Step.set.amount)
          = ValueToDirect(Step.set.amount, CoeffIin(cache.limit, cache.twice),
                          AllRails[rail].sense)
    <3>1. /\ reg \notin {"VIN_OV_WARN_LIMIT", "VIN_UV_WARN_LIMIT"}
          /\ reg \notin {"OT_WARN_LIMIT", "OT_FAULT_LIMIT"}
      OBVIOUS
    <3>2. QED
      BY <3>1, Zenon DEF LimitCode
  <2>7. LimitCode(reg, Step.set.amount) = WarnCode
    BY ONLY <2>3, <2>5, <2>6, Zenon DEF WarnCode, CoeffOne
  <2>8. QED
    BY <1>1, <2>2, <2>7
<1>5. QED
  BY <1>2, <1>3, <1>4, WhoWrites

LEMMA InitRange == Init => CacheSet /\ RangeInChip /\ LimitsInChip
<1> SUFFICES ASSUME Init PROVE CacheSet /\ RangeInChip /\ LimitsInChip
  OBVIOUS
<1>1. CacheSet
  BY DEF Init, CacheSet
<1>2. \A reg \in EveryRegister : ~Believed(reg)
  BY DEF Init, Believed
<1>3. QED
  BY <1>1, <1>2
     DEF RangeInChip, LimitsInChip, EveryRegister, FieldRegisters, LimitRegisters

LEMMA AlwaysRange == Spec => [](Types /\ CacheSet /\ RangeInChip /\ LimitsInChip)
<1>1. QED
  BY AlwaysTypes, InitRange, StepCache, StepRange, StepLimits, PTL DEF Spec

LEMMA InRange ==
  ASSUME Types, RangeInChip
  PROVE  /\ Believed("ADC_CONFIG_2") => ~ChipTwice
         /\ Believed("DEVICE_SETUP") /\ Believed("DEVICE_SETUP_2")
              => \A pin : ChipLimit(pin) = RailVcl
<1>1. AllRails[rail].vcl # 0
  BY RailTable DEF Types, DriverTypes
<1>2. ASSUME Believed("DEVICE_SETUP"), Believed("DEVICE_SETUP_2"), NEW pin
      PROVE  ChipLimit(pin) = RailVcl
  <2> DEFINE config == Decode("DEVICE_SETUP", regs["DEVICE_SETUP"]).currentLimitConfig
             setting == Decode("DEVICE_SETUP_2", regs["DEVICE_SETUP_2"]).currentLimitSetting2
  <2>1. config = 1 /\ setting = AllRails[rail].vcl
    BY <1>2 DEF RangeInChip
  <2>2. config # 0 /\ setting # 0
    BY <1>1, <2>1
  <2>3. ChipLimit(pin) = VclOf(setting)
    BY <2>2 DEF ChipLimit
  <2>4. QED
    BY <2>1, <2>3 DEF RailVcl
<1>3. QED
  BY <1>2 DEF RangeInChip, ChipTwice

\* On a rail init() calls good the driver multiplies currents and powers with the
\* chip's own range, wherever its CL pin is, as long as the writes of the range were
\* done and nobody changed it.
THEOREM RangeStaysKnown == Spec => []RangeIsKnown
<1>1. ASSUME Types, CacheSet, RangeInChip PROVE RangeIsKnown
  <2> SUFFICES ASSUME result = "kOk"
               PROVE  /\ Trusted({"ADC_CONFIG_2"}) => cache.twice = ChipTwice
                      /\ Trusted({"DEVICE_SETUP", "DEVICE_SETUP_2"}) =>
                           \A pin \in PinLimits : cache.limit = ChipLimit(pin)
    BY DEF RangeIsKnown
  <2>1. cache.twice = FALSE /\ cache.limit = RailVcl
    BY <1>1 DEF CacheSet
  <2>2. ASSUME Trusted({"ADC_CONFIG_2"}) PROVE cache.twice = ChipTwice
    <3>1. Believed("ADC_CONFIG_2")
      BY <2>2 DEF Trusted, Believed
    <3>2. ~ChipTwice
      BY <1>1, <3>1, InRange
    <3>3. ChipTwice \in BOOLEAN
      BY DEF ChipTwice
    <3>4. QED
      BY <2>1, <3>2, <3>3, Zenon
  <2>3. ASSUME Trusted({"DEVICE_SETUP", "DEVICE_SETUP_2"}), NEW pin \in PinLimits
        PROVE  cache.limit = ChipLimit(pin)
    <3>1. Believed("DEVICE_SETUP") /\ Believed("DEVICE_SETUP_2")
      BY <2>3 DEF Trusted, Believed
    <3>2. QED
      BY <1>1, <2>1, <3>1, InRange
  <2>4. QED
    BY <2>2, <2>3
<1>2. QED
  BY <1>1, AlwaysRange, PTL

\* The rows of the three rails, with the gain and the offset of each.
LEMMA RailRows ==
  /\ CoeffOne(125).m = 303333 /\ CoeffOne(125).b = 39557
  /\ CoeffOne(175).m = 216668 /\ CoeffOne(175).b = 423
  /\ CoeffOne(225).m = 168519 /\ CoeffOne(225).b = -5493
<1>1. RangeRows[2] = 125 /\ RangeRows[4] = 175 /\ RangeRows[6] = 225
  BY DEF RangeRows
<1>2. NearestRow(125) = 2 /\ NearestRow(175) = 4 /\ NearestRow(225) = 6
  <2>1. /\ NearestRow(RangeRows[2]) = 2 /\ NearestRow(RangeRows[4]) = 4
        /\ NearestRow(RangeRows[6]) = 6
    BY NearestExact
  <2>2. QED
    BY <1>1, <2>1
<1>3. /\ IinOne.m[2] = 303333 /\ IinOne.m[4] = 216668 /\ IinOne.m[6] = 168519
      /\ IinOne.b[2] = 39557 /\ IinOne.b[4] = 423 /\ IinOne.b[6] = -5493
  BY DEF IinOne
<1>4. /\ CoeffOne(125).m = IinOne.m[NearestRow(125)]
      /\ CoeffOne(125).b = IinOne.b[NearestRow(125)]
      /\ CoeffOne(175).m = IinOne.m[NearestRow(175)]
      /\ CoeffOne(175).b = IinOne.b[NearestRow(175)]
      /\ CoeffOne(225).m = IinOne.m[NearestRow(225)]
      /\ CoeffOne(225).b = IinOne.b[NearestRow(225)]
  BY DEF CoeffOne, CoeffIin
<1>5. QED
  BY ONLY <1>2, <1>3, <1>4

LEMMA RailLimits ==
  /\ AllRails["r48"].warn = 1275 /\ AllRails["r48"].sense = 1
  /\ VclOf(AllRails["r48"].vcl) = 125
  /\ AllRails["r24"].warn = 170 /\ AllRails["r24"].sense = 13
  /\ VclOf(AllRails["r24"].vcl) = 225
  /\ AllRails["r12"].warn = 85 /\ AllRails["r12"].sense = 20
  /\ VclOf(AllRails["r12"].vcl) = 175
  /\ DOMAIN AllRails = {"r48", "r24", "r12"}
BY DEF AllRails, VclOf, Vcl

LEMMA WarnCodes ==
  ASSUME Types
  PROVE  Near(WarnCode, ChipCodeOne(AllRails[rail].warn, AllRails[rail].sense, RailVcl))
<1>1. /\ ValueToDirect(1275, CoeffOne(125), 1) = 3871
      /\ ValueToDirect(170, CoeffOne(225), 13) = 3724
      /\ ValueToDirect(85, CoeffOne(175), 20) = 3683
  <2>1. \A coeff : /\ coeff.m = 303333 /\ coeff.b = 39557
                   => ValueToDirect(1275, coeff, 1) = 3871
    BY DEF ValueToDirect, Clamp12
  <2>2. \A coeff : /\ coeff.m = 168519 /\ coeff.b = -5493
                   => ValueToDirect(170, coeff, 13) = 3724
    BY DEF ValueToDirect, Clamp12
  <2>3. \A coeff : /\ coeff.m = 216668 /\ coeff.b = 423
                   => ValueToDirect(85, coeff, 20) = 3683
    BY DEF ValueToDirect, Clamp12
  <2>4. QED
    BY ONLY RailRows, <2>1, <2>2, <2>3, SMT
<1>2. /\ ChipCodeOne(1275, 1, 125) = 3867
      /\ ChipCodeOne(170, 13, 225) = 3724
      /\ ChipCodeOne(85, 20, 175) = 3683
  BY DEF ChipCodeOne, ChipCode
<1>3. Near(3871, 3867) /\ Near(3724, 3724) /\ Near(3683, 3683)
  BY DEF Near, Abs
<1>4. rail \in {"r48", "r24", "r12"}
  BY RailLimits DEF Types, DriverTypes
<1>5. \/ /\ WarnCode = ValueToDirect(1275, CoeffOne(125), 1)
         /\ ChipCodeOne(AllRails[rail].warn, AllRails[rail].sense, RailVcl)
              = ChipCodeOne(1275, 1, 125)
      \/ /\ WarnCode = ValueToDirect(170, CoeffOne(225), 13)
         /\ ChipCodeOne(AllRails[rail].warn, AllRails[rail].sense, RailVcl)
              = ChipCodeOne(170, 13, 225)
      \/ /\ WarnCode = ValueToDirect(85, CoeffOne(175), 20)
         /\ ChipCodeOne(AllRails[rail].warn, AllRails[rail].sense, RailVcl)
              = ChipCodeOne(85, 20, 175)
  BY ONLY <1>4, RailLimits DEF WarnCode, RailVcl
<1>6. QED
  BY ONLY <1>1, <1>2, <1>3, <1>5, SMT

\* The overcurrent warning in the chip means 85 % of the rail's trip current in the
\* chip's own range, wherever its CL pin is, as long as the writes of the limit and
\* of the range were done and nobody changed them since, under any of their codes.
THEOREM WarningsAreRight == Spec => []WarningsMeanAmps
<1>1. ASSUME Types, RangeInChip, LimitsInChip PROVE WarningsMeanAmps
  <2> DEFINE reg == "IIN_OC_WARN_LIMIT"
  <2> SUFFICES ASSUME Trusted(RangeRegisters \cup {reg}), NEW pin \in PinLimits
               PROVE  Near(limits[reg], ChipCode(AllRails[rail].warn, AllRails[rail].sense,
                                                 ChipLimit(pin), ChipTwice))
    BY DEF WarningsMeanAmps
  <2>1. /\ Believed(reg) /\ Believed("ADC_CONFIG_2") /\ Believed("DEVICE_SETUP")
        /\ Believed("DEVICE_SETUP_2")
    BY DEF Trusted, RangeRegisters, Believed
  <2>2. limits[reg] = WarnCode
    BY <1>1, <2>1 DEF LimitsInChip
  <2>3. ChipLimit(pin) = RailVcl /\ ~ChipTwice
    BY <1>1, <2>1, InRange
  <2>4. ChipCode(AllRails[rail].warn, AllRails[rail].sense, ChipLimit(pin), ChipTwice)
          = ChipCodeOne(AllRails[rail].warn, AllRails[rail].sense, RailVcl)
    BY <2>3 DEF ChipCodeOne, ChipCode
  <2>5. QED
    BY <1>1, <2>2, <2>4, WarnCodes
<1>2. QED
  BY <1>1, AlwaysRange, PTL
-----------------------------------------------------------------------------
(* What describeRailFaults() prints, for any set of events at once.         *)

\* The lines of a report that one event accounts for.
Shown(event) ==
  UNION {{<<reg, b>> : b \in Raised(event, reg) \cap ReportedBits[reg]} : reg \in StatusRegisters}

LEMMA SixRegisters ==
  StatusRegisters = {"STATUS_WORD", "STATUS_INPUT", "STATUS_CML", "STATUS_MFR_SPECIFIC",
                     "STATUS_MFR_SPECIFIC_2", "DIAGNOSTIC_WORD"}
BY DEF StatusRegisters, StatusBits, MfrStatusBits

LEMMA EventNames ==
  /\ DOMAIN Faults = {"vinOv", "vinUv", "overcurrent", "circuitBreaker", "fetFail",
                      "overTemperature", "timerExpired", "shortCircuit", "watchdog",
                      "invalidCommand", "memory"}
  /\ DOMAIN Remarks = {"vinOvWarn", "vinUvWarn", "inputWarn", "voutUvWarn",
                       "otherCommunication", "overTemperatureWarn", "vinTransient",
                       "energyOverflow", "blackBoxFull", "gateOff", "asDelivered"}
BY DEF Faults, Remarks

\* What each fault prints.
LEMMA FaultLines ==
  /\ Shown("vinOv") = {<<"STATUS_INPUT", 7>>, <<"DIAGNOSTIC_WORD", 4>>}
  /\ Shown("vinUv") = {<<"STATUS_INPUT", 4>>, <<"STATUS_WORD", 3>>, <<"DIAGNOSTIC_WORD", 5>>}
  /\ Shown("overcurrent") = {<<"STATUS_INPUT", 2>>, <<"DIAGNOSTIC_WORD", 3>>}
  /\ Shown("circuitBreaker") = {<<"STATUS_MFR_SPECIFIC", 7>>, <<"DIAGNOSTIC_WORD", 0>>}
  /\ Shown("fetFail") = {<<"STATUS_MFR_SPECIFIC", 6>>, <<"STATUS_MFR_SPECIFIC", 1>>, <<"DIAGNOSTIC_WORD", 8>>}
  /\ Shown("overTemperature") = {<<"STATUS_WORD", 2>>, <<"DIAGNOSTIC_WORD", 2>>}
  /\ Shown("timerExpired") = {<<"DIAGNOSTIC_WORD", 9>>}
  /\ Shown("shortCircuit") = {<<"STATUS_MFR_SPECIFIC_2", 11>>}
  /\ Shown("watchdog") = {<<"STATUS_MFR_SPECIFIC_2", 12>>}
  /\ Shown("invalidCommand") = {<<"STATUS_CML", 7>>, <<"DIAGNOSTIC_WORD", 1>>}
  /\ Shown("memory") = {<<"STATUS_CML", 4>>, <<"DIAGNOSTIC_WORD", 1>>}
<1>1. Shown("vinOv") = {<<"STATUS_INPUT", 7>>, <<"DIAGNOSTIC_WORD", 4>>}
  BY SixRegisters, EventNames
     DEF Shown, Raised, Raises, Faults, StatusBit, StatusBits, MfrStatusBits, ReportedBits
<1>2. Shown("vinUv") = {<<"STATUS_INPUT", 4>>, <<"STATUS_WORD", 3>>, <<"DIAGNOSTIC_WORD", 5>>}
  BY SixRegisters, EventNames
     DEF Shown, Raised, Raises, Faults, StatusBit, StatusBits, MfrStatusBits, ReportedBits
<1>3. Shown("overcurrent") = {<<"STATUS_INPUT", 2>>, <<"DIAGNOSTIC_WORD", 3>>}
  BY SixRegisters, EventNames
     DEF Shown, Raised, Raises, Faults, StatusBit, StatusBits, MfrStatusBits, ReportedBits
<1>4. Shown("circuitBreaker") = {<<"STATUS_MFR_SPECIFIC", 7>>, <<"DIAGNOSTIC_WORD", 0>>}
  BY SixRegisters, EventNames
     DEF Shown, Raised, Raises, Faults, StatusBit, StatusBits, MfrStatusBits, ReportedBits
<1>5. Shown("fetFail") = {<<"STATUS_MFR_SPECIFIC", 6>>, <<"STATUS_MFR_SPECIFIC", 1>>, <<"DIAGNOSTIC_WORD", 8>>}
  BY SixRegisters, EventNames
     DEF Shown, Raised, Raises, Faults, StatusBit, StatusBits, MfrStatusBits, ReportedBits
<1>6. Shown("overTemperature") = {<<"STATUS_WORD", 2>>, <<"DIAGNOSTIC_WORD", 2>>}
  BY SixRegisters, EventNames
     DEF Shown, Raised, Raises, Faults, StatusBit, StatusBits, MfrStatusBits, ReportedBits
<1>7. Shown("timerExpired") = {<<"DIAGNOSTIC_WORD", 9>>}
  BY SixRegisters, EventNames
     DEF Shown, Raised, Raises, Faults, StatusBit, StatusBits, MfrStatusBits, ReportedBits
<1>8. Shown("shortCircuit") = {<<"STATUS_MFR_SPECIFIC_2", 11>>}
  BY SixRegisters, EventNames
     DEF Shown, Raised, Raises, Faults, StatusBit, StatusBits, MfrStatusBits, ReportedBits
<1>9. Shown("watchdog") = {<<"STATUS_MFR_SPECIFIC_2", 12>>}
  BY SixRegisters, EventNames
     DEF Shown, Raised, Raises, Faults, StatusBit, StatusBits, MfrStatusBits, ReportedBits
<1>10. Shown("invalidCommand") = {<<"STATUS_CML", 7>>, <<"DIAGNOSTIC_WORD", 1>>}
  BY SixRegisters, EventNames
     DEF Shown, Raised, Raises, Faults, StatusBit, StatusBits, MfrStatusBits, ReportedBits
<1>11. Shown("memory") = {<<"STATUS_CML", 4>>, <<"DIAGNOSTIC_WORD", 1>>}
  BY SixRegisters, EventNames
     DEF Shown, Raised, Raises, Faults, StatusBit, StatusBits, MfrStatusBits, ReportedBits
<1>12. QED
  BY <1>1, <1>2, <1>3, <1>4, <1>5, <1>6, <1>7, <1>8, <1>9, <1>10, <1>11

\* What each remark prints: a reader can take some of them for a fault.
LEMMA RemarkLines ==
  /\ Shown("vinOvWarn") = {}
  /\ Shown("vinUvWarn") = {}
  /\ Shown("inputWarn") = {}
  /\ Shown("voutUvWarn") = {}
  /\ Shown("otherCommunication") = {<<"DIAGNOSTIC_WORD", 1>>}
  /\ Shown("overTemperatureWarn") = {<<"STATUS_WORD", 2>>}
  /\ Shown("vinTransient") = {<<"STATUS_MFR_SPECIFIC_2", 8>>}
  /\ Shown("energyOverflow") = {<<"STATUS_MFR_SPECIFIC_2", 9>>}
  /\ Shown("blackBoxFull") = {<<"STATUS_MFR_SPECIFIC", 3>>}
  /\ Shown("gateOff") = {}
  /\ Shown("asDelivered") = {}
<1>1. Shown("vinOvWarn") = {}
  BY SixRegisters, EventNames
     DEF Shown, Raised, Raises, Remarks, StatusBit, StatusBits, MfrStatusBits, ReportedBits
<1>2. Shown("vinUvWarn") = {}
  BY SixRegisters, EventNames
     DEF Shown, Raised, Raises, Remarks, StatusBit, StatusBits, MfrStatusBits, ReportedBits
<1>3. Shown("inputWarn") = {}
  BY SixRegisters, EventNames
     DEF Shown, Raised, Raises, Remarks, StatusBit, StatusBits, MfrStatusBits, ReportedBits
<1>4. Shown("voutUvWarn") = {}
  BY SixRegisters, EventNames
     DEF Shown, Raised, Raises, Remarks, StatusBit, StatusBits, MfrStatusBits, ReportedBits
<1>5. Shown("otherCommunication") = {<<"DIAGNOSTIC_WORD", 1>>}
  BY SixRegisters, EventNames
     DEF Shown, Raised, Raises, Remarks, StatusBit, StatusBits, MfrStatusBits, ReportedBits
<1>6. Shown("overTemperatureWarn") = {<<"STATUS_WORD", 2>>}
  BY SixRegisters, EventNames
     DEF Shown, Raised, Raises, Remarks, StatusBit, StatusBits, MfrStatusBits, ReportedBits
<1>7. Shown("vinTransient") = {<<"STATUS_MFR_SPECIFIC_2", 8>>}
  BY SixRegisters, EventNames
     DEF Shown, Raised, Raises, Remarks, StatusBit, StatusBits, MfrStatusBits, ReportedBits
<1>8. Shown("energyOverflow") = {<<"STATUS_MFR_SPECIFIC_2", 9>>}
  BY SixRegisters, EventNames
     DEF Shown, Raised, Raises, Remarks, StatusBit, StatusBits, MfrStatusBits, ReportedBits
<1>9. Shown("blackBoxFull") = {<<"STATUS_MFR_SPECIFIC", 3>>}
  BY SixRegisters, EventNames
     DEF Shown, Raised, Raises, Remarks, StatusBit, StatusBits, MfrStatusBits, ReportedBits
<1>10. Shown("gateOff") = {}
  BY SixRegisters, EventNames
     DEF Shown, Raised, Raises, Remarks, StatusBit, StatusBits, MfrStatusBits, ReportedBits
<1>11. Shown("asDelivered") = {}
  BY SixRegisters, EventNames
     DEF Shown, Raised, Raises, Remarks, StatusBit, StatusBits, MfrStatusBits, ReportedBits
<1>12. QED
  BY <1>1, <1>2, <1>3, <1>4, <1>5, <1>6, <1>7, <1>8, <1>9, <1>10, <1>11

\* The line by which a report tells a fault from every other event.
Telltale ==
  [vinOv |-> <<"STATUS_INPUT", 7>>, vinUv |-> <<"STATUS_INPUT", 4>>,
   overcurrent |-> <<"STATUS_INPUT", 2>>, circuitBreaker |-> <<"STATUS_MFR_SPECIFIC", 7>>,
   fetFail |-> <<"STATUS_MFR_SPECIFIC", 6>>, overTemperature |-> <<"DIAGNOSTIC_WORD", 2>>,
   timerExpired |-> <<"DIAGNOSTIC_WORD", 9>>, shortCircuit |-> <<"STATUS_MFR_SPECIFIC_2", 11>>,
   watchdog |-> <<"STATUS_MFR_SPECIFIC_2", 12>>, invalidCommand |-> <<"STATUS_CML", 7>>,
   memory |-> <<"STATUS_CML", 4>>]

Summary == <<"DIAGNOSTIC_WORD", 1>>

\* Every fault prints its line, no other event does, and it is not the summary bit.
LEMMA OneLineEach ==
  \A f \in DOMAIN Faults : \A e \in Events :
    /\ Telltale[f] # Summary
    /\ Telltale[f] \in Shown(e) <=> e = f
<1> SUFFICES ASSUME NEW f \in DOMAIN Faults
             PROVE  /\ Telltale[f] # Summary
                    /\ \A e \in DOMAIN Faults : Telltale[f] \in Shown(e) <=> e = f
                    /\ \A e \in DOMAIN Remarks : Telltale[f] \notin Shown(e) /\ e # f
  BY DEF Events
<1>1. Telltale[f] # Summary
  BY EventNames DEF Telltale, Summary
<1>2. \A e \in DOMAIN Faults : Telltale[f] \in Shown(e) <=> e = f
  BY EventNames, FaultLines DEF Telltale
<1>3. ASSUME NEW e \in DOMAIN Remarks PROVE Telltale[f] \notin Shown(e) /\ e # f
  BY EventNames, RemarkLines DEF Telltale
<1>4. QED
  BY <1>1, <1>2, <1>3

\* A report shows what its events print, and the summary bit only beside a real one.
LEMMA ReportLines ==
  ASSUME NEW events
  PROVE  /\ \A line : line # Summary =>
              (line \in Report(Status(events)) <=> \E e \in events : line \in Shown(e))
         /\ Summary \in Report(Status(events)) =>
              \E e \in events : \E line \in Shown(e) : line # Summary
<1> DEFINE status == Status(events)
           lines(reg) == {<<reg, b>> : b \in status[reg] \cap ReportedBits[reg]}
           all == UNION {lines(reg) : reg \in StatusRegisters}
<1>1. \A reg \in StatusRegisters : status[reg] = UNION {Raised(e, reg) : e \in events}
  BY DEF Status
<1>2. \A line : line \in all <=> \E e \in events : line \in Shown(e)
  BY <1>1 DEF Shown
<1>3. Report(status) = IF status["STATUS_CML"] \cap {7, 6, 5, 4} = {} THEN all \ {Summary} ELSE all
  BY DEF Report, Summary
<1>4. ASSUME Summary \in Report(status)
      PROVE  \E e \in events : \E line \in Shown(e) : line # Summary
  <2>1. PICK b \in {7, 6, 5, 4} : b \in status["STATUS_CML"]
    BY <1>3, <1>4
  <2>2. b \in ReportedBits["STATUS_CML"] /\ "STATUS_CML" \in StatusRegisters
    BY SixRegisters DEF ReportedBits
  <2>3. PICK e \in events : b \in Raised(e, "STATUS_CML")
    BY <1>1, <2>1, <2>2
  <2>4. <<"STATUS_CML", b>> \in Shown(e)
    BY <2>2, <2>3 DEF Shown
  <2>5. <<"STATUS_CML", b>> # Summary
    BY DEF Summary
  <2>6. QED
    BY <2>3, <2>4, <2>5
<1>5. \A line : line # Summary => (line \in Report(status) <=> line \in all)
  BY <1>3
<1>6. QED
  BY <1>2, <1>4, <1>5

\* Two reports alike have the same faults behind them, however many at once and
\* whatever warnings or noise are raised beside them.  (describeRailFaults().)
THEOREM ReportNamesFaults ==
  \A events, others \in SUBSET Events :
    Report(Status(events)) = Report(Status(others))
      => events \cap DOMAIN Faults = others \cap DOMAIN Faults
<1> SUFFICES ASSUME NEW events \in SUBSET Events
             PROVE  events \cap DOMAIN Faults
                      = {f \in DOMAIN Faults : Telltale[f] \in Report(Status(events))}
  OBVIOUS
<1>1. ASSUME NEW f \in DOMAIN Faults
      PROVE  f \in events <=> Telltale[f] \in Report(Status(events))
  <2>1. Telltale[f] # Summary
    BY OneLineEach DEF Events
  <2>2. ASSUME NEW e \in events PROVE Telltale[f] \in Shown(e) <=> e = f
    BY OneLineEach, Zenon
  <2>3. Telltale[f] \in Report(Status(events)) <=> \E e \in events : Telltale[f] \in Shown(e)
    BY <2>1, ReportLines
  <2>4. QED
    BY <2>2, <2>3
<1>2. QED
  BY <1>1

-----------------------------------------------------------------------------
(* What tick() keeps of the chip's bits.                                    *)

\* A register's bits are those of a set of events that held all that was raised
\* throughout, and nothing that never was.
Mixed(reg, span) ==
  \E events \in SUBSET Considered :
    /\ span.all \subseteq events /\ events \subseteq span.some
    /\ cached[reg] = Status(events)[reg]

Spanned(span) == span.all \subseteq raised /\ raised \subseteq span.some

\* The registers read since the tick began.
ReadSoFar == {ReadOrder[i] : i \in 1 .. position - 1}

ReportShape ==
  /\ raised \subseteq Considered
  /\ position \in 1 .. 6
  /\ DOMAIN cached = StatusRegisters
  /\ clean \in BOOLEAN
  /\ ticking \in Span /\ since \in Span
  /\ garbled \subseteq StatusRegisters

ReportInv ==
  /\ ReportShape
  /\ Spanned(since)
  /\ position > 1 => Spanned(ticking)
  /\ \A reg \in StatusRegisters \ garbled : Mixed(reg, since)
  /\ clean => \A reg \in ReadSoFar \ garbled : Mixed(reg, ticking)

LEMMA SixReads ==
  /\ Len(ReadOrder) = 6 /\ DOMAIN ReadOrder = 1 .. 6
  /\ \A i \in 1 .. 6 : ReadOrder[i] \in StatusRegisters
  /\ StatusRegisters = {ReadOrder[i] : i \in 1 .. 6}
<1>1. Len(ReadOrder) = 6 /\ DOMAIN ReadOrder = 1 .. 6
  BY DEF ReadOrder
<1>2. /\ ReadOrder[1] = "STATUS_WORD" /\ ReadOrder[2] = "DIAGNOSTIC_WORD"
      /\ ReadOrder[3] = "STATUS_MFR_SPECIFIC_2" /\ ReadOrder[4] = "STATUS_INPUT"
      /\ ReadOrder[5] = "STATUS_CML" /\ ReadOrder[6] = "STATUS_MFR_SPECIFIC"
  BY DEF ReadOrder
<1>3. \A i \in 1 .. 6 : i = 1 \/ i = 2 \/ i = 3 \/ i = 4 \/ i = 5 \/ i = 6
  OBVIOUS
<1>4. QED
  BY <1>1, <1>2, <1>3, SixRegisters

LEMMA InitReport == ReportInit => ReportInv
<1> SUFFICES ASSUME ReportInit PROVE ReportInv
  OBVIOUS
<1>1. Instant({}) \in Span
  BY DEF Instant, Span
<1>2. ReportShape
  BY <1>1 DEF ReportInit, ReportShape
<1>3. Spanned(since)
  BY DEF ReportInit, Spanned, Instant
<1>4. ASSUME NEW reg \in StatusRegisters PROVE Mixed(reg, since)
  <2>1. Status({})[reg] = {}
    BY DEF Status
  <2>2. cached[reg] = {}
    BY DEF ReportInit
  <2>3. since.all = {} /\ since.some = {}
    BY DEF ReportInit, Instant
  <2>4. QED
    BY <2>1, <2>2, <2>3 DEF Mixed
<1>5. ReadSoFar = {}
  BY DEF ReportInit, ReadSoFar
<1>6. QED
  BY <1>2, <1>3, <1>4, <1>5 DEF ReportInv, ReportInit

\* A span only widens.
LEMMA Widened ==
  ASSUME NEW span \in Span, raised' \subseteq Considered
  PROVE  /\ Longer(span) \in Span
         /\ Longer(span).all \subseteq span.all /\ span.some \subseteq Longer(span).some
         /\ Longer(span).all \subseteq raised' /\ raised' \subseteq Longer(span).some
BY DEF Longer, Span

LEMMA ChipKeepsReport ==
  ASSUME ReportInv, NEW events \in SUBSET Considered, ChipShows(events)
  PROVE  ReportInv'
<1>1. /\ raised' = events /\ raised' \subseteq Considered
      /\ ticking' = Longer(ticking) /\ since' = Longer(since)
      /\ position' = position /\ cached' = cached /\ clean' = clean /\ garbled' = garbled
  BY DEF ChipShows
<1>2. ticking \in Span /\ since \in Span
  BY DEF ReportInv, ReportShape
<1>3. /\ ticking' \in Span /\ since' \in Span
      /\ ticking'.all \subseteq ticking.all /\ ticking.some \subseteq ticking'.some
      /\ since'.all \subseteq since.all /\ since.some \subseteq since'.some
      /\ Spanned(ticking)' /\ Spanned(since)'
  BY <1>1, <1>2, Widened DEF Spanned
<1>4. ReportShape'
  BY <1>1, <1>3 DEF ReportInv, ReportShape
<1>5. ASSUME NEW reg \in StatusRegisters, Mixed(reg, since) PROVE Mixed(reg, since)'
  BY <1>1, <1>3, <1>5 DEF Mixed
<1>6. ASSUME NEW reg \in StatusRegisters, Mixed(reg, ticking) PROVE Mixed(reg, ticking)'
  BY <1>1, <1>3, <1>6 DEF Mixed
<1>7. ReadSoFar' = ReadSoFar
  BY <1>1 DEF ReadSoFar
<1>8. \A reg \in StatusRegisters \ garbled' : Mixed(reg, since)'
  BY <1>1, <1>5 DEF ReportInv
<1>9. ReadSoFar \subseteq StatusRegisters
  BY SixReads DEF ReadSoFar, ReportInv, ReportShape
<1>10. clean' => \A reg \in ReadSoFar' \ garbled' : Mixed(reg, ticking)'
  BY <1>1, <1>6, <1>7, <1>9 DEF ReportInv
<1>11. QED
  BY <1>3, <1>4, <1>8, <1>10 DEF ReportInv

\* The span of a tick from its first register on.
TickSpan == IF position = 1 THEN Instant(raised) ELSE ticking

\* A register read, well or not: the others are as they were.
LEMMA ReadKeepsReport ==
  ASSUME ReportInv, NEW ok \in BOOLEAN, Advance(ok), raised' = raised,
         DOMAIN cached' = StatusRegisters, garbled' \subseteq StatusRegisters,
         \A reg \in StatusRegisters \ {Register} :
           cached'[reg] = cached[reg] /\ (reg \in garbled' <=> reg \in garbled),
         ok => Register \in garbled' \/ cached'[Register] = Status(raised)[Register],
         ~ok => cached'[Register] = cached[Register] /\ garbled' = garbled
  PROVE  ReportInv'
<1> DEFINE at == Register
<1>1. /\ position \in 1 .. 6 /\ Len(ReadOrder) = 6 /\ at = ReadOrder[position]
      /\ at \in StatusRegisters
  BY SixReads DEF ReportInv, ReportShape, Register
<1>2. /\ clean' = (ok /\ (position = 1 \/ clean))
      /\ ticking' = TickSpan
      /\ since' = IF position = 6 /\ clean' THEN TickSpan ELSE since
      /\ position' = IF position = 6 THEN 1 ELSE position + 1
  BY <1>1 DEF Advance, TickSpan, AfterTick
<1>3. TickSpan \in Span /\ Spanned(TickSpan)
  BY DEF TickSpan, Instant, Span, Spanned, ReportInv, ReportShape
<1>4. ReportShape'
  BY <1>1, <1>2, <1>3 DEF ReportInv, ReportShape
<1>5. Spanned(since)' /\ Spanned(ticking)'
  BY <1>2, <1>3 DEF Spanned, ReportInv
<1>6. ASSUME NEW reg \in StatusRegisters \ garbled' PROVE ~(position = 6 /\ clean') => Mixed(reg, since)'
  <2> SUFFICES ASSUME ~(position = 6 /\ clean') PROVE Mixed(reg, since)'
    OBVIOUS
  <2>1. since' = since
    BY <1>2
  <2>2. CASE reg # at \/ ~ok
    <3>1. cached'[reg] = cached[reg] /\ reg \notin garbled
      BY <1>6, <2>2
    <3>2. Mixed(reg, since)
      BY <1>6, <3>1 DEF ReportInv
    <3>3. QED
      BY <2>1, <3>1, <3>2 DEF Mixed
  <2>3. CASE reg = at /\ ok
    <3>1. cached'[reg] = Status(raised)[reg]
      BY <1>6, <2>3
    <3>2. Spanned(since) /\ raised \in SUBSET Considered
      BY DEF ReportInv, ReportShape
    <3>3. QED
      BY <2>1, <3>1, <3>2 DEF Mixed, Spanned
  <2>4. QED
    BY <2>2, <2>3
<1>7. ASSUME clean', NEW i \in 1 .. position, ReadOrder[i] \notin garbled'
      PROVE  \E events \in SUBSET Considered :
               /\ TickSpan.all \subseteq events /\ events \subseteq TickSpan.some
               /\ cached'[ReadOrder[i]] = Status(events)[ReadOrder[i]]
  <2>1. ok /\ (position = 1 \/ clean)
    BY <1>2, <1>7
  <2>2. CASE ReadOrder[i] = at
    <3>1. cached'[at] = Status(raised)[at]
      BY <1>7, <2>1, <2>2
    <3>2. raised \in SUBSET Considered
      BY DEF ReportInv, ReportShape
    <3>3. QED
      BY <1>3, <2>2, <3>1, <3>2 DEF Spanned
  <2>3. CASE ReadOrder[i] # at
    <3>1. i # position /\ i \in 1 .. position - 1 /\ position # 1
      BY <1>1, <2>3
    <3>2. ReadOrder[i] \in ReadSoFar /\ ReadOrder[i] \in StatusRegisters
      BY <1>1, <3>1, SixReads DEF ReadSoFar
    <3>3. cached'[ReadOrder[i]] = cached[ReadOrder[i]] /\ ReadOrder[i] \notin garbled
      BY <1>7, <2>3, <3>2
    <3>4. Mixed(ReadOrder[i], ticking) /\ TickSpan = ticking
      BY <2>1, <3>1, <3>2, <3>3 DEF ReportInv, TickSpan
    <3>5. QED
      BY <3>3, <3>4 DEF Mixed
  <2>4. QED
    BY <2>2, <2>3
<1>8. ASSUME NEW reg \in StatusRegisters \ garbled' PROVE Mixed(reg, since)'
  <2>1. CASE position = 6 /\ clean'
    <3>1. PICK i \in 1 .. 6 : reg = ReadOrder[i]
      BY SixReads
    <3>2. since' = TickSpan
      BY <1>2, <2>1
    <3>3. QED
      BY <1>7, <1>8, <2>1, <3>1, <3>2 DEF Mixed
  <2>2. QED
    BY <1>6, <2>1
<1>9. ASSUME clean', NEW reg \in ReadSoFar' \ garbled' PROVE Mixed(reg, ticking)'
  <2>1. PICK i \in 1 .. position' - 1 : reg = ReadOrder[i]
    BY <1>9 DEF ReadSoFar
  <2>2. i \in 1 .. position
    BY <1>1, <1>2
  <2>3. QED
    BY <1>2, <1>7, <1>9, <2>1, <2>2 DEF Mixed
<1>10. QED
  BY <1>4, <1>5, <1>8, <1>9 DEF ReportInv

LEMMA StepReport == ReportInv /\ [ReportNext]_reportVars => ReportInv'
<1> SUFFICES ASSUME ReportInv, [ReportNext]_reportVars PROVE ReportInv'
  OBVIOUS
<1>1. /\ raised \subseteq Considered /\ DOMAIN cached = StatusRegisters
      /\ garbled \subseteq StatusRegisters /\ Register \in StatusRegisters
  BY SixReads DEF ReportInv, ReportShape, Register
<1>2. CASE Happen
  BY <1>1, <1>2, ChipKeepsReport DEF Happen
<1>3. CASE Cleared
  BY <1>3, ChipKeepsReport DEF Cleared
<1>4. CASE ReadExactly
  BY <1>1, <1>4, ReadKeepsReport DEF ReadExactly
<1>5. CASE ReadFailed
  <2>1. DOMAIN cached' = StatusRegisters /\ \A reg \in StatusRegisters : cached'[reg] = cached[reg]
    BY <1>1, <1>5 DEF ReadFailed, AfterFailure
  <2>2. QED
    BY <1>1, <1>5, <2>1, ReadKeepsReport DEF ReadFailed
<1>6. CASE ReadGarbled
  BY <1>1, <1>6, ReadKeepsReport DEF ReadGarbled
<1>7. CASE UNCHANGED reportVars
  BY <1>7 DEF reportVars, ReportInv, ReportShape, Spanned, Mixed, ReadSoFar
<1>8. QED
  BY <1>2, <1>3, <1>4, <1>5, <1>6, <1>7 DEF ReportNext

\* More bits never give fewer lines.
LEMMA ReportGrows ==
  ASSUME NEW fewer, NEW more, \A reg \in StatusRegisters : fewer[reg] \subseteq more[reg]
  PROVE  Report(fewer) \subseteq Report(more)
<1>1. "STATUS_CML" \in StatusRegisters
  BY SixRegisters
<1>2. QED
  BY <1>1 DEF Report

\* What each register of a printed report comes from.
LEMMA Sources ==
  ASSUME ReportInv, Printable, NEW reg \in StatusRegisters
  PROVE  \E events \in SUBSET Considered :
           /\ since.all \subseteq events /\ events \subseteq since.some
           /\ cached[reg] = UNION {Raised(e, reg) : e \in events}
<1>1. Mixed(reg, since)
  BY DEF ReportInv, Printable
<1>2. QED
  BY <1>1 DEF Mixed, Status

\* A fault that has stood since before the last tick without a failed read is in the
\* report, however many events are raised beside it, come and go, and however the
\* bits of several ticks are mixed.
THEOREM StandingFaultsAreNamed == ReportSpec => []StandingFaultsNamed
<1>1. ASSUME ReportInv PROVE StandingFaultsNamed
  <2> SUFFICES ASSUME Printable, NEW fault \in since.all \cap DOMAIN Faults
               PROVE  Report(Status({fault})) \subseteq Report(cached)
    BY DEF StandingFaultsNamed, Named, Printed
  <2>1. ASSUME NEW reg \in StatusRegisters PROVE Status({fault})[reg] \subseteq cached[reg]
    <3>1. Status({fault})[reg] = Raised(fault, reg)
      BY DEF Status
    <3>2. QED
      BY <1>1, <3>1, Sources
  <2>2. QED
    BY <2>1, ReportGrows
<1>2. QED
  BY <1>1, InitReport, StepReport, PTL DEF ReportSpec

\* A fault the report names has been up since the last tick without a failed read
\* began: no warning, no other fault and no mixture of readings passes for it.
THEOREM NoFaultIsInvented == ReportSpec => []NoFaultInvented
<1>1. ASSUME ReportInv PROVE NoFaultInvented
  <2> SUFFICES ASSUME Printable, NEW fault \in DOMAIN Faults,
                      Report(Status({fault})) \subseteq Report(cached)
               PROVE  fault \in since.some
    BY DEF NoFaultInvented, Named, Printed
  <2> DEFINE line == Telltale[fault]
  <2>1. line # Summary /\ line \in Shown(fault)
    BY OneLineEach DEF Events
  <2>2. line \in Report(cached)
    BY <2>1, ReportLines
  <2>3. PICK reg \in StatusRegisters : \E b \in cached[reg] \cap ReportedBits[reg] : line = <<reg, b>>
    BY <2>2 DEF Report
  <2>4. PICK b \in cached[reg] \cap ReportedBits[reg] : line = <<reg, b>>
    BY <2>3
  <2>5. PICK events \in SUBSET Considered :
          /\ events \subseteq since.some
          /\ cached[reg] = UNION {Raised(e, reg) : e \in events}
    BY <1>1, Sources
  <2>6. PICK e \in events : b \in Raised(e, reg)
    BY <2>4, <2>5
  <2>7. line \in Shown(e)
    BY <2>4, <2>6 DEF Shown
  <2>8. e \in Events
    BY ReportAssumption
  <2>9. e = fault
    BY <2>7, <2>8, OneLineEach, Zenon
  <2>10. QED
    BY <2>5, <2>9
<1>2. QED
  BY <1>1, InitReport, StepReport, PTL DEF ReportSpec
=============================================================================
