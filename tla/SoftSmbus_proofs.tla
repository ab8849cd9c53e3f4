-------------------------- MODULE SoftSmbus_proofs --------------------------
(***************************************************************************)
(* Proofs about SoftSmbus, for bytes of any length, answers of any length  *)
(* and any number of faults.                                               *)
(*                                                                         *)
(*   Basic     types, and which phases and counts of master and chip go    *)
(*             together.                                                   *)
(*   Writes    a chip that heard the START of a write has every bit of it, *)
(*             or is behind by at least one and then acknowledges nothing  *)
(*             of the byte that lacks it.                                  *)
(*   InStep    in a transfer that met no fault of its own and whose START  *)
(*             was heard, master and chip are at the same bit.             *)
(*   Settles   without new faults a transfer goes by in step, or drowns in *)
(*             an earlier answer, of which it takes a byte at least.       *)
(*                                                                         *)
(* Each is inductive given the ones before it.                             *)
(***************************************************************************)
EXTENDS SoftSmbus, TLAPS

-----------------------------------------------------------------------------
(* Bytes and transfers.                                                     *)

LEMMA ByteFacts ==
  /\ Zeros \in Byte /\ Ones \in Byte
  /\ \A b \in Byte, i \in 1 .. Bits, v \in Bit : [b EXCEPT ![i] = v] \in Byte
  /\ \A b \in Byte, i \in 1 .. Bits : b[i] \in Bit
  /\ <<>> \notin Byte
<1>1. \A b \in Byte, i \in 1 .. Bits, v \in Bit : [b EXCEPT ![i] = v] \in Byte
  BY DEF Byte
<1>2. <<>> \notin Byte
  <2>1. 1 \in 1 .. Bits
    BY BusAssumption
  <2>2. <<>> \in [1 .. Bits -> Bit] => DOMAIN <<>> = 1 .. Bits
    OBVIOUS
  <2>3. 1 \notin DOMAIN <<>>
    OBVIOUS
  <2>4. QED
    BY <2>1, <2>2, <2>3 DEF Byte
<1>3. QED
  BY <1>1, <1>2 DEF Byte, Zeros, Ones, Bit

LEMMA SameByte ==
  ASSUME NEW b \in Byte, NEW c \in Byte, \A i \in 1 .. Bits : b[i] = c[i]
  PROVE  b = c
<1>1. b = [i \in 1 .. Bits |-> b[i]] /\ c = [i \in 1 .. Bits |-> c[i]]
  BY DEF Byte
<1>2. [i \in 1 .. Bits |-> b[i]] = [i \in 1 .. Bits |-> c[i]]
  OBVIOUS
<1>3. QED
  BY <1>1, <1>2

LEMMA CommandsAreBytes ==
  /\ Commands \subseteq Byte /\ Settings \subseteq Commands /\ Readings \subseteq Commands
  /\ Values \subseteq Byte /\ Own \in Byte /\ Bits \in Nat \ {0} /\ MaxAnswer \in Nat \ {0}
BY BusAssumption DEF Commands

LEMMA ShortMessages ==
  /\ \A c \in Byte : <<c>> \in Seq(Byte) /\ Len(<<c>>) = 1 /\ <<c>>[1] = c
  /\ \A c, v \in Byte :
       /\ <<c, v>> \in Seq(Byte) /\ Len(<<c, v>>) = 2
       /\ <<c, v>>[1] = c /\ <<c, v>>[2] = v
  /\ <<>> \in Seq(Byte) /\ Len(<<>>) = 0
OBVIOUS

LEMMA TransferShape ==
  ASSUME NEW t \in Transfer
  PROVE  /\ t = [addr |-> t.addr, out |-> t.out, fetch |-> t.fetch]
         /\ t.addr \in Byte /\ t.addr[Bits] = 0 /\ t.fetch \in Nat
         /\ t.out \in Seq(Byte) /\ Len(t.out) \in 0 .. 2
         /\ Len(t.out) > 0 \/ t.fetch > 0 => t.addr = Own /\ t.out[1] \in Commands
         /\ Len(t.out) = 2 => t.out[1] \in Settings /\ t.fetch = 0
         /\ t.fetch > 0 => Len(t.out) = 1
<1>1. CASE t \in Probes
  <2>1. t.addr \in Addresses /\ t.out = <<>> /\ t.fetch = 0
    BY <1>1 DEF Probes
  <2>2. t = [addr |-> t.addr, out |-> t.out, fetch |-> t.fetch]
    BY <1>1 DEF Probes
  <2>3. QED
    BY <2>1, <2>2, BusAssumption, ShortMessages
<1>2. CASE t \in SendBytes
  <2>1. t.out \in {<<c>> : c \in Commands} /\ t.addr = Own /\ t.fetch = 0
    BY <1>2 DEF SendBytes
  <2>2. PICK c \in Commands : t.out = <<c>>
    BY <2>1
  <2>3. QED
    BY <1>2, <2>1, <2>2, CommandsAreBytes, BusAssumption, ShortMessages DEF SendBytes
<1>3. CASE t \in WriteBytes
  <2>1. t.out \in Settings \X Values /\ t.addr = Own /\ t.fetch = 0
    BY <1>3 DEF WriteBytes
  <2>2. PICK c \in Settings, v \in Values : t.out = <<c, v>>
    BY <2>1
  <2>3. QED
    BY <1>3, <2>1, <2>2, CommandsAreBytes, BusAssumption, ShortMessages DEF WriteBytes
<1>4. CASE t \in Reads
  <2>1. t.out \in {<<c>> : c \in Commands} /\ t.addr = Own /\ t.fetch \in Fetches
    BY <1>4 DEF Reads
  <2>2. PICK c \in Commands : t.out = <<c>>
    BY <2>1
  <2>3. t = [addr |-> t.addr, out |-> t.out, fetch |-> t.fetch]
    BY <1>4 DEF Reads
  <2>4. t.fetch \in Nat \ {0}
    BY <2>1, BusAssumption
  <2>5. Own[Bits] = 0
    BY BusAssumption
  <2>6. QED
    BY <2>1, <2>2, <2>3, <2>4, <2>5, CommandsAreBytes, ShortMessages
<1>5. QED
  BY <1>1, <1>2, <1>3, <1>4 DEF Transfer

-----------------------------------------------------------------------------
(* The chip's interface, phase by phase.                                    *)

PhaseOK(s) ==
  /\ s.phase \in {"tx", "reply"} => s.sent >= 1
  /\ s.phase \in {"ack", "reply"} => s.count = 0
  /\ s.phase = "tx" /\ s.sent > MaxAnswer => s.byte = Ones
  /\ s.expect = "data" => s.cmd \in Settings

LEMMA IdleOK == IdleSlave \in Slave /\ PhaseOK(IdleSlave)
BY ByteFacts, CommandsAreBytes DEF IdleSlave, Slave, PhaseOK

LEMMA StartedOK ==
  ASSUME NEW s \in Slave, PhaseOK(s)
  PROVE  Started(s) \in Slave /\ PhaseOK(Started(s))
<1>1. Zeros \in Byte /\ 0 \in 0 .. Bits - 1
  BY ByteFacts, CommandsAreBytes
<1>2. QED
  BY <1>1 DEF Started, Slave, PhaseOK

LEMMA AnswerOK ==
  ASSUME mem \in [Settings -> Byte], NEW c \in Commands \cup {<<>>}, NEW k \in Nat \ {0}
  PROVE  /\ AnswerByte(c, k) \in Byte
         /\ k > MaxAnswer => AnswerByte(c, k) = Ones
<1>1. Content(c) \in Seq(Byte) /\ Len(Content(c)) <= MaxAnswer
  <2>1. CASE c \in Settings
    BY <2>1, ShortMessages, CommandsAreBytes DEF Content
  <2>2. CASE c \in Readings
    BY <2>2, BusAssumption DEF Content
  <2>3. CASE c = <<>>
    BY <2>3, ByteFacts, ShortMessages, CommandsAreBytes DEF Content
  <2>4. QED
    BY <2>1, <2>2, <2>3 DEF Commands
<1>2. QED
  BY <1>1, ByteFacts, CommandsAreBytes DEF AnswerByte

\* Clocked(), one phase at a time.
LEMMA ClockedIs ==
  ASSUME NEW s \in Slave, NEW level
  PROVE  /\ s.phase \in {"addr", "rx"} /\ s.count + 1 = Bits
              => Clocked(s, level) = TakeByte(s, WithBit(s, level))
         /\ s.phase \in {"addr", "rx"} /\ s.count + 1 # Bits
              => Clocked(s, level) = [s EXCEPT !.byte = WithBit(s, level), !.count = s.count + 1]
         /\ s.phase = "ack" /\ s.next = "rx" => Clocked(s, level) = [s EXCEPT !.phase = "rx"]
         /\ s.phase = "ack" /\ s.next = "tx" => Clocked(s, level) = Sending(s)
         /\ s.phase = "tx" /\ s.count + 1 = Bits
              => Clocked(s, level) = [s EXCEPT !.phase = "reply", !.count = 0]
         /\ s.phase = "tx" /\ s.count + 1 # Bits
              => Clocked(s, level) = [s EXCEPT !.count = s.count + 1]
         /\ s.phase = "reply" /\ level = 0 => Clocked(s, level) = Sending(s)
         /\ s.phase = "reply" /\ level # 0 => Clocked(s, level) = IdleSlave
         /\ s.phase = "idle" => Clocked(s, level) = IdleSlave
BY DEF Clocked, AtLastBit

LEMMA TakeByteIs ==
  ASSUME NEW s \in Slave, NEW byte \in Byte, s.phase \in {"addr", "rx"}
  PROVE  LET r == TakeByte(s, byte)
         IN  \/ r = IdleSlave
             \/ /\ s.phase = "addr" /\ byte = AddressByte(Own, "send")
                /\ r = [Acked(s, "rx") EXCEPT !.expect = "cmd"]
             \/ /\ s.phase = "addr" /\ byte = AddressByte(Own, "fetch")
                /\ r = Acked(s, "tx")
             \/ /\ s.phase = "rx" /\ s.expect = "cmd" /\ byte \in Commands
                /\ r = [Acked(s, "rx") EXCEPT
                          !.expect = IF byte \in Settings THEN "data" ELSE "over",
                          !.cmd = byte]
             \/ /\ s.phase = "rx" /\ s.expect = "data"
                /\ r = [Acked(s, "rx") EXCEPT !.expect = "over"]
BY DEF TakeByte

LEMMA AckedOK ==
  ASSUME NEW s \in Slave, PhaseOK(s), NEW next \in {"rx", "tx"}
  PROVE  Acked(s, next) \in Slave /\ PhaseOK(Acked(s, next))
<1>1. Zeros \in Byte /\ 0 \in 0 .. Bits - 1 /\ 0 \in 0 .. MaxAnswer + 1
  BY ByteFacts, CommandsAreBytes
<1>2. QED
  BY <1>1 DEF Acked, Slave, PhaseOK

LEMMA TakeByteOK ==
  ASSUME NEW s \in Slave, PhaseOK(s), NEW byte \in Byte, s.phase \in {"addr", "rx"}
  PROVE  TakeByte(s, byte) \in Slave /\ PhaseOK(TakeByte(s, byte))
<1>1. /\ Acked(s, "rx") \in Slave /\ PhaseOK(Acked(s, "rx"))
      /\ Acked(s, "tx") \in Slave /\ PhaseOK(Acked(s, "tx"))
  BY AckedOK
<1>2. IdleSlave \in Slave /\ PhaseOK(IdleSlave)
  BY IdleOK
<1>3. QED
  <2> DEFINE a == Acked(s, "rx")
  <2>1. a.phase = "ack" /\ a.cmd = s.cmd /\ a.count = 0
    BY DEF Acked, Slave
  <2> HIDE DEF a
  <2>2. /\ [a EXCEPT !.expect = "cmd"] \in Slave /\ PhaseOK([a EXCEPT !.expect = "cmd"])
        /\ [a EXCEPT !.expect = "over"] \in Slave /\ PhaseOK([a EXCEPT !.expect = "over"])
    BY <1>1, <2>1 DEF Slave, PhaseOK, a
  <2>3. ASSUME byte \in Commands
        PROVE  LET r == [a EXCEPT !.expect = IF byte \in Settings THEN "data" ELSE "over",
                                  !.cmd = byte]
               IN  r \in Slave /\ PhaseOK(r)
    <3> DEFINE x == IF byte \in Settings THEN "data" ELSE "over"
               r == [a EXCEPT !.expect = x, !.cmd = byte]
    <3>1. x \in {"cmd", "data", "over"} /\ (x = "data" => byte \in Settings)
      OBVIOUS
    <3> HIDE DEF x
    <3>2. a \in Slave
      BY <1>1 DEF a
    <3>3. r \in Slave
      BY <2>3, <3>1, <3>2 DEF Slave
    <3>4. r.phase = "ack" /\ r.count = 0 /\ r.expect = x /\ r.cmd = byte
      BY <2>1, <3>2 DEF Slave
    <3> HIDE DEF r
    <3>5. PhaseOK(r)
      BY <3>1, <3>4 DEF PhaseOK
    <3>6. QED
      BY <3>3, <3>5 DEF r, x
  <2>4. QED
    BY <1>1, <1>2, <2>2, <2>3, TakeByteIs DEF a

LEMMA SendingOK ==
  ASSUME mem \in [Settings -> Byte], NEW s \in Slave, PhaseOK(s)
  PROVE  Sending(s) \in Slave /\ PhaseOK(Sending(s))
<1>1. /\ s.sent \in 0 .. MaxAnswer + 1 /\ s.cmd \in Commands \cup {<<>>}
      /\ s.sent + 1 \in Nat \ {0} /\ 0 \in 0 .. Bits - 1 /\ MaxAnswer \in Nat
  BY CommandsAreBytes DEF Slave
<1>2. /\ AnswerByte(s.cmd, s.sent + 1) \in Byte
      /\ s.sent + 1 > MaxAnswer => AnswerByte(s.cmd, s.sent + 1) = Ones
  BY <1>1, AnswerOK
<1> DEFINE n == IF s.sent <= MaxAnswer THEN s.sent + 1 ELSE s.sent
           b == AnswerByte(s.cmd, s.sent + 1)
<1>3. Sending(s) = [s EXCEPT !.phase = "tx", !.count = 0, !.byte = b, !.sent = n]
  BY DEF Sending
<1>4. /\ n \in 1 .. MaxAnswer + 1
      /\ n > MaxAnswer => s.sent + 1 > MaxAnswer
  BY <1>1
<1>5. b \in Byte /\ (n > MaxAnswer => b = Ones)
  BY <1>2, <1>4
<1> HIDE DEF n, b
<1> DEFINE r == [s EXCEPT !.phase = "tx", !.count = 0, !.byte = b, !.sent = n]
<1>6. n \in 0 .. MaxAnswer + 1 /\ n >= 1
  BY <1>1, <1>4
<1>7. r \in Slave
  BY <1>1, <1>5, <1>6 DEF Slave
<1>8. PhaseOK(r)
  BY <1>5, <1>6 DEF Slave, PhaseOK
<1>9. QED
  BY <1>3, <1>7, <1>8

LEMMA ClockedOK ==
  ASSUME mem \in [Settings -> Byte], NEW s \in Slave, PhaseOK(s), NEW level \in Bit
  PROVE  Clocked(s, level) \in Slave /\ PhaseOK(Clocked(s, level))
<1>1. /\ s.count + 1 \in 1 .. Bits /\ s.byte \in Byte /\ Bits \in Nat
      /\ 0 \in 0 .. Bits - 1 /\ s.sent \in Nat
  BY CommandsAreBytes DEF Slave
<1>2. WithBit(s, level) \in Byte
  BY <1>1, ByteFacts DEF WithBit
<1>3. CASE s.phase \in {"addr", "rx"} /\ s.count + 1 = Bits
  BY <1>2, <1>3, ClockedIs, TakeByteOK
<1>4. CASE s.phase \in {"addr", "rx"} /\ s.count + 1 # Bits
  <2> DEFINE r == [s EXCEPT !.byte = WithBit(s, level), !.count = s.count + 1]
  <2>1. s.count + 1 \in 0 .. Bits - 1
    BY <1>1, <1>4
  <2>2. r \in Slave /\ PhaseOK(r)
    BY <1>2, <1>4, <2>1 DEF Slave, PhaseOK
  <2>3. QED
    BY <1>4, <2>2, ClockedIs
<1>5. CASE s.phase = "ack" /\ s.next = "rx"
  <2>1. [s EXCEPT !.phase = "rx"] \in Slave /\ PhaseOK([s EXCEPT !.phase = "rx"])
    BY <1>5 DEF Slave, PhaseOK
  <2>2. QED
    BY <1>5, <2>1, ClockedIs
<1>6. CASE s.phase = "ack" /\ s.next = "tx"
  BY <1>6, ClockedIs, SendingOK
<1>7. CASE s.phase = "tx" /\ s.count + 1 = Bits
  <2> DEFINE r == [s EXCEPT !.phase = "reply", !.count = 0]
  <2>1. r \in Slave /\ PhaseOK(r)
    BY <1>1, <1>7 DEF Slave, PhaseOK
  <2>2. QED
    BY <1>7, <2>1, ClockedIs
<1>8. CASE s.phase = "tx" /\ s.count + 1 # Bits
  <2> DEFINE r == [s EXCEPT !.count = s.count + 1]
  <2>1. r \in Slave /\ PhaseOK(r)
    BY <1>1, <1>8 DEF Slave, PhaseOK
  <2>2. QED
    BY <1>8, <2>1, ClockedIs
<1>9. CASE s.phase = "reply"
  <2>1. Clocked(s, level) = Sending(s) \/ Clocked(s, level) = IdleSlave
    BY <1>9, ClockedIs
  <2>2. QED
    BY <2>1, SendingOK, IdleOK
<1>10. CASE s.phase = "idle"
  BY <1>10, ClockedIs, IdleOK
<1>11. QED
  BY <1>3, <1>4, <1>5, <1>6, <1>7, <1>8, <1>9, <1>10 DEF Slave

LEMMA SdaOK ==
  ASSUME NEW s \in Slave, NEW drive
  PROVE  Sda(drive, s) \in Bit
BY DEF Sda, Bit

LEMMA WrittenOK ==
  ASSUME mem \in [Settings -> Byte], NEW s \in Slave, PhaseOK(s), NEW level \in Bit
  PROVE  Written(s, level) \in [Settings -> Byte]
<1>1. CASE s.phase = "rx" /\ s.expect = "data" /\ AtLastBit(s)
  <2>1. s.count + 1 \in 1 .. Bits /\ s.byte \in Byte
    BY CommandsAreBytes DEF Slave
  <2>2. WithBit(s, level) \in Byte
    BY <2>1, ByteFacts DEF WithBit
  <2>3. s.cmd \in Settings
    BY <1>1 DEF PhaseOK
  <2>4. QED
    BY <1>1, <2>2, <2>3 DEF Written
<1>2. CASE ~(s.phase = "rx" /\ s.expect = "data" /\ AtLastBit(s))
  BY <1>2 DEF Written
<1>3. QED
  BY <1>1, <1>2

-----------------------------------------------------------------------------
(* Types and shapes: what the master's and the chip's variables are, and     *)
(* which of their values go together.                                       *)

WireOK ==
  /\ scl \in BOOLEAN /\ short \in BOOLEAN /\ held \in BOOLEAN
  /\ slave \in Slave /\ PhaseOK(slave)
  /\ mem \in [Settings -> Byte]

MasterOK ==
  /\ pc \in {"idle", "start", "byte", "ack", "fetch", "reply", "stop"}
  /\ op \in Transfer /\ leg \in {"send", "fetch"}
  /\ at \in 0 .. Len(op.out)
  /\ nbit \in 1 .. Bits /\ shift \in Byte
  /\ got \in Seq(Byte) /\ Len(got) <= op.fetch
  /\ result \in {0, 2, 3, 4}
  /\ pc \notin {"byte", "fetch"} => nbit = 1
  /\ pc \in {"fetch", "reply"} => leg = "fetch" /\ Len(got) < op.fetch
  /\ pc \in {"start", "byte", "ack"} => got = <<>>
  /\ pc \notin {"stop", "idle"} => result = 0
  /\ pc = "idle" => leg = "send"
  /\ pc = "start" => at = 0
  /\ leg = "fetch" => op.fetch > 0 /\ at = 0
  /\ leg = "send" => got = <<>> \/ pc = "idle"
  /\ pc \notin {"idle", "start"} \/ leg = "fetch" => ~scl

FaultsOK ==
  /\ lost \in 0 .. MaxLost /\ other \in 0 .. MaxOther
  /\ slipped \in BOOLEAN /\ shorted \in BOOLEAN /\ deaf \in BOOLEAN
  /\ quiet \in 0 .. QuietCap
  /\ quiet >= 1 => ~slipped /\ (shorted => short)
  /\ short => shorted

Basic == WireOK /\ MasterOK /\ FaultsOK

LEMMA BoundsOK == MaxLost \in Nat /\ MaxOther \in Nat /\ MaxAnswer \in Nat \ {0}
BY BusAssumption

LEMMA BasicTypes == Basic => TypeOK
BY DEF Basic, WireOK, MasterOK, FaultsOK, TypeOK

LEMMA PulseLostOK ==
  ASSUME Basic, PulseLost, short' = short
  PROVE  FaultsOK' /\ held' = TRUE /\ quiet' = 0 /\ slipped' = TRUE
BY BoundsOK DEF Basic, WireOK, FaultsOK, PulseLost, QuietCap

LEMMA StalledOK ==
  ASSUME NEW s \in Slave, PhaseOK(s), NEW r \in Stalled(s)
  PROVE  r \in Slave /\ PhaseOK(r)
BY IdleOK DEF Stalled

LEMMA PulseOK ==
  ASSUME Basic, NEW drive \in Bit, NEW stall \in BOOLEAN, Pulse(drive, stall)
  PROVE  WireOK' /\ FaultsOK' /\ scl' = scl /\ short' = short
<1>1. scl' = scl /\ short' = short
  BY DEF Pulse
<1>2. CASE stall
  <2>1. PulseLost /\ slave' \in Stalled(slave) /\ mem' = mem
    BY <1>2 DEF Pulse, PulseMissed
  <2>2. QED
    BY <1>1, <2>1, PulseLostOK, StalledOK DEF Basic, WireOK
<1>3. CASE ~stall
  <2> DEFINE level == Sda(drive, slave)
  <2>1. /\ slave' = Clocked(slave, level) /\ mem' = Written(slave, level)
        /\ held' = FALSE /\ UNCHANGED history
    BY <1>3 DEF Pulse, PulseSeen
  <2>2. level \in Bit
    BY SdaOK DEF Basic, WireOK
  <2> HIDE DEF level
  <2>3. slave' \in Slave /\ PhaseOK(slave)' /\ mem' \in [Settings -> Byte]
    BY <2>1, <2>2, ClockedOK, WrittenOK DEF Basic, WireOK
  <2>4. FaultsOK'
    BY <1>1, <2>1 DEF Basic, FaultsOK, history, faults, QuietCap
  <2>5. QED
    BY <1>1, <2>1, <2>3, <2>4 DEF Basic, WireOK
<1>4. QED
  BY <1>2, <1>3

LEMMA InitBasic == Init => Basic
<1> SUFFICES ASSUME Init PROVE Basic
  OBVIOUS
<1>1. WireOK
  <2>1. mem = [c \in Settings |-> Zeros] /\ Zeros \in Byte
    BY ByteFacts DEF Init
  <2>2. QED
    BY <2>1, IdleOK DEF Init, WireOK
<1>2. MasterOK
  <2>1. op \in Transfer /\ Len(op.out) \in 0 .. 2 /\ op.fetch = 0
    BY TransferShape DEF Init, Transfer, Probes
  <2>2. QED
    BY <2>1, ByteFacts, CommandsAreBytes, ShortMessages DEF Init, MasterOK
<1>3. FaultsOK
  <2>1. lost \in 0 .. MaxLost /\ other \in 0 .. MaxOther /\ quiet \in 0 .. QuietCap
    BY BoundsOK DEF Init, QuietCap
  <2>2. ~slipped /\ ~shorted /\ ~deaf /\ ~short
    BY DEF Init
  <2>3. slipped \in BOOLEAN /\ shorted \in BOOLEAN /\ deaf \in BOOLEAN
    BY DEF Init
  <2>4. QED
    BY <2>1, <2>2, <2>3 DEF FaultsOK
<1>4. QED
  BY <1>1, <1>2, <1>3 DEF Basic

LEMMA BeginBasic ==
  ASSUME Basic, NEW t \in Transfer, BeginTransfer(t)
  PROVE  Basic'
<1>1. op' = t
  BY TransferShape DEF BeginTransfer, TxBuffer
<1>2. WireOK'
  BY DEF Basic, BeginTransfer, WireOK, wire
<1>3. MasterOK'
  <2>1. Len(t.out) \in 0 .. 2 /\ t.fetch \in Nat
    BY TransferShape
  <2>2. 1 \in 1 .. Bits /\ Zeros \in Byte
    BY CommandsAreBytes, ByteFacts
  <2>3. QED
    BY <1>1, <2>1, <2>2, ShortMessages DEF BeginTransfer, MasterOK
<1>4. FaultsOK'
  <2>1. lost' \in 0 .. MaxLost /\ other' \in 0 .. MaxOther /\ quiet' \in 0 .. QuietCap
    BY BoundsOK DEF Basic, FaultsOK, BeginTransfer, QuietCap
  <2>2. short' = short /\ shorted' = short /\ ~slipped' /\ ~deaf'
    BY DEF BeginTransfer, wire
  <2>3. slipped' \in BOOLEAN /\ shorted' \in BOOLEAN /\ deaf' \in BOOLEAN
    BY DEF Basic, WireOK, BeginTransfer
  <2>4. QED
    BY <2>1, <2>2, <2>3 DEF FaultsOK
<1>5. QED
  BY <1>2, <1>3, <1>4 DEF Basic

LEMMA StartBasic ==
  ASSUME Basic, StartCondition \/ StartRefused
  PROVE  Basic'
<1>1. CASE StartCondition
  <2>1. MasterOK'
    BY <1>1 DEF Basic, MasterOK, StartCondition
  <2>2. FaultsOK'
    BY <1>1 DEF Basic, FaultsOK, StartCondition, faults, QuietCap
  <2>3. slave' \in Slave /\ PhaseOK(slave)' /\ mem' \in [Settings -> Byte]
    <3>1. 0 \in Bit
      BY DEF Bit
    <3>2. CASE Sda(1, slave) = 1
      BY <1>1, <3>2, StartedOK DEF StartCondition, Basic, WireOK
    <3>3. CASE Sda(1, slave) # 1
      BY <1>1, <3>1, <3>3, ClockedOK, WrittenOK DEF StartCondition, Basic, WireOK
    <3>4. QED
      BY <3>2, <3>3
  <2>4. QED
    BY <1>1, <2>1, <2>2, <2>3 DEF Basic, WireOK, StartCondition
<1>2. CASE StartRefused
  <2>1. MasterOK'
    BY <1>2 DEF Basic, MasterOK, StartRefused
  <2>2. FaultsOK' /\ held' = TRUE
    BY <1>2, PulseLostOK DEF StartRefused
  <2>3. slave' \in Slave /\ PhaseOK(slave)' /\ mem' \in [Settings -> Byte]
    <3>1. Sda(1, slave) \in Bit
      BY SdaOK DEF Basic, WireOK
    <3>2. CASE scl
      BY <1>2, <3>1, <3>2, ClockedOK, WrittenOK, StalledOK DEF StartRefused, Basic, WireOK
    <3>3. CASE ~scl
      BY <1>2, <3>3, StalledOK DEF StartRefused, Basic, WireOK
    <3>4. QED
      BY <3>2, <3>3
  <2>4. QED
    BY <1>2, <2>1, <2>2, <2>3 DEF Basic, WireOK, StartRefused
<1>3. QED
  BY <1>1, <1>2

LEMMA WireByteOK ==
  ASSUME Basic, pc = "byte"
  PROVE  WireByte \in Byte
<1>1. CASE at = 0
  <2>1. op.addr \in Byte /\ Bits \in 1 .. Bits /\ 1 \in Bit
    BY TransferShape, CommandsAreBytes DEF Basic, MasterOK, Bit
  <2>2. [op.addr EXCEPT ![Bits] = 1] \in Byte
    BY <2>1, ByteFacts
  <2>3. QED
    BY <1>1, <2>1, <2>2 DEF WireByte, AddressByte
<1>2. CASE at # 0
  <2>1. op.out \in Seq(Byte) /\ at \in 1 .. Len(op.out)
    BY <1>2, TransferShape DEF Basic, MasterOK
  <2>2. QED
    BY <1>2, <2>1 DEF WireByte
<1>3. QED
  BY <1>1, <1>2

LEMMA WriteBitBasic ==
  ASSUME Basic, NEW stall \in BOOLEAN, WriteBit(stall)
  PROVE  Basic'
<1>1. WireByte[nbit] \in Bit
  BY WireByteOK, ByteFacts DEF WriteBit, Basic, MasterOK
<1>2. WireOK' /\ FaultsOK' /\ scl' = scl
  BY <1>1, PulseOK DEF WriteBit
<1>3. MasterOK'
  BY <1>2, CommandsAreBytes DEF Basic, MasterOK, WriteBit
<1>4. QED
  BY <1>2, <1>3 DEF Basic

LEMMA ReadAckBasic ==
  ASSUME Basic, NEW stall \in BOOLEAN, ReadAck(stall)
  PROVE  Basic'
<1>1. WireOK' /\ FaultsOK' /\ scl' = scl
  <2>1. 1 \in Bit
    BY DEF Bit
  <2>2. QED
    BY <2>1, PulseOK DEF ReadAck
<1>2. MasterOK'
  <2>1. /\ pc = "ack" /\ UNCHANGED <<op, nbit, shift, got>>
        /\ \/ Nacked
           \/ (NextByte \/ RepeatedStart \/ AllSent) /\ UNCHANGED result
    BY DEF ReadAck
  <2>2. Len(op.out) \in 0 .. 2
    BY TransferShape DEF Basic, MasterOK
  <2>3. CASE Nacked
    BY <1>1, <2>1, <2>3 DEF Basic, MasterOK, Nacked
  <2>4. CASE NextByte /\ UNCHANGED result
    BY <1>1, <2>1, <2>2, <2>4 DEF Basic, MasterOK, NextByte
  <2>5. CASE RepeatedStart /\ UNCHANGED result
    BY <1>1, <2>1, <2>2, <2>5 DEF Basic, MasterOK, RepeatedStart
  <2>6. CASE AllSent /\ UNCHANGED result
    BY <1>1, <2>1, <2>2, <2>6, ShortMessages DEF Basic, MasterOK, AllSent
  <2>7. QED
    BY <2>1, <2>3, <2>4, <2>5, <2>6
<1>3. QED
  BY <1>1, <1>2 DEF Basic

LEMMA SampledOK ==
  ASSUME Basic, slave' \in Slave, NEW stall \in BOOLEAN, NEW level \in Sampled(stall)
  PROVE  level \in Bit
<1>1. Sda(1, slave) \in Bit /\ Sda(1, slave') \in Bit
  BY SdaOK DEF Basic, WireOK
<1>2. QED
  BY <1>1 DEF Sampled

LEMMA ReadBitBasic ==
  ASSUME Basic, NEW stall \in BOOLEAN, ReadBit(stall)
  PROVE  Basic'
<1>1. WireOK' /\ FaultsOK' /\ scl' = scl
  <2>1. 1 \in Bit
    BY DEF Bit
  <2>2. QED
    BY <2>1, PulseOK DEF ReadBit
<1>2. shift' \in Byte
  <2>1. PICK level \in Sampled(stall) : shift' = [shift EXCEPT ![nbit] = level]
    BY DEF ReadBit
  <2>2. level \in Bit
    BY <1>1, <2>1, SampledOK DEF WireOK
  <2>3. QED
    BY <2>1, <2>2, ByteFacts DEF Basic, MasterOK
<1>3. MasterOK'
  BY <1>1, <1>2, CommandsAreBytes DEF Basic, MasterOK, ReadBit
<1>4. QED
  BY <1>1, <1>3 DEF Basic

LEMMA ReplyBasic ==
  ASSUME Basic, NEW stall \in BOOLEAN, Reply(stall)
  PROVE  Basic'
<1>1. WireOK' /\ FaultsOK' /\ scl' = scl
  <2>1. (IF LastOfRead THEN 1 ELSE 0) \in Bit
    BY DEF Bit
  <2>2. QED
    BY <2>1, PulseOK DEF Reply, ReplyBit
<1>2. /\ got' \in Seq(Byte) /\ Len(got') = Len(got) + 1
      /\ shift' \in Byte
  BY ByteFacts DEF Basic, MasterOK, Reply, ReplyBit
<1>3. op.fetch \in Nat
  BY TransferShape DEF Basic, MasterOK
<1>4. MasterOK'
  BY <1>1, <1>2, <1>3 DEF Basic, MasterOK, Reply, ReplyBit, LastOfRead
<1>5. QED
  BY <1>1, <1>4 DEF Basic

LEMMA ReturnedOK ==
  ASSUME Basic, Returned, UNCHANGED op, got' \in Seq(Byte), Len(got') <= op.fetch,
         result' \in {0, 2, 3, 4}
  PROVE  MasterOK'
<1>1. Len(op.out) \in 0 .. 2 /\ 1 \in 1 .. Bits /\ Zeros \in Byte
  BY TransferShape, CommandsAreBytes, ByteFacts DEF Basic, MasterOK
<1>2. QED
  BY <1>1 DEF Basic, MasterOK, Returned

LEMMA ReleaseClockOK ==
  ASSUME Basic, NEW drive, ReleaseClock(drive)
  PROVE  WireOK'
BY IdleOK DEF Basic, WireOK, ReleaseClock

LEMMA StopBasic ==
  ASSUME Basic, StopCondition \/ StopUnseen
  PROVE  Basic'
<1>1. MasterOK'
  BY ReturnedOK DEF Basic, MasterOK, StopCondition, StopUnseen
<1>2. CASE StopCondition
  <2>1. WireOK'
    BY <1>2, ReleaseClockOK DEF StopCondition
  <2>2. FaultsOK'
    BY <1>2 DEF Basic, FaultsOK, StopCondition, history, faults, ReleaseClock, QuietCap
  <2>3. QED
    BY <1>1, <2>1, <2>2 DEF Basic
<1>3. CASE StopUnseen
  <2>1. FaultsOK' /\ held' = TRUE
    BY <1>3, PulseLostOK DEF StopUnseen, PulseMissed
  <2>2. WireOK'
    BY <1>3, <2>1, StalledOK DEF Basic, WireOK, StopUnseen, PulseMissed
  <2>3. QED
    BY <1>1, <2>1, <2>2 DEF Basic
<1>4. QED
  BY <1>2, <1>3

LEMMA ShortBasic ==
  ASSUME Basic, ShortChanges
  PROVE  Basic'
<1>1. MasterOK'
  BY DEF Basic, MasterOK, ShortChanges, master
<1>2. FaultsOK'
  BY BoundsOK DEF Basic, WireOK, FaultsOK, ShortChanges, OtherFault, QuietCap
<1>3. WireOK'
  BY IdleOK, StartedOK DEF Basic, WireOK, ShortChanges
<1>4. QED
  BY <1>1, <1>2, <1>3 DEF Basic

LEMMA ResetBasic ==
  ASSUME Basic, NEW drive \in 0 .. 1, Reset(drive)
  PROVE  Basic'
<1>1. WireOK' /\ short' = short
  BY ReleaseClockOK DEF Reset, ReleaseClock
<1>2. FaultsOK'
  BY <1>1, BoundsOK DEF Basic, FaultsOK, Reset, OtherFault, QuietCap
<1>3. op.fetch \in Nat
  BY TransferShape DEF Basic, MasterOK
<1>4. MasterOK'
  BY <1>3, ReturnedOK, ShortMessages DEF Reset
<1>5. QED
  BY <1>1, <1>2, <1>4 DEF Basic

LEMMA NextBasic == Basic /\ [Next]_vars => Basic'
<1> SUFFICES ASSUME Basic, [Next]_vars PROVE Basic'
  OBVIOUS
<1>1. CASE UNCHANGED vars
  BY <1>1 DEF Basic, WireOK, MasterOK, FaultsOK, vars, master, wire, history, faults, QuietCap
<1>2. CASE Master
  BY <1>2, BeginBasic, StartBasic, WriteBitBasic, ReadAckBasic, ReadBitBasic, ReplyBasic,
     StopBasic DEF Master
<1>3. CASE ShortChanges
  BY <1>3, ShortBasic
<1>4. CASE \E drive \in 0 .. 1 : Reset(drive)
  BY <1>4, ResetBasic
<1>5. QED
  BY <1>1, <1>2, <1>3, <1>4 DEF Next

LEMMA BasicAlways == Spec => []Basic
BY InitBasic, NextBasic, PTL DEF Spec

\* Every variable keeps its type, for any bytes, addresses, registers and answers.
THEOREM TypeCorrect == Spec => []TypeOK
BY BasicAlways, BasicTypes, PTL

-----------------------------------------------------------------------------
(* What the wires carry.                                                    *)

LEMMA PulseSeenIs ==
  ASSUME NEW drive, NEW stall \in BOOLEAN, Pulse(drive, stall), ~stall
  PROVE  /\ slave' = Clocked(slave, Sda(drive, slave))
         /\ mem' = Written(slave, Sda(drive, slave))
         /\ UNCHANGED <<short, slipped, shorted, deaf, quiet>>
BY DEF Pulse, PulseSeen, history, faults

LEMMA PulseMissedIs ==
  ASSUME NEW drive, NEW stall \in BOOLEAN, Pulse(drive, stall), stall
  PROVE  /\ slave' \in Stalled(slave) /\ mem' = mem
         /\ held' = TRUE /\ slipped' = TRUE /\ quiet' = 0
         /\ UNCHANGED <<short, shorted, deaf>>
BY DEF Pulse, PulseMissed, PulseLost

LEMMA StalledIs ==
  ASSUME NEW s, NEW r \in Stalled(s)
  PROVE  (r = s /\ ~held) \/ (r = IdleSlave /\ r.phase = "idle")
BY DEF Stalled, IdleSlave

LEMMA LevelIs ==
  ASSUME ~short, NEW s \in Slave, NEW drive \in Bit
  PROVE  /\ s.phase \in {"idle", "addr", "rx", "reply"} => Sda(drive, s) = drive
         /\ s.phase = "ack" => Sda(drive, s) = 0
         /\ s.phase = "tx" => Sda(1, s) = s.byte[s.count + 1]
<1>1. s.phase \in {"idle", "addr", "rx", "reply"} => Sda(drive, s) = drive
  BY DEF Sda, HoldsSda, Bit
<1>2. s.phase = "ack" => Sda(drive, s) = 0
  BY DEF Sda, HoldsSda
<1>3. ASSUME s.phase = "tx"
      PROVE  Sda(1, s) = s.byte[s.count + 1]
  <2>1. s.count + 1 \in 1 .. Bits /\ s.byte \in Byte
    BY CommandsAreBytes DEF Slave
  <2>2. s.byte[s.count + 1] \in Bit
    BY <2>1, ByteFacts
  <2>3. QED
    BY <1>3, <2>2 DEF Sda, HoldsSda, Bit
<1>4. QED
  BY <1>1, <1>2, <1>3

LEMMA MemKept ==
  ASSUME NEW s, NEW level, s.phase # "rx"
  PROVE  Written(s, level) = mem
BY DEF Written

LEMMA AddressesDiffer ==
  ASSUME NEW addr \in Byte, addr[Bits] = 0
  PROVE  /\ AddressByte(addr, "send") = addr
         /\ AddressByte(addr, "fetch") # Own
         /\ addr # AddressByte(Own, "fetch")
<1>1. Bits \in 1 .. Bits /\ Own \in Byte /\ Own[Bits] = 0
  BY CommandsAreBytes, BusAssumption
<1>2. /\ [addr EXCEPT ![Bits] = 1][Bits] = 1
      /\ [Own EXCEPT ![Bits] = 1][Bits] = 1
  BY <1>1 DEF Byte
<1>3. QED
  BY <1>1, <1>2 DEF AddressByte

-----------------------------------------------------------------------------
(* The master and a chip that heard its START, bit by bit.                  *)

Agrees(n) == \A i \in 1 .. n : slave.byte[i] = WireByte[i]

Expects ==
  /\ at = 1 => slave.expect = "cmd"
  /\ at = 2 => slave.expect = "data" /\ slave.cmd = op.out[1]

\* The chip has every bit of the byte so far.
HasBits ==
  /\ slave.phase = IF at = 0 THEN "addr" ELSE "rx"
  /\ slave.count = nbit - 1 /\ Agrees(nbit - 1)

\* And it takes the byte for what it is.
InByte ==
  /\ HasBits /\ Expects
  /\ leg = "fetch" => slave.cmd = op.out[1]

Taken == Len(op.out) = 2 => mem[op.out[1]] = op.out[2]

\* It has the byte and is acknowledging it.
InAck ==
  /\ slave.phase = "ack" /\ op.addr = Own
  /\ leg = "send" =>
       /\ slave.next = "rx"
       /\ at = 0 => slave.expect = "cmd"
       /\ at > 0 => slave.cmd = op.out[1]
       /\ at = 1 /\ op.out[1] \in Settings => slave.expect = "data"
       /\ at = 2 => Taken
  /\ leg = "fetch" => slave.next = "tx" /\ slave.sent = 0 /\ slave.cmd = op.out[1]

LEMMA AtIs == Basic => at \in 0 .. 2 /\ at <= Len(op.out) /\ Len(op.out) \in 0 .. 2
<1> SUFFICES ASSUME Basic PROVE at \in 0 .. 2 /\ at <= Len(op.out) /\ Len(op.out) \in 0 .. 2
  OBVIOUS
<1>1. Len(op.out) \in 0 .. 2
  BY TransferShape DEF Basic, MasterOK
<1>2. at \in 0 .. Len(op.out)
  BY DEF Basic, MasterOK
<1>3. \A n \in 0 .. 2 : \A k \in 0 .. n : k \in 0 .. 2 /\ k <= n
  OBVIOUS
<1>4. QED
  BY ONLY <1>1, <1>2, <1>3

LEMMA StartHeard ==
  ASSUME Basic, StartCondition, Sda(1, slave) = 1, leg = "fetch" => slave.cmd = op.out[1]
  PROVE  InByte'
<1>1. /\ at' = 0 /\ nbit' = 1 /\ leg' = leg /\ op' = op
      /\ slave' = [slave EXCEPT !.phase = "addr", !.count = 0, !.byte = Zeros]
  BY DEF Basic, MasterOK, StartCondition, Started
<1>2. slave'.phase = "addr" /\ slave'.count = 0 /\ slave'.cmd = slave.cmd
  BY <1>1 DEF Basic, WireOK, Slave
<1>3. QED
  BY <1>1, <1>2 DEF InByte, HasBits, Agrees, Expects

\* A bit of a byte on the wire, seen.
LEMMA BitSeen ==
  ASSUME Basic, HasBits, ~short, pc = "byte", NEW stall \in BOOLEAN, WriteBit(stall), ~stall
  PROVE  /\ slave' = Clocked(slave, WireByte[nbit]) /\ mem' = Written(slave, WireByte[nbit])
         /\ WireByte[nbit] \in Bit /\ WireByte' = WireByte
         /\ slave.count + 1 = nbit /\ slave.count + 1 \in 1 .. Bits
         /\ \A i \in 1 .. nbit : WithBit(slave, WireByte[nbit])[i] = WireByte[i]
         /\ WithBit(slave, WireByte[nbit]) \in Byte
<1>1. WireByte[nbit] \in Bit
  BY WireByteOK, ByteFacts DEF Basic, MasterOK
<1>2. slave.phase \in {"addr", "rx"} /\ slave \in Slave
  BY DEF HasBits, Basic, WireOK
<1>3. Sda(WireByte[nbit], slave) = WireByte[nbit]
  BY <1>1, <1>2, LevelIs
<1>4. slave' = Clocked(slave, WireByte[nbit]) /\ mem' = Written(slave, WireByte[nbit])
  BY <1>3, PulseSeenIs DEF WriteBit
<1>5. WireByte' = WireByte
  BY DEF WriteBit, WireByte
<1>6. slave.count + 1 = nbit /\ slave.count + 1 \in 1 .. Bits /\ slave.byte \in Byte
  BY <1>2, CommandsAreBytes DEF HasBits, Slave, Basic, MasterOK
<1>7. ASSUME NEW i \in 1 .. nbit
      PROVE  WithBit(slave, WireByte[nbit])[i] = WireByte[i]
  <2>1. i \in 1 .. Bits
    BY <1>6, CommandsAreBytes
  <2>2. CASE i = nbit
    BY <1>6, <2>1, <2>2 DEF WithBit, Byte
  <2>3. CASE i # nbit
    <3>1. i \in 1 .. nbit - 1
      BY <1>6, <2>3
    <3>2. slave.byte[i] = WireByte[i]
      BY <3>1 DEF HasBits, Agrees
    <3>3. QED
      BY <1>6, <2>1, <2>3, <3>2 DEF WithBit, Byte
  <2>4. QED
    BY <2>2, <2>3
<1>8. WithBit(slave, WireByte[nbit]) \in Byte
  BY <1>1, <1>6, ByteFacts DEF WithBit
<1>9. QED
  BY <1>1, <1>4, <1>5, <1>6, <1>7, <1>8

LEMMA BitTaken ==
  ASSUME Basic, HasBits, ~short, pc = "byte", NEW stall \in BOOLEAN, WriteBit(stall), ~stall,
         nbit # Bits
  PROVE  HasBits' /\ slave'.expect = slave.expect /\ slave'.cmd = slave.cmd
<1>1. /\ slave' = [slave EXCEPT !.byte = WithBit(slave, WireByte[nbit]), !.count = slave.count + 1]
      /\ WireByte' = WireByte /\ slave.count + 1 = nbit
      /\ \A i \in 1 .. nbit : WithBit(slave, WireByte[nbit])[i] = WireByte[i]
  BY BitSeen, ClockedIs DEF HasBits, Basic, WireOK
<1>2. nbit' = nbit + 1 /\ UNCHANGED <<at, leg, op>> /\ nbit \in Nat
  BY DEF WriteBit, Basic, MasterOK
<1>3. /\ slave'.phase = slave.phase /\ slave'.count = nbit
      /\ slave'.byte = WithBit(slave, WireByte[nbit])
      /\ slave'.expect = slave.expect /\ slave'.cmd = slave.cmd
  BY <1>1 DEF Basic, WireOK, Slave
<1>4. \A i \in 1 .. nbit : slave'.byte[i] = WireByte'[i]
  BY <1>1, <1>3
<1>5. nbit' - 1 = nbit
  BY <1>2
<1>6. Agrees(nbit - 1)'
  BY <1>4, <1>5 DEF Agrees
<1>7. QED
  BY <1>2, <1>3, <1>5, <1>6 DEF HasBits

LEMMA BitOfByte ==
  ASSUME Basic, InByte, ~short, pc = "byte", NEW stall \in BOOLEAN, WriteBit(stall), ~stall,
         nbit # Bits
  PROVE  InByte'
<1>1. HasBits' /\ slave'.expect = slave.expect /\ slave'.cmd = slave.cmd
  BY BitTaken DEF InByte
<1>2. UNCHANGED <<at, leg, op>>
  BY DEF WriteBit
<1>3. QED
  BY <1>1, <1>2 DEF InByte, Expects

LEMMA ByteTaken ==
  ASSUME Basic, HasBits, ~short, pc = "byte", NEW stall \in BOOLEAN, WriteBit(stall), ~stall,
         nbit = Bits
  PROVE  /\ slave' = TakeByte(slave, WireByte) /\ mem' = Written(slave, WireByte[nbit])
         /\ WithBit(slave, WireByte[nbit]) = WireByte /\ AtLastBit(slave)
<1> DEFINE byte == WireByte
<1>1. /\ slave.count + 1 = Bits /\ slave.phase \in {"addr", "rx"} /\ slave \in Slave
      /\ slave' = Clocked(slave, byte[nbit]) /\ mem' = Written(slave, byte[nbit])
  BY BitSeen DEF HasBits, Basic, WireOK
<1>2. WithBit(slave, byte[nbit]) = byte
  <2>1. \A i \in 1 .. Bits : WithBit(slave, byte[nbit])[i] = byte[i]
    BY BitSeen
  <2>2. WithBit(slave, byte[nbit]) \in Byte /\ byte \in Byte
    BY BitSeen, WireByteOK
  <2>3. QED
    BY <2>1, <2>2, SameByte
<1>3. Clocked(slave, byte[nbit]) = TakeByte(slave, WithBit(slave, byte[nbit]))
  BY <1>1 DEF Clocked, AtLastBit
<1>4. QED
  BY <1>1, <1>2, <1>3 DEF AtLastBit

\* The chip hears its address with the read bit.
LEMMA ReadAddressed ==
  ASSUME Basic, HasBits, ~short, pc = "byte", NEW stall \in BOOLEAN, WriteBit(stall), ~stall,
         nbit = Bits, leg = "fetch"
  PROVE  /\ slave' = Acked(slave, "tx")
         /\ slave'.phase = "ack" /\ slave'.next = "tx" /\ slave'.sent = 0 /\ slave'.cmd = slave.cmd
<1>1. at = 0 /\ op \in Transfer /\ op.fetch > 0 /\ slave \in Slave
  BY DEF Basic, MasterOK, WireOK
<1>2. op.addr = Own
  BY <1>1, TransferShape
<1>3. WireByte = AddressByte(Own, "fetch") /\ slave.phase = "addr"
  BY <1>1, <1>2 DEF WireByte, HasBits
<1>4. AddressByte(Own, "fetch") # Own /\ AddressByte(Own, "send") = Own
  BY AddressesDiffer, CommandsAreBytes, BusAssumption
<1>5. slave' = Acked(slave, "tx")
  BY <1>3, <1>4, ByteTaken DEF TakeByte
<1>6. QED
  BY <1>1, <1>5 DEF Acked, Slave

\* The last bit: the chip addressed takes the byte, any other falls idle.
LEMMA LastBitOfByte ==
  ASSUME Basic, InByte, ~short, pc = "byte", NEW stall \in BOOLEAN, WriteBit(stall), ~stall,
         nbit = Bits
  PROVE  IF op.addr = Own THEN InAck' ELSE slave' = IdleSlave
<1> DEFINE byte == WireByte
           r == TakeByte(slave, byte)
<1>1. slave \in Slave /\ mem' = Written(slave, byte[nbit])
  BY ByteTaken DEF InByte, Basic, WireOK
<1>3. slave' = r
  BY ByteTaken DEF InByte
<1>4. UNCHANGED <<at, leg, op>> /\ at \in 0 .. 2 /\ leg \in {"send", "fetch"} /\ op \in Transfer
  BY AtIs DEF WriteBit, Basic, MasterOK
<1>5. /\ op.addr \in Byte /\ op.addr[Bits] = 0 /\ op.out \in Seq(Byte)
      /\ leg = "fetch" => at = 0 /\ op.addr = Own
      /\ at > 0 => op.addr = Own /\ op.out[1] \in Commands
      /\ at = 2 => Len(op.out) = 2 /\ op.out[1] \in Settings
  <2>1. /\ at > 0 => Len(op.out) > 0
        /\ at = 2 => Len(op.out) = 2
        /\ leg = "fetch" => op.fetch > 0 /\ at = 0
    <3>1. \A k, n \in 0 .. 2 : k <= n => (k > 0 => n > 0) /\ (k = 2 => n = 2)
      OBVIOUS
    <3>2. at \in 0 .. 2 /\ at <= Len(op.out) /\ Len(op.out) \in 0 .. 2
      BY AtIs
    <3>3. (at > 0 => Len(op.out) > 0) /\ (at = 2 => Len(op.out) = 2)
      BY ONLY <3>1, <3>2
    <3>4. QED
      BY <3>3 DEF Basic, MasterOK
  <2>2. /\ Len(op.out) > 0 \/ op.fetch > 0 => op.addr = Own /\ op.out[1] \in Commands
        /\ Len(op.out) = 2 => op.out[1] \in Settings
        /\ op.addr \in Byte /\ op.addr[Bits] = 0 /\ op.out \in Seq(Byte)
    BY <1>4, TransferShape
  <2>3. QED
    BY <1>4, <2>1, <2>2
<1>6. /\ AddressByte(op.addr, "send") = op.addr /\ op.addr # AddressByte(Own, "fetch")
      /\ AddressByte(op.addr, "fetch") # Own /\ AddressByte(Own, "send") = Own
  BY <1>5, AddressesDiffer, CommandsAreBytes, BusAssumption
<1> DEFINE a == Acked(slave, "rx")
<1>7. /\ a \in Slave /\ a.phase = "ack" /\ a.next = "rx" /\ a.cmd = slave.cmd
  <2>1. a \in Slave
    BY <1>1, AckedOK DEF Basic, WireOK
  <2>2. QED
    BY <1>1, <2>1 DEF Acked, Slave
<1>8. CASE at = 0 /\ leg = "send"
  <2>1. byte = op.addr /\ slave.phase = "addr"
    BY <1>6, <1>8 DEF WireByte, InByte, HasBits
  <2>2. CASE op.addr = Own
    <3>1. r = [a EXCEPT !.expect = "cmd"]
      BY <1>6, <2>1, <2>2 DEF TakeByte
    <3>2. r.phase = "ack" /\ r.next = "rx" /\ r.expect = "cmd"
      BY <1>7, <3>1 DEF Slave
    <3>3. QED
      BY <1>3, <1>4, <1>8, <2>2, <3>2 DEF InAck
  <2>3. CASE op.addr # Own
    <3>1. r = IdleSlave
      BY <1>6, <2>1, <2>3 DEF TakeByte
    <3>2. QED
      BY <1>3, <2>3, <3>1
  <2>4. QED
    BY <2>2, <2>3
<1>9. CASE leg = "fetch"
  <2>3. slave'.phase = "ack" /\ slave'.next = "tx" /\ slave'.sent = 0 /\ slave'.cmd = slave.cmd
    BY <1>9, ReadAddressed DEF InByte
  <2>4. slave.cmd = op.out[1]
    BY <1>9 DEF InByte, HasBits
  <2>5. QED
    BY <1>3, <1>4, <1>5, <1>9, <2>3, <2>4 DEF InAck
<1>10. CASE at = 1
  <2>1. byte = op.out[1] /\ slave.phase = "rx" /\ slave.expect = "cmd" /\ leg = "send"
    BY <1>4, <1>5, <1>10 DEF WireByte, InByte, HasBits, Expects
  <2>2. r = [a EXCEPT !.expect = IF byte \in Settings THEN "data" ELSE "over", !.cmd = byte]
    BY <1>5, <1>10, <2>1 DEF TakeByte
  <2>3. /\ r.phase = "ack" /\ r.next = "rx" /\ r.cmd = byte
        /\ byte \in Settings => r.expect = "data"
    BY <1>7, <2>2 DEF Slave
  <2>4. QED
    BY <1>3, <1>4, <1>5, <1>10, <2>1, <2>3 DEF InAck
<1>11. CASE at = 2
  <2>1. /\ byte = op.out[2] /\ slave.phase = "rx" /\ slave.expect = "data"
        /\ slave.cmd = op.out[1] /\ leg = "send"
    BY <1>4, <1>5, <1>11 DEF WireByte, InByte, HasBits, Expects
  <2>2. r = [a EXCEPT !.expect = "over"]
    BY <2>1 DEF TakeByte
  <2>3. r.phase = "ack" /\ r.next = "rx" /\ r.cmd = slave.cmd
    BY <1>7, <2>2 DEF Slave
  <2>4. mem' = [mem EXCEPT ![op.out[1]] = byte]
    BY <1>1, <2>1, ByteTaken DEF Written, InByte
  <2>5. mem'[op.out[1]] = op.out[2]
    BY <1>5, <1>11, <2>1, <2>4 DEF Basic, WireOK
  <2>6. QED
    BY <1>3, <1>4, <1>5, <1>11, <2>1, <2>3, <2>5 DEF InAck, Taken
<1>12. QED
  BY <1>4, <1>8, <1>9, <1>10, <1>11

\* The ninth bit, as the master reads it.
LEMMA AckLevels ==
  ASSUME Basic, NEW stall \in BOOLEAN, ReadAck(stall)
  PROVE  /\ UNCHANGED <<op, nbit, shift, got>>
         /\ \E level \in Sampled(stall) :
              IF level = 0 THEN (NextByte \/ RepeatedStart \/ AllSent) /\ result' = result
                           ELSE Nacked
         /\ Sampled(stall) \subseteq {Sda(1, slave), Sda(1, slave')}
         /\ ~stall => Sampled(stall) = {Sda(1, slave)}
BY DEF ReadAck, IsAck, Sampled

LEMMA AckSeen ==
  ASSUME Basic, ~short, slave.phase = "ack", NEW stall \in BOOLEAN, ReadAck(stall), ~stall
  PROVE  /\ slave' = Clocked(slave, 0) /\ mem' = mem
         /\ (NextByte \/ RepeatedStart \/ AllSent) /\ UNCHANGED <<op, nbit, shift, got, result>>
<1>1. 1 \in Bit /\ slave \in Slave
  BY DEF Bit, Basic, WireOK
<1>2. Sda(1, slave) = 0
  BY <1>1, LevelIs
<1>3. slave' = Clocked(slave, 0) /\ mem' = mem
  BY <1>2, PulseSeenIs, MemKept DEF ReadAck
<1>4. QED
  BY <1>2, <1>3, AckLevels

\* A chip that was addressed is ready for the next byte.
LEMMA NextByteSeen ==
  ASSUME Basic, InAck, leg = "send", ~short, pc = "ack", NEW stall \in BOOLEAN, ReadAck(stall),
         ~stall
  PROVE  /\ slave' = [slave EXCEPT !.phase = "rx"] /\ mem' = mem
         /\ slave'.phase = "rx" /\ slave'.cmd = slave.cmd
         /\ NextByte => InByte'
<1>1. slave' = [slave EXCEPT !.phase = "rx"] /\ mem' = mem
  <2>1. Clocked(slave, 0) = [slave EXCEPT !.phase = "rx"]
    BY DEF InAck, Clocked
  <2>2. QED
    BY <2>1, AckSeen DEF InAck
<1>2. /\ slave'.phase = "rx" /\ slave'.cmd = slave.cmd
      /\ slave'.count = 0 /\ slave'.expect = slave.expect
  BY <1>1 DEF InAck, Basic, WireOK, Slave, PhaseOK
<1>3. ASSUME NextByte
      PROVE  InByte'
  <2>1. /\ UNCHANGED <<op, leg, nbit>> /\ nbit = 1 /\ at' = at + 1 /\ at < Len(op.out)
        /\ op \in Transfer
    BY <1>3 DEF NextByte, ReadAck, Basic, MasterOK
  <2>2. at \in 0 .. 2 /\ (at' = 2 => at = 1 /\ op.out[1] \in Settings)
    <3>1. at \in 0 .. 2 /\ Len(op.out) \in 0 .. 2
      BY AtIs
    <3>2. Len(op.out) = 2 => op.out[1] \in Settings
      BY <2>1, TransferShape
    <3>3. \A k, n \in 0 .. 2 : k < n /\ k + 1 = 2 => k = 1 /\ n = 2
      OBVIOUS
    <3>4. at' = 2 => at = 1 /\ Len(op.out) = 2
      BY <2>1, <3>1, <3>3
    <3>5. QED
      BY <3>1, <3>2, <3>4
  <2>3. Expects'
    BY <1>2, <2>1, <2>2 DEF Expects, InAck
  <2>4. at' # 0
    BY <2>1, <2>2
  <2>5. Agrees(nbit - 1)'
    BY <2>1 DEF Agrees
  <2>6. nbit' - 1 = 0
    BY <2>1
  <2>7. QED
    BY <1>2, <2>1, <2>3, <2>4, <2>5, <2>6 DEF InByte, HasBits
<1>4. QED
  BY <1>1, <1>2, <1>3

-----------------------------------------------------------------------------
(* Writes.  A chip that heard the START of a write either has every bit so   *)
(* far or fewer of them: a bit behind, it acknowledges nothing.             *)

BehindOnByte ==
  \/ slave.phase = "idle" \/ InByte
  \/ slave.phase \in {"addr", "rx"} /\ slave.count < nbit - 1
  \/ slave.phase = "ack" /\ slave.next = "rx" /\ held /\ nbit = 1

BehindOnAck == InAck \/ slave.phase \in {"idle", "addr", "rx"}

Behind ==
  /\ pc = "byte" => BehindOnByte
  /\ pc = "ack" => BehindOnAck
  /\ pc \in {"stop", "idle"} => (Done => Taken)

Writes == ~shorted /\ ~deaf /\ leg = "send" => Behind

LEMMA BitBehind ==
  ASSUME Basic, ~short, pc = "byte", leg = "send", BehindOnByte,
         NEW stall \in BOOLEAN, WriteBit(stall)
  PROVE  IF nbit = Bits THEN BehindOnAck' ELSE BehindOnByte'
<1>1. /\ slave \in Slave /\ slave.count \in Nat /\ nbit \in 1 .. Bits /\ Bits \in Nat
      /\ IF nbit = Bits THEN pc' = "ack" /\ nbit' = 1 ELSE pc' = "byte" /\ nbit' = nbit + 1
  BY CommandsAreBytes DEF Basic, WireOK, MasterOK, Slave, WriteBit
<1>2. CASE stall
  <2>1. slave' \in Stalled(slave)
    BY <1>2, PulseMissedIs DEF WriteBit
  <2>2. (slave' = slave /\ ~held) \/ slave'.phase = "idle"
    BY <2>1, StalledIs
  <2>3. CASE slave'.phase = "idle"
    BY <2>3 DEF BehindOnByte, BehindOnAck
  <2>4. CASE slave' = slave /\ ~held
    <3>1. slave.phase = "idle" \/ (slave.phase \in {"addr", "rx"} /\ slave.count <= nbit - 1)
      BY <1>1, <2>4 DEF BehindOnByte, InByte, HasBits
    <3>2. nbit # Bits => slave.count < nbit' - 1 \/ slave.phase = "idle"
      BY <1>1, <3>1
    <3>3. QED
      BY <2>4, <3>1, <3>2 DEF BehindOnByte, BehindOnAck
  <2>5. QED
    BY <2>2, <2>3, <2>4
<1>3. CASE ~stall
  <2> DEFINE level == Sda(WireByte[nbit], slave)
  <2>1. slave' = Clocked(slave, level)
    BY <1>3, PulseSeenIs DEF WriteBit
  <2> HIDE DEF level
  <2>2. CASE slave.phase = "idle"
    <3>1. slave' = IdleSlave
      BY <1>1, <2>1, <2>2, ClockedIs
    <3>2. QED
      BY <3>1 DEF BehindOnByte, BehindOnAck, IdleSlave
  <2>3. CASE InByte
    <3>1. nbit # Bits => InByte'
      BY <1>3, <2>3, BitOfByte
    <3>2. nbit = Bits => InAck' \/ slave' = IdleSlave
      BY <1>3, <2>3, LastBitOfByte
    <3>3. QED
      BY <3>1, <3>2 DEF BehindOnByte, BehindOnAck, IdleSlave
  <2>4. CASE slave.phase \in {"addr", "rx"} /\ slave.count < nbit - 1
    <3>1. slave.count + 1 < nbit /\ slave.count + 1 # Bits
      BY <1>1, <2>4
    <3>2. slave' = [slave EXCEPT !.byte = WithBit(slave, level), !.count = slave.count + 1]
      BY <1>1, <2>1, <2>4, <3>1, ClockedIs
    <3>3. slave'.phase = slave.phase /\ slave'.count = slave.count + 1
      BY <1>1, <3>2 DEF Slave
    <3>4. nbit # Bits => slave'.count < nbit' - 1
      BY <1>1, <3>1, <3>3
    <3>5. QED
      BY <2>4, <3>3, <3>4 DEF BehindOnByte, BehindOnAck
  <2>5. CASE slave.phase = "ack" /\ slave.next = "rx" /\ nbit = 1
    <3>1. slave' = [slave EXCEPT !.phase = "rx"]
      BY <1>1, <2>1, <2>5, ClockedIs
    <3>2. slave'.phase = "rx" /\ slave'.count = 0
      BY <2>5, <3>1 DEF Basic, WireOK, Slave, PhaseOK
    <3>3. nbit # Bits => slave'.count < nbit' - 1
      BY <1>1, <2>5, <3>2
    <3>4. QED
      BY <3>2, <3>3 DEF BehindOnByte, BehindOnAck
  <2>6. QED
    BY <2>2, <2>3, <2>4, <2>5 DEF BehindOnByte
<1>4. QED
  BY <1>2, <1>3

LEMMA NackedIsNotDone ==
  ASSUME Nacked, leg = "send", at \in 0 .. 2
  PROVE  ~Done' /\ pc' = "stop"
<1>1. pc' = "stop" /\ (result' = 2 \/ result' = 3)
  BY DEF Nacked
<1>2. QED
  BY <1>1 DEF Done

\* The last acknowledge of a write stands for the byte before it.
LEMMA AllSentTaken ==
  ASSUME Basic, InAck, leg = "send", AllSent, mem' = mem, op' = op
  PROVE  Taken'
<1>1. at = Len(op.out)
  BY DEF AllSent
<1>2. QED
  BY <1>1 DEF InAck, Taken

LEMMA AckBehind ==
  ASSUME Basic, ~short, pc = "ack", leg = "send", BehindOnAck,
         NEW stall \in BOOLEAN, ReadAck(stall), leg' = "send"
  PROVE  Behind'
<1>1. /\ slave \in Slave /\ at \in 0 .. 2 /\ 1 \in Bit /\ UNCHANGED <<op, nbit, got>> /\ nbit = 1
  BY AtIs, AckLevels DEF Basic, WireOK, MasterOK, Bit
<1>2. CASE Nacked
  BY <1>1, <1>2, NackedIsNotDone DEF Behind
<1>3. CASE slave.phase \in {"idle", "addr", "rx"}
  <2>1. Sda(1, slave) = 1
    BY <1>1, <1>3, LevelIs
  <2>2. CASE ~stall
    BY <1>2, <2>1, <2>2, AckLevels
  <2>3. CASE stall
    <3>0. Pulse(1, stall)
      BY DEF ReadAck
    <3>1. (slave' = slave \/ (slave' = IdleSlave /\ slave'.phase = "idle")) /\ short' = short
      BY <2>3, <3>0, PulseMissedIs, StalledIs
    <3>2. slave' \in Slave /\ slave'.phase \in {"idle", "addr", "rx"} /\ short' = short
      BY <1>1, <1>3, <3>1, IdleOK
    <3>3. Sda(1, slave') = 1
      BY <1>1, <3>2, LevelIs
    <3>4. QED
      BY <1>2, <2>1, <3>3, AckLevels
  <2>4. QED
    BY <2>2, <2>3
<1>4. CASE InAck
  <2>1. Nacked \/ NextByte \/ AllSent
    <3>1. ~RepeatedStart
      BY DEF RepeatedStart
    <3>2. QED
      BY <3>1, AckLevels
  <2>2. mem' = mem
    <3>1. slave.phase # "rx"
      BY <1>4 DEF InAck
    <3>2. Pulse(1, stall)
      BY DEF ReadAck
    <3>3. Written(slave, Sda(1, slave)) = mem
      BY <3>1, MemKept
    <3>4. QED
      BY <3>2, <3>3, PulseSeenIs, PulseMissedIs
  <2>3. CASE AllSent
    <3>1. pc' = "stop"
      BY <2>3 DEF AllSent
    <3>2. QED
      BY <1>1, <1>4, <2>2, <2>3, <3>1, AllSentTaken DEF Behind
  <2>4. CASE NextByte
    <3>1. pc' = "byte"
      BY <2>4 DEF NextByte
    <3>2. CASE ~stall
      <4>1. InByte'
        BY <1>4, <2>4, <3>2, NextByteSeen
      <4>2. QED
        BY <3>1, <4>1 DEF Behind, BehindOnByte
    <3>3. CASE stall
      <4>1. slave' = slave \/ slave'.phase = "idle"
        BY <3>3, PulseMissedIs, StalledIs DEF ReadAck
      <4>2. held' = TRUE
        BY <3>3, PulseMissedIs DEF ReadAck
      <4>3. slave.phase = "ack" /\ slave.next = "rx"
        BY <1>4 DEF InAck
      <4>4. BehindOnByte'
        BY <1>1, <4>1, <4>2, <4>3 DEF BehindOnByte
      <4>5. QED
        BY <3>1, <4>4 DEF Behind
    <3>4. QED
      BY <3>2, <3>3
  <2>5. QED
    BY <1>2, <2>1, <2>3, <2>4
<1>5. QED
  BY <1>3, <1>4 DEF BehindOnAck

LEMMA FetchWritesNothing == Basic /\ leg = "fetch" => Taken
<1> SUFFICES ASSUME Basic, leg = "fetch" PROVE Taken
  OBVIOUS
<1>1. op.fetch > 0 /\ op \in Transfer
  BY DEF Basic, MasterOK
<1>2. Len(op.out) = 1
  BY <1>1, TransferShape
<1>3. QED
  BY <1>2 DEF Taken

\* Only a short, a deaf chip or a pulse reaches these variables.
LEMMA NextWrites ==
  ASSUME Basic, Writes, [Next]_vars
  PROVE  Writes'
<1> SUFFICES ASSUME ~shorted', ~deaf', leg' = "send" PROVE Behind'
  BY DEF Writes
<1>1. Basic'
  BY NextBasic
<1>2. ~short'
  BY <1>1 DEF Basic, FaultsOK
<1>3. CASE UNCHANGED vars
  <2>1. UNCHANGED <<master, wire, shorted, deaf>>
    BY <1>3 DEF vars, history, faults
  <2>2. Behind' <=> Behind
    BY <2>1 DEF Behind, BehindOnByte, BehindOnAck, InByte, HasBits, InAck, Agrees, Expects, WireByte,
                Taken, Done, master, wire
  <2>3. QED
    BY <2>1, <2>2 DEF Writes, master
<1>4. ASSUME NEW t \in Transfer, BeginTransfer(t) PROVE Behind'
  BY <1>4 DEF BeginTransfer, Behind
<1>5. CASE StartCondition
  <2>1. Sda(1, slave) = 1 /\ leg = "send" /\ pc' = "byte"
    BY <1>5 DEF StartCondition
  <2>2. InByte'
    BY <1>5, <2>1, StartHeard
  <2>3. QED
    BY <2>1, <2>2 DEF Behind, BehindOnByte
<1>6. CASE StartRefused
  <2>1. pc' = "stop" /\ result' = 4
    BY <1>6 DEF StartRefused
  <2>2. QED
    BY <2>1 DEF Behind, Done
<1>7. ASSUME NEW stall \in BOOLEAN, WriteBit(stall) PROVE Behind'
  <2>1. UNCHANGED <<short, shorted, deaf>>
    BY <1>7, PulseSeenIs, PulseMissedIs DEF WriteBit
  <2>2. pc = "byte" /\ leg = "send" /\ pc' = (IF nbit = Bits THEN "ack" ELSE "byte")
    BY <1>7 DEF WriteBit
  <2>3. IF nbit = Bits THEN BehindOnAck' ELSE BehindOnByte'
    BY <1>2, <1>7, <2>1, <2>2, BitBehind DEF Writes, Behind
  <2>4. QED
    BY <2>2, <2>3 DEF Behind
<1>8. ASSUME NEW stall \in BOOLEAN, ReadAck(stall) PROVE Behind'
  <2>1. UNCHANGED <<short, shorted, deaf>>
    BY <1>8, PulseSeenIs, PulseMissedIs DEF ReadAck
  <2>2. pc = "ack" /\ leg = "send"
    BY <1>8 DEF ReadAck, Nacked, NextByte, RepeatedStart, AllSent
  <2>3. QED
    BY <1>2, <1>8, <2>1, <2>2, AckBehind DEF Writes, Behind
<1>9. ASSUME NEW stall \in BOOLEAN, ReadBit(stall) \/ Reply(stall) PROVE FALSE
  BY <1>9 DEF ReadBit, Reply, ReplyBit, Basic, MasterOK
<1>10. CASE StopCondition \/ StopUnseen
  <2>1. /\ UNCHANGED <<op, got, result, mem, shorted, deaf>> /\ pc = "stop" /\ pc' = "idle"
    BY <1>10 DEF StopCondition, StopUnseen, Returned, ReleaseClock, PulseMissed, PulseLost,
                 history, faults
  <2>2. Done => Taken
    <3>1. CASE leg = "send"
      BY <2>1, <3>1 DEF Writes, Behind
    <3>2. CASE leg = "fetch"
      BY <3>2, FetchWritesNothing
    <3>3. QED
      BY <3>1, <3>2 DEF Basic, MasterOK
  <2>3. QED
    BY <2>1, <2>2 DEF Behind, Done, Taken
<1>11. CASE ShortChanges
  BY <1>11 DEF ShortChanges
<1>12. ASSUME NEW drive \in 0 .. 1, Reset(drive) PROVE Behind'
  <2>1. pc' = "idle" /\ result' = 4
    BY <1>12 DEF Reset, Returned
  <2>2. QED
    BY <2>1 DEF Behind, Done
<1>13. QED
  BY <1>3, <1>4, <1>5, <1>6, <1>7, <1>8, <1>9, <1>10, <1>11, <1>12 DEF Next, Master

LEMMA InitWrites == Init => Writes
BY DEF Init, Writes, Behind, Done

LEMMA WritesAlways == Spec => []Writes
<1>1. Basic /\ Writes /\ [Next]_vars => Writes'
  BY NextWrites
<1>2. QED
  BY <1>1, BasicAlways, InitWrites, PTL DEF Spec

\* A write the driver reports done was taken by the chip, whatever pulses were lost,
\* when SDA was free and the chip heard the START: for any bytes, registers and
\* answers, and for as many faults as come.
THEOREM WritesAreTaken == Spec => []DoneWasTaken
<1>1. Basic /\ Writes => DoneWasTaken
  BY DEF Basic, MasterOK, Writes, Behind, Taken, DoneWasTaken
<1>2. QED
  BY <1>1, BasicAlways, WritesAlways, PTL

-----------------------------------------------------------------------------
(* Transfers without a fault of their own: master and chip in step.          *)

\* What the chip answers to the command of the transfer in progress.
Answered == [k \in Nat \ {0} |-> AnswerByte(op.out[1], k)]

Exact == \A k \in 1 .. Len(got) : got[k] = Answered[k]

CappedSent(n) == IF n <= MaxAnswer + 1 THEN n ELSE MaxAnswer + 1

InAnswer == slave.cmd = op.out[1] /\ slave.sent = CappedSent(Len(got) + 1)

InFetch ==
  /\ InAnswer /\ slave.phase = "tx" /\ slave.count = nbit - 1
  /\ slave.byte = Answered[Len(got) + 1]
  /\ \A i \in 1 .. nbit - 1 : shift[i] = slave.byte[i]

InReply == InAnswer /\ slave.phase = "reply" /\ shift = Answered[Len(got) + 1]

AsAsked == IF op.addr = Own THEN Done ELSE result = 2

Coupled ==
  /\ pc = "byte" => InByte
  /\ pc = "ack" => IF op.addr = Own THEN InAck ELSE slave.phase = "idle"
  /\ pc = "start" /\ leg = "fetch" => slave.phase = "rx" /\ slave.cmd = op.out[1]
  /\ pc = "fetch" => InFetch /\ Exact
  /\ pc = "reply" => InReply /\ Exact
  /\ pc = "stop" => slave.phase \in {"idle", "rx"} /\ AsAsked /\ Exact
  /\ pc = "idle" => (Done => Exact) /\ (quiet >= 1 => AsAsked)

InStep == ~slipped /\ ~shorted /\ ~deaf => Coupled

LEMMA AnsweredKept ==
  ASSUME mem' = mem, op' = op
  PROVE  Answered' = Answered
BY DEF Answered, AnswerByte, Content

LEMMA SendingIs ==
  ASSUME NEW s \in Slave
  PROVE  /\ Sending(s).phase = "tx" /\ Sending(s).count = 0 /\ Sending(s).cmd = s.cmd
         /\ Sending(s).byte = AnswerByte(s.cmd, s.sent + 1)
         /\ Sending(s).sent = IF s.sent <= MaxAnswer THEN s.sent + 1 ELSE s.sent
<1> DEFINE n == IF s.sent <= MaxAnswer THEN s.sent + 1 ELSE s.sent
           b == AnswerByte(s.cmd, s.sent + 1)
<1>1. Sending(s) = [s EXCEPT !.phase = "tx", !.count = 0, !.byte = b, !.sent = n]
  BY DEF Sending
<1> HIDE DEF n, b
<1>2. /\ Sending(s).phase = "tx" /\ Sending(s).count = 0 /\ Sending(s).cmd = s.cmd
      /\ Sending(s).byte = b /\ Sending(s).sent = n
  BY <1>1 DEF Slave
<1>3. QED
  BY <1>2 DEF n, b

LEMMA GotIs ==
  ASSUME Basic
  PROVE  got \in Seq(Byte) /\ Len(got) \in Nat /\ (got = <<>> => Len(got) = 0 /\ Exact)
BY DEF Basic, MasterOK, Exact

\* The acknowledge of a byte the chip has.
LEMMA AckInStep ==
  ASSUME Basic, ~short, pc = "ack", InAck, NEW stall \in BOOLEAN, ReadAck(stall), ~stall
  PROVE  Coupled'
<1>1. /\ slave \in Slave /\ at \in 0 .. 2 /\ op \in Transfer /\ got = <<>> /\ Len(got) = 0
      /\ result = 0 /\ nbit = 1 /\ op.addr = Own
  BY AtIs, GotIs DEF Basic, WireOK, MasterOK, InAck
<1>2. /\ slave' = Clocked(slave, 0) /\ mem' = mem
      /\ (NextByte \/ RepeatedStart \/ AllSent) /\ UNCHANGED <<op, nbit, shift, got, result>>
  BY AckSeen DEF InAck
<1>3. Basic' /\ Exact'
  <2>1. Basic'
    BY ReadAckBasic
  <2>2. got' = <<>>
    BY <1>1, <1>2
  <2>3. Len(got') = 0
    BY <2>2
  <2>4. QED
    BY <2>1, <2>3 DEF Exact
<1>4. CASE NextByte
  <2>1. InByte' /\ pc' = "byte"
    BY <1>4, NextByteSeen DEF NextByte
  <2>2. QED
    BY <2>1 DEF Coupled
<1>5. CASE RepeatedStart
  <2>1. /\ leg = "send" /\ at = Len(op.out) /\ op.fetch > 0 /\ pc' = "start"
    BY <1>5 DEF RepeatedStart
  <2>2. at > 0
    BY <1>1, <2>1, TransferShape
  <2>3. slave'.phase = "rx" /\ slave'.cmd = op.out[1]
    BY <2>1, <2>2, NextByteSeen DEF InAck
  <2>4. QED
    BY <1>2, <2>1, <2>3 DEF Coupled
<1>6. CASE AllSent /\ leg = "send"
  <2>1. op.fetch = 0 /\ pc' = "stop"
    BY <1>6 DEF AllSent
  <2>2. slave'.phase = "rx"
    BY <1>6, NextByteSeen
  <2>3. AsAsked'
    BY <1>1, <1>2, <2>1 DEF AsAsked, Done
  <2>4. QED
    BY <1>3, <2>1, <2>2, <2>3 DEF Coupled
<1>7. CASE AllSent /\ leg = "fetch"
  <2>1. pc' = "fetch"
    BY <1>7 DEF AllSent
  <2>2. slave' = Sending(slave) /\ slave.sent = 0 /\ slave.cmd = op.out[1]
    BY <1>1, <1>2, <1>7, ClockedIs DEF InAck
  <2>3. /\ slave'.phase = "tx" /\ slave'.count = 0 /\ slave'.cmd = op.out[1]
        /\ slave'.byte = AnswerByte(op.out[1], 1) /\ slave'.sent = 1
    BY <1>1, <2>2, SendingIs, BoundsOK
  <2>4. Answered' = Answered /\ Answered[1] = AnswerByte(op.out[1], 1)
    BY <1>2, AnsweredKept DEF Answered
  <2>5. InFetch'
    BY <1>1, <1>2, <2>3, <2>4, BoundsOK DEF InFetch, InAnswer, CappedSent
  <2>6. QED
    BY <1>3, <2>1, <2>5 DEF Coupled
<1>8. QED
  BY <1>2, <1>4, <1>5, <1>6, <1>7 DEF Basic, MasterOK

\* Nobody answers to an address that is not the chip's.
LEMMA NobodyAnswers ==
  ASSUME Basic, ~short, pc = "ack", op.addr # Own, slave.phase = "idle",
         NEW stall \in BOOLEAN, ReadAck(stall), ~stall
  PROVE  Coupled'
<1>1. slave \in Slave /\ 1 \in Bit /\ op \in Transfer /\ op' = op /\ got = <<>> /\ got' = got
  BY AckLevels DEF Basic, WireOK, MasterOK, Bit
<1>2. Sda(1, slave) = 1
  BY <1>1, LevelIs
<1>3. Nacked
  BY <1>2, AckLevels
<1>4. leg = "send" /\ at = 0
  <2>1. Len(op.out) = 0 /\ ~(op.fetch > 0)
    BY <1>1, TransferShape
  <2>2. QED
    BY <2>1, AtIs DEF Basic, MasterOK
<1>5. pc' = "stop" /\ result' = 2
  BY <1>3, <1>4 DEF Nacked
<1>6. slave' = IdleSlave
  <2>1. slave' = Clocked(slave, Sda(1, slave))
    BY PulseSeenIs DEF ReadAck
  <2>2. QED
    BY <1>1, <2>1, ClockedIs
<1>7. Exact'
  <2>1. got' = <<>>
    BY <1>1
  <2>2. Len(got') = 0
    BY <2>1
  <2>3. QED
    BY <2>2 DEF Exact
<1>8. QED
  BY <1>1, <1>5, <1>6, <1>7 DEF Coupled, AsAsked, IdleSlave

\* A bit of the answer.
LEMMA ReadInStep ==
  ASSUME Basic, ~short, pc = "fetch", InFetch, Exact, NEW stall \in BOOLEAN, ReadBit(stall), ~stall
  PROVE  Coupled'
<1>1. /\ slave \in Slave /\ slave.phase = "tx" /\ slave.count + 1 = nbit /\ nbit \in 1 .. Bits
      /\ Bits \in Nat /\ slave.byte \in Byte /\ 1 \in Bit /\ shift \in Byte
  BY CommandsAreBytes DEF Basic, WireOK, MasterOK, InFetch, Slave, Bit
<1> DEFINE level == slave.byte[nbit]
<1>2. Sda(1, slave) = level
  BY <1>1, LevelIs
<1>3. /\ slave' = Clocked(slave, level) /\ mem' = Written(slave, level)
      /\ Sampled(stall) = {level}
  BY <1>2, PulseSeenIs DEF ReadBit, Sampled
<1>4. mem' = mem
  BY <1>1, <1>3, MemKept
<1>5. shift' = [shift EXCEPT ![nbit] = level] /\ UNCHANGED <<op, leg, at, got, result>>
  BY <1>3 DEF ReadBit
<1>6. Answered' = Answered /\ Exact'
  <2>1. Answered' = Answered
    BY <1>4, <1>5, AnsweredKept
  <2>2. QED
    BY <1>5, <2>1 DEF Exact
<1>7. \A i \in 1 .. nbit : shift'[i] = slave.byte[i]
  <2> SUFFICES ASSUME NEW i \in 1 .. nbit PROVE shift'[i] = slave.byte[i]
    OBVIOUS
  <2>1. i \in 1 .. Bits /\ (i # nbit => i \in 1 .. nbit - 1)
    BY <1>1
  <2>2. CASE i = nbit
    BY <1>1, <1>5, <2>1, <2>2 DEF Byte
  <2>3. CASE i # nbit
    BY <1>1, <1>5, <2>1, <2>3 DEF InFetch, Byte
  <2>4. QED
    BY <2>2, <2>3
<1>8. CASE nbit = Bits
  <2>1. pc' = "reply"
    BY <1>8 DEF ReadBit
  <2>2. slave' = [slave EXCEPT !.phase = "reply", !.count = 0]
    <3>1. slave.count + 1 = Bits
      BY <1>1, <1>8
    <3>2. Clocked(slave, level) = [slave EXCEPT !.phase = "reply", !.count = 0]
      BY <1>1, <3>1 DEF Clocked, AtLastBit
    <3>3. QED
      BY <1>3, <3>2
  <2>3. slave'.phase = "reply" /\ slave'.cmd = slave.cmd /\ slave'.sent = slave.sent
    BY <1>1, <2>2 DEF Slave
  <2>4. shift' = slave.byte
    <3>1. shift' \in Byte
      BY <1>5, ReadBitBasic DEF Basic, MasterOK
    <3>2. QED
      BY <1>1, <1>7, <1>8, <3>1, SameByte
  <2>5. InReply'
    BY <1>5, <1>6, <2>3, <2>4 DEF InReply, InFetch, InAnswer
  <2>6. QED
    BY <1>6, <2>1, <2>5 DEF Coupled
<1>9. CASE nbit # Bits
  <2>1. pc' = "fetch" /\ nbit' = nbit + 1
    BY <1>9 DEF ReadBit
  <2>2. slave' = [slave EXCEPT !.count = slave.count + 1]
    BY <1>1, <1>3, <1>9, ClockedIs
  <2>3. /\ slave'.phase = "tx" /\ slave'.cmd = slave.cmd /\ slave'.sent = slave.sent
        /\ slave'.count = nbit /\ slave'.byte = slave.byte
    BY <1>1, <2>2 DEF Slave
  <2>4. nbit' - 1 = nbit
    BY <1>1, <2>1
  <2>5. \A i \in 1 .. nbit' - 1 : shift'[i] = slave'.byte[i]
    BY <1>7, <2>3, <2>4
  <2>6. InFetch'
    BY <1>5, <1>6, <2>3, <2>4, <2>5 DEF InFetch, InAnswer
  <2>7. QED
    BY <1>6, <2>1, <2>6 DEF Coupled
<1>10. QED
  BY <1>8, <1>9

\* The next byte of the answer, past the chip's own bytes too.
LEMMA NextAnswer ==
  ASSUME Basic, NEW n \in Nat \ {0}, slave.cmd = op.out[1], slave.sent = CappedSent(n)
  PROVE  /\ Sending(slave).byte = Answered[n + 1]
         /\ Sending(slave).sent = CappedSent(n + 1)
<1>1. /\ Sending(slave).byte = AnswerByte(op.out[1], slave.sent + 1)
      /\ Sending(slave).sent = IF slave.sent <= MaxAnswer THEN slave.sent + 1 ELSE slave.sent
  BY SendingIs DEF Basic, WireOK
<1>2. Answered[n + 1] = AnswerByte(op.out[1], n + 1)
  BY DEF Answered
<1>3. CASE n <= MaxAnswer + 1
  <2>1. slave.sent = n
    BY <1>3 DEF CappedSent
  <2>2. QED
    BY <1>1, <1>2, <1>3, <2>1, BoundsOK DEF CappedSent
<1>4. CASE n > MaxAnswer + 1
  <2>1. slave.sent = MaxAnswer + 1
    BY <1>4, BoundsOK DEF CappedSent
  <2>2. slave.cmd \in Commands \cup {<<>>} /\ mem \in [Settings -> Byte]
    BY DEF Basic, WireOK, Slave
  <2>3. \A k \in Nat \ {0} : k > MaxAnswer => AnswerByte(op.out[1], k) = Ones
    BY <2>2, AnswerOK
  <2>4. AnswerByte(op.out[1], MaxAnswer + 1 + 1) = Ones /\ AnswerByte(op.out[1], n + 1) = Ones
    BY <1>4, <2>3, BoundsOK
  <2>5. QED
    BY <1>1, <1>2, <1>4, <2>1, <2>4, BoundsOK DEF CappedSent
<1>5. QED
  BY <1>3, <1>4, BoundsOK

\* The master's acknowledge of a byte of the answer.
LEMMA ReplyInStep ==
  ASSUME Basic, ~short, pc = "reply", InReply, Exact, NEW stall \in BOOLEAN, Reply(stall), ~stall
  PROVE  Coupled'
<1>1. /\ slave \in Slave /\ slave.phase = "reply" /\ got \in Seq(Byte) /\ Len(got) \in Nat
      /\ shift \in Byte /\ result = 0 /\ op \in Transfer /\ op.fetch \in Nat /\ op.fetch > 0
      /\ nbit = 1
  BY TransferShape DEF Basic, WireOK, MasterOK, InReply
<1>2. op.addr = Own
  BY <1>1, TransferShape
<1>3. /\ got' = Append(got, shift) /\ UNCHANGED <<op, leg, at, nbit, result>>
      /\ pc' = IF LastOfRead THEN "stop" ELSE "fetch"
  BY DEF Reply, ReplyBit
<1>4. Len(got') = Len(got) + 1 /\ got'[Len(got) + 1] = shift
  BY <1>1, <1>3
<1> DEFINE level == IF LastOfRead THEN 1 ELSE 0
<1>5. slave' = Clocked(slave, level) /\ mem' = mem
  <2>1. level \in Bit /\ Pulse(level, stall)
    BY DEF Bit, Reply, ReplyBit
  <2> HIDE DEF level
  <2>2. Sda(level, slave) = level
    BY <1>1, <2>1, LevelIs
  <2>3. QED
    BY <1>1, <2>1, <2>2, PulseSeenIs, MemKept
<1>6. Answered' = Answered
  BY <1>3, <1>5, AnsweredKept
<1>7. Exact'
  <2>1. \A k \in 1 .. Len(got) : got'[k] = got[k]
    BY <1>1, <1>3
  <2>2. \A k \in 1 .. Len(got) + 1 : got'[k] = Answered[k]
    BY <1>1, <1>4, <2>1 DEF Exact, InReply
  <2>3. QED
    BY <1>4, <1>6, <2>2 DEF Exact
<1>8. CASE LastOfRead
  <2>1. slave' = IdleSlave
    <3>1. Clocked(slave, level) = IdleSlave
      BY <1>1, <1>8 DEF Clocked
    <3>2. QED
      BY <1>5, <3>1
  <2>2. AsAsked'
    BY <1>1, <1>2, <1>3, <1>4, <1>8 DEF AsAsked, Done, LastOfRead
  <2>3. QED
    BY <1>3, <1>7, <1>8, <2>1, <2>2 DEF Coupled, IdleSlave
<1>9. CASE ~LastOfRead
  <2>1. slave' = Sending(slave)
    BY <1>1, <1>5, <1>9, ClockedIs
  <2>2. Len(got) + 1 \in Nat \ {0} /\ slave.cmd = op.out[1] /\ slave.sent = CappedSent(Len(got) + 1)
    BY <1>1 DEF InReply, InAnswer
  <2>3. /\ slave'.byte = Answered[Len(got) + 1 + 1]
        /\ slave'.sent = CappedSent(Len(got) + 1 + 1)
    BY <2>1, <2>2, NextAnswer
  <2>4. slave'.phase = "tx" /\ slave'.count = 0 /\ slave'.cmd = op.out[1]
    BY <1>1, <2>1, <2>2, SendingIs
  <2>5. InFetch'
    BY <1>1, <1>3, <1>4, <1>6, <2>3, <2>4 DEF InFetch, InAnswer, CappedSent
  <2>6. QED
    BY <1>3, <1>7, <1>9, <2>5 DEF Coupled
<1>10. QED
  BY <1>8, <1>9

LEMMA NextInStep ==
  ASSUME Basic, InStep, [Next]_vars
  PROVE  InStep'
<1> SUFFICES ASSUME ~slipped', ~shorted', ~deaf' PROVE Coupled'
  BY DEF InStep
<1>1. Basic'
  BY NextBasic
<1>2. ~short'
  BY <1>1 DEF Basic, FaultsOK
<1>3. CASE UNCHANGED vars
  <2>1. UNCHANGED <<master, wire, slipped, shorted, deaf, quiet>> /\ UNCHANGED <<op, mem>>
    BY <1>3 DEF vars, master, wire, history, faults
  <2>2. Answered' = Answered
    BY <2>1, AnsweredKept
  <2>3. Coupled' <=> Coupled
    BY <2>1, <2>2 DEF Coupled, InByte, HasBits, InAck, Agrees, Expects, WireByte, Taken, Done, AsAsked,
       Exact, InFetch, InReply, InAnswer, CappedSent, master, wire
  <2>4. QED
    BY <2>1, <2>3 DEF InStep
<1>4. ASSUME NEW t \in Transfer, BeginTransfer(t) PROVE Coupled'
  BY <1>4 DEF BeginTransfer, Coupled
<1>5. CASE StartCondition
  <2>1. Sda(1, slave) = 1 /\ UNCHANGED <<slipped, shorted, deaf>> /\ pc = "start" /\ pc' = "byte"
    BY <1>5 DEF StartCondition, faults
  <2>2. leg = "fetch" => slave.cmd = op.out[1]
    BY <2>1 DEF InStep, Coupled
  <2>3. InByte'
    BY <1>5, <2>1, <2>2, StartHeard
  <2>4. QED
    BY <2>1, <2>3 DEF Coupled
<1>6. CASE StartRefused \/ StopUnseen
  BY <1>6 DEF StartRefused, StopUnseen, PulseMissed, PulseLost
<1>7. ASSUME NEW stall \in BOOLEAN, WriteBit(stall) PROVE Coupled'
  <2>1. ~stall /\ UNCHANGED <<short, slipped, shorted, deaf>> /\ pc = "byte"
    BY <1>7, PulseSeenIs, PulseMissedIs DEF WriteBit
  <2>2. InByte
    BY <2>1 DEF InStep, Coupled
  <2>3. CASE nbit = Bits
    <3>1. IF op.addr = Own THEN InAck' ELSE slave' = IdleSlave
      BY <1>2, <1>7, <2>1, <2>2, <2>3, LastBitOfByte
    <3>2. pc' = "ack" /\ op' = op
      BY <1>7, <2>3 DEF WriteBit
    <3>3. QED
      BY <3>1, <3>2 DEF Coupled, IdleSlave
  <2>4. CASE nbit # Bits
    <3>1. InByte'
      BY <1>2, <1>7, <2>1, <2>2, <2>4, BitOfByte
    <3>2. pc' = "byte"
      BY <1>7, <2>4 DEF WriteBit
    <3>3. QED
      BY <3>1, <3>2 DEF Coupled
  <2>5. QED
    BY <2>3, <2>4
<1>8. ASSUME NEW stall \in BOOLEAN, ReadAck(stall) PROVE Coupled'
  <2>1. ~stall /\ UNCHANGED <<short, slipped, shorted, deaf>> /\ pc = "ack"
    BY <1>8, PulseSeenIs, PulseMissedIs DEF ReadAck
  <2>2. IF op.addr = Own THEN InAck ELSE slave.phase = "idle"
    BY <2>1 DEF InStep, Coupled
  <2>3. QED
    BY <1>2, <1>8, <2>1, <2>2, AckInStep, NobodyAnswers
<1>9. ASSUME NEW stall \in BOOLEAN, ReadBit(stall) PROVE Coupled'
  <2>1. ~stall /\ UNCHANGED <<short, slipped, shorted, deaf>> /\ pc = "fetch"
    BY <1>9, PulseSeenIs, PulseMissedIs DEF ReadBit
  <2>2. QED
    BY <1>2, <1>9, <2>1, ReadInStep DEF InStep, Coupled
<1>10. ASSUME NEW stall \in BOOLEAN, Reply(stall) PROVE Coupled'
  <2>1. Pulse(IF LastOfRead THEN 1 ELSE 0, stall) /\ pc = "reply"
    BY <1>10 DEF Reply, ReplyBit
  <2>2. ~stall /\ UNCHANGED <<short, slipped, shorted, deaf>>
    BY <2>1, PulseSeenIs, PulseMissedIs
  <2>3. QED
    BY <1>2, <1>10, <2>1, <2>2, ReplyInStep DEF InStep, Coupled
<1>11. CASE StopCondition
  <2>1. /\ UNCHANGED <<op, got, result, mem, slipped, shorted, deaf>> /\ pc = "stop" /\ pc' = "idle"
    BY <1>11 DEF StopCondition, Returned, ReleaseClock, history, faults
  <2>2. AsAsked /\ Exact
    BY <2>1 DEF InStep, Coupled
  <2>3. Answered' = Answered
    BY <2>1, AnsweredKept
  <2>4. QED
    BY <2>1, <2>2, <2>3 DEF Coupled, AsAsked, Exact, Done
<1>12. CASE ShortChanges
  BY <1>12 DEF ShortChanges
<1>13. ASSUME NEW drive \in 0 .. 1, Reset(drive) PROVE Coupled'
  <2>1. pc' = "idle" /\ result' = 4 /\ quiet' = 0
    BY <1>13 DEF Reset, Returned, OtherFault
  <2>2. QED
    BY <2>1 DEF Coupled, Done
<1>14. QED
  BY <1>3, <1>4, <1>5, <1>6, <1>7, <1>8, <1>9, <1>10, <1>11, <1>12, <1>13 DEF Next, Master

LEMMA InitInStep == Init => InStep
BY DEF Init, InStep, Coupled, Done

LEMMA InStepAlways == Spec => []InStep
<1>1. Basic /\ InStep /\ [Next]_vars => InStep'
  BY NextInStep
<1>2. QED
  BY <1>1, BasicAlways, InitInStep, PTL DEF Spec

\* A read the driver reports done brought the bytes the chip has for that command, at
\* any length, unless a fault hit that very transfer.
THEOREM ReadsAreExact == Spec => []DoneReadIsExact
<1>1. ASSUME Basic, InStep PROVE DoneReadIsExact
  <2> SUFFICES ASSUME pc = "idle", op.fetch > 0, Done, ~shorted, ~slipped, ~deaf,
                      NEW k \in 1 .. op.fetch
               PROVE  got[k] = AnswerByte(op.out[1], k)
    BY DEF DoneReadIsExact
  <2>1. Exact /\ Len(got) = op.fetch
    BY <1>1 DEF InStep, Coupled, Done
  <2>2. got[k] = Answered[k]
    BY <2>1 DEF Exact
  <2>3. op.fetch \in Nat
    BY <1>1, TransferShape DEF Basic, MasterOK
  <2>4. QED
    BY <2>2, <2>3 DEF Answered
<1>2. QED
  BY <1>1, BasicAlways, InStepAlways, PTL

-----------------------------------------------------------------------------
(* Recovery.  A chip still in an answer hears no START; every transfer that  *)
(* drowns in it takes at least one byte of the answer away.                 *)

\* The chip is in an answer it has given n bytes of, or more.
Left(s, n) == s.phase \in {"tx", "reply"} /\ s.sent >= n

\* The address byte goes by while the chip sends what is left of an earlier byte.
OldByte ==
  /\ pc = "byte" /\ leg = "send" /\ at = 0 /\ Left(slave, quiet)
  /\ slave.phase = "tx" => slave.count >= nbit

\* The first transfer after the fault: its START was a pulse of the chip's ninth bit.
FirstAfter ==
  /\ quiet = 1 /\ leg = "send"
  /\ \/ pc = "byte" /\ slave.phase = "rx" /\ slave.count = nbit - 1
     \/ pc = "ack" /\ slave.phase = "ack" /\ slave.next = "rx"
     \/ pc = "byte" /\ at = 0 /\ slave.phase = "tx" /\ slave.count = nbit - 1
     \/ pc = "ack" /\ slave.phase = "reply"

\* A repeated START was heard again.
HeardAgain ==
  /\ leg = "fetch"
  /\ \/ pc = "start" /\ slave.phase = "rx" /\ quiet = 1
     \/ pc = "byte" /\ slave.phase = "addr" /\ slave.count = nbit - 1 /\ Agrees(nbit - 1)
     \/ pc = "ack" /\ slave.phase = "ack" /\ slave.next = "tx"
     \/ pc = "fetch" /\ slave.phase = "tx" /\ slave.count = nbit - 1
     \/ pc = "reply" /\ slave.phase = "reply"

Drowned ==
  slave.phase = "idle" \/ Left(slave, quiet + 1) \/ OldByte \/ FirstAfter \/ HeardAgain

Settling ==
  /\ pc = "idle" => slave.phase = "idle" \/ Left(slave, quiet + 1)
  /\ pc = "start" /\ leg = "send" =>
       ~deaf /\ (quiet = 1 \/ slave.phase = "idle" \/ Left(slave, quiet))
  /\ pc = "stop" => slave.phase \in {"idle", "rx"} \/ Left(slave, quiet + 1)
  /\ deaf /\ pc \notin {"idle", "stop"} => Drowned
  /\ quiet = QuietCap => ~deaf

Settles == quiet >= 1 /\ ~short => Settling

LEMMA LeftStays ==
  ASSUME NEW s \in Slave, NEW level, NEW n \in Nat, Left(s, n)
  PROVE  Clocked(s, level).phase = "idle" \/ Left(Clocked(s, level), n)
<1>1. s.sent \in Nat /\ s.sent >= n /\ s.phase \in {"tx", "reply"}
  BY BoundsOK DEF Left, Slave
<1>2. CASE s.phase = "tx" /\ s.count + 1 = Bits
  <2>1. Clocked(s, level) = [s EXCEPT !.phase = "reply", !.count = 0]
    BY <1>2, ClockedIs
  <2>2. Clocked(s, level).phase = "reply" /\ Clocked(s, level).sent = s.sent
    BY <2>1 DEF Slave
  <2>3. QED
    BY <1>1, <2>2 DEF Left
<1>3. CASE s.phase = "tx" /\ s.count + 1 # Bits
  <2>1. Clocked(s, level) = [s EXCEPT !.count = s.count + 1]
    BY <1>3, ClockedIs
  <2>2. Clocked(s, level).phase = "tx" /\ Clocked(s, level).sent = s.sent
    BY <1>3, <2>1 DEF Slave
  <2>3. QED
    BY <1>1, <2>2 DEF Left
<1>4. CASE s.phase = "reply" /\ level = 0
  <2>1. Clocked(s, level) = Sending(s)
    BY <1>4, ClockedIs
  <2>2. Clocked(s, level).phase = "tx" /\ Clocked(s, level).sent >= s.sent
    BY <1>1, <2>1, SendingIs, BoundsOK
  <2>3. Clocked(s, level).sent \in Nat
    BY <1>1, <2>1, SendingIs, BoundsOK
  <2>4. QED
    BY <1>1, <2>2, <2>3 DEF Left
<1>5. CASE s.phase = "reply" /\ level # 0
  <2>1. Clocked(s, level) = IdleSlave
    BY <1>5, ClockedIs
  <2>2. QED
    BY <2>1 DEF IdleSlave
<1>6. QED
  BY <1>1, <1>2, <1>3, <1>4, <1>5

LEMMA LeftGrows ==
  ASSUME NEW s \in Slave, NEW level, NEW n \in 0 .. MaxAnswer, Left(s, n), s.phase = "reply"
  PROVE  Clocked(s, level).phase = "idle" \/ Left(Clocked(s, level), n + 1)
<1>1. s.sent \in Nat /\ s.sent >= n
  BY BoundsOK DEF Left, Slave
<1>2. CASE level = 0
  <2>1. Clocked(s, level) = Sending(s)
    BY <1>2, ClockedIs
  <2>2. Clocked(s, level).phase = "tx" /\ Clocked(s, level).sent >= n + 1
    BY <1>1, <2>1, SendingIs, BoundsOK
  <2>3. QED
    BY <2>2 DEF Left
<1>3. CASE level # 0
  <2>1. Clocked(s, level) = IdleSlave
    BY <1>3, ClockedIs
  <2>2. QED
    BY <2>1 DEF IdleSlave
<1>4. QED
  BY <1>2, <1>3

\* What is left of one byte more is left of it.
LEMMA LeftLess ==
  ASSUME NEW s \in Slave, NEW n \in Nat, Left(s, n + 1)
  PROVE  Left(s, n)
BY BoundsOK DEF Left, Slave

\* The chip, clocked through the end of what it is sending.
LEMMA TxClocked ==
  ASSUME NEW s \in Slave, NEW level, s.phase = "tx"
  PROVE  IF s.count + 1 = Bits
           THEN Clocked(s, level).phase = "reply" /\ Clocked(s, level).sent = s.sent
           ELSE /\ Clocked(s, level).phase = "tx" /\ Clocked(s, level).sent = s.sent
                /\ Clocked(s, level).count = s.count + 1
<1>1. CASE s.count + 1 = Bits
  <2>1. Clocked(s, level) = [s EXCEPT !.phase = "reply", !.count = 0]
    BY <1>1, ClockedIs
  <2>2. QED
    BY <1>1, <2>1 DEF Slave
<1>2. CASE s.count + 1 # Bits
  <2>1. Clocked(s, level) = [s EXCEPT !.count = s.count + 1]
    BY <1>2, ClockedIs
  <2>2. QED
    BY <1>2, <2>1 DEF Slave
<1>3. QED
  BY <1>1, <1>2

\* A START the chip did not hear.
LEMMA StartMissed ==
  ASSUME Basic, InStep, Settles, quiet >= 1, ~short, StartCondition, Sda(1, slave) # 1
  PROVE  quiet # QuietCap /\ Drowned'
<1>1. /\ slave \in Slave /\ PhaseOK(slave) /\ quiet \in Nat /\ quiet <= QuietCap /\ 1 \in Bit
      /\ pc = "start" /\ slave' = Clocked(slave, 0) /\ pc' = "byte" /\ nbit = 1 /\ at = 0
      /\ UNCHANGED <<op, leg, at, nbit, quiet>> /\ leg \in {"send", "fetch"}
      /\ slave.sent \in Nat /\ slave.sent <= QuietCap /\ slave.count \in Nat
  BY BoundsOK, CommandsAreBytes DEF Basic, WireOK, MasterOK, FaultsOK, StartCondition, faults, QuietCap,
       Bit, Slave
<1>2. Settling /\ ~slipped /\ ~shorted
  BY DEF Settles, Basic, FaultsOK
<1>3. slave.phase = "ack" \/ (slave.phase = "tx" /\ slave.byte[slave.count + 1] = 0)
  BY DEF Sda, HoldsSda
<1>4. slave.phase = "tx" => slave.sent <= MaxAnswer /\ slave.sent >= 1
  <2>1. slave.phase = "tx" => slave.byte # Ones
    <3>1. slave.count + 1 \in 1 .. Bits
      BY CommandsAreBytes DEF Basic, WireOK, Slave
    <3>2. Ones[slave.count + 1] = 1
      BY <3>1 DEF Ones
    <3>3. QED
      BY <1>3, <3>2
  <2>2. QED
    BY <1>1, <2>1, BoundsOK DEF PhaseOK
<1>5. CASE leg = "send"
  <2>1. quiet = 1 \/ (slave.phase = "tx" /\ Left(slave, quiet))
    BY <1>1, <1>2, <1>3, <1>5 DEF Settling, Left
  <2>2. quiet # QuietCap
    BY <1>1, <1>4, <2>1, BoundsOK DEF Left, QuietCap
  <2>3. CASE slave.phase = "tx"
    <3>1. Left(slave, quiet)
      BY <1>1, <1>4, <2>1, <2>3 DEF Left
    <3>2. /\ slave'.sent = slave.sent
          /\ slave'.phase = "reply" \/ (slave'.phase = "tx" /\ slave'.count = slave.count + 1)
      BY <1>1, <2>3, TxClocked
    <3>3. OldByte'
      BY <1>1, <1>5, <3>1, <3>2 DEF OldByte, Left
    <3>4. QED
      BY <2>2, <3>3 DEF Drowned
  <2>4. CASE slave.phase = "ack" /\ slave.next = "rx"
    <3>1. slave' = [slave EXCEPT !.phase = "rx"]
      BY <1>1, <2>4, ClockedIs
    <3>2. slave'.phase = "rx" /\ slave'.count = 0
      BY <1>1, <2>4, <3>1 DEF Slave, PhaseOK
    <3>3. FirstAfter'
      BY <1>1, <1>5, <2>1, <2>4, <3>2 DEF FirstAfter
    <3>4. QED
      BY <2>2, <3>3 DEF Drowned
  <2>5. CASE slave.phase = "ack" /\ slave.next = "tx"
    <3>1. slave' = Sending(slave)
      BY <1>1, <2>5, ClockedIs
    <3>2. slave'.phase = "tx" /\ slave'.count = 0
      BY <1>1, <3>1, SendingIs
    <3>3. FirstAfter'
      BY <1>1, <1>5, <2>1, <2>5, <3>2 DEF FirstAfter
    <3>4. QED
      BY <2>2, <3>3 DEF Drowned
  <2>6. QED
    BY <1>1, <1>3, <2>3, <2>4, <2>5 DEF Slave
<1>6. CASE leg = "fetch"
  <2>1. deaf
    <3>1. ~deaf => slave.phase = "rx"
      BY <1>1, <1>2, <1>6 DEF InStep, Coupled
    <3>2. QED
      BY <1>3, <3>1
  <2>2. quiet # QuietCap /\ Left(slave, quiet + 1)
    BY <1>1, <1>2, <1>3, <1>6, <2>1 DEF Settling, Drowned, OldByte, FirstAfter, HeardAgain
  <2>3. quiet + 1 \in Nat
    BY <1>1
  <2>4. slave'.phase = "idle" \/ Left(slave', quiet + 1)
    BY <1>1, <2>2, <2>3, LeftStays
  <2>5. QED
    BY <1>1, <2>2, <2>4 DEF Drowned
<1>7. QED
  BY <1>1, <1>5, <1>6

LEMMA OldAnswerStays ==
  ASSUME NEW s \in Slave, NEW level, NEW n \in Nat, s.phase = "idle" \/ Left(s, n)
  PROVE  Clocked(s, level).phase = "idle" \/ Left(Clocked(s, level), n)
<1>1. CASE s.phase = "idle"
  <2>1. Clocked(s, level) = IdleSlave
    BY <1>1, ClockedIs
  <2>2. QED
    BY <2>1 DEF IdleSlave
<1>2. CASE Left(s, n)
  BY <1>2, LeftStays
<1>3. QED
  BY <1>1, <1>2

\* A pulse of a transfer the chip did not hear the START of, as the master writes a bit.
LEMMA DrownedBit ==
  ASSUME Basic, ~short, Drowned, quiet \in 1 .. MaxAnswer, pc = "byte",
         NEW stall \in BOOLEAN, WriteBit(stall), ~stall
  PROVE  Drowned'
<1> DEFINE level == Sda(WireByte[nbit], slave)
<1>1. /\ slave \in Slave /\ PhaseOK(slave) /\ slave.count \in 0 .. Bits - 1 /\ Bits \in Nat
      /\ nbit \in 1 .. Bits /\ quiet \in Nat /\ quiet + 1 \in Nat /\ MaxAnswer \in Nat
  BY BoundsOK, CommandsAreBytes DEF Basic, WireOK, MasterOK, Slave
<1>2. /\ slave' = Clocked(slave, level) /\ UNCHANGED <<quiet, op, leg, at>>
      /\ IF nbit = Bits THEN pc' = "ack" /\ nbit' = 1 ELSE pc' = "byte" /\ nbit' = nbit + 1
  BY PulseSeenIs DEF WriteBit
<1> HIDE DEF level
<1>3. CASE slave.phase = "idle" \/ Left(slave, quiet + 1)
  <2>1. slave'.phase = "idle" \/ Left(slave', quiet + 1)
    BY <1>1, <1>2, <1>3, OldAnswerStays
  <2>2. QED
    BY <1>2, <2>1 DEF Drowned
<1>4. CASE OldByte
  <2>1. leg = "send" /\ at = 0 /\ Left(slave, quiet)
    BY <1>4 DEF OldByte
  <2>2. CASE slave.phase = "reply"
    <3>1. quiet \in 0 .. MaxAnswer
      BY <1>1
    <3>2. slave'.phase = "idle" \/ Left(slave', quiet + 1)
      BY <1>1, <1>2, <2>1, <2>2, <3>1, LeftGrows
    <3>3. QED
      BY <1>2, <3>2 DEF Drowned
  <2>3. CASE slave.phase = "tx"
    <3>1. slave.count >= nbit /\ nbit # Bits
      BY <1>1, <1>4, <2>3 DEF OldByte
    <3>2. /\ slave'.sent = slave.sent
          /\ slave'.phase = "reply" \/ (slave'.phase = "tx" /\ slave'.count = slave.count + 1)
      BY <1>1, <1>2, <2>3, TxClocked
    <3>3. slave.count + 1 >= nbit + 1
      BY <1>1, <3>1
    <3>4. OldByte'
      BY <1>2, <2>1, <3>1, <3>2, <3>3 DEF OldByte, Left
    <3>5. QED
      BY <3>4 DEF Drowned
  <2>4. QED
    BY <2>1, <2>2, <2>3 DEF Left
<1>5. CASE FirstAfter /\ slave.phase = "rx"
  <2>1. slave.count + 1 = nbit /\ quiet = 1 /\ leg = "send"
    BY <1>1, <1>5 DEF FirstAfter
  <2>2. CASE nbit = Bits
    <3>1. slave' = TakeByte(slave, WithBit(slave, level))
      BY <1>1, <1>2, <1>5, <2>1, <2>2, ClockedIs
    <3>2. \/ slave' = IdleSlave \/ (slave'.phase = "ack" /\ slave'.next = "rx")
      <4> DEFINE a == Acked(slave, "rx")
                 byte == WithBit(slave, level)
      <4>1. a \in Slave /\ a.phase = "ack" /\ a.next = "rx"
        <5>1. a \in Slave
          BY <1>1, AckedOK
        <5>2. QED
          BY <1>1, <5>1 DEF Acked, Slave
      <4>2. \/ slave' = IdleSlave
            \/ slave' = [a EXCEPT !.expect = IF byte \in Settings THEN "data" ELSE "over",
                                  !.cmd = byte]
            \/ slave' = [a EXCEPT !.expect = "over"]
        BY <1>5, <3>1 DEF TakeByte
      <4> HIDE DEF a, byte
      <4>3. QED
        BY <4>1, <4>2 DEF Slave
    <3>3. Drowned'
      BY <1>2, <2>1, <2>2, <3>2 DEF Drowned, FirstAfter, IdleSlave
    <3>4. QED
      BY <3>3
  <2>3. CASE nbit # Bits
    <3>1. slave' = [slave EXCEPT !.byte = WithBit(slave, level), !.count = slave.count + 1]
      BY <1>1, <1>2, <1>5, <2>1, <2>3, ClockedIs
    <3>2. slave'.phase = "rx" /\ slave'.count = nbit
      BY <1>1, <1>5, <2>1, <3>1 DEF Slave
    <3>3. nbit' - 1 = nbit
      BY <1>1, <1>2, <2>3
    <3>4. FirstAfter'
      BY <1>2, <2>1, <2>3, <3>2, <3>3 DEF FirstAfter
    <3>5. QED
      BY <3>4 DEF Drowned
  <2>4. QED
    BY <2>2, <2>3
<1>6. CASE FirstAfter /\ slave.phase = "tx"
  <2>1. slave.count + 1 = nbit /\ quiet = 1 /\ leg = "send" /\ at = 0
    BY <1>1, <1>6 DEF FirstAfter
  <2>2. IF nbit = Bits THEN slave'.phase = "reply"
                       ELSE slave'.phase = "tx" /\ slave'.count = nbit
    BY <1>1, <1>2, <1>6, <2>1, TxClocked
  <2>3. nbit # Bits => nbit' - 1 = nbit
    BY <1>1, <1>2
  <2>4. FirstAfter'
    BY <1>2, <2>1, <2>2, <2>3 DEF FirstAfter
  <2>5. QED
    BY <2>4 DEF Drowned
<1>7. CASE HeardAgain
  <2>1. HasBits /\ leg = "fetch"
    BY <1>7 DEF HeardAgain, HasBits, Basic, MasterOK
  <2>2. CASE nbit = Bits
    BY <1>2, <2>1, <2>2, ReadAddressed DEF HeardAgain, Drowned
  <2>3. CASE nbit # Bits
    <3>1. HasBits'
      BY <2>1, <2>3, BitTaken
    <3>2. at = 0
      BY <2>1 DEF Basic, MasterOK
    <3>3. HeardAgain'
      BY <1>2, <2>1, <2>3, <3>1, <3>2 DEF HeardAgain, HasBits
    <3>4. QED
      BY <3>3 DEF Drowned
  <2>4. QED
    BY <2>2, <2>3
<1>8. QED
  BY <1>3, <1>4, <1>5, <1>6, <1>7 DEF Drowned, FirstAfter

\* As the master looks for the acknowledge.
LEMMA DrownedAck ==
  ASSUME Basic, ~short, Drowned, quiet \in 1 .. MaxAnswer, pc = "ack",
         NEW stall \in BOOLEAN, ReadAck(stall), ~stall
  PROVE  /\ pc' # "stop" => Drowned'
         /\ pc' = "stop" => slave'.phase \in {"idle", "rx"} \/ Left(slave', quiet + 1)
<1>1. /\ slave \in Slave /\ PhaseOK(slave) /\ quiet + 1 \in Nat /\ nbit = 1 /\ 1 \in Bit
      /\ UNCHANGED <<op, nbit, got, quiet>>
      /\ slave' = Clocked(slave, Sda(1, slave))
  BY AckLevels, PulseSeenIs DEF Basic, WireOK, MasterOK, ReadAck, Bit
<1>2. CASE slave.phase = "idle" \/ Left(slave, quiet + 1)
  <2>1. slave'.phase = "idle" \/ Left(slave', quiet + 1)
    BY <1>1, <1>2, OldAnswerStays
  <2>2. QED
    BY <1>1, <2>1 DEF Drowned
<1>3. CASE FirstAfter /\ slave.phase = "ack"
  <2>1. quiet = 1 /\ leg = "send" /\ slave.next = "rx"
    BY <1>3 DEF FirstAfter
  <2>2. slave' = Clocked(slave, 0) /\ (NextByte \/ RepeatedStart \/ AllSent)
    BY <1>3, AckSeen
  <2>3. slave' = [slave EXCEPT !.phase = "rx"]
    BY <1>1, <1>3, <2>1, <2>2, ClockedIs
  <2>4. slave'.phase = "rx" /\ slave'.count = 0
    BY <1>1, <1>3, <2>3 DEF Slave, PhaseOK
  <2>5. CASE NextByte
    <3>1. FirstAfter' /\ pc' = "byte"
      BY <1>1, <2>1, <2>4, <2>5 DEF FirstAfter, NextByte
    <3>2. QED
      BY <3>1 DEF Drowned
  <2>6. CASE RepeatedStart
    <3>1. HeardAgain' /\ pc' = "start"
      BY <1>1, <2>1, <2>4, <2>6 DEF HeardAgain, RepeatedStart
    <3>2. QED
      BY <3>1 DEF Drowned
  <2>7. CASE AllSent
    <3>1. pc' = "stop"
      BY <2>1, <2>7 DEF AllSent
    <3>2. QED
      BY <2>4, <3>1
  <2>8. QED
    BY <2>2, <2>5, <2>6, <2>7
<1>4. CASE FirstAfter /\ slave.phase = "reply"
  <2>1. Sda(1, slave) = 1
    BY <1>1, <1>4, LevelIs
  <2>2. pc' = "stop"
    BY <2>1, AckLevels DEF Nacked
  <2>3. Clocked(slave, 1) = IdleSlave
    BY <1>1, <1>4 DEF Clocked
  <2>4. QED
    BY <1>1, <2>1, <2>2, <2>3 DEF IdleSlave
<1>5. CASE HeardAgain
  <2>1. leg = "fetch" /\ slave.phase = "ack" /\ slave.next = "tx"
    BY <1>5 DEF HeardAgain
  <2>2. slave' = Clocked(slave, 0) /\ (NextByte \/ RepeatedStart \/ AllSent)
    BY <2>1, AckSeen
  <2>3. slave' = Sending(slave)
    BY <1>1, <2>1, <2>2, ClockedIs
  <2>4. slave'.phase = "tx" /\ slave'.count = 0
    BY <1>1, <2>3, SendingIs
  <2>5. pc' = "fetch" /\ leg' = "fetch"
    BY <2>1, <2>2 DEF NextByte, RepeatedStart, AllSent
  <2>6. HeardAgain'
    BY <1>1, <2>4, <2>5 DEF HeardAgain
  <2>7. QED
    BY <2>5, <2>6 DEF Drowned
<1>6. ~OldByte
  BY DEF OldByte
<1>7. QED
  BY <1>2, <1>3, <1>4, <1>5, <1>6 DEF Drowned, FirstAfter

\* As it reads a bit.
LEMMA DrownedRead ==
  ASSUME Basic, ~short, Drowned, quiet \in 1 .. MaxAnswer, pc = "fetch",
         NEW stall \in BOOLEAN, ReadBit(stall), ~stall
  PROVE  Drowned'
<1> DEFINE level == Sda(1, slave)
<1>1. /\ slave \in Slave /\ quiet + 1 \in Nat /\ nbit \in 1 .. Bits /\ Bits \in Nat
      /\ slave' = Clocked(slave, level) /\ UNCHANGED <<quiet, op, leg, at>>
      /\ IF nbit = Bits THEN pc' = "reply" ELSE pc' = "fetch" /\ nbit' = nbit + 1
  BY CommandsAreBytes, PulseSeenIs DEF Basic, WireOK, MasterOK, ReadBit
<1> HIDE DEF level
<1>2. CASE slave.phase = "idle" \/ Left(slave, quiet + 1)
  <2>1. slave'.phase = "idle" \/ Left(slave', quiet + 1)
    BY <1>1, <1>2, OldAnswerStays
  <2>2. QED
    BY <1>1, <2>1 DEF Drowned
<1>3. CASE HeardAgain
  <2>1. leg = "fetch" /\ slave.phase = "tx" /\ slave.count + 1 = nbit
    BY <1>1, <1>3 DEF HeardAgain
  <2>2. IF nbit = Bits THEN slave'.phase = "reply"
                       ELSE slave'.phase = "tx" /\ slave'.count = nbit
    BY <1>1, <2>1, TxClocked
  <2>3. nbit # Bits => nbit' - 1 = nbit
    BY <1>1
  <2>4. HeardAgain'
    BY <1>1, <2>1, <2>2, <2>3 DEF HeardAgain
  <2>5. QED
    BY <2>4 DEF Drowned
<1>4. ~OldByte /\ ~FirstAfter
  BY DEF OldByte, FirstAfter
<1>5. QED
  BY <1>2, <1>3, <1>4 DEF Drowned

\* As it answers a byte.
LEMMA DrownedReply ==
  ASSUME Basic, ~short, Drowned, quiet \in 1 .. MaxAnswer, pc = "reply",
         NEW stall \in BOOLEAN, Reply(stall), ~stall
  PROVE  /\ pc' # "stop" => Drowned'
         /\ pc' = "stop" => slave'.phase \in {"idle", "rx"} \/ Left(slave', quiet + 1)
<1> DEFINE drive == IF LastOfRead THEN 1 ELSE 0
<1>1. drive \in Bit /\ Pulse(drive, stall)
  BY DEF Reply, ReplyBit, Bit
<1>2. /\ slave \in Slave /\ quiet + 1 \in Nat /\ nbit = 1 /\ leg = "fetch"
      /\ UNCHANGED <<op, leg, at, nbit>>
      /\ pc' = IF LastOfRead THEN "stop" ELSE "fetch"
  BY DEF Basic, WireOK, MasterOK, Reply, ReplyBit
<1>3. drive = 1 <=> LastOfRead
  OBVIOUS
<1> HIDE DEF drive
<1>4. slave' = Clocked(slave, Sda(drive, slave)) /\ UNCHANGED quiet
  BY <1>1, PulseSeenIs
<1>5. CASE slave.phase = "idle" \/ Left(slave, quiet + 1)
  <2>1. slave'.phase = "idle" \/ Left(slave', quiet + 1)
    BY <1>2, <1>4, <1>5, OldAnswerStays
  <2>2. QED
    BY <1>4, <2>1 DEF Drowned
<1>6. CASE HeardAgain
  <2>1. slave.phase = "reply"
    BY <1>6 DEF HeardAgain
  <2>2. Sda(drive, slave) = drive
    BY <1>1, <1>2, <2>1, LevelIs
  <2>3. CASE LastOfRead
    <3>1. Clocked(slave, 1) = IdleSlave
      BY <1>2, <2>1 DEF Clocked
    <3>2. QED
      BY <1>2, <1>3, <1>4, <2>2, <2>3, <3>1 DEF IdleSlave
  <2>4. CASE ~LastOfRead
    <3>1. drive = 0
      BY <1>1, <1>3, <2>4 DEF Bit
    <3>2. slave' = Sending(slave)
      BY <1>2, <1>4, <2>1, <2>2, <3>1, ClockedIs
    <3>3. slave'.phase = "tx" /\ slave'.count = 0
      BY <1>2, <3>2, SendingIs
    <3>4. HeardAgain'
      BY <1>2, <2>4, <3>3 DEF HeardAgain
    <3>5. QED
      BY <1>2, <2>4, <3>4 DEF Drowned
  <2>5. QED
    BY <2>3, <2>4
<1>7. ~OldByte /\ ~FirstAfter
  BY DEF OldByte, FirstAfter
<1>8. QED
  BY <1>5, <1>6, <1>7 DEF Drowned

\* A transfer with a fault of its own is over before the chip can be counted on.
LEMMA NextSettles ==
  ASSUME Basic, InStep, Settles, [Next]_vars
  PROVE  Settles'
<1> SUFFICES ASSUME quiet' >= 1, ~short' PROVE Settling'
  BY DEF Settles
<1>1. Basic' /\ InStep'
  BY NextBasic, NextInStep
<1>2. ~slipped' /\ ~shorted'
  BY <1>1 DEF Basic, FaultsOK
<1>3. /\ slave \in Slave /\ slave' \in Slave /\ quiet \in Nat /\ quiet + 1 \in Nat
      /\ quiet <= MaxAnswer + 1
  BY <1>1, BoundsOK DEF Basic, WireOK, FaultsOK, QuietCap
\* A chip that heard the START is where the transfer is.
<1>4. ASSUME ~deaf', pc' \notin {"idle", "start"} PROVE Settling'
  <2>1. Coupled'
    BY <1>1, <1>2, <1>4 DEF InStep
  <2>2. QED
    BY <1>4, <2>1 DEF Settling, Coupled
<1>5. CASE UNCHANGED vars
  <2>1. UNCHANGED <<master, wire, deaf, quiet>>
    BY <1>5 DEF vars, history, faults
  <2>2. Settling' <=> Settling
    BY <2>1 DEF Settling, Drowned, OldByte, FirstAfter, HeardAgain, Left, Agrees, WireByte,
                QuietCap, master, wire
  <2>3. QED
    BY <2>1, <2>2 DEF Settles, wire
<1>6. ASSUME NEW t \in Transfer, BeginTransfer(t) PROVE Settling'
  <2>1. /\ pc = "idle" /\ pc' = "start" /\ leg' = "send" /\ ~deaf' /\ UNCHANGED <<slave, short>>
        /\ quiet' = IF quiet = QuietCap THEN quiet ELSE quiet + 1
    BY <1>6 DEF BeginTransfer, wire
  <2>2. quiet' = 1 \/ slave.phase = "idle" \/ Left(slave, quiet')
    <3>1. CASE quiet = 0
      BY <2>1, <3>1 DEF QuietCap
    <3>2. CASE quiet # 0
      <4>1. slave.phase = "idle" \/ Left(slave, quiet + 1)
        BY <1>3, <2>1, <3>2 DEF Settles, Settling
      <4>2. Left(slave, quiet + 1) => Left(slave, quiet)
        BY <1>3, LeftLess
      <4>3. quiet' = quiet \/ quiet' = quiet + 1
        BY <2>1
      <4>4. QED
        BY <4>1, <4>2, <4>3
    <3>3. QED
      BY <3>1, <3>2
  <2>3. QED
    BY <2>1, <2>2 DEF Settling, Left
<1>7. ASSUME UNCHANGED <<quiet, short, deaf>>, pc' # "idle", leg' = "send" => pc' # "start",
             deaf /\ pc' # "stop" /\ quiet \in 1 .. MaxAnswer => Drowned',
             deaf /\ pc' = "stop" /\ quiet \in 1 .. MaxAnswer =>
               slave'.phase \in {"idle", "rx"} \/ Left(slave', quiet + 1)
      PROVE  Settling'
  <2>1. CASE ~deaf'
    <3>1. CASE pc' = "start"
      BY <1>7, <2>1, <3>1 DEF Settling
    <3>2. CASE pc' # "start"
      BY <1>4, <1>7, <2>1, <3>2
    <3>3. QED
      BY <3>1, <3>2
  <2>2. CASE deaf'
    <3>1. deaf /\ quiet # QuietCap
      BY <1>7, <2>2 DEF Settles, Settling
    <3>2. quiet \in 1 .. MaxAnswer
      BY <1>3, <1>7, <3>1, BoundsOK DEF QuietCap
    <3>3. quiet' # QuietCap
      BY <1>7, <3>1
    <3>4. /\ pc' # "stop" => Drowned'
          /\ pc' = "stop" => slave'.phase \in {"idle", "rx"} \/ Left(slave', quiet' + 1)
      BY <1>7, <3>1, <3>2
    <3>5. QED
      BY <1>7, <3>3, <3>4 DEF Settling, QuietCap
  <2>3. QED
    BY <2>1, <2>2
<1>8. CASE StartCondition
  <2>1. pc' = "byte" /\ pc = "start" /\ UNCHANGED <<quiet, short, leg>>
    BY <1>8 DEF StartCondition, faults
  <2>2. CASE Sda(1, slave) = 1
    <3>1. UNCHANGED deaf
      BY <1>8, <2>2 DEF StartCondition
    <3>2. ASSUME deaf PROVE Drowned'
      <4>1. leg = "fetch" /\ leg' = "fetch"
        BY <2>1, <3>2 DEF Settles, Settling, Basic, MasterOK
      <4>2. /\ slave'.phase = "addr" /\ slave'.count = 0 /\ nbit' = 1 /\ pc' = "byte"
        <5>1. slave' = [slave EXCEPT !.phase = "addr", !.count = 0, !.byte = Zeros]
          BY <1>8, <2>2 DEF StartCondition, Started
        <5>2. nbit' = 1
          BY <1>8, <2>1 DEF StartCondition, Basic, MasterOK
        <5>3. QED
          BY <1>3, <2>1, <5>1, <5>2 DEF Slave
      <4>3. nbit' - 1 = 0
        BY <4>2
      <4>4. Agrees(nbit - 1)'
        BY <4>3 DEF Agrees
      <4>5. HeardAgain'
        BY <4>1, <4>2, <4>3, <4>4 DEF HeardAgain
      <4>6. QED
        BY <4>5 DEF Drowned
    <3>3. QED
      BY <1>7, <2>1, <3>1, <3>2
  <2>3. CASE Sda(1, slave) # 1
    <3>1. quiet # QuietCap /\ Drowned'
      BY <1>8, <2>1, <2>3, StartMissed
    <3>2. quiet' # QuietCap
      BY <2>1, <3>1
    <3>3. QED
      BY <2>1, <3>1, <3>2 DEF Settling, QuietCap
  <2>4. QED
    BY <2>2, <2>3
<1>9. CASE StartRefused \/ StopUnseen
  BY <1>9 DEF StartRefused, StopUnseen, PulseMissed, PulseLost
<1>10. ASSUME NEW stall \in BOOLEAN, WriteBit(stall) PROVE Settling'
  <2>1. ~stall /\ UNCHANGED <<quiet, short, deaf>> /\ pc = "byte"
    BY <1>2, <1>10, PulseSeenIs, PulseMissedIs DEF WriteBit
  <2>2. pc' = "byte" \/ pc' = "ack"
    BY <1>10 DEF WriteBit
  <2>3. ASSUME deaf, quiet \in 1 .. MaxAnswer PROVE Drowned'
    <3>1. Drowned
      BY <2>1, <2>3 DEF Settles, Settling
    <3>2. QED
      BY <1>10, <2>1, <2>3, <3>1, DrownedBit
  <2>4. QED
    BY <1>7, <2>1, <2>2, <2>3
<1>11. ASSUME NEW stall \in BOOLEAN, ReadAck(stall) PROVE Settling'
  <2>1. ~stall /\ UNCHANGED <<quiet, short, deaf>> /\ pc = "ack"
    BY <1>2, <1>11, PulseSeenIs, PulseMissedIs DEF ReadAck
  <2>2. pc' # "idle" /\ (leg' = "send" => pc' # "start")
    BY <1>11, AckLevels DEF Nacked, NextByte, RepeatedStart, AllSent
  <2>3. ASSUME deaf, quiet \in 1 .. MaxAnswer
        PROVE  /\ pc' # "stop" => Drowned'
               /\ pc' = "stop" => slave'.phase \in {"idle", "rx"} \/ Left(slave', quiet + 1)
    <3>1. Drowned
      BY <2>1, <2>3 DEF Settles, Settling
    <3>2. QED
      BY <1>11, <2>1, <2>3, <3>1, DrownedAck
  <2>4. QED
    BY <1>7, <2>1, <2>2, <2>3
<1>12. ASSUME NEW stall \in BOOLEAN, ReadBit(stall) PROVE Settling'
  <2>1. ~stall /\ UNCHANGED <<quiet, short, deaf>> /\ pc = "fetch"
    BY <1>2, <1>12, PulseSeenIs, PulseMissedIs DEF ReadBit
  <2>2. pc' = "fetch" \/ pc' = "reply"
    BY <1>12, <2>1 DEF ReadBit
  <2>3. ASSUME deaf, quiet \in 1 .. MaxAnswer PROVE Drowned'
    <3>1. Drowned
      BY <2>1, <2>3 DEF Settles, Settling
    <3>2. QED
      BY <1>12, <2>1, <2>3, <3>1, DrownedRead
  <2>4. QED
    BY <1>7, <2>1, <2>2, <2>3
<1>13. ASSUME NEW stall \in BOOLEAN, Reply(stall) PROVE Settling'
  <2>1. Pulse(IF LastOfRead THEN 1 ELSE 0, stall) /\ pc = "reply"
    BY <1>13 DEF Reply, ReplyBit
  <2>2. ~stall /\ UNCHANGED <<quiet, short, deaf>>
    BY <1>2, <2>1, PulseSeenIs, PulseMissedIs
  <2>3. pc' = "fetch" \/ pc' = "stop"
    BY <1>13 DEF Reply, ReplyBit
  <2>4. ASSUME deaf, quiet \in 1 .. MaxAnswer
        PROVE  /\ pc' # "stop" => Drowned'
               /\ pc' = "stop" => slave'.phase \in {"idle", "rx"} \/ Left(slave', quiet + 1)
    <3>1. Drowned
      BY <2>1, <2>2, <2>4 DEF Settles, Settling
    <3>2. QED
      BY <1>13, <2>1, <2>2, <2>4, <3>1, DrownedReply
  <2>5. leg' = leg /\ leg = "fetch"
    BY <1>13 DEF Reply, ReplyBit, Basic, MasterOK
  <2>6. QED
    BY <1>7, <2>2, <2>3, <2>4, <2>5
<1>14. CASE StopCondition
  <2>1. /\ pc = "stop" /\ pc' = "idle" /\ UNCHANGED <<quiet, short, deaf>>
        /\ slave' = IF Sda(1, slave) = 1 THEN IdleSlave ELSE slave
    BY <1>14 DEF StopCondition, Returned, ReleaseClock, history, faults
  <2>2. slave'.phase = "idle" \/ Left(slave', quiet + 1)
    <3>1. CASE slave.phase \in {"idle", "rx"}
      <4>1. 1 \in Bit
        BY DEF Bit
      <4>2. Sda(1, slave) = 1
        BY <1>3, <2>1, <3>1, <4>1, LevelIs
      <4>3. slave' = IdleSlave
        BY <2>1, <4>2
      <4>4. QED
        BY <4>3 DEF IdleSlave
    <3>2. CASE Left(slave, quiet + 1)
      <4>1. slave' = IdleSlave \/ slave' = slave
        BY <2>1
      <4>2. QED
        BY <3>2, <4>1 DEF IdleSlave
    <3>3. QED
      BY <2>1, <3>1, <3>2 DEF Settles, Settling
  <2>3. quiet' = QuietCap => ~deaf'
    BY <2>1 DEF Settles, Settling
  <2>4. QED
    BY <2>1, <2>2, <2>3 DEF Settling, QuietCap
<1>15. CASE ShortChanges
  BY <1>15 DEF ShortChanges, OtherFault
<1>16. ASSUME NEW drive \in 0 .. 1, Reset(drive) PROVE Settling'
  BY <1>16 DEF Reset, OtherFault
<1>17. QED
  BY <1>5, <1>6, <1>8, <1>9, <1>10, <1>11, <1>12, <1>13, <1>14, <1>15, <1>16 DEF Next, Master

LEMMA InitSettles == Init => Settles
BY DEF Init, Settles

LEMMA SettlesAlways == Spec => []Settles
<1>1. Basic /\ InStep /\ Settles /\ [Next]_vars => Settles'
  BY NextSettles
<1>2. QED
  BY <1>1, BasicAlways, InStepAlways, InitSettles, PTL DEF Spec

\* The chip is back, and seen to be, after as many transfers as its longest answer has
\* bytes, whatever faults left it where: for every answer.
THEOREM ChipRecovers == Spec => []RecoversInTime
<1>1. ASSUME Basic, InStep, Settles PROVE RecoversInTime
  <2> SUFFICES ASSUME pc = "idle", quiet = QuietCap, ~short
               PROVE  IF op.addr = Own THEN Done ELSE result = 2
    BY DEF RecoversInTime
  <2>1. quiet >= 1
    BY BoundsOK DEF QuietCap
  <2>2. ~slipped /\ ~shorted /\ ~deaf
    BY <1>1, <2>1 DEF Basic, FaultsOK, Settles, Settling
  <2>3. QED
    BY <1>1, <2>1, <2>2 DEF InStep, Coupled, AsAsked
<1>2. QED
  BY <1>1, BasicAlways, InStepAlways, SettlesAlways, PTL

-----------------------------------------------------------------------------
(* Registers.                                                               *)

\* Where the chip is taking bytes two transfers after a fault.
LEMMA TakingBytes ==
  ASSUME Basic, InStep, Settles, quiet >= 2, ~short, slave.phase = "rx",
         pc \notin {"idle", "stop"}
  PROVE  (pc = "byte" /\ InByte) \/ (pc = "start" /\ leg = "fetch")
<1>1. ~slipped /\ ~shorted /\ Settling /\ quiet # 1 /\ quiet \in Nat
  BY DEF Basic, FaultsOK, Settles, QuietCap
<1>2. ~Left(slave, quiet + 1) /\ ~Left(slave, quiet)
  BY DEF Left
<1>3. ~deaf
  <2>1. ~Drowned
    BY <1>1, <1>2 DEF Drowned, OldByte, FirstAfter, HeardAgain
  <2>2. QED
    BY <1>1, <2>1 DEF Settling
<1>4. Coupled
  BY <1>1, <1>3 DEF InStep
<1>5. pc # "ack" /\ pc # "fetch" /\ pc # "reply"
  BY <1>4 DEF Coupled, InAck, InFetch, InReply
<1>6. pc = "start" => leg # "send"
  BY <1>1, <1>2 DEF Settling
<1>7. QED
  BY <1>4, <1>5, <1>6 DEF Coupled, Basic, MasterOK

LEMMA NoStrayStep ==
  ASSUME Basic, InStep, Settles, [Next]_vars, mem' # mem, quiet >= 2, ~short
  PROVE  Len(op.out) = 2 /\ mem' = [mem EXCEPT ![op.out[1]] = op.out[2]]
<1>1. slave \in Slave /\ 1 \in Bit /\ 0 \in Bit
  BY DEF Basic, WireOK, Bit
<1>2. CASE UNCHANGED vars
  BY <1>2 DEF vars, wire
<1>3. ASSUME NEW t \in Transfer, BeginTransfer(t) PROVE FALSE
  BY <1>3 DEF BeginTransfer, wire
<1>4. CASE StartCondition
  <2>1. Sda(1, slave) # 1 /\ slave.phase = "rx"
    BY <1>4, MemKept DEF StartCondition
  <2>2. QED
    BY <1>1, <2>1, LevelIs
<1>5. CASE StartRefused
  <2>1. pc = "start" /\ scl /\ slave.phase = "rx"
    BY <1>5, MemKept DEF StartRefused
  <2>2. leg = "fetch"
    BY <2>1, TakingBytes
  <2>3. QED
    BY <2>1, <2>2 DEF Basic, MasterOK
<1>6. ASSUME NEW stall \in BOOLEAN, WriteBit(stall)
      PROVE  Len(op.out) = 2 /\ mem' = [mem EXCEPT ![op.out[1]] = op.out[2]]
  <2>1. ~stall /\ pc = "byte"
    BY <1>6, PulseMissedIs DEF WriteBit
  <2>2. slave.phase = "rx"
    BY <1>6, <2>1, PulseSeenIs, MemKept DEF WriteBit
  <2>3. InByte
    BY <2>1, <2>2, TakingBytes
  <2>4. /\ mem' = Written(slave, WireByte[nbit]) /\ slave.count + 1 = nbit
    BY <1>6, <2>1, <2>3, BitSeen DEF InByte
  <2>5. slave.expect = "data" /\ nbit = Bits
    BY <2>4 DEF Written, AtLastBit
  <2>6. WithBit(slave, WireByte[nbit]) = WireByte /\ AtLastBit(slave)
    BY <1>6, <2>1, <2>3, <2>5, ByteTaken DEF InByte
  <2>7. at = 2 /\ Len(op.out) = 2 /\ slave.cmd = op.out[1] /\ WireByte = op.out[2]
    <3>1. at # 0 /\ at # 1
      BY <2>2, <2>3, <2>5 DEF InByte, HasBits, Expects
    <3>2. at = 2 /\ Len(op.out) = 2
      <4>1. \A k, n \in 0 .. 2 : k # 0 /\ k # 1 /\ k <= n => k = 2 /\ n = 2
        OBVIOUS
      <4>2. at \in 0 .. 2 /\ at <= Len(op.out) /\ Len(op.out) \in 0 .. 2
        BY AtIs
      <4>3. QED
        BY ONLY <3>1, <4>1, <4>2
    <3>3. QED
      BY <2>3, <3>2 DEF InByte, Expects, WireByte
  <2>8. QED
    BY <2>2, <2>4, <2>5, <2>6, <2>7 DEF Written
<1>7. ASSUME NEW stall \in BOOLEAN, ReadAck(stall) PROVE FALSE
  <2>1. ~stall /\ pc = "ack"
    BY <1>7, PulseMissedIs DEF ReadAck
  <2>2. slave.phase = "rx"
    BY <1>7, <2>1, PulseSeenIs, MemKept DEF ReadAck
  <2>3. QED
    BY <2>1, <2>2, TakingBytes
<1>8. ASSUME NEW stall \in BOOLEAN, ReadBit(stall) PROVE FALSE
  <2>1. ~stall /\ pc = "fetch"
    BY <1>8, PulseMissedIs DEF ReadBit
  <2>2. slave.phase = "rx"
    BY <1>8, <2>1, PulseSeenIs, MemKept DEF ReadBit
  <2>3. QED
    BY <2>1, <2>2, TakingBytes
<1>9. ASSUME NEW stall \in BOOLEAN, Reply(stall) PROVE FALSE
  <2>1. Pulse(IF LastOfRead THEN 1 ELSE 0, stall) /\ pc = "reply"
    BY <1>9 DEF Reply, ReplyBit
  <2>2. ~stall
    BY <2>1, PulseMissedIs
  <2>3. slave.phase = "rx"
    BY <2>1, <2>2, PulseSeenIs, MemKept
  <2>4. QED
    BY <2>1, <2>3, TakingBytes
<1>10. CASE StopCondition \/ StopUnseen
  BY <1>10 DEF StopCondition, StopUnseen, ReleaseClock, PulseMissed
<1>11. CASE ShortChanges
  BY <1>11 DEF ShortChanges
<1>12. ASSUME NEW drive \in 0 .. 1, Reset(drive) PROVE FALSE
  BY <1>12 DEF Reset, ReleaseClock
<1>13. QED
  BY <1>2, <1>3, <1>4, <1>5, <1>6, <1>7, <1>8, <1>9, <1>10, <1>11, <1>12 DEF Next, Master

\* Two transfers after a fault a register only takes what the transfer in progress
\* asked for, whatever state the fault left the chip in.
THEOREM NothingElseIsWritten == Spec => NoStrayWrite
<1>1. /\ Basic /\ InStep /\ Settles /\ [Next]_vars
      => (mem' # mem /\ quiet >= 2 /\ ~short
            => Len(op.out) = 2 /\ mem' = [mem EXCEPT ![op.out[1]] = op.out[2]])
  BY NoStrayStep
<1>2. QED
  BY <1>1, BasicAlways, InStepAlways, SettlesAlways, PTL DEF Spec, NoStrayWrite
=============================================================================
