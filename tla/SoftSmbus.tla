----------------------------- MODULE SoftSmbus -----------------------------
(***************************************************************************)
(* The 48 V rail's bus: the bit-banged SMBus master (src/src/soft_smbus.cpp*)
(* class Master), the transfers the LM5066H1 driver makes on it, and the   *)
(* chip at the other end of the two wires.                                 *)
(*                                                                         *)
(* One step is one clock pulse, one START or one STOP.  The master's steps *)
(* take a `stall': somebody held SCL low past kClockStretchTimeoutUs.  The *)
(* master then goes on as if the clock had risen (only startCondition()    *)
(* looks at the answer), and the chip has seen no pulse at all.            *)
(*                                                                         *)
(* A byte is the sequence of its bits as they are on the wire, Bits of     *)
(* them instead of 8.  An address is a byte whose last bit, the direction, *)
(* is 0.                                                                   *)
(***************************************************************************)
EXTENDS Integers, Sequences

CONSTANTS
  Bits,      \* bits in a byte on the wire
  Own,       \* the chip's address
  Addresses, \* the addresses it may be looked for at
  Settings,  \* the codes of the chip's byte registers
  Values,    \* the values the firmware writes
  Answer,    \* the code of a word or block -> the bytes the chip answers
  MaxAnswer, \* no answer is longer
  Fetches,   \* how many bytes a read may ask for
  MaxLost,   \* bound: pulses lost in a behaviour
  MaxOther   \* bound: changes of a short and resets in a behaviour

Bit == {0, 1}
Byte == [1 .. Bits -> Bit]
Ones == [i \in 1 .. Bits |-> 1]
Zeros == [i \in 1 .. Bits |-> 0]

Readings == DOMAIN Answer
Commands == Settings \cup Readings

ASSUME BusAssumption ==
  /\ Bits \in Nat \ {0}
  /\ Own \in Byte /\ Own[Bits] = 0
  /\ Addresses \subseteq {addr \in Byte : addr[Bits] = 0}
  /\ Settings \subseteq Byte /\ Values \subseteq Byte
  /\ Readings \subseteq Byte /\ Settings \cap Readings = {}
  /\ Answer \in [Readings -> Seq(Byte)]
  /\ MaxAnswer \in Nat \ {0} /\ \A c \in Readings : Len(Answer[c]) <= MaxAnswer
  /\ Fetches \subseteq Nat \ {0}
  /\ MaxLost \in Nat /\ MaxOther \in Nat

(***************************************************************************)
(* One call of the driver: the bytes endTransmission() sends and how many  *)
(* requestFrom() fetches after a repeated START.  isPresent() only probes; *)
(* a chip that answered is sent bytes to.                                  *)
(***************************************************************************)
Probes == [addr : Addresses, out : {<<>>}, fetch : {0}]
SendBytes == [addr : {Own}, out : {<<c>> : c \in Commands}, fetch : {0}]
WriteBytes == [addr : {Own}, out : Settings \X Values, fetch : {0}]
Reads == [addr : {Own}, out : {<<c>> : c \in Commands}, fetch : Fetches]

Transfer == Probes \cup SendBytes \cup WriteBytes \cup Reads

VARIABLES
  pc,      \* where the master is in endTransmission() or requestFrom()
  op,      \* the transfer it is making, or made last
  leg,     \* "send": endTransmission(); "fetch": requestFrom()
  at,      \* the byte being written, 0 for the address
  nbit,    \* the bit of it, or of the byte being read
  shift,   \* readByteFromBus(): the bits read so far
  got,     \* rx_buffer_
  result,  \* what endTransmission() returned
  scl,     \* SCL is high
  short,   \* SDA is held low by neither of the two
  held,    \* SCL stayed low through the last pulse
  slave,   \* the chip's bus interface
  mem,     \* the chip's registers
  lost,    \* history: pulses lost so far
  other,   \* history: other faults so far
  slipped, \* history: a pulse of this transfer was lost
  shorted, \* history: SDA was held low at some time of this transfer
  deaf,    \* history: the chip missed a START of this transfer
  quiet    \* history: transfers begun since the last fault, capped

master == <<pc, op, leg, at, nbit, shift, got, result>>
wire == <<scl, short, held, slave, mem>>
faults == <<lost, other, slipped, shorted, quiet>>
history == <<faults, deaf>>
vars == <<master, wire, history>>

QuietCap == MaxAnswer + 1

Slave ==
  [phase : {"idle", "addr", "rx", "tx", "ack", "reply"},
   count : 0 .. Bits - 1, byte : Byte, next : {"rx", "tx"}, sent : 0 .. MaxAnswer + 1,
   expect : {"cmd", "data", "over"}, cmd : Commands \cup {<<>>}]

TypeOK ==
  /\ pc \in {"idle", "start", "byte", "ack", "fetch", "reply", "stop"}
  /\ op \in Transfer /\ leg \in {"send", "fetch"}
  /\ at \in 0 .. Len(op.out)
  /\ nbit \in 1 .. Bits /\ shift \in Byte
  /\ got \in Seq(Byte) /\ Len(got) <= op.fetch
  /\ result \in {0, 2, 3, 4}
  /\ scl \in BOOLEAN /\ short \in BOOLEAN /\ held \in BOOLEAN
  /\ slave \in Slave
  /\ mem \in [Settings -> Byte]
  /\ lost \in 0 .. MaxLost /\ other \in 0 .. MaxOther
  /\ slipped \in BOOLEAN /\ shorted \in BOOLEAN /\ deaf \in BOOLEAN
  /\ quiet \in 0 .. QuietCap

IdleSlave ==
  [phase |-> "idle", count |-> 0, byte |-> Zeros, next |-> "rx",
   sent |-> 0, expect |-> "cmd", cmd |-> <<>>]

Init ==
  /\ pc = "idle" /\ leg = "send" /\ at = 0 /\ nbit = 1 /\ shift = Zeros
  /\ op \in Probes
  /\ got = <<>> /\ result = 2
  /\ scl = TRUE /\ short = FALSE /\ held = FALSE /\ slave = IdleSlave
  /\ mem = [c \in Settings |-> Zeros]
  /\ lost = 0 /\ other = 0 /\ quiet = 0
  /\ slipped = FALSE /\ shorted = FALSE /\ deaf = FALSE

-----------------------------------------------------------------------------
(* The chip's interface.  It samples SDA while SCL is high and moves on     *)
(* when SCL falls; START and STOP are edges of SDA while SCL is high.       *)

HoldsSda(s) == s.phase = "ack" \/ (s.phase = "tx" /\ s.byte[s.count + 1] = 0)

\* SDA is a wired AND.
Sda(drive, s) == IF drive = 1 /\ ~short /\ ~HoldsSda(s) THEN 1 ELSE 0

WithBit(s, level) == [s.byte EXCEPT ![s.count + 1] = level]
AtLastBit(s) == s.count + 1 = Bits

AddressByte(addr, dir) == IF dir = "send" THEN addr ELSE [addr EXCEPT ![Bits] = 1]

Acked(s, next) == [s EXCEPT !.phase = "ack", !.next = next, !.count = 0, !.sent = 0,
                            !.byte = Zeros]

\* A whole byte came in: the address, a command, its data, or one too many.
TakeByte(s, byte) ==
  CASE s.phase = "addr" /\ byte = AddressByte(Own, "send") ->
         [Acked(s, "rx") EXCEPT !.expect = "cmd"]
    [] s.phase = "addr" /\ byte = AddressByte(Own, "fetch") -> Acked(s, "tx")
    [] s.phase = "rx" /\ s.expect = "cmd" /\ byte \in Commands ->
         [Acked(s, "rx") EXCEPT !.expect = IF byte \in Settings THEN "data"
                                                                 ELSE "over",
                                !.cmd = byte]
    [] s.phase = "rx" /\ s.expect = "data" ->
         [Acked(s, "rx") EXCEPT !.expect = "over"]
    [] OTHER -> IdleSlave

\* What the chip answers to a command; past its own bytes it leaves SDA released.
Content(cmd) ==
  IF cmd \in Settings THEN <<mem[cmd]>> ELSE IF cmd \in Readings THEN Answer[cmd] ELSE <<>>

AnswerByte(cmd, k) == IF k <= Len(Content(cmd)) THEN Content(cmd)[k] ELSE Ones

Sending(s) ==
  [s EXCEPT !.phase = "tx", !.count = 0, !.byte = AnswerByte(s.cmd, s.sent + 1),
            !.sent = IF s.sent <= MaxAnswer THEN s.sent + 1 ELSE s.sent]

\* A pulse with SDA at `level'.
Clocked(s, level) ==
  CASE s.phase \in {"addr", "rx"} /\ AtLastBit(s) -> TakeByte(s, WithBit(s, level))
    [] s.phase \in {"addr", "rx"} /\ ~AtLastBit(s) ->
         [s EXCEPT !.byte = WithBit(s, level), !.count = @ + 1]
    [] s.phase = "ack" /\ s.next = "rx" -> [s EXCEPT !.phase = "rx"]
    [] s.phase = "ack" /\ s.next = "tx" -> Sending(s)
    [] s.phase = "tx" /\ AtLastBit(s) -> [s EXCEPT !.phase = "reply", !.count = 0]
    [] s.phase = "tx" /\ ~AtLastBit(s) -> [s EXCEPT !.count = @ + 1]
    [] s.phase = "reply" /\ level = 0 -> Sending(s)
    [] OTHER -> IdleSlave

\* The register a pulse writes, if it ends a data byte.
Written(s, level) ==
  IF s.phase = "rx" /\ s.expect = "data" /\ AtLastBit(s)
    THEN [mem EXCEPT ![s.cmd] = WithBit(s, level)]
    ELSE mem

Started(s) == [s EXCEPT !.phase = "addr", !.count = 0, !.byte = Zeros]

\* SCL was held low past 25 ms: the chip sees no pulse and may reset its
\* interface (tPMB-TIMEOUT, 25 .. 35 ms); held through two, it must have.
Stalled(s) == IF held THEN {IdleSlave} ELSE {s, IdleSlave}

PulseLost ==
  /\ lost < MaxLost
  /\ lost' = lost + 1
  /\ held' = TRUE /\ slipped' = TRUE /\ quiet' = 0
  /\ UNCHANGED <<other, shorted, deaf>>

OtherFault ==
  /\ other < MaxOther
  /\ other' = other + 1
  /\ quiet' = 0
  /\ UNCHANGED <<lost, slipped, deaf>>

PulseSeen(drive) ==
  /\ slave' = Clocked(slave, Sda(drive, slave))
  /\ mem' = Written(slave, Sda(drive, slave))
  /\ held' = FALSE
  /\ UNCHANGED history

PulseMissed ==
  /\ PulseLost
  /\ slave' \in Stalled(slave)
  /\ UNCHANGED mem

\* Both halves of a pulse with the master driving `drive', or a pulse lost.
Pulse(drive, stall) ==
  /\ IF stall THEN PulseMissed ELSE PulseSeen(drive)
  /\ UNCHANGED <<scl, short>>

-----------------------------------------------------------------------------
(* Master.                                                                  *)

\* Mutant of TxBuffer: beginTransmission() does not empty the buffer.
TxBufferKept(t) == op.out \o t.out

\* beginTransmission() and write(): the bytes of this transfer only.
TxBuffer(t) == t.out

BeginTransfer(t) ==
  /\ pc = "idle"
  /\ pc' = "start" /\ op' = [t EXCEPT !.out = TxBuffer(t)]
  /\ leg' = "send" /\ at' = 0
  /\ nbit' = 1 /\ shift' = Zeros /\ got' = <<>> /\ result' = 0
  /\ slipped' = FALSE /\ shorted' = short /\ deaf' = FALSE
  /\ quiet' = IF quiet = QuietCap THEN quiet ELSE quiet + 1
  /\ UNCHANGED <<wire, lost, other>>

\* The chip sees a START only when nothing else holds SDA low.
StartCondition ==
  /\ pc = "start"
  /\ pc' = "byte"
  /\ scl' = FALSE /\ held' = FALSE
  /\ IF Sda(1, slave) = 1
       THEN slave' = Started(slave) /\ UNCHANGED <<mem, deaf>>
       ELSE /\ slave' = Clocked(slave, 0) /\ mem' = Written(slave, 0)
            /\ deaf' = TRUE
  /\ UNCHANGED <<op, leg, at, nbit, shift, got, result, short, faults>>

\* SCL does not come up: endTransmission() returns 4, requestFrom() nothing.
StartRefused ==
  /\ pc = "start"
  /\ PulseLost
  /\ pc' = "stop"
  /\ result' = IF leg = "send" THEN 4 ELSE result
  /\ scl' = FALSE
  /\ slave' \in Stalled(IF scl THEN Clocked(slave, Sda(1, slave)) ELSE slave)
  /\ mem' = IF scl THEN Written(slave, Sda(1, slave)) ELSE mem
  /\ UNCHANGED <<op, leg, at, nbit, shift, got, short>>

\* The byte on the wire: the address with its direction, then the buffer.
WireByte == IF at = 0 THEN AddressByte(op.addr, leg) ELSE op.out[at]

\* writeBit(): the answer of sclReleaseAndWait() is thrown away.
WriteBit(stall) ==
  /\ pc = "byte"
  /\ Pulse(WireByte[nbit], stall)
  /\ IF nbit = Bits THEN pc' = "ack" /\ nbit' = 1
                    ELSE nbit' = nbit + 1 /\ UNCHANGED pc
  /\ UNCHANGED <<op, leg, at, shift, got, result>>

\* digitalRead(SDA) at the end of the high phase.  When SCL never rose the chip
\* may have let go of SDA by then, or not yet.
Sampled(stall) == {Sda(1, slave)} \cup IF stall THEN {Sda(1, slave')} ELSE {}

Nacked ==
  /\ pc' = "stop"
  /\ result' = CASE leg = "fetch" -> result
                 [] leg = "send" /\ at = 0 -> 2
                 [] leg = "send" /\ at > 0 -> 3
  /\ UNCHANGED <<leg, at>>

NextByte ==
  /\ leg = "send" /\ at < Len(op.out)
  /\ pc' = "byte" /\ at' = at + 1
  /\ UNCHANGED leg

\* endTransmission(false), then requestFrom() with its own START and address.
RepeatedStart ==
  /\ leg = "send" /\ at = Len(op.out) /\ op.fetch > 0
  /\ pc' = "start" /\ leg' = "fetch" /\ at' = 0

AllSent ==
  /\ IF leg = "send" THEN at = Len(op.out) /\ op.fetch = 0 /\ pc' = "stop"
                     ELSE pc' = "fetch"
  /\ UNCHANGED <<leg, at>>

\* Mutant of IsAck: nobody looks.
IsAckAlways(level) == TRUE

IsAck(level) == level = 0

\* The ninth bit: SDA low is an acknowledge, whoever holds it.
ReadAck(stall) ==
  /\ pc = "ack"
  /\ Pulse(1, stall)
  /\ \E level \in Sampled(stall) :
       \/ ~IsAck(level) /\ Nacked
       \/ IsAck(level) /\ (NextByte \/ RepeatedStart \/ AllSent)
                       /\ UNCHANGED result
  /\ UNCHANGED <<op, nbit, shift, got>>

ReadBit(stall) ==
  /\ pc = "fetch"
  /\ Pulse(1, stall)
  /\ \E level \in Sampled(stall) : shift' = [shift EXCEPT ![nbit] = level]
  /\ IF nbit = Bits THEN pc' = "reply" /\ nbit' = 1
                    ELSE nbit' = nbit + 1 /\ UNCHANGED pc
  /\ UNCHANGED <<op, leg, at, got, result>>

LastOfRead == Len(got) + 1 = op.fetch

\* Mutant of ReplyBit: no byte of an answer is acknowledged.
ReplyBitHigh == 1

\* The master acknowledges every byte but the last.
ReplyBit == IF LastOfRead THEN 1 ELSE 0

Reply(stall) ==
  /\ pc = "reply"
  /\ Pulse(ReplyBit, stall)
  /\ got' = Append(got, shift) /\ shift' = Zeros
  /\ pc' = IF LastOfRead THEN "stop" ELSE "fetch"
  /\ UNCHANGED <<op, leg, at, nbit, result>>

\* endTransmission() or requestFrom() returns; its locals are gone.
Returned ==
  pc' = "idle" /\ leg' = "send" /\ at' = 0 /\ nbit' = 1 /\ shift' = Zeros

\* The clock comes up with SDA at `drive', then SDA is let go: a STOP when it
\* was low and nobody else holds it.
ReleaseClock(drive) ==
  /\ held' = FALSE
  /\ scl' = TRUE
  /\ slave' = IF drive = 0 /\ Sda(1, slave) = 1 THEN IdleSlave ELSE slave
  /\ UNCHANGED <<short, mem>>

StopCondition ==
  /\ pc = "stop"
  /\ Returned
  /\ ReleaseClock(0)
  /\ UNCHANGED <<op, got, result, history>>

\* SCL stays low: SDA is let go under it and the chip sees no STOP.
StopUnseen ==
  /\ pc = "stop"
  /\ PulseMissed
  /\ Returned
  /\ UNCHANGED <<op, got, result, scl, short>>

-----------------------------------------------------------------------------
(* Faults.                                                                  *)

\* SDA shorted to ground, or let go: on an idle bus the chip takes the edge for
\* a START or a STOP.
ShortChanges ==
  /\ OtherFault
  /\ short' = ~short
  /\ shorted' = TRUE
  /\ slave' = IF scl /\ ~HoldsSda(slave)
               THEN IF short THEN IdleSlave ELSE Started(slave)
               ELSE slave
  /\ UNCHANGED <<master, scl, held, mem>>

\* A reset of the microcontroller floats both lines at once, in the middle of
\* whatever the chip was doing; begin() clocks nothing out.
Reset(drive) ==
  /\ pc # "idle"
  /\ OtherFault
  /\ Returned /\ result' = 4 /\ got' = <<>>
  /\ ReleaseClock(drive)
  /\ UNCHANGED <<op, shorted>>

Master ==
  \/ \E t \in Transfer : BeginTransfer(t)
  \/ StartCondition
  \/ StartRefused
  \/ \E stall \in BOOLEAN :
       WriteBit(stall) \/ ReadAck(stall) \/ ReadBit(stall) \/ Reply(stall)
  \/ StopCondition
  \/ StopUnseen

Next ==
  \/ Master
  \/ ShortChanges
  \/ \E drive \in 0 .. 1 : Reset(drive)

Spec == Init /\ [][Next]_vars

-----------------------------------------------------------------------------
(* Properties.                                                             *)

\* The driver's helper returns true: endTransmission() said 0 and requestFrom()
\* brought what was asked for.
Done == result = 0 /\ Len(got) = op.fetch

\* A byte write the driver reports done was taken by the chip, with the value
\* asked for, whatever pulses were lost: a slipped bit costs an acknowledge, and the
\* chip's own timeout clears the one it might still be giving.  Two things fake
\* one: SDA held low from outside, and a chip that is still in an answer of an
\* earlier transfer, which hears no START and whose zeros are acknowledges.
\* (soft_smbus.cpp: writeByteOnBus() on SDA, writeBit() ignoring the clock,
\* startCondition() not looking at SDA.)
DoneWasTaken ==
  pc = "idle" /\ Len(op.out) = 2 /\ Done /\ ~shorted /\ ~deaf
    => mem[op.out[1]] = op.out[2]

\* A read the driver reports done brought the chip's bytes, unless one of its own
\* pulses was lost, SDA was held low or the chip missed its START: what happened
\* in earlier transfers never shifts it.  (requestFrom() returns its count
\* whatever it read.)
DoneReadIsExact ==
  pc = "idle" /\ op.fetch > 0 /\ Done /\ ~shorted /\ ~slipped /\ ~deaf
    => \A k \in 1 .. op.fetch : got[k] = AnswerByte(op.out[1], k)

\* Whatever state a lost pulse, a short or a reset in mid-transfer left the chip
\* in, it is out of it after as many transfers as its longest answer has bytes:
\* the one after those does what it says, and an absent address is seen absent.
\* (begin() clocks nothing out, and no transfer looks whether SDA is free.)
RecoversInTime ==
  pc = "idle" /\ quiet = QuietCap /\ ~short
    => IF op.addr = Own THEN Done ELSE result = 2

\* A register of the chip only changes to what the transfer in progress asked
\* for, but for the faulty transfer itself and the one after it, whose address
\* byte a chip left in mid-write takes for data.
NoStrayWrite ==
  [][mem' # mem /\ quiet >= 2 /\ ~short
       => Len(op.out) = 2 /\ mem' = [mem EXCEPT ![op.out[1]] = op.out[2]]]_vars
=============================================================================
