----------------------------- MODULE ControlApi -----------------------------
(***************************************************************************)
(* The request protocol of the I2C control API (src/src/control_api.cpp).  *)
(*                                                                         *)
(* RG writes a request into one of two registers: a command, or a PMBus    *)
(* bridge request.  The I2C interrupt leaves it in the one slot of its     *)
(* channel; loop() takes it, carries it out, and publishes a result with   *)
(* the next value of a sequence that both channels share.  RG reads the    *)
(* result register, as the README's example does, until its sequence is    *)
(* not the one it saw before.                                              *)
(*                                                                         *)
(* The interrupt may come between any two steps of loop(), which masks it  *)
(* while it takes a slot and while it publishes a result, except for the   *)
(* result of ResetDevice.  A request is a number: the requests of a        *)
(* channel are numbered as RG writes them, and 0 is none.  A result is the *)
(* numbers of the requests its fields are about.                           *)
(***************************************************************************)
EXTENDS Integers

CONSTANTS
  Wrap,       \* 256, the modulus of s_sequence
  MaxWritten, \* bound: requests RG writes per channel
  MaxBurst    \* bound: requests on one channel between two of the other

\* The bound on bursts is the host's side of the protocol.  Between two results of
\* a channel the other may serve what was in its slot, a burst before the second
\* request and one after it, and the second result takes a number itself.  One
\* more and RG does not see that it changed.
ASSUME BurstAssumption ==
  /\ Wrap \in Nat /\ MaxWritten \in Nat /\ MaxBurst \in Nat
  /\ 2 * MaxBurst + 2 < Wrap

Channel == {"command", "bridge"}
Other(ch) == IF ch = "command" THEN "bridge" ELSE "command"
Request == 0 .. MaxWritten

VARIABLES
  pc,       \* the channel loop() serves next, or "reset" in ResetDevice
  pending,  \* channel -> the request in its slot
  taken,    \* the request being carried out
  sequence, \* s_sequence
  result,   \* channel -> what its result register holds
  unsaid,   \* the fields of a ResetDevice result still to be written
  written,  \* channel -> requests RG has written so far
  awaited,  \* channel -> the request RG polls for
  seen,     \* channel -> the sequence of the last result RG took
  burst,    \* channel -> requests written on the other one since its own last
  done,     \* history: channel -> the last request carried out or lost
  clean     \* history: the channels whose answers RG has not lost track of

device == <<pc, pending, taken, sequence, result, unsaid>>
host == <<written, awaited, seen, burst>>
vars == <<device, host, done, clean>>

Field == {"sequence", "status", "command"}

TypeOK ==
  /\ pc \in Channel \cup {"reset"}
  /\ pending \in [Channel -> Request]
  /\ taken \in Request
  /\ sequence \in 0 .. Wrap - 1
  /\ result \in [Channel -> [sequence : 0 .. Wrap - 1, busy : {FALSE},
                             status : Request, command : Request]]
  /\ unsaid \subseteq Field
  /\ written \in [Channel -> Request] /\ awaited \in [Channel -> Request]
  /\ seen \in [Channel -> 0 .. Wrap - 1]
  /\ burst \in [Channel -> 0 .. MaxBurst]
  /\ done \in [Channel -> Request]
  /\ clean \subseteq Channel

None == [ch \in Channel |-> 0]

ZeroResult == [sequence |-> 0, busy |-> FALSE, status |-> 0, command |-> 0]

Init ==
  /\ pc = "command"
  /\ pending = None /\ taken = 0 /\ sequence = 0
  /\ result = [ch \in Channel |-> ZeroResult] /\ unsaid = {}
  /\ written = None /\ awaited = None /\ seen = None /\ burst = None
  /\ done = None
  /\ clean = Channel

-----------------------------------------------------------------------------
(* The I2C interrupt, as RG drives it.                                     *)

\* The channel whose request loop() has taken; ResetDevice is a command.
InHand(ch) ==
  taken # 0 /\ pc \in (IF ch = "command" THEN {ch, "reset"} ELSE {ch})

InFlight(ch) == pending[ch] # 0 \/ InHand(ch)

\* onReceive(): whatever was in the slot is overwritten.
Write(ch) ==
  /\ awaited[ch] = 0
  /\ written[ch] < MaxWritten /\ burst[Other(ch)] < MaxBurst
  /\ written' = [written EXCEPT ![ch] = @ + 1]
  /\ pending' = [pending EXCEPT ![ch] = written'[ch]]
  /\ awaited' = [awaited EXCEPT ![ch] = written'[ch]]
  /\ burst' = [burst EXCEPT ![ch] = 0, ![Other(ch)] = @ + 1]
  /\ UNCHANGED <<pc, taken, sequence, result, unsaid, seen, done, clean>>

\* onRequest(): RG reads the result and takes a new sequence for its answer.
TakeAnswer(ch) ==
  /\ awaited[ch] # 0
  /\ result[ch].sequence # seen[ch]
  /\ seen' = [seen EXCEPT ![ch] = result[ch].sequence]
  /\ awaited' = [awaited EXCEPT ![ch] = 0]
  /\ UNCHANGED <<device, written, burst, done, clean>>

\* RG reads the result while it waits for nothing: it is back on track when
\* none of its requests is left in the device.
Resync(ch) ==
  /\ awaited[ch] = 0
  /\ seen' = [seen EXCEPT ![ch] = result[ch].sequence]
  /\ clean' = IF InFlight(ch) THEN clean ELSE clean \cup {ch}
  /\ UNCHANGED <<device, written, awaited, burst, done>>

\* RG's timeout.
GiveUp(ch) ==
  /\ awaited[ch] # 0
  /\ awaited' = [awaited EXCEPT ![ch] = 0]
  /\ clean' = clean \ {ch}
  /\ UNCHANGED <<device, written, seen, burst, done>>

-----------------------------------------------------------------------------
(* loop(): tick() serves one command, then one bridge request.             *)

\* Mutant of NextSequence: the sequence is wider than its field.
NextSequenceUnwrapped == sequence + 1

NextSequence == (sequence + 1) % Wrap

Skip(ch) ==
  /\ pc = ch /\ taken = 0 /\ pending[ch] = 0
  /\ pc' = Other(ch)
  /\ UNCHANGED <<pending, taken, sequence, result, unsaid, host, done, clean>>

\* Mutant of Take: the pending flag is not cleared.
TakeAndKeep(ch) ==
  /\ pc = ch /\ taken = 0 /\ pending[ch] # 0
  /\ taken' = pending[ch]
  /\ UNCHANGED <<pc, pending, sequence, result, unsaid, host, done, clean>>

Take(ch) ==
  /\ pc = ch /\ taken = 0 /\ pending[ch] # 0
  /\ taken' = pending[ch]
  /\ pending' = [pending EXCEPT ![ch] = 0]
  /\ UNCHANGED <<pc, sequence, result, unsaid, host, done, clean>>

\* Mutants of Publish: the pending flag is cleared at the end; the result gets
\* the sequence before it is incremented.
PublishAndClear(ch) ==
  /\ pc = ch /\ taken # 0
  /\ sequence' = NextSequence
  /\ result' = [result EXCEPT ![ch] = [sequence |-> sequence', busy |-> FALSE,
                                       status |-> taken, command |-> taken]]
  /\ pending' = [pending EXCEPT ![ch] = 0]
  /\ done' = [done EXCEPT ![ch] = taken]
  /\ taken' = 0
  /\ pc' = Other(ch)
  /\ UNCHANGED <<unsaid, host, clean>>

PublishPostIncremented(ch) ==
  /\ pc = ch /\ taken # 0
  /\ sequence' = NextSequence
  /\ result' = [result EXCEPT ![ch] = [sequence |-> sequence, busy |-> FALSE,
                                       status |-> taken, command |-> taken]]
  /\ done' = [done EXCEPT ![ch] = taken]
  /\ taken' = 0
  /\ pc' = Other(ch)
  /\ UNCHANGED <<pending, unsaid, host, clean>>

\* The request has been carried out, well or badly.
Publish(ch) ==
  /\ pc = ch /\ taken # 0
  /\ sequence' = NextSequence
  /\ result' = [result EXCEPT ![ch] = [sequence |-> sequence', busy |-> FALSE,
                                       status |-> taken, command |-> taken]]
  /\ done' = [done EXCEPT ![ch] = taken]
  /\ taken' = 0
  /\ pc' = Other(ch)
  /\ UNCHANGED <<pending, unsaid, host, clean>>

\* The command is ResetDevice.  Its result is written in place, in an order the
\* compiler chooses and with interrupts on; then the device resets itself.
StartResetDevice ==
  /\ pc = "command" /\ taken # 0
  /\ pc' = "reset"
  /\ sequence' = NextSequence
  /\ unsaid' = Field
  /\ clean' = clean \ {"command"}
  /\ UNCHANGED <<pending, taken, result, host, done>>

SayResetDevice(field) ==
  /\ field \in unsaid
  /\ unsaid' = unsaid \ {field}
  /\ result' = [result EXCEPT !["command"][field] =
                  IF field = "sequence" THEN sequence ELSE taken]
  /\ UNCHANGED <<pc, pending, taken, sequence, host, done, clean>>

\* RAM is zeroed, and what RG has in the device is lost with it.
Restart ==
  /\ pc' = "command"
  /\ pending' = None /\ taken' = 0 /\ sequence' = 0
  /\ result' = [ch \in Channel |-> ZeroResult] /\ unsaid' = {}
  /\ done' = written
  /\ clean' = {}
  /\ UNCHANGED host

\* recordAndReset(), once the result is written.
FinishResetDevice ==
  /\ pc = "reset" /\ unsaid = {}
  /\ Restart

\* The watchdog, or the supply.
Reset ==
  /\ written # None
  /\ Restart

-----------------------------------------------------------------------------
Interrupt == \E ch \in Channel : Write(ch) \/ TakeAnswer(ch) \/ Resync(ch)

\* One step of loop() on a channel.
Serve(ch) == Skip(ch) \/ Take(ch) \/ Publish(ch)

ResetDevice ==
  \/ StartResetDevice
  \/ \E field \in Field : SayResetDevice(field)
  \/ FinishResetDevice

Next ==
  \/ Interrupt
  \/ \E ch \in Channel : GiveUp(ch) \/ Serve(ch)
  \/ ResetDevice
  \/ Reset

Spec == Init /\ [][Next]_vars

\* loop() goes on for ever, and RG goes on polling while it waits.
FairSpec ==
  /\ Spec
  /\ WF_vars((\E ch \in Channel : Serve(ch)) \/ ResetDevice)
  /\ \A ch \in Channel : WF_vars(TakeAnswer(ch))

-----------------------------------------------------------------------------
(* Properties.                                                             *)

\* No request is carried out twice and none after a later one: what is in hand
\* or in the slot is always newer than what was done on its channel, whenever
\* the interrupt came.  (processCommand, processBridge: the flag is cleared
\* with the copy, under the same mask.)
OnceInOrder ==
  \A ch \in Channel :
    /\ pending[ch] # 0 => done[ch] < pending[ch]
    /\ InHand(ch) => done[ch] < taken
    /\ InHand(ch) /\ pending[ch] # 0 => taken < pending[ch]

\* The one-slot mailbox may drop an older request but never the newest: it is
\* waiting, in hand, or done, or a reset took it.
NewestKept ==
  \A ch \in Channel :
    \/ written[ch] \in {pending[ch], done[ch]}
    \/ InHand(ch) /\ taken = written[ch]

\* An RG that has not lost track of a channel, and sees a new sequence there,
\* has the result of the very request it waits for: neither an older result nor
\* half of one, although the two channels share the sequence and it wraps.
AnswerIsOwn ==
  [][\A ch \in Channel :
       TakeAnswer(ch) /\ ch \in clean
         => /\ result[ch].status = awaited[ch]
            /\ result[ch].command = awaited[ch]]_vars

\* Such an RG gets its answer, unless it gives up or the device resets first.
AnswerComes ==
  \A ch \in Channel :
    awaited[ch] # 0 /\ ch \in clean ~> awaited[ch] = 0 \/ ch \notin clean

\* The README's typical command flow: once `busy` reads 0 the result is that of
\* the command just written.
NotBusyMeansAnswered ==
  awaited["command"] # 0 /\ "command" \in clean
    => result["command"].busy \/ result["command"].command = awaited["command"]
=============================================================================
