--------------------------- MODULE ControlApi_proofs ---------------------------
(***************************************************************************)
(* What is proved of the request mailboxes for every Wrap, MaxWritten and  *)
(* MaxBurst: no request is carried out twice or after a later one, the     *)
(* newest is never dropped, and what RG takes for its answer is its answer, *)
(* wherever the interrupt falls.                                           *)
(***************************************************************************)
EXTENDS ControlApi, TLAPS

LEMMA NextSequenceType ==
  ASSUME sequence \in 0 .. Wrap - 1
  PROVE  NextSequence \in 0 .. Wrap - 1
BY BurstAssumption DEF NextSequence

ResultRecord == [sequence : 0 .. Wrap - 1, busy : {FALSE},
                 status : Request, command : Request]

\* Saying one field of the ResetDevice result keeps the type of the registers.
LEMMA SaidType ==
  ASSUME result \in [Channel -> ResultRecord], sequence \in 0 .. Wrap - 1,
         taken \in Request, NEW field \in Field, SayResetDevice(field)
  PROVE  result' \in [Channel -> ResultRecord]
<1> DEFINE old == result["command"]
           new == [old EXCEPT ![field] = IF field = "sequence" THEN sequence
                                                               ELSE taken]
<1>1. old \in ResultRecord
  BY DEF Channel
<1>2. new \in ResultRecord
  <2>1. CASE field = "sequence"
    BY <1>1, <2>1 DEF ResultRecord
  <2>2. CASE field = "status"
    BY <1>1, <2>2 DEF ResultRecord
  <2>3. CASE field = "command"
    BY <1>1, <2>3 DEF ResultRecord
  <2>4. QED
    BY <2>1, <2>2, <2>3 DEF Field
<1> HIDE DEF new
<1>3. result' = [result EXCEPT !["command"] = new]
  BY DEF SayResetDevice, new
<1>4. QED
  BY <1>2, <1>3

-----------------------------------------------------------------------------
(* Type correctness.                                                       *)

DeviceType ==
  /\ pc \in Channel \cup {"reset"}
  /\ pending \in [Channel -> Request]
  /\ taken \in Request
  /\ sequence \in 0 .. Wrap - 1
  /\ result \in [Channel -> ResultRecord]
  /\ unsaid \subseteq Field

HostType ==
  /\ written \in [Channel -> Request] /\ awaited \in [Channel -> Request]
  /\ seen \in [Channel -> 0 .. Wrap - 1]
  /\ burst \in [Channel -> 0 .. MaxBurst]
  /\ done \in [Channel -> Request]
  /\ clean \subseteq Channel

LEMMA TypeSplit == TypeOK <=> DeviceType /\ HostType
BY DEF TypeOK, DeviceType, HostType, ResultRecord

LEMMA ZeroTypes ==
  /\ None \in [Channel -> Request]
  /\ None \in [Channel -> 0 .. Wrap - 1]
  /\ None \in [Channel -> 0 .. MaxBurst]
  /\ [ch \in Channel |-> ZeroResult] \in [Channel -> ResultRecord]
  /\ 0 \in Request /\ 0 \in 0 .. Wrap - 1
<1>1. 0 \in Request /\ 0 \in 0 .. Wrap - 1 /\ 0 \in 0 .. MaxBurst
  BY BurstAssumption DEF Request
<1>2. ZeroResult \in ResultRecord
  BY <1>1 DEF ZeroResult, ResultRecord
<1>3. QED
  BY <1>1, <1>2 DEF None

LEMMA InitTypes == Init => TypeOK
<1> SUFFICES ASSUME Init PROVE DeviceType /\ HostType
  BY TypeSplit
<1>1. DeviceType
  BY ZeroTypes DEF Init, DeviceType, Channel
<1>2. HostType
  BY ZeroTypes DEF Init, HostType
<1>3. QED
  BY <1>1, <1>2

LEMMA PublishTypes ==
  ASSUME DeviceType, HostType, NEW ch \in Channel, Publish(ch)
  PROVE  DeviceType' /\ HostType'
<1> DEFINE new == [sequence |-> sequence', busy |-> FALSE,
                   status |-> taken, command |-> taken]
<1>1. sequence' \in 0 .. Wrap - 1
  BY NextSequenceType DEF Publish, DeviceType
<1>2. new \in ResultRecord
  BY <1>1 DEF ResultRecord, DeviceType
<1> HIDE DEF new
<1>3. result' = [result EXCEPT ![ch] = new]
  BY DEF Publish, new
<1>4. result' \in [Channel -> ResultRecord]
  BY <1>2, <1>3 DEF DeviceType
<1>5. DeviceType'
  BY <1>1, <1>4, ZeroTypes DEF Publish, DeviceType, Other, Channel
<1>6. HostType'
  BY DEF Publish, HostType, DeviceType, host
<1>7. QED
  BY <1>5, <1>6

LEMMA RestartTypes ==
  ASSUME DeviceType, HostType, Restart
  PROVE  DeviceType' /\ HostType'
<1>1. DeviceType'
  BY ZeroTypes DEF Restart, DeviceType, Channel
<1>2. HostType'
  BY DEF Restart, HostType, host
<1>3. QED
  BY <1>1, <1>2

LEMMA HostStepTypes ==
  ASSUME DeviceType, HostType, NEW ch \in Channel,
         Write(ch) \/ TakeAnswer(ch) \/ Resync(ch) \/ GiveUp(ch)
  PROVE  DeviceType' /\ HostType'
<1>1. CASE Write(ch)
  <2>1. written[ch] + 1 \in Request
    BY <1>1, BurstAssumption DEF Write, HostType, Request
  <2>2. /\ written' \in [Channel -> Request] /\ awaited' \in [Channel -> Request]
        /\ pending' \in [Channel -> Request]
    BY <1>1, <2>1 DEF Write, HostType, DeviceType
  <2>3. burst' \in [Channel -> 0 .. MaxBurst]
    BY <1>1, BurstAssumption DEF Write, HostType, Other, Channel
  <2>4. QED
    BY <1>1, <2>2, <2>3 DEF Write, HostType, DeviceType
<1>2. CASE TakeAnswer(ch)
  <2>1. result[ch].sequence \in 0 .. Wrap - 1
    BY DEF DeviceType, ResultRecord
  <2>2. QED
    BY <1>2, <2>1, ZeroTypes, BurstAssumption
    DEF TakeAnswer, HostType, DeviceType, device
<1>3. CASE Resync(ch)
  <2>1. result[ch].sequence \in 0 .. Wrap - 1
    BY DEF DeviceType, ResultRecord
  <2>2. QED
    BY <1>3, <2>1, BurstAssumption DEF Resync, HostType, DeviceType, device
<1>4. CASE GiveUp(ch)
  BY <1>4, ZeroTypes DEF GiveUp, HostType, DeviceType, device
<1>5. QED
  BY <1>1, <1>2, <1>3, <1>4

LEMMA ResetDeviceTypes ==
  ASSUME DeviceType, HostType, ResetDevice
  PROVE  DeviceType' /\ HostType'
<1>1. CASE StartResetDevice
  BY <1>1, NextSequenceType DEF StartResetDevice, DeviceType, HostType, host
<1>2. ASSUME NEW field \in Field, SayResetDevice(field)
      PROVE  DeviceType' /\ HostType'
  BY <1>2, SaidType DEF SayResetDevice, DeviceType, HostType, host
<1>3. CASE FinishResetDevice
  BY <1>3, RestartTypes DEF FinishResetDevice
<1>4. QED
  BY <1>1, <1>2, <1>3 DEF ResetDevice

LEMMA TypesPreserved == TypeOK /\ [Next]_vars => TypeOK'
<1> SUFFICES ASSUME DeviceType, HostType, [Next]_vars
             PROVE  DeviceType' /\ HostType'
  BY TypeSplit DEF TypeOK, DeviceType, HostType, ResultRecord
<1>1. ASSUME NEW ch \in Channel,
             Write(ch) \/ TakeAnswer(ch) \/ Resync(ch) \/ GiveUp(ch)
      PROVE  DeviceType' /\ HostType'
  BY <1>1, HostStepTypes
<1>2. ASSUME NEW ch \in Channel, Skip(ch)
      PROVE  DeviceType' /\ HostType'
  BY <1>2 DEF Skip, Other, Channel, DeviceType, HostType, host
<1>3. ASSUME NEW ch \in Channel, Take(ch)
      PROVE  DeviceType' /\ HostType'
  BY <1>3, ZeroTypes DEF Take, DeviceType, HostType, host
<1>4. ASSUME NEW ch \in Channel, Publish(ch)
      PROVE  DeviceType' /\ HostType'
  BY <1>4, PublishTypes
<1>5. CASE ResetDevice
  BY <1>5, ResetDeviceTypes
<1>6. CASE Reset
  BY <1>6, RestartTypes DEF Reset
<1>7. CASE UNCHANGED vars
  BY <1>7 DEF vars, device, host, DeviceType, HostType
<1>8. QED
  BY <1>1, <1>2, <1>3, <1>4, <1>5, <1>6, <1>7 DEF Next, Interrupt, Serve

\* Every variable keeps its type; in particular the sequence stays a byte and
\* RG's burst within its bound.
THEOREM TypeCorrect == Spec => []TypeOK
<1>1. QED
  BY InitTypes, TypesPreserved, PTL DEF Spec

-----------------------------------------------------------------------------
(* The mailboxes.  OnceInOrder and NewestKept are inductive together with  *)
(* the bound that nothing in the device is newer than what RG wrote.       *)

NothingNewer ==
  \A ch \in Channel :
    /\ done[ch] <= written[ch] /\ pending[ch] <= written[ch]
    /\ InHand(ch) => taken <= written[ch]

Mailboxes == NothingNewer /\ OnceInOrder /\ NewestKept

\* The types the arithmetic of this section needs.
Numbers ==
  /\ taken \in Nat
  /\ \A ch \in Channel :
       pending[ch] \in Nat /\ done[ch] \in Nat /\ written[ch] \in Nat

LEMMA NumbersFromTypes == TypeOK => Numbers
BY BurstAssumption DEF TypeOK, Numbers, Request

LEMMA MailboxesInit == Init => Mailboxes
BY DEF Init, None, Mailboxes, NothingNewer, OnceInOrder, NewestKept, InHand

\* A step that touches neither the slots nor what is in hand nor the history.
LEMMA MailboxesUntouched ==
  ASSUME Mailboxes,
         UNCHANGED <<pc, pending, taken, written, done>>
  PROVE  Mailboxes'
BY DEF Mailboxes, NothingNewer, OnceInOrder, NewestKept, InHand

\* The interrupt: the new request is newer than all that is in the device.
LEMMA WriteMailboxes ==
  ASSUME TypeOK, Mailboxes, NEW ch \in Channel, Write(ch)
  PROVE  Mailboxes'
<1>1. Numbers
  BY NumbersFromTypes
<1>2. UNCHANGED <<pc, taken, done>>
  BY DEF Write
<1>3. /\ written'[ch] = written[ch] + 1
      /\ pending'[ch] = written[ch] + 1
      /\ \A other \in Channel \ {ch} :
           /\ written'[other] = written[other]
           /\ pending'[other] = pending[other]
  BY DEF Write, TypeOK
<1>4. \A c \in Channel : InHand(c)' <=> InHand(c)
  BY <1>2 DEF InHand
<1>5. NothingNewer'
  BY <1>1, <1>2, <1>3, <1>4 DEF Mailboxes, NothingNewer, Numbers
<1>6. OnceInOrder'
  BY <1>1, <1>2, <1>3, <1>4
  DEF Mailboxes, NothingNewer, OnceInOrder, Numbers
<1>7. NewestKept'
  BY <1>2, <1>3, <1>4 DEF Mailboxes, NewestKept
<1>8. QED
  BY <1>5, <1>6, <1>7 DEF Mailboxes

\* The copy and the flag go together: what was pending is in hand.
LEMMA TakeMailboxes ==
  ASSUME TypeOK, Mailboxes, NEW ch \in Channel, Take(ch)
  PROVE  Mailboxes'
<1>1. Numbers
  BY NumbersFromTypes
<1>2. /\ UNCHANGED <<pc, done, written>>
      /\ taken' = pending[ch]
      /\ pc = ch /\ taken = 0 /\ pending[ch] # 0
  BY DEF Take, host
<1>3. /\ pending'[ch] = 0
      /\ \A other \in Channel \ {ch} : pending'[other] = pending[other]
  BY DEF Take, TypeOK
<1>4. InHand(ch)' /\ \A c \in Channel : ~InHand(c)
  BY <1>2 DEF InHand, Channel
<1>5. \A other \in Channel \ {ch} : ~InHand(other)'
  BY <1>2 DEF InHand, Channel
<1>6. NothingNewer' /\ OnceInOrder'
  BY <1>1, <1>2, <1>3, <1>5 DEF Mailboxes, NothingNewer, OnceInOrder, Numbers
<1>7. NewestKept'
  BY <1>1, <1>2, <1>3, <1>4 DEF Mailboxes, NewestKept, Numbers
<1>8. QED
  BY <1>6, <1>7 DEF Mailboxes

LEMMA PublishMailboxes ==
  ASSUME TypeOK, Mailboxes, NEW ch \in Channel, Publish(ch)
  PROVE  Mailboxes'
<1>1. Numbers
  BY NumbersFromTypes
<1>2. /\ UNCHANGED <<pending, written>>
      /\ taken' = 0
      /\ pc = ch /\ taken # 0
  BY DEF Publish, host
<1>3. /\ done'[ch] = taken
      /\ \A other \in Channel \ {ch} : done'[other] = done[other]
  BY DEF Publish, TypeOK
<1>4. InHand(ch) /\ \A other \in Channel \ {ch} : ~InHand(other)
  BY <1>2 DEF InHand, Channel
<1>5. \A c \in Channel : ~InHand(c)'
  BY <1>2 DEF InHand
<1>6. NothingNewer' /\ OnceInOrder'
  BY <1>1, <1>2, <1>3, <1>4, <1>5
  DEF Mailboxes, NothingNewer, OnceInOrder, Numbers
<1>7. done[ch] # written[ch]
  BY <1>1, <1>4 DEF Mailboxes, NothingNewer, OnceInOrder, Numbers
<1>8. NewestKept'
  BY <1>2, <1>3, <1>4, <1>7 DEF Mailboxes, NewestKept
<1>9. QED
  BY <1>6, <1>8 DEF Mailboxes

LEMMA RestartMailboxes ==
  ASSUME TypeOK, Restart
  PROVE  Mailboxes'
<1>1. Numbers
  BY NumbersFromTypes
<1>2. \A c \in Channel : /\ pending'[c] = 0 /\ done'[c] = written[c]
                         /\ written'[c] = written[c] /\ ~InHand(c)'
  BY DEF Restart, None, host, InHand
<1>3. QED
  BY <1>1, <1>2 DEF Mailboxes, NothingNewer, OnceInOrder, NewestKept, Numbers

\* ResetDevice stays in hand until the restart.
LEMMA ResetDeviceMailboxes ==
  ASSUME TypeOK, Mailboxes, ResetDevice
  PROVE  Mailboxes'
<1>1. CASE StartResetDevice
  <2>1. UNCHANGED <<pending, taken, written, done>>
    BY <1>1 DEF StartResetDevice, host
  <2>2. \A c \in Channel : InHand(c)' <=> InHand(c)
    BY <1>1 DEF StartResetDevice, InHand, Channel
  <2>3. QED
    BY <2>1, <2>2 DEF Mailboxes, NothingNewer, OnceInOrder, NewestKept
<1>2. ASSUME NEW field \in Field, SayResetDevice(field)
      PROVE  Mailboxes'
  BY <1>2, MailboxesUntouched DEF SayResetDevice, host
<1>3. CASE FinishResetDevice
  BY <1>3, RestartMailboxes DEF FinishResetDevice
<1>4. QED
  BY <1>1, <1>2, <1>3 DEF ResetDevice

LEMMA MailboxesPreserved == TypeOK /\ Mailboxes /\ [Next]_vars => Mailboxes'
<1> SUFFICES ASSUME TypeOK, Mailboxes, [Next]_vars PROVE Mailboxes'
  OBVIOUS
<1>1. ASSUME NEW ch \in Channel, Write(ch) PROVE Mailboxes'
  BY <1>1, WriteMailboxes
<1>2. ASSUME NEW ch \in Channel, TakeAnswer(ch) \/ Resync(ch) \/ GiveUp(ch)
      PROVE  Mailboxes'
  BY <1>2, MailboxesUntouched DEF TakeAnswer, Resync, GiveUp, device
<1>3. ASSUME NEW ch \in Channel, Skip(ch) PROVE Mailboxes'
  <2>1. UNCHANGED <<pending, taken, written, done>> /\ taken = 0
    BY <1>3 DEF Skip, host
  <2>2. \A c \in Channel : ~InHand(c) /\ ~InHand(c)'
    BY <2>1 DEF InHand
  <2>3. QED
    BY <2>1, <2>2 DEF Mailboxes, NothingNewer, OnceInOrder, NewestKept
<1>4. ASSUME NEW ch \in Channel, Take(ch) PROVE Mailboxes'
  BY <1>4, TakeMailboxes
<1>5. ASSUME NEW ch \in Channel, Publish(ch) PROVE Mailboxes'
  BY <1>5, PublishMailboxes
<1>6. CASE ResetDevice
  BY <1>6, ResetDeviceMailboxes
<1>7. CASE Reset
  BY <1>7, RestartMailboxes DEF Reset
<1>8. CASE UNCHANGED vars
  BY <1>8, MailboxesUntouched DEF vars, device, host
<1>9. QED
  BY <1>1, <1>2, <1>3, <1>4, <1>5, <1>6, <1>7, <1>8
  DEF Next, Interrupt, Serve

\* No request is carried out twice, and none after a later one of its channel,
\* for any number of requests and any placing of the interrupt.
THEOREM RequestsOnceInOrder == Spec => []OnceInOrder
<1>1. Mailboxes => OnceInOrder
  BY DEF Mailboxes
<1>2. QED
  BY <1>1, TypeCorrect, MailboxesInit, MailboxesPreserved, PTL DEF Spec

\* The newest request of a channel is never lost to the one-slot mailbox.
THEOREM NewestRequestKept == Spec => []NewestKept
<1>1. Mailboxes => NewestKept
  BY DEF Mailboxes
<1>2. QED
  BY <1>1, TypeCorrect, MailboxesInit, MailboxesPreserved, PTL DEF Spec

-----------------------------------------------------------------------------
(* The answers.  While RG is on track with a channel, a result that differs *)
(* from the one it saw is its own (OnTrack).  That its own differs needs    *)
(* numbers: how far the shared sequence is past a result, and how many      *)
(* requests of the other channel may still move it (Budget).                *)

\* ResetDevice is in hand until the restart, and RG is not on track with it.
InReset ==
  /\ pc = "reset" => taken # 0 /\ "command" \notin clean
  /\ unsaid # {} => pc = "reset"

OwnAnswer(ch) == result[ch].status = awaited[ch] /\ result[ch].command = awaited[ch]

\* The request RG waits for is the one and only in the device.
OnlyOwnInFlight(ch) ==
  \/ pending[ch] = awaited[ch] /\ ~InHand(ch)
  \/ pending[ch] = 0 /\ InHand(ch) /\ taken = awaited[ch]

Tracked(ch) ==
  /\ awaited[ch] = 0 => ~InFlight(ch)
  /\ (awaited[ch] = 0 \/ InFlight(ch)) => result[ch].sequence = seen[ch]
  /\ InFlight(ch) => OnlyOwnInFlight(ch)
  /\ awaited[ch] # 0 /\ ~InFlight(ch)
       => OwnAnswer(ch) /\ result[ch].sequence # seen[ch]

OnTrack == \A ch \in clean : Tracked(ch)

\* Numbers the sequence has taken since `earlier'.
Behind(earlier) ==
  IF sequence >= earlier THEN sequence - earlier ELSE sequence - earlier + Wrap

Distance(ch) == Behind(result[ch].sequence)

\* Requests of a channel whose results will take a number.
InSlot(ch) == IF pending[ch] # 0 THEN 1 ELSE 0
Unnumbered(ch) == IF pc = ch /\ taken # 0 THEN 1 ELSE 0
Waiting(ch) == InSlot(ch) + Unnumbered(ch)

Affords(ch) ==
  /\ ~InFlight(ch) => Distance(ch) + Waiting(Other(ch)) <= 1 + burst[ch]
  /\ ch \in clean => Distance(ch) + Waiting(Other(ch)) <= 1 + MaxBurst + burst[ch]

Budget == \A ch \in Channel : Affords(ch)

Answers == InReset /\ OnTrack /\ Budget

\* The next number is one further from any that is less than a round away, and
\* is not that number.
LEMMA NextBehind ==
  ASSUME TypeOK, NEW earlier \in 0 .. Wrap - 1, Behind(earlier) + 1 < Wrap,
         sequence' = NextSequence
  PROVE  Behind(earlier)' = Behind(earlier) + 1 /\ sequence' # earlier
<1>1. sequence \in 0 .. Wrap - 1 /\ Wrap \in Nat
  BY BurstAssumption DEF TypeOK
<1>2. sequence' = IF sequence + 1 = Wrap THEN 0 ELSE sequence + 1
  BY <1>1 DEF NextSequence
<1>3. QED
  BY <1>1, <1>2 DEF Behind

\* The types and ranges of this section's numbers.
LEMMA Counts ==
  ASSUME TypeOK, NEW ch \in Channel
  PROVE  /\ Other(ch) \in Channel /\ Other(Other(ch)) = ch /\ Other(ch) # ch
         /\ Channel = {ch, Other(ch)}
         /\ result[ch].sequence \in 0 .. Wrap - 1
         /\ Distance(ch) \in 0 .. Wrap - 1
         /\ InSlot(ch) \in {0, 1} /\ Unnumbered(ch) \in {0, 1}
         /\ Waiting(ch) \in Nat
         /\ burst[ch] \in 0 .. MaxBurst /\ MaxBurst \in Nat /\ Wrap \in Nat
<1>1. result[ch].sequence \in 0 .. Wrap - 1 /\ sequence \in 0 .. Wrap - 1
  BY TypeSplit DEF DeviceType, ResultRecord
<1>2. Distance(ch) \in 0 .. Wrap - 1
  BY <1>1, BurstAssumption DEF Distance, Behind
<1>3. QED
  BY <1>1, <1>2, BurstAssumption
  DEF Other, Channel, InSlot, Unnumbered, Waiting, TypeOK

LEMMA AnswersInit == Init => Answers
<1> SUFFICES ASSUME Init PROVE Answers
  OBVIOUS
<1>1. \A ch \in Channel : /\ pending[ch] = 0 /\ awaited[ch] = 0 /\ seen[ch] = 0
                          /\ burst[ch] = 0 /\ result[ch].sequence = 0
                          /\ ~InFlight(ch) /\ Other(ch) \in Channel
  BY DEF Init, None, ZeroResult, InFlight, InHand, Other, Channel
<1>2. InReset /\ OnTrack
  BY <1>1 DEF Init, InReset, OnTrack, Tracked, Channel
<1>3. Budget
  BY <1>1, BurstAssumption
  DEF Init, Budget, Affords, Distance, Behind, Waiting, InSlot, Unnumbered
<1>4. QED
  BY <1>2, <1>3 DEF Answers

\* A step that touches nothing of a channel leaves RG on track with it.
LEMMA TrackedAlone ==
  ASSUME NEW ch \in Channel,
         UNCHANGED <<result[ch], pending[ch], awaited[ch], seen[ch]>>,
         InHand(ch)' <=> InHand(ch), InHand(ch) => taken' = taken
  PROVE  /\ Tracked(ch) => Tracked(ch)'
         /\ InFlight(ch)' <=> InFlight(ch)
<1>1. InFlight(ch)' <=> InFlight(ch)
  BY DEF InFlight
<1>2. QED
  BY <1>1 DEF Tracked, OnlyOwnInFlight, OwnAnswer

\* A step that spends nothing keeps within the budget.
LEMMA AffordsKept ==
  ASSUME TypeOK, TypeOK', NEW ch \in Channel, Affords(ch),
         InFlight(ch) => InFlight(ch)',
         ch \in clean' => ch \in clean \/ ~InFlight(ch),
         Distance(ch)' + Waiting(Other(ch))' - burst'[ch]
           <= Distance(ch) + Waiting(Other(ch)) - burst[ch]
  PROVE  Affords(ch)'
<1>1. /\ Distance(ch) \in Nat /\ Waiting(Other(ch)) \in Nat /\ burst[ch] \in Nat
      /\ MaxBurst \in Nat
  BY Counts
<1>2. /\ Distance(ch)' \in Nat /\ Waiting(Other(ch))' \in Nat /\ burst'[ch] \in Nat
  <2>1. /\ sequence' \in 0 .. Wrap - 1 /\ result'[ch].sequence \in 0 .. Wrap - 1
        /\ burst'[ch] \in 0 .. MaxBurst /\ Wrap \in Nat
    BY BurstAssumption DEF TypeOK
  <2>2. Waiting(Other(ch))' \in Nat
    BY DEF Waiting, InSlot, Unnumbered
  <2>3. Distance(ch)' \in Nat
    BY <2>1 DEF Distance, Behind
  <2>4. QED
    BY <2>1, <2>2, <2>3, <1>1
<1>3. QED
  BY <1>1, <1>2 DEF Affords

\* RG alone: no request in the device changes and no result.
LEMMA DeviceAlone ==
  ASSUME TypeOK, TypeOK', Answers, UNCHANGED device, NEW ch \in Channel,
         burst' = burst, ch \in clean' => ch \in clean \/ ~InFlight(ch)
  PROVE  /\ InHand(ch)' <=> InHand(ch)
         /\ InFlight(ch)' <=> InFlight(ch)
         /\ Affords(ch)'
<1>1. UNCHANGED <<pc, pending, taken, sequence, result, unsaid>>
  BY DEF device
<1>2. /\ InHand(ch)' <=> InHand(ch)
      /\ InFlight(ch)' <=> InFlight(ch)
      /\ Distance(ch)' = Distance(ch)
      /\ Waiting(Other(ch))' = Waiting(Other(ch))
  BY <1>1 DEF InHand, InFlight, Distance, Behind, Waiting, InSlot, Unnumbered
<1>3. Affords(ch)
  BY DEF Answers, Budget
<1>4. Distance(ch)' + Waiting(Other(ch))' - burst'[ch]
        <= Distance(ch) + Waiting(Other(ch)) - burst[ch]
  BY <1>2, Counts
<1>5. Affords(ch)'
  BY <1>2, <1>3, <1>4, AffordsKept
<1>6. QED
  BY <1>2, <1>5

LEMMA HostAnswers ==
  ASSUME TypeOK, TypeOK', Answers, NEW ch \in Channel,
         TakeAnswer(ch) \/ Resync(ch) \/ GiveUp(ch)
  PROVE  Answers'
<1>1. UNCHANGED <<device, burst>> /\ UNCHANGED <<pc, pending, taken, result, unsaid>>
  BY DEF TakeAnswer, Resync, GiveUp, device
<1>2. \A c \in clean' : c \in clean \/ (c = ch /\ ~InFlight(ch))
  BY DEF TakeAnswer, Resync, GiveUp
<1>3. Budget'
  BY <1>1, <1>2, DeviceAlone DEF Budget
<1>4. \A c \in Channel : (InHand(c)' <=> InHand(c)) /\ (InFlight(c)' <=> InFlight(c))
  BY <1>1 DEF InHand, InFlight
<1>5. ASSUME NEW c \in clean' PROVE Tracked(c)'
  <2>1. c \in Channel /\ clean \subseteq Channel
    BY DEF TypeOK
  <2>2. CASE c # ch
    <3>1. c \in clean /\ UNCHANGED <<result[c], pending[c], awaited[c], seen[c], taken>>
      BY <1>1, <1>2, <2>1, <2>2 DEF TakeAnswer, Resync, GiveUp, TypeOK
    <3>2. Tracked(c)
      BY <3>1 DEF Answers, OnTrack
    <3>3. QED
      BY <1>4, <2>1, <3>1, <3>2, TrackedAlone
  <2>3. CASE c = ch
    <3>1. ~InFlight(ch) /\ awaited'[ch] = 0 /\ seen'[ch] = result'[ch].sequence
      <4>1. CASE TakeAnswer(ch)
        <5>1. ch \in clean /\ result[ch].sequence # seen[ch]
          BY <2>3, <4>1 DEF TakeAnswer
        <5>2. ~InFlight(ch)
          BY <5>1 DEF Answers, OnTrack, Tracked
        <5>3. QED
          BY <1>1, <4>1, <5>2 DEF TakeAnswer, TypeOK
      <4>2. CASE Resync(ch)
        <5>1. ch \in clean => ~InFlight(ch)
          BY <4>2 DEF Resync, Answers, OnTrack, Tracked
        <5>2. QED
          BY <1>1, <1>2, <2>3, <4>2, <5>1 DEF Resync, TypeOK
      <4>3. CASE GiveUp(ch)
        BY <2>3, <4>3 DEF GiveUp
      <4>4. QED
        BY <4>1, <4>2, <4>3
    <3>2. QED
      BY <1>4, <2>3, <3>1 DEF Tracked
  <2>4. QED
    BY <2>2, <2>3
<1>6. InReset'
  <2>1. pc = "reset" => InFlight("command")
    BY DEF Answers, InReset, InFlight, InHand
  <2>2. QED
    BY <1>1, <1>2, <2>1 DEF Answers, InReset
<1>7. QED
  BY <1>3, <1>5, <1>6 DEF Answers, OnTrack

\* The interrupt: RG on track has nothing in the device when it writes, and the
\* burst of the other channel pays for the request.
LEMMA WriteAnswers ==
  ASSUME TypeOK, TypeOK', Answers, NEW ch \in Channel, Write(ch)
  PROVE  Answers'
<1> DEFINE other == Other(ch)
<1>1. /\ UNCHANGED <<pc, taken, sequence, result, unsaid, seen, clean>>
      /\ other \in Channel /\ other # ch /\ Channel = {ch, other} /\ Other(other) = ch
  BY Counts DEF Write
<1>2. /\ pending'[ch] = awaited'[ch] /\ awaited'[ch] # 0 /\ burst'[ch] = 0
      /\ pending'[other] = pending[other] /\ awaited'[other] = awaited[other]
      /\ burst'[other] = burst[other] + 1
  BY <1>1, BurstAssumption DEF Write, TypeOK, Request
<1>3. \A c \in Channel : InHand(c)' <=> InHand(c)
  BY <1>1 DEF InHand
<1>4. InFlight(ch)' /\ (InFlight(other)' <=> InFlight(other))
  BY <1>1, <1>2, <1>3 DEF InFlight
<1>5. ch \in clean => ~InFlight(ch) /\ result[ch].sequence = seen[ch]
  BY DEF Write, Answers, OnTrack, Tracked
<1>6. Tracked(ch)' \/ ch \notin clean'
  BY <1>1, <1>2, <1>3, <1>4, <1>5 DEF Tracked, OnlyOwnInFlight, InFlight
<1>7. Tracked(other)' \/ other \notin clean'
  BY <1>1, <1>2, <1>3, TrackedAlone DEF Answers, OnTrack
<1>8. Affords(ch)'
  <2>1. ch \in clean => Distance(ch) + Waiting(other) <= 1 + burst[ch]
    BY <1>5 DEF Answers, Budget, Affords
  <2>2. Distance(ch)' = Distance(ch) /\ Waiting(other)' = Waiting(other)
    BY <1>1, <1>2 DEF Distance, Behind, Waiting, InSlot, Unnumbered
  <2>3. ch \in clean' => Distance(ch)' + Waiting(other)' <= 1 + MaxBurst
    <3>1. Distance(ch) \in Nat /\ Waiting(other) \in Nat /\ burst[ch] \in 0 .. MaxBurst
          /\ MaxBurst \in Nat
      BY <1>1, Counts
    <3> HIDE DEF other
    <3>2. QED
      BY <1>1, <2>1, <2>2, <3>1
  <2>4. MaxBurst \in Nat
    BY Counts
  <2>5. QED
    BY <1>2, <1>4, <2>3, <2>4 DEF Affords
<1>9. Affords(other)'
  <2>1. Distance(other)' = Distance(other) /\ Unnumbered(ch)' = Unnumbered(ch)
    BY <1>1 DEF Distance, Behind, Unnumbered
  <2>2. InSlot(ch)' <= InSlot(ch) + 1
    BY DEF InSlot
  <2>3. /\ Distance(other) \in Nat /\ Unnumbered(ch) \in Nat /\ InSlot(ch) \in Nat
        /\ InSlot(ch)' \in Nat /\ burst[other] \in Nat
    <3>1. InSlot(ch)' \in Nat
      BY DEF InSlot
    <3>2. QED
      BY <1>1, <3>1, Counts
  <2>4. Distance(other)' + Waiting(ch)' - burst'[other]
          <= Distance(other) + Waiting(ch) - burst[other]
    BY <1>2, <2>1, <2>2, <2>3 DEF Waiting
  <2>5. Affords(other)
    BY <1>1 DEF Answers, Budget
  <2>6. QED
    BY <1>1, <1>4, <2>4, <2>5, AffordsKept
<1>10. InReset'
  BY <1>1 DEF Answers, InReset
<1>11. QED
  BY <1>1, <1>6, <1>7, <1>8, <1>9, <1>10 DEF Answers, OnTrack, Budget, TypeOK

LEMMA SkipAnswers ==
  ASSUME TypeOK, TypeOK', Answers, NEW ch \in Channel, Skip(ch)
  PROVE  Answers'
<1>1. /\ UNCHANGED <<pending, taken, sequence, result, unsaid, awaited, seen, burst, clean>>
      /\ taken = 0 /\ pc' = Other(ch)
  BY DEF Skip, host
<1>2. ASSUME NEW c \in Channel
      PROVE  /\ ~InHand(c) /\ ~InHand(c)' /\ Waiting(c)' = Waiting(c)
             /\ Distance(c)' = Distance(c)
  BY <1>1 DEF InHand, Waiting, InSlot, Unnumbered, Distance, Behind
<1>3. ASSUME NEW c \in Channel
      PROVE  /\ Affords(c)'
             /\ c \in clean' => Tracked(c)'
  <2>1. (InFlight(c)' <=> InFlight(c)) /\ (Tracked(c) => Tracked(c)')
    BY <1>1, <1>2, TrackedAlone
  <2>2. Other(c) \in Channel
    BY Counts
  <2>3. Affords(c)'
    BY <1>1, <1>2, <2>1, <2>2 DEF Affords, Answers, Budget
  <2>4. QED
    BY <1>1, <2>1, <2>3 DEF Answers, OnTrack
<1>4. InReset'
  <2>1. pc \in Channel /\ pc' \in Channel
    BY <1>1, Counts DEF Skip
  <2>2. pc # "reset" /\ pc' # "reset"
    BY <2>1 DEF Channel
  <2>3. QED
    BY <1>1, <2>2 DEF Answers, InReset
<1>5. QED
  BY <1>3, <1>4 DEF Answers, OnTrack, Budget, TypeOK

\* What waited in the slot waits in hand.
LEMMA TakeAnswers ==
  ASSUME TypeOK, TypeOK', Answers, NEW ch \in Channel, Take(ch)
  PROVE  Answers'
<1> DEFINE other == Other(ch)
<1>1. /\ UNCHANGED <<pc, sequence, result, unsaid, awaited, seen, burst, clean>>
      /\ pc = ch /\ taken = 0 /\ pending[ch] # 0 /\ taken' = pending[ch]
      /\ other \in Channel /\ other # ch /\ Channel = {ch, other} /\ Other(other) = ch
  BY Counts DEF Take, host
<1>2. pending'[ch] = 0 /\ pending'[other] = pending[other]
  BY <1>1 DEF Take, TypeOK
<1>3. /\ InFlight(ch) /\ ~InHand(ch) /\ ~InHand(other)
      /\ InFlight(ch)' /\ InHand(ch)' /\ ~InHand(other)'
  BY <1>1 DEF InFlight, InHand, Other, Channel
<1>4. Tracked(ch)' \/ ch \notin clean'
  BY <1>1, <1>2, <1>3 DEF Answers, OnTrack, Tracked, OnlyOwnInFlight
<1>5. (Tracked(other)' \/ other \notin clean') /\ (InFlight(other)' <=> InFlight(other))
  BY <1>1, <1>2, <1>3, TrackedAlone DEF Answers, OnTrack
<1>6. \A c \in Channel : Waiting(c)' = Waiting(c) /\ Distance(c)' = Distance(c)
  <2>1. Waiting(ch)' = 1 /\ Waiting(ch) = 1
    BY <1>1, <1>2 DEF Waiting, InSlot, Unnumbered
  <2>2. Waiting(other)' = Waiting(other)
    BY <1>1, <1>2 DEF Waiting, InSlot, Unnumbered
  <2>3. QED
    BY <1>1, <2>1, <2>2 DEF Distance, Behind
<1>7. Budget'
  BY <1>1, <1>3, <1>5, <1>6 DEF Answers, Budget, Affords
<1>8. InReset'
  BY <1>1 DEF Answers, InReset, Channel
<1>9. QED
  BY <1>1, <1>4, <1>5, <1>7, <1>8 DEF Answers, OnTrack, TypeOK

\* A number is taken by a request that waited for it.
LEMMA NumberTaken ==
  ASSUME TypeOK, TypeOK', Answers, NEW ch \in Channel, taken # 0, pc = ch,
         sequence' = NextSequence, pc' # ch,
         UNCHANGED <<pending, burst, result[Other(ch)]>>,
         InFlight(Other(ch))' <=> InFlight(Other(ch)),
         Other(ch) \in clean' => Other(ch) \in clean
  PROVE  Affords(Other(ch))'
<1> DEFINE other == Other(ch)
<1>1. other \in Channel /\ Other(other) = ch /\ Channel = {ch, other}
  BY Counts
<1>2. Waiting(ch) = InSlot(ch) + 1 /\ Waiting(ch)' = InSlot(ch) /\ InSlot(ch) \in Nat
  BY Counts DEF Waiting, Unnumbered, InSlot
<1>3. CASE ~InFlight(other) \/ other \in clean
  <2>1. Distance(other) + Waiting(ch) <= 1 + MaxBurst + burst[other]
    <3>1. burst[other] \in 0 .. MaxBurst /\ MaxBurst \in Nat /\ Distance(other) \in Nat
      BY <1>1, Counts
    <3>2. /\ ~InFlight(other) => Distance(other) + Waiting(ch) <= 1 + burst[other]
          /\ other \in clean
               => Distance(other) + Waiting(ch) <= 1 + MaxBurst + burst[other]
      BY <1>1 DEF Answers, Budget, Affords
    <3> HIDE DEF other
    <3>3. QED
      BY <1>2, <1>3, <3>1, <3>2
  <2>2. Distance(other) + 1 < Wrap
    <3>1. burst[other] \in 0 .. MaxBurst /\ MaxBurst \in Nat /\ Distance(other) \in Nat
          /\ Wrap \in Nat
      BY <1>1, Counts
    <3> HIDE DEF other
    <3>2. QED
      BY <1>2, <2>1, <3>1, BurstAssumption
  <2>3. Distance(other)' = Distance(other) + 1
    BY <1>1, <2>2, Counts, NextBehind DEF Distance, Behind
  <2>4. Distance(other)' + Waiting(ch)' - burst'[other]
          <= Distance(other) + Waiting(ch) - burst[other]
    <3>1. burst[other] \in Nat /\ Distance(other) \in Nat
      BY <1>1, Counts
    <3> HIDE DEF other
    <3>2. QED
      BY <1>2, <2>3, <3>1
  <2>5. QED
    BY <1>1, <2>4, AffordsKept DEF Answers, Budget
<1>4. CASE InFlight(other) /\ other \notin clean
  BY <1>4 DEF Affords
<1>5. QED
  BY <1>3, <1>4

\* The result is the channel's own; it is new to RG because the sequence has not
\* gone round since the last one.
LEMMA PublishAnswers ==
  ASSUME TypeOK, TypeOK', Answers, NEW ch \in Channel, Publish(ch)
  PROVE  Answers'
<1> DEFINE other == Other(ch)
<1>1. /\ UNCHANGED <<pending, unsaid, awaited, seen, burst, clean>>
      /\ pc = ch /\ taken # 0 /\ taken' = 0 /\ pc' = other /\ sequence' = NextSequence
      /\ other \in Channel /\ other # ch /\ Channel = {ch, other} /\ Other(other) = ch
  BY Counts DEF Publish, host
<1>2. /\ result'[ch].sequence = sequence' /\ result'[ch].status = taken
      /\ result'[ch].command = taken /\ result'[other] = result[other]
  BY <1>1 DEF Publish, TypeOK
<1>3. /\ InFlight(ch) /\ InHand(ch) /\ ~InHand(other)
      /\ ~InHand(ch)' /\ ~InHand(other)' /\ (InFlight(ch)' <=> pending[ch] # 0)
  BY <1>1 DEF InFlight, InHand, Channel
<1>4. Tracked(ch)' \/ ch \notin clean'
  <2> SUFFICES ASSUME ch \in clean PROVE Tracked(ch)'
    BY <1>1
  <2>1. Tracked(ch)
    BY DEF Answers, OnTrack
  <2>2. /\ pending[ch] = 0 /\ taken = awaited[ch] /\ awaited[ch] # 0
        /\ result[ch].sequence = seen[ch]
    BY <1>3, <2>1 DEF Tracked, OnlyOwnInFlight
  <2>3. Distance(ch) + 1 < Wrap
    <3>1. Distance(ch) + Waiting(other) <= 1 + MaxBurst + burst[ch]
      BY DEF Answers, Budget, Affords
    <3>2. /\ burst[ch] \in 0 .. MaxBurst /\ MaxBurst \in Nat /\ Distance(ch) \in Nat
          /\ Waiting(other) \in Nat /\ Wrap \in Nat
      BY <1>1, Counts
    <3> HIDE DEF other
    <3>3. QED
      BY <3>1, <3>2, BurstAssumption
  <2>4. sequence' # seen[ch]
    BY <1>1, <2>2, <2>3, Counts, NextBehind DEF Distance
  <2>5. ~InFlight(ch)'
    BY <1>3, <2>2
  <2>6. QED
    BY <1>1, <1>2, <2>2, <2>4, <2>5 DEF Tracked, OwnAnswer
<1>5. (Tracked(other)' \/ other \notin clean') /\ (InFlight(other)' <=> InFlight(other))
  BY <1>1, <1>2, <1>3, TrackedAlone DEF Answers, OnTrack
<1>6. Affords(ch)'
  <2>1. Distance(ch)' = 0 /\ Waiting(other)' = InSlot(other)
    <3>1. sequence' \in Nat
      BY DEF TypeOK
    <3>2. QED
      BY <1>1, <1>2, <3>1 DEF Distance, Behind, Waiting, InSlot, Unnumbered
  <2>2. InSlot(other) \in {0, 1} /\ burst'[ch] \in Nat /\ MaxBurst \in Nat
    BY <1>1, Counts
  <2> HIDE DEF other
  <2>3. Distance(ch)' + Waiting(other)' <= 1 + burst'[ch]
    BY <2>1, <2>2
  <2>4. Distance(ch)' + Waiting(other)' <= 1 + MaxBurst + burst'[ch]
    BY <2>1, <2>2
  <2>5. QED
    BY <2>3, <2>4 DEF Affords, other
<1>7. Affords(other)'
  BY <1>1, <1>2, <1>5, NumberTaken
<1>8. InReset'
  <2>1. pc # "reset" /\ pc' # "reset"
    BY <1>1 DEF Channel
  <2>2. QED
    BY <1>1, <2>1 DEF Answers, InReset
<1>9. QED
  BY <1>1, <1>4, <1>5, <1>6, <1>7, <1>8 DEF Answers, OnTrack, Budget, TypeOK

LEMMA ResetDeviceAnswers ==
  ASSUME TypeOK, TypeOK', Answers,
         StartResetDevice \/ \E field \in Field : SayResetDevice(field)
  PROVE  Answers'
<1>1. /\ UNCHANGED <<pending, taken, awaited, seen, burst, result["bridge"]>>
      /\ "command" \notin clean' /\ clean' \subseteq clean /\ taken # 0
      /\ pc \in {"command", "reset"} /\ pc' = "reset"
  <2>1. CASE StartResetDevice
    BY <2>1 DEF StartResetDevice, host
  <2>2. ASSUME NEW field \in Field, SayResetDevice(field)
        PROVE  /\ UNCHANGED <<pending, taken, awaited, seen, burst, pc, clean>>
               /\ result'["bridge"] = result["bridge"] /\ unsaid # {}
    BY <2>2 DEF SayResetDevice, host, TypeOK, Channel
  <2>3. unsaid # {} => pc = "reset" /\ taken # 0 /\ "command" \notin clean
    BY DEF Answers, InReset
  <2>4. QED
    BY <2>1, <2>2, <2>3
<1>2. "bridge" \in Channel /\ "command" \in Channel /\ Channel = {"command", "bridge"}
      /\ Other("bridge") = "command" /\ Other("command") = "bridge"
  BY DEF Channel, Other
<1>3. ~InHand("bridge") /\ ~InHand("bridge")'
  BY <1>1 DEF InHand
<1>4. /\ Tracked("bridge") => Tracked("bridge")'
      /\ InFlight("bridge")' <=> InFlight("bridge")
  BY <1>1, <1>2, <1>3, TrackedAlone
<1>5. Affords("command")'
  BY <1>1, <1>2 DEF Affords, InFlight, InHand
<1>6. Affords("bridge")'
  <2>1. CASE StartResetDevice
    BY <1>1, <1>2, <1>4, <2>1, NumberTaken DEF StartResetDevice
  <2>2. ASSUME NEW field \in Field, SayResetDevice(field) PROVE Affords("bridge")'
    <3>1. sequence' = sequence /\ pc' = pc /\ clean' = clean
      BY <2>2 DEF SayResetDevice
    <3>2. /\ Distance("bridge")' = Distance("bridge")
          /\ Waiting("command")' = Waiting("command")
      BY <1>1, <3>1 DEF Distance, Behind, Waiting, InSlot, Unnumbered
    <3>3. QED
      BY <1>1, <1>2, <1>4, <3>1, <3>2 DEF Answers, Budget, Affords
  <2>3. QED
    BY <2>1, <2>2
<1>7. InReset'
  BY <1>1 DEF InReset
<1>8. QED
  BY <1>1, <1>2, <1>4, <1>5, <1>6, <1>7 DEF Answers, OnTrack, Budget, TypeOK

LEMMA RestartAnswers ==
  ASSUME TypeOK, TypeOK', Restart
  PROVE  Answers'
<1>1. /\ clean' = {} /\ unsaid' = {} /\ pc' = "command" /\ taken' = 0 /\ sequence' = 0
      /\ \A ch \in Channel : pending'[ch] = 0 /\ result'[ch].sequence = 0
  BY DEF Restart, None, ZeroResult
<1>2. ASSUME NEW ch \in Channel PROVE Affords(ch)'
  <2>1. Other(ch) \in Channel /\ burst'[ch] \in Nat
    <3>1. burst' \in [Channel -> 0 .. MaxBurst]
      BY DEF TypeOK
    <3>2. QED
      BY <3>1, Counts
  <2>2. Distance(ch)' = 0 /\ Waiting(Other(ch))' = 0
    BY <1>1, <2>1 DEF Distance, Behind, Waiting, InSlot, Unnumbered
  <2>3. QED
    BY <1>1, <2>1, <2>2 DEF Affords
<1>3. QED
  BY <1>1, <1>2 DEF Answers, InReset, OnTrack, Budget

LEMMA AnswersPreserved == TypeOK /\ Answers /\ [Next]_vars => Answers'
<1> SUFFICES ASSUME TypeOK, Answers, [Next]_vars PROVE Answers'
  OBVIOUS
<1>1. TypeOK'
  BY TypesPreserved
<1>2. ASSUME NEW ch \in Channel, Write(ch) PROVE Answers'
  BY <1>1, <1>2, WriteAnswers
<1>3. ASSUME NEW ch \in Channel, TakeAnswer(ch) \/ Resync(ch) \/ GiveUp(ch)
      PROVE  Answers'
  BY <1>1, <1>3, HostAnswers
<1>4. ASSUME NEW ch \in Channel, Skip(ch) PROVE Answers'
  BY <1>1, <1>4, SkipAnswers
<1>5. ASSUME NEW ch \in Channel, Take(ch) PROVE Answers'
  BY <1>1, <1>5, TakeAnswers
<1>6. ASSUME NEW ch \in Channel, Publish(ch) PROVE Answers'
  BY <1>1, <1>6, PublishAnswers
<1>7. CASE ResetDevice
  BY <1>1, <1>7, ResetDeviceAnswers, RestartAnswers DEF ResetDevice, FinishResetDevice
<1>8. CASE Reset
  BY <1>1, <1>8, RestartAnswers DEF Reset
<1>9. CASE UNCHANGED vars
  <2>1. UNCHANGED <<pc, pending, taken, sequence, result, unsaid, awaited, seen,
                    burst, clean>>
    BY <1>9 DEF vars, device, host
  <2>2. QED
    BY <2>1
    DEF Answers, InReset, OnTrack, Tracked, OnlyOwnInFlight, OwnAnswer, Budget, Affords,
        InFlight, InHand, Distance, Behind, Waiting, InSlot, Unnumbered
<1>10. QED
  BY <1>2, <1>3, <1>4, <1>5, <1>6, <1>7, <1>8, <1>9 DEF Next, Interrupt, Serve

LEMMA AlwaysAnswers == Spec => []Answers
<1>1. QED
  BY AnswersInit, AnswersPreserved, TypeCorrect, PTL DEF Spec

\* An RG that has not lost track and sees a new sequence has the result of its own
\* request, whole, for any number of requests, wraps and placings of the interrupt.
THEOREM NewMeansOwn == Spec => AnswerIsOwn
<1>1. Answers /\ TypeOK /\ [Next]_vars
        => [\A ch \in Channel :
              TakeAnswer(ch) /\ ch \in clean
                => /\ result[ch].status = awaited[ch]
                   /\ result[ch].command = awaited[ch]]_vars
  BY DEF Answers, OnTrack, Tracked, OwnAnswer, TakeAnswer
<1>2. QED
  BY <1>1, AlwaysAnswers, TypeCorrect, PTL DEF Spec, AnswerIsOwn

\* And its own is new: once the request is out of the device the sequence RG reads
\* is not the one it saw, as long as the host keeps to MaxBurst.  With the mailboxes
\* this is what AnswerComes rests on, but for the fairness of loop() and RG.
AnswerIsNew ==
  \A ch \in clean :
    awaited[ch] # 0 /\ ~InFlight(ch) => result[ch].sequence # seen[ch]

\* A finished request of an RG on track always shows, whatever the other channel
\* did meanwhile and wherever the 8-bit sequence wrapped.
THEOREM OwnMeansNew == Spec => []AnswerIsNew
<1>1. Answers => AnswerIsNew
  BY DEF Answers, OnTrack, Tracked, AnswerIsNew
<1>2. QED
  BY <1>1, AlwaysAnswers, PTL
================================================================================
