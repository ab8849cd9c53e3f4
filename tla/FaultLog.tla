------------------------------ MODULE FaultLog ------------------------------
(***************************************************************************)
(* The reset-persistent fault history (src/src/fault_log.cpp): a FIFO in   *)
(* RAM and its copy in one flash page.  The page is append-only until it   *)
(* is erased; a record is programmed halfword by halfword, its magic first *)
(* and its checksum last.  A slot that was not finished is valid all the   *)
(* same when its halfwords cancel in the checksum: then it loads as a      *)
(* record with 0xFFFF in every field not reached.  A reset may come        *)
(* between any two of those writes, and each of them may fail.             *)
(***************************************************************************)
EXTENDS Integers, SequencesExt

CONSTANTS
  MaxRecords, \* kMaxRecords, also the slots of the page
  MaxSequence,\* 0xFFFF, where s_next_sequence saturates
  MaxResets,  \* 0xFFFF, where s_reset_count saturates
  Erased,     \* a slot of 0xFFFF halfwords
  Torn        \* a slot with something in it that isValid() rejects

Slots == 1 .. MaxRecords
Record == [sequence : 0 .. MaxSequence, reset_count : 0 .. MaxResets]

ASSUME LimitsAssumption ==
  /\ MaxRecords \in Nat \ {0}
  /\ MaxSequence \in Nat \ {0} /\ MaxResets \in Nat \ {0}
  /\ Erased \notin Record /\ Torn \notin Record /\ Erased # Torn

\* A magic with nothing after it.  The eleven erased halfwords left make
\* checksum() 0xFFFF, which is what the erased checksum reads.
Phantom == [sequence |-> MaxSequence, reset_count |-> MaxResets]

\* What else isValid() may accept of an unfinished entry, when the halfwords
\* written so far happen to cancel.
Unfinished(entry) ==
  {Phantom, [entry EXCEPT !.reset_count = MaxResets], entry}

VARIABLES
  pc,            \* what the firmware is doing with the log
  ram,           \* s_records[0 .. s_count-1]
  next_sequence, \* s_next_sequence
  reset_count,   \* s_reset_count
  flash,         \* the page, slot by slot
  writing,       \* the records still to be programmed by this call
  rewriting,     \* they are those of rewriteAll()
  slot,          \* the slot being programmed
  damage         \* history: "present" since a flash operation failed,
                 \* "repaired" once a boot or an erase came after it

log == <<ram, next_sequence, reset_count>>
page == <<flash, writing, rewriting, slot>>
vars == <<pc, log, page, damage>>

TypeOK ==
  /\ pc \in {"boot", "idle", "erase", "program", "finish", "clear"}
  /\ ram \in Seq(Record) /\ Len(ram) <= MaxRecords
  /\ next_sequence \in 0 .. MaxSequence
  /\ reset_count \in 0 .. MaxResets
  /\ flash \in [Slots -> Record \cup {Erased, Torn}]
  /\ writing \in Seq(Record) /\ Len(writing) <= MaxRecords
  /\ rewriting \in BOOLEAN
  /\ slot \in Slots
  /\ damage \in {"none", "present", "repaired"}

Init ==
  /\ pc = "boot"
  /\ ram = <<>> /\ next_sequence = 1 /\ reset_count = 0
  /\ flash = [i \in Slots |-> Erased]
  /\ writing = <<>> /\ rewriting = FALSE /\ slot = 1
  /\ damage = "none"

-----------------------------------------------------------------------------
FreeSlots == {i \in Slots : flash[i] = Erased}

FirstFree == CHOOSE i \in FreeSlots : \A j \in FreeSlots : i <= j

\* Mutant of Loaded: the first torn slot ends the history.
LoadedUntilTorn ==
  LET unusable == {i \in Slots : flash[i] \in {Erased, Torn}}
      first == CHOOSE i \in unusable : \A j \in unusable : i <= j
  IN  SubSeq(flash, 1, IF unusable = {} THEN MaxRecords ELSE first - 1)

\* s_records after each slot of a page: what isValid() accepts is kept.
Kept(content) ==
  LET kept[i \in 0 .. MaxRecords] ==
        IF i = 0 THEN <<>>
        ELSE IF content[i] \in Record THEN Append(kept[i - 1], content[i])
        ELSE kept[i - 1]
  IN  kept

Used == IF FreeSlots = {} THEN MaxRecords ELSE FirstFree - 1

\* What loadFromFlash() keeps: up to the first erased slot, torn ones skipped.
Loaded == Kept(flash)[Used]

\* Mutant of SequenceAfter: the last record decides alone.
SequenceAfterLast(records) ==
  IF records = <<>> THEN 1 ELSE records[Len(records)].sequence

\* s_next_sequence after each record loaded, in 16 bits.
NextAfter(records) ==
  LET next[i \in 0 .. Len(records)] ==
        IF i = 0 THEN 1
        ELSE IF records[i].sequence >= next[i - 1]
          THEN (records[i].sequence + 1) % (MaxSequence + 1)
        ELSE next[i - 1]
  IN  next

\* One past the largest sequence loaded.
SequenceAfter(records) == NextAfter(records)[Len(records)]

\* Mutant of Boot: the count of resets wraps.
BootWrapsResets ==
  /\ pc = "boot"
  /\ pc' = "idle"
  /\ ram' = Loaded
  /\ next_sequence' = SequenceAfter(Loaded)
  /\ LET before == IF Loaded = <<>> THEN 0 ELSE Last(Loaded).reset_count
     IN  reset_count' = (before + 1) % (MaxResets + 1)
  /\ damage' = IF damage = "present" THEN "repaired" ELSE damage
  /\ UNCHANGED page

\* init()
Boot ==
  /\ pc = "boot"
  /\ pc' = "idle"
  /\ ram' = Loaded
  /\ next_sequence' = SequenceAfter(Loaded)
  /\ LET before == IF Loaded = <<>> THEN 0 ELSE Last(Loaded).reset_count
     IN  reset_count' = IF before = MaxResets THEN before ELSE before + 1
  /\ damage' = IF damage = "present" THEN "repaired" ELSE damage
  /\ UNCHANGED page

\* Watchdog, brown-out or NVIC_SystemReset(): RAM and the call are lost.
Reset ==
  /\ pc # "boot"
  /\ pc' = "boot"
  /\ ram' = <<>> /\ next_sequence' = 1 /\ reset_count' = 0
  /\ writing' = <<>> /\ rewriting' = FALSE /\ slot' = 1
  /\ UNCHANGED <<flash, damage>>

-----------------------------------------------------------------------------
NewRecord == [sequence |-> next_sequence, reset_count |-> reset_count]

\* Mutant of RecordFault: the FIFO is never full.
RecordFaultUnbounded ==
  /\ pc = "idle"
  /\ next_sequence' =
       IF next_sequence = MaxSequence THEN MaxSequence ELSE next_sequence + 1
  /\ pc' = "program"
  /\ ram' = Append(ram, NewRecord)
  /\ writing' = <<NewRecord>> /\ rewriting' = FALSE
  /\ UNCHANGED <<reset_count, flash, slot, damage>>

\* record() up to its first flash operation: with room the record is programmed
\* in a free slot, without it the oldest is dropped and the page rewritten.
RecordFault ==
  /\ pc = "idle"
  /\ next_sequence' =
       IF next_sequence = MaxSequence THEN MaxSequence ELSE next_sequence + 1
  /\ IF Len(ram) < MaxRecords
       THEN /\ pc' = "program"
            /\ ram' = Append(ram, NewRecord)
            /\ writing' = <<NewRecord>>
       ELSE /\ pc' = "erase"
            /\ ram' = Append(Tail(ram), NewRecord)
            /\ UNCHANGED writing
  /\ rewriting' = FALSE
  /\ UNCHANGED <<reset_count, flash, slot, damage>>

\* clear() forgets the RAM copy first.
Clear ==
  /\ pc = "idle"
  /\ pc' = "clear"
  /\ ram' = <<>> /\ next_sequence' = 1
  /\ UNCHANGED <<reset_count, page, damage>>

Wiped(ok) ==
  /\ flash' = IF ok THEN [i \in Slots |-> Erased] ELSE flash
  /\ damage' = CASE ~ok -> "present"
                 [] ok /\ damage = "present" -> "repaired"
                 [] OTHER -> damage

ClearErase(ok) ==
  /\ pc = "clear"
  /\ pc' = "idle"
  /\ Wiped(ok)
  /\ UNCHANGED <<log, writing, rewriting, slot>>

\* rewriteAll(): the result of the erase is ignored.
Erase(ok) ==
  /\ pc = "erase"
  /\ pc' = "program"
  /\ Wiped(ok)
  /\ writing' = ram /\ rewriting' = TRUE
  /\ UNCHANGED <<log, slot>>

\* Mutant of Appended: an append that found no slot is forgotten.
AppendedAnyway(ok) ==
  /\ writing' = Tail(writing)
  /\ pc' = IF Len(writing) = 1 THEN "idle" ELSE "program"
  /\ UNCHANGED <<log, rewriting>>

\* flashAppend() is done with the head of writing.  A failure outside
\* rewriteAll() rewrites the page; inside, the next record is tried.
Appended(ok) ==
  /\ writing' = Tail(writing)
  /\ pc' = IF ~ok /\ ~rewriting THEN "erase"
           ELSE IF Len(writing) = 1 THEN "idle"
           ELSE "program"
  /\ UNCHANGED <<log, rewriting>>

\* No slot is erased, or the first halfword is refused.
ProgramNothing ==
  /\ pc = "program"
  /\ Appended(FALSE)
  /\ damage' = IF FreeSlots = {} /\ ~rewriting THEN damage ELSE "present"
  /\ UNCHANGED <<flash, slot>>

\* The magic.
ProgramStart ==
  /\ pc = "program" /\ FreeSlots # {}
  /\ pc' = "finish"
  /\ slot' = FirstFree
  /\ flash' = [flash EXCEPT ![FirstFree] = Phantom]
  /\ UNCHANGED <<log, writing, rewriting, damage>>

\* Any number of the halfwords after it.  Whether what is written cancels depends
\* on fields the model leaves out.
ProgramMore ==
  /\ pc = "finish"
  /\ \E content \in Unfinished(Head(writing)) \cup {Torn} :
       flash' = [flash EXCEPT ![slot] = content]
  /\ UNCHANGED <<pc, log, writing, rewriting, slot, damage>>

\* The rest, or a halfword refused where the slot stood.
ProgramFinish(ok) ==
  /\ pc = "finish"
  /\ flash' = IF ok THEN [flash EXCEPT ![slot] = Head(writing)] ELSE flash
  /\ Appended(ok)
  /\ damage' = IF ok THEN damage ELSE "present"
  /\ UNCHANGED slot

Next ==
  \/ Boot
  \/ Reset
  \/ RecordFault
  \/ Clear
  \/ \E ok \in BOOLEAN : ClearErase(ok) \/ Erase(ok) \/ ProgramFinish(ok)
  \/ ProgramNothing
  \/ ProgramStart
  \/ ProgramMore

Spec == Init /\ [][Next]_vars

-----------------------------------------------------------------------------
(* Properties.                                                             *)

\* The records a boot would bring back, the slot being programmed left out.
Intact == IF pc = "finish" THEN Kept(flash)[slot - 1] ELSE Loaded

\* What that slot adds to them as it stands.
Half == IF pc = "finish" /\ flash[slot] # Torn THEN <<flash[slot]>> ELSE <<>>

\* What a reset at this instant leaves of the history RG can read, as soon as a
\* failed flash operation has been followed by a successful erase or a boot, and
\* whatever resets cut writes short before: all of it between two calls; all but the
\* record being appended, which may come back spoilt; and once rewriteAll() has
\* erased the page, only what it has written again and the spoilt one.
SurvivesReset ==
  damage # "present" =>
    /\ pc = "idle" => Loaded = ram
    /\ pc \in {"program", "finish"} =>
         Intact \o writing = ram /\ (Len(writing) = 1 \/ rewriting)
    /\ pc = "finish" =>
         \/ Loaded = Intact
         \/ \E spoilt \in Unfinished(Head(writing)) : Loaded = Append(Intact, spoilt)
    /\ pc = "erase" => Front(ram) = Loaded \/ Front(ram) = Tail(Loaded)

\* The call in progress, as DurableLog names them.
Phase ==
  CASE pc = "boot" -> "down"
    [] pc = "idle" -> "idle"
    [] pc \in {"program", "finish"} /\ ~rewriting -> "append"
    [] pc = "erase" -> "rewrite"
    [] pc \in {"program", "finish"} /\ rewriting -> "regrow"
    [] pc = "clear" -> "clear"

Durable == INSTANCE DurableLog
  WITH Capacity <- MaxRecords, Spoilt <- Unfinished,
       phase <- Phase, history <- ram, durable <- Intact, half <- Half,
       failing <- damage = "present"

\* The page with its halfwords, slots cut short, checksums and refused writes is
\* the log of DurableLog: what a boot would bring back changes only as it says,
\* whatever reset or failure comes between two halfwords.  (record(), rewriteAll(),
\* clear(), flashAppend() and loadFromFlash() together.)
ImplementsDurableLog == Durable!Spec

\* On flash that never failed the history is in the order of its sequences, and
\* they start again only after the 16-bit maximum.  That is where they saturate,
\* and what a record cut short after its magic is loaded with.
SequencesInOrder ==
  damage = "none" =>
    \A i \in 1 .. Len(ram) - 1 :
      ram[i].sequence < ram[i+1].sequence \/ ram[i].sequence = MaxSequence

\* The resets a history shows never go backwards, on flash that never failed: a
\* record cut short shows the maximum, and from the boot that loads it on the
\* count stays there.
ResetCountsInOrder ==
  damage = "none" =>
    \A i \in 1 .. Len(ram) :
      ram[i].reset_count <= IF i < Len(ram) THEN ram[i+1].reset_count
                                            ELSE reset_count

\* fault_log.h: the log lets RG "report the recent fault history after reboot": what
\* a reset leaves to report are records of the history it interrupts.
ReportsWhatHappened ==
  [][Reset /\ damage = "none" =>
       \A i \in 1 .. Len(Loaded) : \E j \in 1 .. Len(ram) : Loaded[i] = ram[j]]_vars
=============================================================================
