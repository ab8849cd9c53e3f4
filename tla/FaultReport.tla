---------------------------- MODULE FaultReport ----------------------------
(***************************************************************************)
(* The list of faults of a rail: tick() (src/src/rail.cpp) reads six status *)
(* registers one after another, each of which may fail or come garbled      *)
(* while the chip raises and drops its bits, and keeps the last it got;      *)
(* between two ticks describeRailFaults() (src/src/main.cpp) prints what it  *)
(* kept.                                                                   *)
(***************************************************************************)
EXTENDS Registers

CONSTANTS
  Considered, \* the events of the chip considered
  MaxChanges  \* what the chip raises, clearings, failed reads and garbled ones

ASSUME ReportAssumption == Considered \subseteq Events /\ MaxChanges \in Nat

VARIABLES
  raised,   \* the events the chip shows
  position, \* the register tick() reads next; 1: no tick is under way
  cached,   \* last_status_word_ and the others
  clean,    \* no read of this tick has failed
  ticking,  \* history: what was raised [all, some] of the time since this tick began
  since,    \* history: and since the last whole tick without a failure began
  garbled,  \* history: the registers whose last reading was garbled
  changes   \* history: MaxChanges counts them

reportVars == <<raised, position, cached, clean, ticking, since, garbled, changes>>

ReadOrder ==
  <<"STATUS_WORD", "DIAGNOSTIC_WORD", "STATUS_MFR_SPECIFIC_2", "STATUS_INPUT",
    "STATUS_CML", "STATUS_MFR_SPECIFIC">>

\* How long events have been up: all of a time, or some of it.
Span == [all : SUBSET Considered, some : SUBSET Considered]
Instant(events) == [all |-> events, some |-> events]

ReportInit ==
  /\ raised = {} /\ position = 1 /\ clean = TRUE
  /\ cached = [reg \in StatusRegisters |-> {}]
  /\ ticking = Instant({}) /\ since = Instant({})
  /\ garbled = {} /\ changes = 0

-----------------------------------------------------------------------------
(* The chip.                                                                *)

Change == changes < MaxChanges /\ changes' = changes + 1

Longer(span) == [all |-> span.all \cap raised', some |-> span.some \cup raised']

ChipShows(events) ==
  /\ raised' = events
  /\ ticking' = Longer(ticking) /\ since' = Longer(since)
  /\ UNCHANGED <<position, cached, clean, garbled>>

Happen == \E event \in Considered \ raised : Change /\ ChipShows(raised \cup {event})

\* CLEAR_FAULTS, by recovery, clearFaults() or RG, or a loss of the chip's power.
Cleared == raised # {} /\ Change /\ ChipShows({})

-----------------------------------------------------------------------------
(* tick().                                                                  *)

AfterTick(from) == IF from = Len(ReadOrder) THEN 1 ELSE from + 1

\* A tick ends with its last register; it begins with the first.
Advance(ok) ==
  LET sofar == IF position = 1 THEN Instant(raised) ELSE ticking
  IN /\ clean' = (ok /\ (position = 1 \/ clean))
     /\ ticking' = sofar
     /\ since' = IF position = Len(ReadOrder) /\ clean' THEN sofar ELSE since
     /\ position' = AfterTick(position)

Register == ReadOrder[position]

ReadExactly ==
  /\ cached' = [cached EXCEPT ![Register] = Status(raised)[Register]]
  /\ garbled' = garbled \ {Register}
  /\ Advance(TRUE)
  /\ UNCHANGED <<raised, changes>>

\* Mutant of AfterFailure: the zero the local starts with is taken.
AfterFailureZero(reg) == {}

AfterFailure(reg) == cached[reg]

ReadFailed ==
  /\ Change
  /\ cached' = [cached EXCEPT ![Register] = AfterFailure(Register)]
  /\ Advance(FALSE)
  /\ UNCHANGED <<raised, garbled>>

\* A reading that reports success and is all zeros (SDA held low) or all ones.
ReadGarbled ==
  /\ Change
  /\ \E bits \in {{}, 0 .. 15} : cached' = [cached EXCEPT ![Register] = bits]
  /\ garbled' = garbled \cup {Register}
  /\ Advance(TRUE)
  /\ UNCHANGED raised

ReportNext == Happen \/ Cleared \/ ReadExactly \/ ReadFailed \/ ReadGarbled

ReportSpec == ReportInit /\ [][ReportNext]_reportVars

-----------------------------------------------------------------------------
(* Properties.                                                              *)

\* The report a reader gets between two ticks, and the faults it names to him:
\* those all of whose lines it shows.
Printed == Report(cached)
Named == {fault \in DOMAIN Faults : Report(Status({fault})) \subseteq Printed}
Printable == position = 1 /\ garbled = {}

\* A fault that the chip has shown ever since before the last tick without a failed
\* read is named, whatever else is raised, comes and goes, however the bits of
\* several ticks are mixed.  (rail.cpp: each ok_ keeps its register apart;
\* main.cpp: the bits tested, the exception for CML.)
StandingFaultsNamed == Printable => since.all \cap DOMAIN Faults \subseteq Named

\* A fault that is named has been up at some time since that tick began, so no
\* warning, no other fault and no mixture of readings passes for it.
NoFaultInvented == Printable => Named \subseteq since.some
=============================================================================
