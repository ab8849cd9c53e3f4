------------------------------ MODULE RailOps ------------------------------
(***************************************************************************)
(* What a rail promises the rest of the firmware, with the waits left out: *)
(* a record of the four things the other components can tell, and for each *)
(* call of rail::Controller the records it may leave behind.  Rail.tla is  *)
(* the detailed controller; RailContract.tla turns these outcomes into a   *)
(* specification that Rail implements.                                     *)
(***************************************************************************)

RailState ==
  {"Boot", "Absent", "Ready", "Running", "Warning", "Tripped", "Latched"}

\* op is bit 7 of the chip's OPERATION register.
RailRecord == [state : RailState, desired_on : BOOLEAN,
               pending : BOOLEAN, op : BOOLEAN]

IsPresent(r) == r.state \notin {"Boot", "Absent"}

\* The controller right after reset; the chip keeps its OPERATION bit.
Rebooted(r) ==
  [state |-> "Boot", desired_on |-> FALSE, pending |-> FALSE, op |-> r.op]

InitOutcomes(r) ==
  {[r EXCEPT !.state = s] : s \in {"Absent", "Tripped", "Ready"}}

\* A write of OPERATION landed or was lost, whatever the bus reports of it.
Written(r, on) == {r, [r EXCEPT !.op = on]}

Enabled(r) ==
  [state |-> "Running", desired_on |-> TRUE, pending |-> FALSE, op |-> r.op]

EnableOutcomes(r) ==
  IF r.state \in {"Absent", "Latched"} THEN {r}
  ELSE {Enabled(w) : w \in Written(r, TRUE)} \cup
       {[w EXCEPT !.desired_on = TRUE] : w \in Written(r, TRUE)}

\* Mutant of Disabled: a recovery in flight is not cancelled.
DisabledKeepsRecovery(r) ==
  [r EXCEPT !.state = IF @ \in {"Running", "Warning"} THEN "Ready" ELSE @,
            !.desired_on = FALSE]

Disabled(r) ==
  [state |-> IF r.state \in {"Running", "Warning"} THEN "Ready" ELSE r.state,
   desired_on |-> FALSE, pending |-> FALSE, op |-> r.op]

\* disable() heard an acknowledge, or heard none.
DisableAcks(r) == {Disabled(w) : w \in Written(r, FALSE)}

DisableRefusals(r) == {[w EXCEPT !.desired_on = FALSE] : w \in Written(r, FALSE)}

\* The chip woke up, or reloaded its defaults: OPERATION is on.
PoweredUp(r) == [r EXCEPT !.op = TRUE]

Unlatched(r) == [r EXCEPT !.state = IF @ = "Latched" THEN "Ready" ELSE @]

\* tick() read the OPERATION register: state_ follows it.
Followed(r) ==
  [r EXCEPT !.state = CASE r.op /\ @ = "Ready" -> "Running"
                        [] ~r.op /\ ~r.desired_on /\ @ = "Running" -> "Ready"
                        [] OTHER -> @]

\* A pending recovery may come due, whether or not the rail is still wanted; a
\* wanted rail may be forced off to start one.  Whether it is due is the chip's
\* and the clock's business.
RecoveryOutcomes(r) ==
  IF r.pending
    THEN {[w EXCEPT !.pending = FALSE] : w \in Written(r, TRUE)}
  ELSE IF r.desired_on
    THEN {[w EXCEPT !.pending = TRUE] : w \in Written(r, FALSE)}
  ELSE {}

TickOutcomes(r) ==
  IF ~IsPresent(r) THEN {r}
  ELSE {r, [r EXCEPT !.state = "Absent"], Followed(r)}
         \cup RecoveryOutcomes(Followed(r))
=============================================================================
