---------------------------- MODULE RailContract ----------------------------
(***************************************************************************)
(* The rail as the supervisor and the control API may rely on it: every    *)
(* call leaves one of the outcomes of RailOps, in any order, at any time.  *)
(***************************************************************************)
EXTENDS RailOps

VARIABLE rail

Init ==
  \E on \in BOOLEAN :
    rail = [state |-> "Boot", desired_on |-> FALSE, pending |-> FALSE, op |-> on]

init == rail.state = "Boot" /\ rail' \in InitOutcomes(rail)

enable == rail.state # "Boot" /\ rail' \in EnableOutcomes(rail)

disable ==
  /\ rail.state # "Boot"
  /\ rail' \in DisableAcks(rail) \cup DisableRefusals(rail)

clearLatch == rail' = Unlatched(rail)

tick == rail' \in TickOutcomes(rail)

\* RG writes OPERATION through the PMBus bridge, past the controller.
bridge ==
  /\ rail.state # "Boot"
  /\ \E on \in BOOLEAN : rail' = [rail EXCEPT !.op = on]

powerLost == rail' = PoweredUp(rail)

reset == rail' = Rebooted(rail)

Next ==
  init \/ enable \/ disable \/ clearLatch \/ tick \/ bridge \/ powerLost \/ reset

Spec == Init /\ [][Next]_rail
=============================================================================
