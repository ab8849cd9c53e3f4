------------------------------ MODULE RailChip ------------------------------
(***************************************************************************)
(* A rail's chip from init() on: it is configured (RailConfig), and from     *)
(* then on tick() reads its status and the faults are reported (FaultReport).*)
(***************************************************************************)
EXTENDS RailConfig, FaultReport

lifeVars == <<vars, reportVars>>

LifeInit == Init /\ ReportInit

\* A rail on its way through init(), or disturbed before its first report:
\* RailConfig looks at what becomes of its configuration.
Configured ==
  /\ changes = 0 /\ position = 1
  /\ Next
  /\ UNCHANGED reportVars

\* tick() returns early from a rail that is absent or was not initialised.
Ticked == result \in {"kOk", "kBusError"}

\* tick() and the report.  The two halves share no register, so what goes wrong is
\* taken in one half at a time: in this one, the configuration is undisturbed.
Reported ==
  /\ Ticked /\ faults = 0
  /\ ReportNext
  /\ UNCHANGED vars

LifeNext == Configured \/ Reported

LifeSpec == LifeInit /\ [][LifeNext]_lifeVars
=============================================================================
