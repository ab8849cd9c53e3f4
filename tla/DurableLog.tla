----------------------------- MODULE DurableLog -----------------------------
(***************************************************************************)
(* What the fault log promises its callers, with the flash page left out:  *)
(* the history RG reads, and what a boot at this instant would bring back. *)
(* A record with room for it is made durable on its own; a history that is *)
(* full, and one whose append failed, is wiped and made durable again      *)
(* record by record from the front; clear() is durable at its erase.  A    *)
(* write that a reset or a failure cuts short may leave a spoilt record    *)
(* behind.  After a flash operation failed the two may differ until the    *)
(* next erase or boot.  A reset comes at any time and takes nothing more.  *)
(***************************************************************************)
EXTENDS Integers, Sequences

CONSTANTS
  Record, Capacity,
  Spoilt(_) \* what an unfinished write of a record may read as

VARIABLES
  phase,   \* "down", "idle", or what the call in progress is doing
  history, \* the records RG can read
  durable, \* the records whose writing has ended
  half,    \* what a boot would bring back after them of the one being written
  failing  \* a flash operation failed since the last erase or boot

Init ==
  /\ phase = "down" /\ history = <<>> /\ failing = FALSE
  /\ durable = <<>> /\ half = <<>>

boot ==
  /\ phase = "down"
  /\ phase' = "idle"
  /\ history' = durable /\ failing' = FALSE
  /\ UNCHANGED <<durable, half>>

\* What is half written stays as it is.
cut == durable' = durable \o half /\ half' = <<>>

reset ==
  /\ phase # "down"
  /\ phase' = "down"
  /\ history' = <<>>
  /\ cut
  /\ UNCHANGED failing

record(entry) ==
  /\ phase = "idle"
  /\ IF Len(history) < Capacity
       THEN phase' = "append" /\ history' = Append(history, entry)
       ELSE phase' = "rewrite" /\ history' = Append(Tail(history), entry)
  /\ UNCHANGED <<durable, half, failing>>

clear ==
  /\ phase = "idle"
  /\ phase' = "clear"
  /\ history' = <<>>
  /\ UNCHANGED <<durable, half, failing>>

\* The record whose turn it is; after a failure the order is lost.
Due ==
  IF failing THEN {history[i] : i \in DOMAIN history} ELSE {history[Len(durable) + 1]}

\* Some of it is written.
write ==
  /\ phase \in {"append", "regrow"}
  /\ half' = <<>> \/ \E entry \in Due : \E spoilt \in Spoilt(entry) : half' = <<spoilt>>
  /\ UNCHANGED <<phase, history, durable, failing>>

\* The record is durable.
commit ==
  /\ phase = "append"
  /\ phase' = "idle"
  /\ durable' = IF failing THEN Append(durable, history[Len(history)]) ELSE history
  /\ half' = <<>>
  /\ UNCHANGED <<history, failing>>

\* It is not, and everything will be written again.
fallBack ==
  /\ phase = "append"
  /\ phase' = "rewrite"
  /\ cut
  /\ failing' \in {failing, TRUE}
  /\ UNCHANGED history

erase ==
  /\ phase \in {"rewrite", "clear"}
  /\ phase' = IF phase = "clear" THEN "idle" ELSE "regrow"
  /\ \/ durable' = <<>> /\ failing' = FALSE
     \/ durable' = durable /\ failing' = TRUE
  /\ UNCHANGED <<history, half>>

\* The next record of the history is durable again.
regrow ==
  /\ phase = "regrow" /\ ~failing
  /\ durable' = Append(durable, history[Len(durable) + 1])
  /\ half' = <<>>
  /\ phase' = IF durable' = history THEN "idle" ELSE "regrow"
  /\ UNCHANGED <<history, failing>>

\* A record that could not be written, or any record after it.
falter ==
  /\ phase = "regrow"
  /\ phase' \in {"regrow", "idle"}
  /\ failing' = TRUE
  /\ \/ cut
     \/ /\ failing
        /\ \E entry \in Due : durable' = Append(durable, entry)
        /\ half' = <<>>
  /\ UNCHANGED history

Next ==
  \/ boot
  \/ reset
  \/ \E entry \in Record : record(entry)
  \/ clear
  \/ write
  \/ commit
  \/ fallBack
  \/ erase
  \/ regrow
  \/ falter

Spec == Init /\ [][Next]_<<phase, history, durable, half, failing>>
=============================================================================
