--------------------------- MODULE EventDelivery ---------------------------
(***************************************************************************)
(* What the outbox, Kafka and the inbox promise together: an event that    *)
(* was recorded with a change is settled, once, and never before it was    *)
(* recorded.  Settled means its handler's transaction committed or the     *)
(* consumer gave the event up and said so.                                 *)
(***************************************************************************)
CONSTANT Events

VARIABLES
  recorded,   \* events whose transaction has committed
  settled     \* events handled or given up

vars == <<recorded, settled>>

Init == recorded = {} /\ settled = {}

\* One transaction may record several.
Record ==
  /\ recorded \subseteq recorded' /\ recorded' \in SUBSET Events
  /\ UNCHANGED settled

Settle(e) ==
  /\ e \in recorded \ settled
  /\ settled' = settled \cup {e}
  /\ UNCHANGED recorded

Next == Record \/ \E e \in Events : Settle(e)

Spec == Init /\ [][Next]_vars /\ \A e \in Events : WF_vars(Settle(e))
=============================================================================
