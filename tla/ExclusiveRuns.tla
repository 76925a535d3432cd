--------------------------- MODULE ExclusiveRuns ---------------------------
(***************************************************************************)
(* What the review sync promises of its runs, whoever asks for them and    *)
(* whatever dies: a run is begun when none is active, it is closed once    *)
(* and for ever, and it is closed in the end, so that the next may begin.  *)
(***************************************************************************)
CONSTANT Runs

VARIABLES
  active,   \* runs begun and not closed
  closed    \* runs with a verdict

vars == <<active, closed>>

Init == active = {} /\ closed = {}

Begin(r) ==
  /\ active = {} /\ r \notin closed
  /\ active' = {r}
  /\ UNCHANGED closed

\* Without anybody enrolled a run has nothing to do.
BeginEmpty(r) ==
  /\ active = {} /\ r \notin closed
  /\ closed' = closed \cup {r}
  /\ UNCHANGED active

Close(r) ==
  /\ r \in active
  /\ active' = active \ {r}
  /\ closed' = closed \cup {r}

Next == \E r \in Runs : Begin(r) \/ BeginEmpty(r) \/ Close(r)

Spec == Init /\ [][Next]_vars /\ \A r \in Runs : WF_vars(Close(r))
=============================================================================
