------------------------ MODULE MCScreenshotPipeline ------------------------
\* ScreenshotPipeline on a small instance for TLC.
EXTENDS ScreenshotPipeline, TLC

Symmetry == UNION {Permutations(S) : S \in {Files, Users, Outcomes}}

\* Bound of the run, whose states are not explored further beyond it: one fault
\* or one screenshot sent round again, and none past the order window by then.
OneIncident ==
  /\ faults + reprocessed <= 1
  /\ faults + reprocessed = 1 => \A s \in Submissions : row[s].age = 0
=============================================================================
