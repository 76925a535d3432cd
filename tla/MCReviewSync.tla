---------------------------- MODULE MCReviewSync ----------------------------
\* ReviewSync on small instances for TLC.
EXTENDS ReviewSync, TLC

SellerSymmetry == Permutations(Sellers)
SellerAndWorkerSymmetry == Permutations(Sellers) \cup Permutations(Workers)

Away == {s \in Sellers : registry[s] # "active" \/ s \notin tracked}
Busy == {w \in Workers : worker[w] # Idle}

\* Bounds of review_sellers, whose states are not explored further beyond them.
\* One seller at a time is away, and none once there is a second run, which one
\* consumer scans; on the second day a run is asked for and nothing is scanned.
FewChanges ==
  /\ Cardinality(Away) <= 1
  /\ run[MaxRuns].status # "absent" => Away = {} /\ Cardinality(Busy) <= 1
  /\ today > 1 => Away = {} /\ Busy = {} /\ \A r \in ActiveRuns : run[r].day = today
=============================================================================
