-------------------------- MODULE StockDistribution --------------------------
(***************************************************************************)
(* How the stock of one item reaches Wildberries                           *)
(* (modules/wb_fbs_distribution): 1C snapshots fill a pool, the cabinets   *)
(* that sell the item share it, a plan spreads a cabinet's part over its   *)
(* warehouses, and a publication writes what has changed since the last    *)
(* confirmed reading, warehouse by warehouse.                              *)
(*                                                                         *)
(* A cabinet maps the item to one size of its own.  Plans and publications *)
(* are requests to the API, with no lock between them; Wildberries is      *)
(* external, and lowers its amounts itself when a buyer orders.            *)
(***************************************************************************)
EXTENDS Integers, FiniteSets, SequencesExt

CONSTANTS
  Sellers,
  Warehouses,       \* numbers; a cabinet orders the warehouses of a region by them
  RegionOf,         \* the region, by its position, of a warehouse's office
  RegionShares,     \* shares of the regions that save_regions is given
  Reserve,          \* distribution_settings.reserve_units
  PriorityRegions,  \* distribution_settings.priority_regions
  BasisPoints,      \* 10 000 in the code
  Requests,         \* requests in progress at the same time
  MaxQuantity,      \* bound: units of the item that 1C reports
  MaxEdits,         \* bound: changes of the pool, the rules and the enrolment
  MaxJobs,          \* bound: plans and publications started
  BuyersOrder,      \* whether buyers order in the meantime
  MaxFaults         \* bound: failing calls, dying requests and units ordered

Regions == {RegionOf[w] : w \in Warehouses}
Nobody == [s \in {} |-> 0]

ASSUME DistributionAssumption ==
  /\ Warehouses \subseteq Nat /\ IsFiniteSet(Warehouses) /\ IsFiniteSet(Sellers)
  /\ RegionOf \in [Warehouses -> Nat]
  /\ RegionShares \subseteq [Regions -> 0..BasisPoints]
  /\ {Reserve, MaxQuantity, MaxEdits, MaxJobs, MaxFaults} \subseteq Nat
  /\ {PriorityRegions, BasisPoints} \subseteq Nat \ {0} /\ BuyersOrder \in BOOLEAN

VARIABLES
  quantity,       \* stock_pools.quantity of the item
  mapped,         \* cabinets with a mapping of the item
  rule,           \* pool_seller_shares of the item
  shares,         \* regions.share_bp
  participating,  \* warehouses of each cabinet in the scheme
  processing,     \* warehouses of each cabinet that Wildberries creates or deletes
  enrolled,       \* tracked_sellers, with the right to write
  plan,           \* the plan of each cabinet with the highest sequence
  published,      \* published_stocks: the amounts confirmed by reading
  wb,             \* what Wildberries shows
  request,        \* what each request is doing
  disturbed,      \* history: pairs whose amount has changed since it was last read
  overlapped,     \* history: cabinets of which two publications ran together
  edits, jobs, faults

inputVars == <<quantity, mapped, rule, shares, participating, processing, enrolled>>
stockVars == <<plan, published, wb, disturbed>>
vars == <<inputVars, stockVars, request, overlapped, edits, jobs, faults>>
-----------------------------------------------------------------------------
\* domain/stock.py and domain/allocation.py.

Least(a, b) == IF a < b THEN a ELSE b

\* Mutant of AvailableUnits: the reserve is always taken in full.
ReserveAlwaysTaken(onHand) == onHand - Reserve

\* available_units: the reserve is taken gradually, and from more than Reserve units.
AvailableUnits(onHand) ==
  LET cut == onHand - Reserve IN
  IF onHand <= 0 THEN 0 ELSE Least(onHand, IF cut > Reserve THEN cut ELSE Reserve)

\* largest_remainder: whole quotas first; what is left goes to the largest fractions,
\* to the earlier one among equals.
LargestRemainder(total, weights) ==
  LET sum == SumFunction(weights)
      base == [i \in DOMAIN weights |-> (total * weights[i]) \div sum]
      fraction == [i \in DOMAIN weights |-> (total * weights[i]) % sum]
      ahead(i) == {j \in DOMAIN weights :
                     fraction[j] > fraction[i] \/ (fraction[j] = fraction[i] /\ j < i)}
  IN  IF sum = 0 THEN [i \in DOMAIN weights |-> 0]
      ELSE [i \in DOMAIN weights |->
              base[i] + IF Cardinality(ahead(i)) < total - SumFunction(base) THEN 1 ELSE 0]

\* sorted, where ahead gives each element those before it.  (SortSeq is recursive.)
InOrder(ahead) ==
  [i \in 1..Cardinality(DOMAIN ahead) |->
     CHOOSE x \in DOMAIN ahead : Cardinality(ahead[x]) = i - 1]

Place(queue, w) == CHOOSE i \in DOMAIN queue : queue[i] = w

\* Mutant of PriorityOrder: region after region.
RegionByRegion(set, kept) ==
  InOrder([w \in kept |-> {v \in kept : RegionOf[v] < RegionOf[w]
                                         \/ (RegionOf[v] = RegionOf[w] /\ v < w)}])

\* priority_order: one warehouse of each region, then a second lap; what is kept of
\* the set stays in its lap.
PriorityOrder(set, kept) ==
  LET lap == [w \in set |-> Cardinality({v \in set : RegionOf[v] = RegionOf[w] /\ v < w})]
  IN  InOrder([w \in kept |-> {v \in kept : lap[v] < lap[w]
                                 \/ (lap[v] = lap[w] /\ RegionOf[v] < RegionOf[w])}])

\* _priority_split: little stock goes to the first PriorityRegions of the queue.
PrioritySplit(available, queue) ==
  LET take == Least(Least(PriorityRegions, Len(queue)), available)
      amounts == LargestRemainder(available, [i \in 1..take |-> 1])
  IN  [w \in {queue[i] : i \in 1..take} |-> amounts[Place(queue, w)]]

\* Mutant of RaiseZerosToOne: a donor gives all it lacks at once.
RaiseFromOneDonor(amounts, queue) ==
  LET zeros == {w \in DOMAIN amounts : amounts[w] = 0}
      donor == CHOOSE w \in DOMAIN amounts : \A v \in DOMAIN amounts : amounts[v] <= amounts[w]
  IN  [w \in DOMAIN amounts |-> IF w \in zeros THEN 1
                                ELSE IF w = donor THEN amounts[w] - Cardinality(zeros)
                                ELSE amounts[w]]

\* The largest, the last in the queue among equals.
Donor(amounts, queue) ==
  CHOOSE w \in DOMAIN amounts : \A v \in DOMAIN amounts \ {w} :
    amounts[v] < amounts[w]
    \/ (amounts[v] = amounts[w] /\ Place(queue, v) < Place(queue, w))

\* _raise_zeros_to_one: a donor lifts each zero.
RaiseZerosToOne(amounts, queue) ==
  LET Lift(w, now) == [now EXCEPT ![Donor(now, queue)] = @ - 1, ![w] = 1]
  IN  FoldSet(Lift, amounts, {w \in DOMAIN amounts : amounts[w] = 0})

\* The regions' shares of everything, equal parts inside a region.  A region stands where
\* its first warehouse stands in the queue.
Spread(available, queue, sharesRead) ==
  LET sameRegion(i) == {j \in DOMAIN queue : RegionOf[queue[j]] = RegionOf[queue[i]]}
      first(i) == CHOOSE j \in sameRegion(i) : \A k \in sameRegion(i) : j <= k
      parts == LargestRemainder(available, [i \in {first(j) : j \in DOMAIN queue} |->
                                              sharesRead[RegionOf[queue[i]]]])
      amount(i) == LargestRemainder(parts[first(i)], [j \in sameRegion(i) |-> 1])[i]
  IN  [w \in Range(queue) |-> amount(Place(queue, w))]

\* _full_coverage.
FullCoverage(available, queue, sharesRead) ==
  RaiseZerosToOne(Spread(available, queue, sharesRead), queue)

SharesConfigured(queue, sharesRead) == \E w \in Range(queue) : sharesRead[RegionOf[w]] > 0

\* allocate, with the reasons for which build skips the size; Nobody is no item.
Allocate(available, queue, sharesRead) ==
  IF available <= 0 \/ queue = <<>> THEN Nobody
  ELSE IF available < Len(queue) THEN PrioritySplit(available, queue)
  ELSE IF SharesConfigured(queue, sharesRead) THEN FullCoverage(available, queue, sharesRead)
  ELSE Nobody
-----------------------------------------------------------------------------
NoPlan == [seller |-> "none"]
Idle == [job |-> "none"]

Wanted(amounts, w) == IF w \in DOMAIN amounts THEN amounts[w] ELSE 0
Write(stock, s, w, n) == [stock EXCEPT ![s][w] = n]
Tracked(s) == enrolled[s] \in {"dry", "write"}
Busy(r) == request[r] # Idle
Publishing(s) == {r \in Requests : request[r].job = "publish" /\ request[r].seller = s}

\* Cabinets sell the item already, and one pool may be shared from the start.
Init ==
  /\ quantity \in 0..MaxQuantity
  /\ mapped = Sellers
  /\ rule \in {Nobody} \cup {f \in [Sellers -> 0..BasisPoints] : SumFunction(f) = BasisPoints}
  /\ shares \in RegionShares
  /\ participating = [s \in Sellers |-> Warehouses]
  /\ processing = [s \in Sellers |-> {}]
  /\ enrolled = [s \in Sellers |-> "write"]
  /\ plan = [s \in Sellers |-> NoPlan]
  /\ published = [s \in Sellers |-> [w \in Warehouses |-> 0]]
  /\ wb = published
  /\ request = [r \in Requests |-> Idle]
  /\ disturbed = {} /\ overlapped = {}
  /\ edits = 0 /\ jobs = 0 /\ faults = 0
-----------------------------------------------------------------------------
\* What the plans are calculated from.

\* Every change of the inputs takes one of the MaxEdits.
Edit ==
  /\ edits < MaxEdits /\ edits' = edits + 1
  /\ UNCHANGED <<request, overlapped, jobs, faults>>

\* StockSnapshotService.accept: an absolute snapshot; a missing line is a zero.
AcceptSnapshot ==
  /\ Edit
  /\ quantity' \in 0..MaxQuantity
  /\ UNCHANGED <<mapped, rule, shares, participating, processing, enrolled, stockVars>>

\* MappingService.rematch.
Rematch(s) ==
  /\ Edit /\ Tracked(s)
  /\ mapped' \in {mapped \cup {s}, mapped \ {s}}
  /\ UNCHANGED <<quantity, rule, shares, participating, processing, enrolled, stockVars>>

\* MappingService.set_shares: no rule, or a whole one.
SetShares ==
  /\ Edit
  /\ rule' \in {Nobody} \cup
       {f \in [Sellers -> 0..BasisPoints] : SumFunction(f) = BasisPoints}
  /\ UNCHANGED <<quantity, mapped, shares, participating, processing, enrolled, stockVars>>

\* PlacementService.save_regions: nothing, or 100%.
SaveRegions ==
  /\ Edit
  /\ shares' \in {f \in RegionShares : SumFunction(f) \in {0, BasisPoints}}
  /\ UNCHANGED <<quantity, mapped, rule, participating, processing, enrolled, stockVars>>

\* PlacementService.set_placement.
SetPlacement(s) ==
  /\ Edit /\ enrolled[s] # "gone"
  /\ \E w \in Warehouses :
       participating' = [participating EXCEPT ![s] =
                           IF w \in @ THEN @ \ {w} ELSE @ \cup {w}]
  /\ UNCHANGED <<quantity, mapped, rule, shares, processing, enrolled, stockVars>>

\* MirrorService.sync_seller finds a warehouse in another state.
SyncMirror(s) ==
  /\ Edit /\ Tracked(s)
  /\ \E w \in Warehouses :
       processing' = [processing EXCEPT ![s] = IF w \in @ THEN @ \ {w} ELSE @ \cup {w}]
  /\ UNCHANGED <<quantity, mapped, rule, shares, participating, enrolled, stockVars>>

\* track, untrack, set_write_enabled.
Enrol(s) ==
  /\ Edit
  /\ \/ enrolled[s] = "off" /\ enrolled' = [enrolled EXCEPT ![s] = "dry"]
     \/ enrolled[s] # "gone" /\ enrolled' = [enrolled EXCEPT ![s] = "off"]
     \/ /\ Tracked(s)
        /\ enrolled' \in {[enrolled EXCEPT ![s] = m] : m \in {"dry", "write"}}
  /\ UNCHANGED <<quantity, mapped, rule, shares, participating, processing, stockVars>>

\* purge_seller: the cabinet is deleted.  Wildberries keeps what it shows.
PurgeSeller(s) ==
  /\ Edit /\ enrolled[s] # "gone"
  /\ enrolled' = [enrolled EXCEPT ![s] = "gone"]
  /\ mapped' = mapped \ {s}
  /\ rule' = [c \in DOMAIN rule \ {s} |-> rule[c]]
  /\ participating' = [participating EXCEPT ![s] = {}]
  /\ processing' = [processing EXCEPT ![s] = {}]
  /\ plan' = [plan EXCEPT ![s] = NoPlan]
  /\ published' = [published EXCEPT ![s] = [w \in Warehouses |-> 0]]
  /\ disturbed' = disturbed \cup {<<s, w>> : w \in Warehouses}
  /\ UNCHANGED <<quantity, shares, wb>>
-----------------------------------------------------------------------------
\* PlanningService.build.

\* Mutant of CabinetShare: a rule that lost a cabinet is taken as it stands.
ShareOfAnyRule(s, ruleRead, cabinets) ==
  IF Cardinality(cabinets) <= 1 \/ s \notin DOMAIN ruleRead THEN BasisPoints ELSE ruleRead[s]

\* _cabinet_share; None is -1.
CabinetShare(s, ruleRead, cabinets) ==
  IF Cardinality(cabinets) <= 1 THEN BasisPoints
  ELSE IF SumFunction(ruleRead) # BasisPoints THEN -1
  ELSE Wanted(ruleRead, s)

Queue(s) == PriorityOrder(participating[s], participating[s] \ processing[s])

\* The shares of the regions, the queue, the mappings and the pools.
PlanReads(r, s) ==
  /\ request[r] = Idle /\ jobs < MaxJobs /\ Tracked(s)
  /\ request' = [request EXCEPT ![r] =
       [job |-> "plan", seller |-> s, quantity |-> quantity, sells |-> s \in mapped,
        shares |-> shares, queue |-> Queue(s),
        thinned |-> participating[s] \cap processing[s] # {}]]
  /\ jobs' = jobs + 1
  /\ UNCHANGED <<inputVars, stockVars, overlapped, edits, faults>>

\* The number of cabinets and the rule are read by later statements; then save_plan.
PlanSaves(r) ==
  LET q == request[r]
      share == CabinetShare(q.seller, rule, mapped)
      available == IF q.sells /\ share > 0
                   THEN (AvailableUnits(q.quantity) * share) \div BasisPoints ELSE 0
  IN  /\ q.job = "plan"
      /\ plan' = [plan EXCEPT ![q.seller] =
           [seller |-> q.seller, basis |-> <<q.quantity, mapped, rule>>,
            available |-> available, queue |-> q.queue, thinned |-> q.thinned,
            amounts |-> Allocate(available, q.queue, q.shares)]]
      /\ request' = [request EXCEPT ![r] = Idle]
      /\ UNCHANGED <<inputVars, published, wb, disturbed, overlapped, edits, jobs, faults>>
-----------------------------------------------------------------------------
\* PublicationService.publish.

\* The pairs that differ from the memory, in the order of the warehouses.
StartPublish(r, s) ==
  LET desired == IF s \in mapped THEN plan[s].amounts ELSE Nobody IN
  /\ request[r] = Idle /\ jobs < MaxJobs
  /\ enrolled[s] = "write" /\ plan[s] # NoPlan
  /\ request' = [request EXCEPT ![r] =
       [job |-> "publish", seller |-> s, pc |-> "write", desired |-> desired,
        todo |-> {w \in Warehouses : Wanted(desired, w) # published[s][w]},
        actual |-> 0, verified |-> TRUE]]
  /\ overlapped' = IF Publishing(s) # {} THEN overlapped \cup {s} ELSE overlapped
  /\ jobs' = jobs + 1
  /\ UNCHANGED <<inputVars, stockVars, edits, faults>>

\* The warehouse a publication is at.
At(r) == CHOOSE w \in request[r].todo : \A v \in request[r].todo : w <= v

\* What is left after a warehouse has an outcome.
Outcome(r, verified) ==
  request' = [request EXCEPT ![r].todo = @ \ {At(r)}, ![r].pc = "write", ![r].actual = 0,
                             ![r].verified = IF verified THEN @ ELSE FALSE]

\* Every call that fails, death and order takes one of the MaxFaults.
Fault == faults < MaxFaults /\ faults' = faults + 1

Writing(r) == request[r].job = "publish" /\ request[r].pc = "write" /\ request[r].todo # {}

\* writer.publish has reached Wildberries.
Written(r) ==
  LET s == request[r].seller IN
  /\ wb' = Write(wb, s, At(r), Wanted(request[r].desired, At(r)))
  /\ disturbed' = disturbed \cup {<<s, At(r)>>}

WriteStock(r) ==
  /\ Writing(r) /\ Written(r)
  /\ request' = [request EXCEPT ![r].pc = "read"]
  /\ UNCHANGED <<inputVars, plan, published, overlapped, edits, jobs, faults>>

\* 204 and nothing changed.
WriteIgnored(r) ==
  /\ Writing(r) /\ Fault
  /\ request' = [request EXCEPT ![r].pc = "read"]
  /\ UNCHANGED <<inputVars, stockVars, overlapped, edits, jobs>>

\* A refusal, or an answer that was lost.
WriteFails(r) ==
  /\ Writing(r) /\ Fault
  /\ Written(r) \/ UNCHANGED <<wb, disturbed>>
  /\ Outcome(r, FALSE)
  /\ UNCHANGED <<inputVars, plan, published, overlapped, edits, jobs>>

\* marketplace.stocks.
ReadBack(r) ==
  LET s == request[r].seller IN
  /\ request[r].job = "publish" /\ request[r].pc = "read"
  /\ request' = [request EXCEPT ![r].pc = "confirm", ![r].actual = wb[s][At(r)]]
  /\ disturbed' = disturbed \ {<<s, At(r)>>}
  /\ UNCHANGED <<inputVars, plan, published, wb, overlapped, edits, jobs, faults>>

ReadFails(r) ==
  /\ request[r].job = "publish" /\ request[r].pc = "read" /\ Fault
  /\ Outcome(r, FALSE)
  /\ UNCHANGED <<inputVars, stockVars, overlapped, edits, jobs>>

\* Mutants of Confirm: what was sent is remembered; a drift is taken for success.
ConfirmSent(r) ==
  LET s == request[r].seller
      n == Wanted(request[r].desired, At(r))
  IN  /\ request[r].job = "publish" /\ request[r].pc = "confirm"
      /\ published' = Write(published, s, At(r), n)
      /\ Outcome(r, request[r].actual = n)
      /\ UNCHANGED <<inputVars, plan, wb, disturbed, overlapped, edits, jobs, faults>>

ConfirmDrift(r) ==
  /\ request[r].job = "publish" /\ request[r].pc = "confirm"
  /\ published' = Write(published, request[r].seller, At(r), request[r].actual)
  /\ Outcome(r, TRUE)
  /\ UNCHANGED <<inputVars, plan, wb, disturbed, overlapped, edits, jobs, faults>>

\* confirm_published: what was read, not what was sent; a drift is not a success.
Confirm(r) ==
  LET n == request[r].actual IN
  /\ request[r].job = "publish" /\ request[r].pc = "confirm"
  /\ published' = Write(published, request[r].seller, At(r), n)
  /\ Outcome(r, n = Wanted(request[r].desired, At(r)))
  /\ UNCHANGED <<inputVars, plan, wb, disturbed, overlapped, edits, jobs, faults>>

Finish(r) ==
  /\ request[r].job = "publish" /\ request[r].todo = {}
  /\ request' = [request EXCEPT ![r] = Idle]
  /\ UNCHANGED <<inputVars, stockVars, overlapped, edits, jobs, faults>>

\* The process stops; what was read and not committed is lost.
Die(r) ==
  /\ Busy(r) /\ Fault
  /\ disturbed' = IF request[r].job = "publish" /\ request[r].pc = "confirm"
                  THEN disturbed \cup {<<request[r].seller, At(r)>>} ELSE disturbed
  /\ request' = [request EXCEPT ![r] = Idle]
  /\ UNCHANGED <<inputVars, plan, published, wb, overlapped, edits, jobs>>

\* A buyer orders a unit at a warehouse.
Order(s, w) ==
  /\ BuyersOrder /\ Fault /\ wb[s][w] > 0
  /\ wb' = Write(wb, s, w, wb[s][w] - 1)
  /\ disturbed' = disturbed \cup {<<s, w>>}
  /\ UNCHANGED <<inputVars, plan, published, request, overlapped, edits, jobs>>
-----------------------------------------------------------------------------
Next ==
  \/ AcceptSnapshot \/ SetShares \/ SaveRegions
  \/ \E s \in Sellers :
       \/ Rematch(s) \/ SetPlacement(s) \/ SyncMirror(s) \/ Enrol(s) \/ PurgeSeller(s)
       \/ \E w \in Warehouses : Order(s, w)
       \/ \E r \in Requests : PlanReads(r, s) \/ StartPublish(r, s)
  \/ \E r \in Requests :
       \/ PlanSaves(r) \/ WriteStock(r) \/ WriteIgnored(r) \/ WriteFails(r)
       \/ ReadBack(r) \/ ReadFails(r) \/ Confirm(r) \/ Finish(r) \/ Die(r)

Spec == Init /\ [][Next]_vars
-----------------------------------------------------------------------------
\* f gives some members of set a natural number.
Counts(f, set) == DOMAIN f \subseteq set /\ \A x \in DOMAIN f : f[x] \in Nat

\* Type invariant.
TypeOK ==
  /\ quantity \in 0..MaxQuantity /\ mapped \subseteq Sellers
  /\ Counts(rule, Sellers) /\ shares \in RegionShares
  /\ participating \in [Sellers -> SUBSET Warehouses]
  /\ processing \in [Sellers -> SUBSET Warehouses]
  /\ enrolled \in [Sellers -> {"off", "dry", "write", "gone"}]
  /\ \A s \in Sellers : plan[s] # NoPlan =>
       /\ plan[s].seller = s /\ plan[s].available \in Nat /\ Counts(plan[s].amounts, Warehouses)
       /\ plan[s].queue \in Seq(Warehouses) /\ IsInjective(plan[s].queue)
  /\ {published, wb} \subseteq [Sellers -> [Warehouses -> Nat]]
  /\ \A r \in Requests : request[r].job = "publish" =>
       /\ request[r].seller \in Sellers /\ Counts(request[r].desired, Warehouses)
       /\ request[r].pc \in {"write", "read", "confirm"}
       /\ request[r].todo \subseteq Warehouses /\ request[r].actual \in Nat
  /\ disturbed \subseteq Sellers \X Warehouses /\ overlapped \subseteq Sellers
  /\ {edits, jobs, faults} \subseteq Nat

\* The cabinets whose plans were calculated from one state of the pool, the mappings and
\* the rule never plan more together than the pool may give out: no rule and a rule that
\* lost a cabinet leave the pool out of the plans (_cabinet_share, rounding down in build).
PlansShareThePool ==
  \A s \in Sellers :
    plan[s] # NoPlan =>
      LET basis == plan[s].basis
          together == {c \in basis[2] : plan[c] # NoPlan /\ plan[c].basis = basis}
      IN  SumFunction([c \in together |-> SumFunction(plan[c].amounts)])
            <= AvailableUnits(basis[1])

\* A plan that holds the item spends exactly the cabinet's part, only on warehouses of the
\* queue, and with enough units gives each of them at least one (allocate).
PlanSpendsItsShare ==
  \A s \in Sellers :
    plan[s] # NoPlan /\ plan[s].amounts # Nobody =>
      LET p == plan[s] IN
      /\ SumFunction(p.amounts) = p.available
      /\ \A w \in DOMAIN p.amounts : p.amounts[w] > 0
      /\ DOMAIN p.amounts \subseteq Range(p.queue)
      /\ p.available >= Len(p.queue) => DOMAIN p.amounts = Range(p.queue)

\* Little stock goes to as many different regions as it has warehouses to go to, up to the
\* number of priority regions, while no warehouse has left the queue after the laps over
\* the regions were made (_priority_split over priority_order).
SmallStockSpreads ==
  \A s \in Sellers :
    plan[s] # NoPlan /\ plan[s].amounts # Nobody /\ ~plan[s].thinned
    /\ plan[s].available < Len(plan[s].queue) =>
      LET p == plan[s]
          reachable == Cardinality({RegionOf[w] : w \in Range(p.queue)})
      IN  Cardinality({RegionOf[w] : w \in DOMAIN p.amounts}) =
            Least(reachable, Least(PriorityRegions, p.available))

\* Wherever nothing has happened since the last reading, the memory is what Wildberries
\* shows: it is filled from readings only, never from what was sent (confirm_published).
MemoryIsWildberries ==
  \A s \in Sellers \ overlapped, w \in Warehouses :
    <<s, w>> \notin disturbed
    /\ (\A r \in Publishing(s) : request[r].pc = "confirm" => At(r) # w)
    => published[s][w] = wb[s][w]

\* A publication all of whose warehouses were verified leaves Wildberries with the plan it
\* took, the warehouses it did not write to included, unless some amount had changed
\* unread (publish sends the differences from the memory only).
VerifiedReachesPlan ==
  \A s \in Sellers \ overlapped : \A r \in Publishing(s) :
    request[r].todo = {} /\ request[r].verified
    /\ (\A w \in Warehouses : <<s, w>> \notin disturbed)
    => \A w \in Warehouses : wb[s][w] = Wanted(request[r].desired, w)

\* A publication without a failure brings Wildberries to the latest plan (the docstring of
\* PublicationService).  A write whose reading failed is never read again.
PublicationReachesPlan ==
  \A s \in Sellers \ overlapped : \A r \in Publishing(s) :
    request[r].todo = {} /\ request[r].verified
    => \A w \in Warehouses : wb[s][w] = Wanted(request[r].desired, w)
=============================================================================
