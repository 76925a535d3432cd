------------------------------- MODULE Outbox -------------------------------
(***************************************************************************)
(* The road of an event: the outbox table, the publishers that claim and   *)
(* send it (shared/outbox), one Kafka partition, and the consumers of a    *)
(* group that handle it behind the inbox (EventConsumer of the screenshot  *)
(* worker with the inbox discipline every handler follows).                *)
(*                                                                         *)
(* Time is counted in ticks, because the outbox lock is a deadline: a send *)
(* takes at most SendTicks, a lock lasts LockTicks.                        *)
(***************************************************************************)
EXTENDS Integers, Sequences, FiniteSets, SequencesExt

CONSTANTS
  Events,
  Publishers,
  Consumers,    \* processes of one consumer group; one partition
  Poison,       \* events whose handler always raises
  BatchLimit,   \* claim's limit
  LockTicks,    \* lock_seconds
  SendTicks,    \* the slowest attempt: send, its timeout and the write of its result
  MaxFailures,  \* EventConsumer.max_attempts
  MaxFaults     \* bound: crashes, refused sends, failed transactions and rebalances

ASSUME BoundsAssumption ==
  /\ Poison \subseteq Events
  /\ {BatchLimit, LockTicks, SendTicks, MaxFailures} \subseteq Nat \ {0}
  /\ MaxFaults \in Nat
  /\ SendTicks < LockTicks    \* EVENTS.md: the lock outlives the slowest attempt

VARIABLES
  created,   \* outbox rows in order of created_at
  row,       \* published?, ticks its lock still lasts, waiting for next_attempt_at?
  batch,     \* what each publisher claimed and has not finished, in order of created_at
  sent,      \* the publisher's next event is in Kafka, its row not marked yet
  left,      \* ticks left of the publisher's current attempt
  topic,     \* the partition
  offset,    \* committed offset: how many records the group is done with
  owner,     \* the consumer the partition is assigned to
  consumer,  \* what each consumer is doing, at which position
  failures,  \* failures in a row each consumer process counted, per event
  inbox,     \* inbox_events
  applied,   \* how many transactions of the event's handler committed
  parked,    \* events given up after MaxFailures failures in a row
  faults     \* faults so far

tableVars == <<created, row>>
publisherVars == <<batch, sent, left>>
groupVars == <<offset, owner>>
handledVars == <<inbox, applied, parked>>
consumerVars == <<groupVars, consumer, failures, handledVars>>
vars == <<tableVars, publisherVars, topic, consumerVars, faults>>

At(pos) == [pc |-> "idle", pos |-> pos]
NoFailures == [e \in Events |-> 0]

\* The types of the table, of the publishers, of Kafka and of the consumers.
TypeOK ==
  /\ created \in Seq(Events)
  /\ row \in [Events -> [published : BOOLEAN, lock : 0..LockTicks, waiting : BOOLEAN]]
  /\ batch \in [Publishers -> SUBSET ToSet(created)]
  /\ sent \in [Publishers -> BOOLEAN]
  /\ left \in [Publishers -> 0..SendTicks]
  /\ topic \in Seq(Events)
  /\ offset \in 0..Len(topic)
  /\ owner \in Consumers
  /\ consumer \in [Consumers -> [pc : {"idle", "handling", "handled"},
                                 pos : Nat \ {0}]]
  /\ failures \in [Consumers -> [Events -> 0..MaxFailures - 1]]
  /\ inbox \subseteq Events
  /\ applied \in [Events -> Nat]
  /\ parked \subseteq Events
  /\ faults \in 0..MaxFaults

Init ==
  /\ created = <<>>
  /\ row = [e \in Events |-> [published |-> FALSE, lock |-> 0, waiting |-> FALSE]]
  /\ batch = [p \in Publishers |-> {}]
  /\ sent = [p \in Publishers |-> FALSE]
  /\ left = [p \in Publishers |-> 0]
  /\ topic = <<>>
  /\ offset = 0
  /\ owner \in Consumers
  /\ consumer = [c \in Consumers |-> At(1)]
  /\ failures = [c \in Consumers |-> NoFailures]
  /\ inbox = {}
  /\ applied = [e \in Events |-> 0]
  /\ parked = {}
  /\ faults = 0

Fault == faults < MaxFaults /\ faults' = faults + 1
-----------------------------------------------------------------------------
\* OutboxRepository.add, in the transaction of the change it announces.
Add(e) ==
  /\ e \notin ToSet(created)
  /\ created' = Append(created, e)
  /\ UNCHANGED <<row, publisherVars, topic, consumerVars, faults>>

\* publish(not_before=...): the row is not due yet.
AddNotBefore(e) ==
  /\ e \notin ToSet(created)
  /\ created' = Append(created, e)
  /\ row' = [row EXCEPT ![e].waiting = TRUE]
  /\ UNCHANGED <<publisherVars, topic, consumerVars, faults>>

\* OutboxRepository.claim: unpublished, due, not locked or locked in the past.
Claimable(e) == ~row[e].published /\ ~row[e].waiting /\ row[e].lock = 0

Claim(p) ==
  LET due == {i \in DOMAIN created : Claimable(created[i])}
      taken == {created[i] : i \in {j \in due : Cardinality({k \in due : k < j}) < BatchLimit}}
  IN  /\ batch[p] = {}
      /\ taken # {}
      /\ batch' = [batch EXCEPT ![p] = taken]
      /\ left' = [left EXCEPT ![p] = SendTicks]
      /\ row' = [e \in Events |-> IF e \in taken THEN [row[e] EXCEPT !.lock = LockTicks]
                                  ELSE row[e]]
      /\ UNCHANGED <<created, sent, topic, consumerVars, faults>>

\* The event of the batch that the loop of OutboxPublisher.run is at.
Turn(p) == created[Min({i \in DOMAIN created : created[i] \in batch[p]})]

\* The loop goes on to the next event of the batch.
NextOfBatch(p) ==
  /\ batch' = [batch EXCEPT ![p] = @ \ {Turn(p)}]
  /\ left' = [left EXCEPT ![p] = IF batch[p] = {Turn(p)} THEN 0 ELSE SendTicks]
  /\ sent' = [sent EXCEPT ![p] = FALSE]

\* Mutant of SendOk: the acknowledgement is not waited for.
SendForgotten(p) ==
  /\ batch[p] # {} /\ ~sent[p]
  /\ topic' \in {topic, Append(topic, Turn(p))}
  /\ sent' = [sent EXCEPT ![p] = TRUE]
  /\ UNCHANGED <<tableVars, batch, left, consumerVars, faults>>

\* Kafka acknowledged the event of the batch whose turn it is.
SendOk(p) ==
  /\ batch[p] # {} /\ ~sent[p]
  /\ topic' = Append(topic, Turn(p))
  /\ sent' = [sent EXCEPT ![p] = TRUE]
  /\ UNCHANGED <<tableVars, batch, left, consumerVars, faults>>

\* OutboxRepository.published, in a transaction of its own.
Published(p) ==
  /\ batch[p] # {} /\ sent[p]
  /\ row' = [row EXCEPT
               ![Turn(p)] = [published |-> TRUE, lock |-> 0, waiting |-> @.waiting]]
  /\ NextOfBatch(p)
  /\ UNCHANGED <<created, topic, consumerVars, faults>>

\* The send raised, whether or not the broker kept the record; then
\* OutboxRepository.failed, which asks neither who holds the lock by now nor
\* whether the row is published.
SendFailed(p) ==
  /\ batch[p] # {} /\ ~sent[p]
  /\ Fault
  /\ topic' \in {topic, Append(topic, Turn(p))}
  /\ row' = [row EXCEPT
               ![Turn(p)] = [published |-> @.published, lock |-> 0, waiting |-> TRUE]]
  /\ NextOfBatch(p)
  /\ UNCHANGED <<created, consumerVars>>

\* The publisher dies; its rows stay locked until the lock runs out.
PublisherCrash(p) ==
  /\ batch[p] # {}
  /\ Fault
  /\ batch' = [batch EXCEPT ![p] = {}]
  /\ left' = [left EXCEPT ![p] = 0]
  /\ sent' = [sent EXCEPT ![p] = FALSE]
  /\ UNCHANGED <<tableVars, topic, consumerVars>>

\* One tick.  No attempt outlives its timeout.
Tick ==
  /\ \A p \in Publishers : batch[p] # {} => left[p] > 0
  /\ \/ \E e \in Events : row[e].lock > 0
     \/ \E p \in Publishers : batch[p] # {}
  /\ left' = [p \in Publishers |-> IF batch[p] # {} THEN left[p] - 1 ELSE left[p]]
  /\ row' = [e \in Events |-> [row[e] EXCEPT !.lock = IF @ > 0 THEN @ - 1 ELSE 0]]
  /\ UNCHANGED <<created, batch, sent, topic, consumerVars, faults>>

BackoffElapses(e) ==
  /\ row[e].waiting
  /\ row' = [row EXCEPT ![e].waiting = FALSE]
  /\ UNCHANGED <<created, publisherVars, topic, consumerVars, faults>>
-----------------------------------------------------------------------------
\* EventConsumer.run: the record the consumer works on.
Current(c) == topic[consumer[c].pos]

Count(c, n) == failures' = [failures EXCEPT ![c][Current(c)] = n]

\* Mutant of Receive: the offset is committed as soon as the record is fetched.
ReceiveAndCommit(c) ==
  /\ owner = c
  /\ consumer[c].pc = "idle" /\ consumer[c].pos <= Len(topic)
  /\ consumer' = [consumer EXCEPT ![c].pc = "handling"]
  /\ offset' = consumer[c].pos
  /\ UNCHANGED <<tableVars, publisherVars, topic, owner, failures, handledVars, faults>>

\* getone, then the handler's first look at the inbox.
Receive(c) ==
  /\ owner = c
  /\ consumer[c].pc = "idle" /\ consumer[c].pos <= Len(topic)
  /\ IF Current(c) \in inbox
     THEN consumer' = [consumer EXCEPT ![c].pc = "handled"] /\ Count(c, 0)
     ELSE consumer' = [consumer EXCEPT ![c].pc = "handling"] /\ UNCHANGED failures
  /\ UNCHANGED <<tableVars, publisherVars, topic, groupVars, handledVars, faults>>

\* Mutant of HandlerCommits: the inbox row has no primary key.
HandlerCommitsAgain(c) ==
  /\ consumer[c].pc = "handling"
  /\ Current(c) \notin Poison
  /\ inbox' = inbox \cup {Current(c)}
  /\ applied' = [applied EXCEPT ![Current(c)] = @ + 1]
  /\ consumer' = [consumer EXCEPT ![c].pc = "handled"]
  /\ Count(c, 0)
  /\ UNCHANGED <<tableVars, publisherVars, topic, groupVars, parked, faults>>

\* The handler's transaction: its effect and its inbox row, or neither.
HandlerCommits(c) ==
  /\ consumer[c].pc = "handling"
  /\ Current(c) \notin inbox \cup Poison
  /\ inbox' = inbox \cup {Current(c)}
  /\ applied' = [applied EXCEPT ![Current(c)] = @ + 1]
  /\ consumer' = [consumer EXCEPT ![c].pc = "handled"]
  /\ Count(c, 0)
  /\ UNCHANGED <<tableVars, publisherVars, topic, groupVars, parked, faults>>

\* Mutants of GiveUpOrRetry: one attempt too many; no second attempt; no limit.
GiveUpLate(c) ==
  LET attempts == failures[c][Current(c)] + 1 IN
  IF attempts <= MaxFailures
  THEN consumer' = [consumer EXCEPT ![c].pc = "idle"] /\ Count(c, attempts) /\ UNCHANGED parked
  ELSE /\ consumer' = [consumer EXCEPT ![c].pc = "handled"]
       /\ Count(c, 0)
       /\ parked' = parked \cup {Current(c)}

GiveUpAtOnce(c) ==
  /\ consumer' = [consumer EXCEPT ![c].pc = "handled"]
  /\ Count(c, 0)
  /\ parked' = parked \cup {Current(c)}

RetryForever(c) ==
  /\ consumer' = [consumer EXCEPT ![c].pc = "idle"]
  /\ UNCHANGED <<failures, parked>>

\* EventConsumer.handle after an exception: the same record again, or, at
\* MaxFailures in a row, the event is parked and the partition goes on.
GiveUpOrRetry(c) ==
  LET attempts == failures[c][Current(c)] + 1 IN
  IF attempts < MaxFailures
  THEN /\ consumer' = [consumer EXCEPT ![c].pc = "idle"]
       /\ Count(c, attempts)
       /\ UNCHANGED parked
  ELSE /\ consumer' = [consumer EXCEPT ![c].pc = "handled"]
       /\ Count(c, 0)
       /\ parked' = parked \cup {Current(c)}

\* The handler raises: the event is poison, another process has just put it in
\* the inbox (primary key), or something went wrong for a while.
HandlerRaises(c) ==
  /\ consumer[c].pc = "handling"
  /\ \/ Current(c) \in Poison \cup inbox /\ UNCHANGED faults
     \/ Fault
  /\ GiveUpOrRetry(c)
  /\ UNCHANGED <<tableVars, publisherVars, topic, groupVars, inbox, applied>>

\* consumer.commit.  A process that lost the partition meanwhile is refused: run
\* raises and its supervisor starts it again, at the committed offset.
CommitOffset(c) ==
  /\ consumer[c].pc = "handled"
  /\ offset' = IF owner = c THEN consumer[c].pos ELSE offset
  /\ consumer' = [consumer EXCEPT ![c] = At(offset' + 1)]
  /\ UNCHANGED <<tableVars, publisherVars, topic, owner, failures, handledVars, faults>>

\* The partition moves to c, which begins at the committed offset; the former
\* owner may still be in the middle of its record.
Rebalance(c) ==
  /\ owner # c /\ consumer[c].pc = "idle"
  /\ Fault
  /\ owner' = c
  /\ consumer' = [consumer EXCEPT ![c] = At(offset + 1)]
  /\ UNCHANGED <<tableVars, publisherVars, topic, offset, failures, handledVars>>

\* The process dies with its counters and resumes at the committed offset.
ConsumerCrash(c) ==
  /\ consumer[c].pc # "idle" \/ failures[c] # NoFailures
  /\ Fault
  /\ consumer' = [consumer EXCEPT ![c] = At(offset + 1)]
  /\ failures' = [failures EXCEPT ![c] = NoFailures]
  /\ UNCHANGED <<tableVars, publisherVars, topic, groupVars, handledVars>>

Publish(p) == Claim(p) \/ SendOk(p) \/ Published(p)
Handle(c) == Receive(c) \/ HandlerCommits(c) \/ CommitOffset(c)

Next ==
  \/ \E e \in Events : Add(e) \/ AddNotBefore(e) \/ BackoffElapses(e)
  \/ \E p \in Publishers : Publish(p) \/ SendFailed(p) \/ PublisherCrash(p)
  \/ \E c \in Consumers : Handle(c) \/ HandlerRaises(c) \/ Rebalance(c) \/ ConsumerCrash(c)
  \/ Tick

Spec == Init /\ [][Next]_vars

\* Publishers poll, consumers poll, timers fire.  A poison event's handler always
\* raises; every other exception, crash and rebalance is a fault and may not happen.
Fairness ==
  /\ WF_vars(Tick)
  /\ \A e \in Events : WF_vars(BackoffElapses(e))
  /\ \A p \in Publishers : WF_vars(Publish(p))
  /\ \A c \in Consumers : WF_vars(Handle(c) \/ HandlerRaises(c))

FairSpec == Spec /\ Fairness
-----------------------------------------------------------------------------
\* An event marked published is in Kafka: whatever crashes, marking it never
\* comes before the acknowledged send.
NoLostEvent == \A e \in Events : row[e].published => e \in ToSet(topic)

\* The inbox makes one transaction of any number of deliveries, in whichever
\* processes of the group they overlap.
AppliedOnce == \A e \in Events : applied[e] <= 1

\* The group's offset never passes a record whose event was neither handled nor
\* given up, so a restart skips nothing.
OffsetBehindWork == \A i \in 1..offset : topic[i] \in inbox \cup parked

\* Only an event that is poison, or that met MaxFailures faults in a row, is parked.
ParkedForCause == \A e \in parked : e \in Poison \/ faults >= MaxFailures

\* The whole road implements the promise: every recorded event is settled.
Delivery == INSTANCE EventDelivery WITH
  recorded <- ToSet(created), settled <- inbox \cup parked
DeliveryPromise == Delivery!Spec
=============================================================================
