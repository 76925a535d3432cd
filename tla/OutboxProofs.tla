----------------------------- MODULE OutboxProofs -----------------------------
(***************************************************************************)
(* What holds of Outbox for any events, publishers, consumers, limits and  *)
(* number of faults: the types, that no event is marked published before   *)
(* it is in Kafka, that it is applied once, that the group's offset stays  *)
(* behind the work, that no good event is parked without faults enough,    *)
(* and that the road implements the safety part of EventDelivery.          *)
(***************************************************************************)
EXTENDS Outbox, FiniteSums, SequenceTheorems

\* What is in Kafka was recorded, and a send that is not marked yet is there.
Recorded == ToSet(topic) \subseteq ToSet(created)
SentIsThere == \A p \in Publishers : sent[p] => batch[p] # {} /\ Turn(p) \in ToSet(topic)

\* The inbox counts the transactions.
InboxCounts == \A e \in Events : applied[e] = IF e \in inbox THEN 1 ELSE 0

\* A consumer is at most one record past the partition, and everything before it, and
\* a record it is done with, is worked.
Worked(i) == topic[i] \in inbox \cup parked
Behind ==
  /\ OffsetBehindWork
  /\ \A c \in Consumers :
       /\ consumer[c].pos <= Len(topic) + 1
       /\ consumer[c].pc # "idle" => consumer[c].pos <= Len(topic)
       /\ consumer[c].pc = "handled" => Worked(consumer[c].pos)
       /\ \A i \in 1..(consumer[c].pos - 1) : Worked(i)

IInv == TypeOK /\ Recorded /\ SentIsThere /\ NoLostEvent /\ InboxCounts /\ Behind

Row == [published : BOOLEAN, lock : 0..LockTicks, waiting : BOOLEAN]

\* Appending adds one element, at the end.
LEMMA Appended ==
  ASSUME NEW S, NEW s \in Seq(S), NEW e \in S
  PROVE  /\ Append(s, e) \in Seq(S) /\ Len(Append(s, e)) = Len(s) + 1 /\ Len(s) \in Nat
         /\ \A i \in 1..Len(s) : Append(s, e)[i] = s[i]
         /\ Append(s, e)[Len(s) + 1] = e
         /\ ToSet(Append(s, e)) = ToSet(s) \cup {e}
<1>1. /\ Append(s, e) \in Seq(S) /\ Len(Append(s, e)) = Len(s) + 1 /\ Len(s) \in Nat
      /\ \A i \in 1..Len(s) : Append(s, e)[i] = s[i]
      /\ Append(s, e)[Len(s) + 1] = e
  BY AppendProperties, LenProperties
<1>2. DOMAIN s = 1..Len(s) /\ DOMAIN Append(s, e) = 1..(Len(s) + 1)
  BY <1>1, LenProperties
<1>3. ToSet(Append(s, e)) = ToSet(s) \cup {e}
  <2>1. \A i : i \in 1..(Len(s) + 1) <=> i \in 1..Len(s) \/ i = Len(s) + 1
    BY <1>1
  <2> QED BY <1>1, <1>2, <2>1 DEF ToSet
<1> QED BY <1>1, <1>3

\* A batch that is not finished has an event whose turn it is.
LEMMA TurnInBatch ==
  ASSUME NEW p \in Publishers, created \in Seq(Events), batch[p] \subseteq ToSet(created),
         batch[p] # {}
  PROVE  Turn(p) \in batch[p]
<1> DEFINE T == {i \in DOMAIN created : created[i] \in batch[p]}
<1>1. DOMAIN created = 1..Len(created) /\ Len(created) \in Nat
  BY LenProperties
<1>2. T # {} /\ T \in SUBSET DOMAIN created
  BY DEF ToSet
<1>3. DOMAIN created \subseteq Nat /\ IsFiniteSet(DOMAIN created)
  BY <1>1, FS_Interval
<1>4. \E x \in T : \A y \in T : x <= y
  <2> HIDE DEF T
  <2> QED BY <1>2, <1>3, SmallestExists
<1>5. Min(T) \in T
  <2> HIDE DEF T
  <2> QED BY <1>4 DEF Min
<1> QED BY <1>5 DEF Turn
-----------------------------------------------------------------------------
\* Initially nothing was recorded.
LEMMA InitHolds == Init => IInv
<1> SUFFICES ASSUME Init PROVE IInv
  OBVIOUS
<1>1. /\ topic = <<>> /\ created = <<>> /\ Len(topic) = 0 /\ topic \in Seq(Events)
      /\ created \in Seq(Events) /\ ToSet(topic) = {} /\ ToSet(created) = {}
  BY EmptySeq DEF Init, ToSet
<1>2. {LockTicks, SendTicks, MaxFailures} \subseteq Nat \ {0} /\ MaxFaults \in Nat
  BY BoundsAssumption
<1>3. TypeOK
  <2>1. row \in [Events -> Row] /\ failures \in [Consumers -> [Events -> 0..MaxFailures - 1]]
    BY <1>2 DEF Init, Row, NoFailures
  <2>2. /\ batch \in [Publishers -> SUBSET ToSet(created)] /\ sent \in [Publishers -> BOOLEAN]
        /\ left \in [Publishers -> 0..SendTicks] /\ offset \in 0..Len(topic)
        /\ owner \in Consumers /\ faults \in 0..MaxFaults
    BY <1>1, <1>2 DEF Init
  <2>3. /\ consumer \in [Consumers -> [pc : {"idle", "handling", "handled"}, pos : Nat \ {0}]]
        /\ inbox \subseteq Events /\ applied \in [Events -> Nat] /\ parked \subseteq Events
    BY DEF Init, At
  <2> QED BY <1>1, <2>1, <2>2, <2>3 DEF TypeOK, Row
<1>4. SentIsThere /\ NoLostEvent /\ InboxCounts /\ Recorded
  BY <1>1 DEF Init, SentIsThere, NoLostEvent, InboxCounts, Recorded
<1>5. Behind
  BY <1>1 DEF Init, Behind, OffsetBehindWork, At
<1> QED BY <1>3, <1>4, <1>5 DEF IInv
-----------------------------------------------------------------------------
\* The parts of the type invariant that the two sides of Kafka may change.
TableTypes ==
  /\ created \in Seq(Events) /\ row \in [Events -> Row]
  /\ batch \in [Publishers -> SUBSET ToSet(created)]
  /\ sent \in [Publishers -> BOOLEAN] /\ left \in [Publishers -> 0..SendTicks]

GroupTypes ==
  /\ topic \in Seq(Events) /\ offset \in 0..Len(topic) /\ owner \in Consumers
  /\ consumer \in [Consumers -> [pc : {"idle", "handling", "handled"}, pos : Nat \ {0}]]
  /\ failures \in [Consumers -> [Events -> 0..MaxFailures - 1]]
  /\ inbox \subseteq Events /\ applied \in [Events -> Nat] /\ parked \subseteq Events

LEMMA TypesSplit == TypeOK <=> TableTypes /\ GroupTypes /\ faults \in 0..MaxFaults
BY DEF TypeOK, TableTypes, GroupTypes, Row

\* The consumers' side of the invariant, whatever the publishers append.
Group == GroupTypes /\ InboxCounts /\ Behind

LEMMA TopicGrows ==
  ASSUME IInv, UNCHANGED consumerVars, NEW e \in ToSet(created),
         topic' \in {topic, Append(topic, e)}
  PROVE  /\ Group' /\ ToSet(topic) \subseteq ToSet(topic')
         /\ ToSet(topic') \subseteq ToSet(created)
         /\ topic' = Append(topic, e) => e \in ToSet(topic')
<1>1. GroupTypes /\ InboxCounts /\ Behind /\ Recorded /\ created \in Seq(Events)
  BY TypesSplit DEF IInv, TableTypes
<1>2. e \in Events
  BY <1>1, LenProperties DEF ToSet
<1>3. CASE topic' = topic
  <2>1. GroupTypes' /\ InboxCounts'
    BY <1>1, <1>3 DEF GroupTypes, InboxCounts, consumerVars, groupVars, handledVars
  <2>2. Behind'
    BY <1>1, <1>3 DEF Behind, OffsetBehindWork, Worked, consumerVars, groupVars, handledVars
  <2>3. topic = Append(topic, e) => e \in ToSet(topic)
    BY <1>1, <1>2, Appended DEF GroupTypes
  <2> QED BY <1>1, <1>3, <2>1, <2>2, <2>3 DEF Group, Recorded
<1>4. CASE topic' = Append(topic, e)
  <2>1. /\ topic' \in Seq(Events) /\ Len(topic') = Len(topic) + 1 /\ Len(topic) \in Nat
        /\ \A i \in 1..Len(topic) : topic'[i] = topic[i]
        /\ ToSet(topic') = ToSet(topic) \cup {e}
    BY <1>1, <1>2, <1>4, Appended DEF GroupTypes
  <2>2. GroupTypes' /\ InboxCounts'
    BY <1>1, <2>1 DEF GroupTypes, InboxCounts, consumerVars, groupVars, handledVars
  <2>3. \A i \in 1..Len(topic) : Worked(i)' = Worked(i)
    BY <2>1 DEF Worked, consumerVars, handledVars
  <2>4. OffsetBehindWork'
    <3>1. offset \in 0..Len(topic) /\ offset' = offset
      BY <1>1 DEF GroupTypes, consumerVars, groupVars
    <3>2. \A i \in 1..offset : i \in 1..Len(topic) /\ Worked(i)
      BY <1>1, <2>1, <3>1 DEF Behind, OffsetBehindWork, Worked
    <3> QED BY <2>3, <3>1, <3>2 DEF OffsetBehindWork, Worked
  <2>5. ASSUME NEW c \in Consumers
        PROVE  /\ consumer[c].pos <= Len(topic) + 2
               /\ consumer[c].pc # "idle" => consumer[c].pos <= Len(topic) + 1
               /\ consumer[c].pc = "handled" => Worked(consumer[c].pos)'
               /\ \A i \in 1..(consumer[c].pos - 1) : Worked(i)'
    <3>1. consumer[c].pos \in Nat \ {0}
      BY <1>1 DEF GroupTypes
    <3>2. /\ consumer[c].pos <= Len(topic) + 1
          /\ consumer[c].pc # "idle" => consumer[c].pos <= Len(topic)
          /\ consumer[c].pc = "handled" => Worked(consumer[c].pos)
          /\ \A i \in 1..(consumer[c].pos - 1) : Worked(i)
      BY <1>1 DEF Behind
    <3>3. \A i \in 1..(consumer[c].pos - 1) : i \in 1..Len(topic)
      BY <2>1, <3>1, <3>2
    <3>4. consumer[c].pc = "handled" => consumer[c].pos \in 1..Len(topic)
      BY <2>1, <3>1, <3>2
    <3>5. consumer' = consumer
      BY DEF consumerVars
    <3>6. consumer[c].pc = "handled" => Worked(consumer[c].pos)'
      BY <2>3, <3>2, <3>4, <3>5
    <3> QED BY <2>1, <2>3, <3>1, <3>2, <3>3, <3>6
  <2>6. Behind'
    <3>1. consumer' = consumer /\ Len(topic') + 1 = Len(topic) + 2
      BY <2>1 DEF consumerVars
    <3> QED BY <2>1, <2>4, <2>5, <3>1 DEF Behind
  <2> QED BY <1>1, <2>1, <2>2, <2>6 DEF Group, Recorded
<1> QED BY <1>3, <1>4
-----------------------------------------------------------------------------
\* Steps of the table and of the publishers.
LEMMA RowChanged ==
  ASSUME NEW r \in Row
  PROVE  /\ \A b \in BOOLEAN : /\ [r EXCEPT !.waiting = b] \in Row
                              /\ [r EXCEPT !.waiting = b].published = r.published
         /\ \A n \in 0..LockTicks : /\ [r EXCEPT !.lock = n] \in Row
                                   /\ [r EXCEPT !.lock = n].published = r.published
BY DEF Row

LEMMA AddKeeps ==
  ASSUME IInv, NEW e \in Events, Add(e) \/ AddNotBefore(e)
  PROVE  IInv'
<1>1. /\ TableTypes /\ GroupTypes /\ faults \in 0..MaxFaults
      /\ Recorded /\ SentIsThere /\ NoLostEvent /\ InboxCounts /\ Behind
  BY TypesSplit DEF IInv
<1>2. /\ created' = Append(created, e) /\ UNCHANGED <<publisherVars, topic, consumerVars, faults>>
      /\ row' = row \/ row' = [row EXCEPT ![e].waiting = TRUE]
  BY DEF Add, AddNotBefore
<1>3. created \in Seq(Events) /\ e \notin ToSet(created)
  BY <1>1 DEF TableTypes, Add, AddNotBefore
<1>4. /\ created' \in Seq(Events) /\ ToSet(created') = ToSet(created) \cup {e}
      /\ Len(created') = Len(created) + 1 /\ Len(created) \in Nat
      /\ \A i \in 1..Len(created) : created'[i] = created[i]
      /\ created'[Len(created) + 1] = e
  BY <1>2, <1>3, Appended
<1>5. /\ row' \in [Events -> Row]
      /\ \A d \in Events : row'[d].published = row[d].published
  <2>1. row \in [Events -> Row]
    BY <1>1 DEF TableTypes
  <2>2. CASE row' = [row EXCEPT ![e].waiting = TRUE]
    <3>1. /\ [row[e] EXCEPT !.waiting = TRUE] \in Row
          /\ [row[e] EXCEPT !.waiting = TRUE].published = row[e].published
      BY <2>1, RowChanged
    <3> QED BY <2>1, <2>2, <3>1
  <2> QED BY <1>2, <2>1, <2>2
<1>6. TableTypes'
  BY <1>1, <1>2, <1>4, <1>5 DEF TableTypes, publisherVars
<1>7. ASSUME NEW p \in Publishers PROVE Turn(p)' = Turn(p) \/ batch[p] = {}
  <2>1. batch'[p] = batch[p] /\ batch[p] \subseteq ToSet(created)
    BY <1>1, <1>2 DEF TableTypes, publisherVars
  <2>2. DOMAIN created = 1..Len(created) /\ DOMAIN created' = 1..(Len(created) + 1)
    BY <1>3, <1>4, LenProperties
  <2>3. {i \in DOMAIN created' : created'[i] \in batch[p]}
          = {i \in DOMAIN created : created[i] \in batch[p]}
    <3>1. created'[Len(created) + 1] \notin batch[p]
      BY <1>3, <1>4, <2>1
    <3>2. \A i \in DOMAIN created' : i \in DOMAIN created \/ i = Len(created) + 1
      BY <1>4, <2>2
    <3>3. \A i \in DOMAIN created : i \in DOMAIN created' /\ created'[i] = created[i]
      BY <1>4, <2>2
    <3> QED BY <3>1, <3>2, <3>3
  <2>4. ASSUME batch[p] # {} PROVE Turn(p)' = Turn(p)
    <3> DEFINE T == {i \in DOMAIN created : created[i] \in batch[p]}
    <3>1. T # {} /\ T \in SUBSET DOMAIN created
      <4>1. PICK d \in batch[p] : d \in ToSet(created)
        BY <2>1, <2>4
      <4>2. PICK i \in DOMAIN created : created[i] = d
        BY <4>1 DEF ToSet
      <4> QED BY <4>1, <4>2
    <3>2. DOMAIN created \subseteq Nat /\ IsFiniteSet(DOMAIN created)
      <4>1. DOMAIN created = 1..Len(created) /\ Len(created) \in Nat
        BY <1>4, <2>2
      <4> QED BY ONLY <4>1, FS_Interval
    <3>3. Min(T) \in T
      <4> HIDE DEF T
      <4>1. \E x \in T : \A y \in T : x <= y
        BY <3>1, <3>2, SmallestExists
      <4> QED BY <4>1 DEF Min
    <3>4. created'[Min(T)] = created[Min(T)]
      BY <1>4, <2>2, <3>3
    <3> QED BY <2>1, <2>3, <3>4 DEF Turn
  <2> QED BY <2>4
<1>8. SentIsThere'
  BY <1>1, <1>2, <1>7 DEF SentIsThere, publisherVars
<1>9. NoLostEvent'
  BY <1>1, <1>2, <1>5 DEF NoLostEvent
<1>10. GroupTypes' /\ InboxCounts' /\ Behind'
  BY <1>1, <1>2 DEF GroupTypes, InboxCounts, Behind, OffsetBehindWork, Worked,
     consumerVars, groupVars, handledVars
<1>11. Recorded' /\ faults' \in 0..MaxFaults
  BY <1>1, <1>2, <1>4 DEF Recorded
<1>12. TypeOK'
  BY <1>6, <1>10, <1>11, TypesSplit DEF TypeOK, TableTypes, GroupTypes, Row
<1> QED BY <1>8, <1>9, <1>10, <1>11, <1>12 DEF IInv

\* Steps of the publishers: created stays, and the topic grows at most by an event of a
\* batch.
LEMMA PublisherStep ==
  ASSUME IInv, UNCHANGED <<created, consumerVars>>, faults' \in 0..MaxFaults,
         row' \in [Events -> Row], batch' \in [Publishers -> SUBSET ToSet(created)],
         sent' \in [Publishers -> BOOLEAN], left' \in [Publishers -> 0..SendTicks],
         topic' = topic \/ \E e \in ToSet(created) : topic' = Append(topic, e),
         SentIsThere', NoLostEvent'
  PROVE  IInv'
<1>1. TableTypes /\ Recorded
  BY TypesSplit DEF IInv
<1>2. TableTypes'
  BY <1>1 DEF TableTypes
<1>3. Group' /\ Recorded'
  <2>1. CASE topic' = topic
    <3>1. Group /\ Recorded
      BY TypesSplit DEF IInv, Group
    <3>2. GroupTypes'
      BY <2>1, <3>1 DEF Group, GroupTypes, consumerVars, groupVars, handledVars
    <3>3. InboxCounts' /\ Behind'
      BY <2>1, <3>1 DEF Group, InboxCounts, Behind, OffsetBehindWork, Worked,
         consumerVars, groupVars, handledVars
    <3> QED BY <2>1, <3>1, <3>2, <3>3 DEF Group, Recorded
  <2>2. ASSUME NEW e \in ToSet(created), topic' = Append(topic, e) PROVE Group' /\ Recorded'
    BY <2>2, TopicGrows DEF Recorded
  <2> QED BY <2>1, <2>2
<1>4. TypeOK'
  BY <1>2, <1>3 DEF Group, TypeOK, TableTypes, GroupTypes, Row
<1> QED BY <1>3, <1>4 DEF IInv, Group

\* What the publishers' lemmas start from.
LEMMA PublisherFacts ==
  ASSUME IInv
  PROVE  /\ created \in Seq(Events) /\ topic \in Seq(Events) /\ row \in [Events -> Row]
         /\ batch \in [Publishers -> SUBSET ToSet(created)]
         /\ sent \in [Publishers -> BOOLEAN] /\ left \in [Publishers -> 0..SendTicks]
         /\ faults \in 0..MaxFaults /\ MaxFaults \in Nat
         /\ SendTicks \in Nat \ {0} /\ LockTicks \in Nat \ {0}
         /\ SentIsThere /\ NoLostEvent
         /\ \A p \in Publishers : batch[p] # {} =>
              Turn(p) \in batch[p] /\ Turn(p) \in ToSet(created)
         /\ ToSet(created) \subseteq Events
<1>1. TableTypes /\ GroupTypes /\ faults \in 0..MaxFaults /\ SentIsThere /\ NoLostEvent
  BY TypesSplit DEF IInv
<1>2. MaxFaults \in Nat /\ SendTicks \in Nat \ {0} /\ LockTicks \in Nat \ {0}
  BY BoundsAssumption
<1>3. \A p \in Publishers : batch[p] # {} => Turn(p) \in batch[p] /\ Turn(p) \in ToSet(created)
  BY <1>1, TurnInBatch DEF TableTypes
<1>4. ToSet(created) \subseteq Events
  BY <1>1, LenProperties DEF ToSet, TableTypes
<1> QED BY <1>1, <1>2, <1>3, <1>4 DEF TableTypes, GroupTypes

\* claim: only locks change in the table.
LEMMA ClaimKeeps ==
  ASSUME IInv, NEW p \in Publishers, Claim(p)
  PROVE  IInv'
<1>1. PICK taken \in SUBSET ToSet(created) :
        /\ batch[p] = {} /\ batch' = [batch EXCEPT ![p] = taken]
        /\ left' = [left EXCEPT ![p] = SendTicks]
        /\ row' = [e \in Events |-> IF e \in taken THEN [row[e] EXCEPT !.lock = LockTicks]
                                    ELSE row[e]]
        /\ UNCHANGED <<created, sent, topic, consumerVars, faults>>
  <2>1. {created[i] : i \in {j \in {i \in DOMAIN created : Claimable(created[i])} :
            Cardinality({k \in {i \in DOMAIN created : Claimable(created[i])} : k < j}) < BatchLimit}}
          \in SUBSET ToSet(created)
    BY DEF ToSet
  <2> QED BY <2>1 DEF Claim
<1>2. row' \in [Events -> Row] /\ \A e \in Events : row'[e].published = row[e].published
  <2>1. row \in [Events -> Row] /\ LockTicks \in 0..LockTicks
    BY PublisherFacts
  <2>2. ASSUME NEW e \in Events
        PROVE  row'[e] \in Row /\ row'[e].published = row[e].published
    <3>1. row'[e] = IF e \in taken THEN [row[e] EXCEPT !.lock = LockTicks] ELSE row[e]
      BY <1>1
    <3>2. /\ [row[e] EXCEPT !.lock = LockTicks] \in Row
          /\ [row[e] EXCEPT !.lock = LockTicks].published = row[e].published
      BY <2>1, RowChanged
    <3> QED BY <2>1, <3>1, <3>2
  <2> QED BY <1>1, <2>2
<1>3. SentIsThere'
  <2>1. ~sent[p]
    BY <1>1, PublisherFacts DEF SentIsThere
  <2>2. \A q \in Publishers : sent[q] => batch'[q] = batch[q]
    BY <1>1, <2>1, PublisherFacts
  <2>3. \A q \in Publishers : sent[q] => Turn(q)' = Turn(q)
    BY <1>1, <2>2 DEF Turn
  <2> QED BY <1>1, <2>2, <2>3, PublisherFacts DEF SentIsThere
<1>4. NoLostEvent'
  BY <1>1, <1>2, PublisherFacts DEF NoLostEvent
<1>5. /\ batch' \in [Publishers -> SUBSET ToSet(created)]
      /\ left' \in [Publishers -> 0..SendTicks]
  BY <1>1, PublisherFacts
<1> QED BY <1>1, <1>2, <1>3, <1>4, <1>5, PublisherFacts, PublisherStep

\* Kafka has the event whose turn it is.
LEMMA SendKeeps ==
  ASSUME IInv, NEW p \in Publishers, SendOk(p)
  PROVE  IInv'
<1>1. /\ batch[p] # {} /\ topic' = Append(topic, Turn(p)) /\ sent' = [sent EXCEPT ![p] = TRUE]
      /\ UNCHANGED <<tableVars, batch, left, consumerVars, faults>>
  BY DEF SendOk
<1>2. UNCHANGED <<created, row>>
  BY <1>1 DEF tableVars
<1>3. Turn(p) \in ToSet(created)
  BY <1>1, PublisherFacts
<1>4. ToSet(topic) \subseteq ToSet(topic') /\ Turn(p) \in ToSet(topic')
  BY <1>1, <1>3, TopicGrows
<1>5. SentIsThere'
  <2>1. \A q \in Publishers : Turn(q)' = Turn(q)
    BY <1>1, <1>2 DEF Turn
  <2>2. \A q \in Publishers : sent'[q] => q = p \/ sent[q]
    BY <1>1, PublisherFacts
  <2> QED BY <1>1, <1>4, <2>1, <2>2, PublisherFacts DEF SentIsThere
<1>6. NoLostEvent'
  BY <1>2, <1>4, PublisherFacts DEF NoLostEvent
<1>7. sent' \in [Publishers -> BOOLEAN]
  BY <1>1, PublisherFacts
<1> QED BY <1>1, <1>2, <1>3, <1>5, <1>6, <1>7, PublisherFacts, PublisherStep

\* The loop goes on: the publisher has nothing sent.
LEMMA NextOfBatchKeeps ==
  ASSUME IInv, NEW p \in Publishers, NextOfBatch(p), created' = created,
         ToSet(topic) \subseteq ToSet(topic')
  PROVE  /\ SentIsThere' /\ batch' \in [Publishers -> SUBSET ToSet(created)]
         /\ sent' \in [Publishers -> BOOLEAN] /\ left' \in [Publishers -> 0..SendTicks]
<1>1. /\ batch' = [batch EXCEPT ![p] = batch[p] \ {Turn(p)}]
      /\ left' = [left EXCEPT ![p] = IF batch[p] = {Turn(p)} THEN 0 ELSE SendTicks]
      /\ sent' = [sent EXCEPT ![p] = FALSE]
  BY DEF NextOfBatch
<1>2. \A q \in Publishers : sent'[q] => sent[q] /\ batch'[q] = batch[q]
  BY <1>1, PublisherFacts
<1>3. \A q \in Publishers : sent'[q] => Turn(q)' = Turn(q)
  BY <1>2 DEF Turn
<1>4. SentIsThere'
  BY <1>2, <1>3, PublisherFacts DEF SentIsThere
<1> QED BY <1>1, <1>4, PublisherFacts

\* published: the mark comes after the acknowledgement.
LEMMA PublishedKeeps ==
  ASSUME IInv, NEW p \in Publishers, Published(p)
  PROVE  IInv'
<1>1. /\ batch[p] # {} /\ sent[p] /\ NextOfBatch(p)
      /\ row' = [row EXCEPT ![Turn(p)] =
                   [published |-> TRUE, lock |-> 0, waiting |-> row[Turn(p)].waiting]]
      /\ UNCHANGED <<created, topic, consumerVars, faults>>
  BY DEF Published
<1>2. Turn(p) \in Events /\ Turn(p) \in ToSet(topic)
  BY <1>1, PublisherFacts DEF SentIsThere
<1>3. row' \in [Events -> Row] /\ \A e \in Events \ {Turn(p)} : row'[e] = row[e]
  <2>1. [published |-> TRUE, lock |-> 0, waiting |-> row[Turn(p)].waiting] \in Row
    BY <1>2, PublisherFacts DEF Row
  <2> QED BY <1>1, <2>1, PublisherFacts
<1>4. NoLostEvent'
  BY <1>1, <1>2, <1>3, PublisherFacts DEF NoLostEvent
<1>5. /\ SentIsThere' /\ batch' \in [Publishers -> SUBSET ToSet(created)]
      /\ sent' \in [Publishers -> BOOLEAN] /\ left' \in [Publishers -> 0..SendTicks]
  BY <1>1, NextOfBatchKeeps
<1> QED BY <1>1, <1>3, <1>4, <1>5, PublisherFacts, PublisherStep

\* failed: whatever Kafka kept, the mark stays as it is.
LEMMA SendFailedKeeps ==
  ASSUME IInv, NEW p \in Publishers, SendFailed(p)
  PROVE  IInv'
<1>1. /\ batch[p] # {} /\ NextOfBatch(p) /\ faults < MaxFaults /\ faults' = faults + 1
      /\ topic' \in {topic, Append(topic, Turn(p))}
      /\ row' = [row EXCEPT ![Turn(p)] =
                   [published |-> row[Turn(p)].published, lock |-> 0, waiting |-> TRUE]]
      /\ UNCHANGED <<created, consumerVars>>
  BY DEF SendFailed, Fault
<1>2. Turn(p) \in Events /\ Turn(p) \in ToSet(created)
  BY <1>1, PublisherFacts
<1>3. row' \in [Events -> Row] /\ \A e \in Events : row'[e].published = row[e].published
  <2>1. [published |-> row[Turn(p)].published, lock |-> 0, waiting |-> TRUE] \in Row
    BY <1>2, PublisherFacts DEF Row
  <2>2. row' \in [Events -> Row]
    BY <1>1, <2>1, PublisherFacts
  <2>3. \A e \in Events : row'[e] = IF e = Turn(p)
          THEN [published |-> row[Turn(p)].published, lock |-> 0, waiting |-> TRUE] ELSE row[e]
    BY <1>1, PublisherFacts
  <2> QED BY <2>2, <2>3
<1>4. ToSet(topic) \subseteq ToSet(topic')
  BY <1>1, <1>2, TopicGrows
<1>5. NoLostEvent'
  BY <1>3, <1>4, PublisherFacts DEF NoLostEvent
<1>6. /\ SentIsThere' /\ batch' \in [Publishers -> SUBSET ToSet(created)]
      /\ sent' \in [Publishers -> BOOLEAN] /\ left' \in [Publishers -> 0..SendTicks]
  BY <1>1, <1>4, NextOfBatchKeeps
<1>7. faults' \in 0..MaxFaults
  BY <1>1, PublisherFacts
<1>8. topic' = topic \/ \E e \in ToSet(created) : topic' = Append(topic, e)
  BY <1>1, <1>2
<1> QED BY <1>1, <1>3, <1>5, <1>6, <1>7, <1>8, PublisherStep

\* A dead publisher has nothing sent.
LEMMA PublisherCrashKeeps ==
  ASSUME IInv, NEW p \in Publishers, PublisherCrash(p)
  PROVE  IInv'
<1>1. /\ batch' = [batch EXCEPT ![p] = {}] /\ left' = [left EXCEPT ![p] = 0]
      /\ sent' = [sent EXCEPT ![p] = FALSE] /\ faults < MaxFaults /\ faults' = faults + 1
      /\ UNCHANGED <<created, row, topic, consumerVars>>
  BY DEF PublisherCrash, Fault, tableVars
<1>2. \A q \in Publishers : sent'[q] => sent[q] /\ batch'[q] = batch[q]
  BY <1>1, PublisherFacts
<1>3. \A q \in Publishers : sent'[q] => Turn(q)' = Turn(q)
  BY <1>1, <1>2 DEF Turn
<1>4. SentIsThere' /\ NoLostEvent'
  BY <1>1, <1>2, <1>3, PublisherFacts DEF SentIsThere, NoLostEvent
<1>5. /\ batch' \in [Publishers -> SUBSET ToSet(created)] /\ sent' \in [Publishers -> BOOLEAN]
      /\ left' \in [Publishers -> 0..SendTicks] /\ faults' \in 0..MaxFaults
  BY <1>1, PublisherFacts
<1> QED BY <1>1, <1>4, <1>5, PublisherFacts, PublisherStep

\* Time and the end of a backoff only change locks and delays.
LEMMA TimeKeeps ==
  ASSUME IInv, Tick \/ \E e \in Events : BackoffElapses(e)
  PROVE  IInv'
<1>1. UNCHANGED <<created, batch, sent, topic, consumerVars, faults>>
  BY DEF Tick, BackoffElapses, publisherVars
<1>2. row' \in [Events -> Row] /\ \A e \in Events : row'[e].published = row[e].published
  <2>1. row \in [Events -> Row]
    BY PublisherFacts
  <2>2. CASE Tick
    <3>1. row' = [e \in Events |-> [row[e] EXCEPT !.lock = IF @ > 0 THEN @ - 1 ELSE 0]]
      BY <2>2 DEF Tick
    <3>2. ASSUME NEW e \in Events PROVE row'[e] \in Row /\ row'[e].published = row[e].published
      <4>1. row[e].lock \in 0..LockTicks /\ LockTicks \in Nat
        BY <2>1, PublisherFacts DEF Row
      <4>2. PICK n \in 0..LockTicks : n = IF row[e].lock > 0 THEN row[e].lock - 1 ELSE 0
        BY <4>1
      <4>3. row'[e] = [row[e] EXCEPT !.lock = n]
        BY <3>1, <4>2
      <4> QED BY <2>1, <4>3, RowChanged
    <3> QED BY <3>1, <3>2
  <2>3. ASSUME NEW d \in Events, BackoffElapses(d)
        PROVE  row' \in [Events -> Row] /\ \A e \in Events : row'[e].published = row[e].published
    <3>1. row' = [row EXCEPT ![d] = [row[d] EXCEPT !.waiting = FALSE]]
      BY <2>3 DEF BackoffElapses
    <3>2. /\ [row[d] EXCEPT !.waiting = FALSE] \in Row
          /\ [row[d] EXCEPT !.waiting = FALSE].published = row[d].published
      BY <2>1, RowChanged
    <3> QED BY <2>1, <3>1, <3>2
  <2> QED BY <2>2, <2>3
<1>3. left' \in [Publishers -> 0..SendTicks]
  <2>1. CASE Tick
    <3>1. ASSUME NEW p \in Publishers
          PROVE  (IF batch[p] # {} THEN left[p] - 1 ELSE left[p]) \in 0..SendTicks
      <4>1. left[p] \in 0..SendTicks /\ SendTicks \in Nat /\ (batch[p] # {} => left[p] > 0)
        BY <2>1, PublisherFacts DEF Tick
      <4> QED BY <4>1
    <3>2. left' = [p \in Publishers |-> IF batch[p] # {} THEN left[p] - 1 ELSE left[p]]
      BY <2>1 DEF Tick
    <3> QED BY <3>1, <3>2
  <2>2. CASE \E e \in Events : BackoffElapses(e)
    BY <2>2, PublisherFacts DEF BackoffElapses, publisherVars
  <2> QED BY <2>1, <2>2
<1>4. SentIsThere'
  <2>1. \A p \in Publishers : Turn(p)' = Turn(p)
    BY <1>1 DEF Turn
  <2> QED BY <1>1, <2>1, PublisherFacts DEF SentIsThere
<1>5. NoLostEvent'
  BY <1>1, <1>2, PublisherFacts DEF NoLostEvent
<1> QED BY <1>1, <1>2, <1>3, <1>4, <1>5, PublisherFacts, PublisherStep
-----------------------------------------------------------------------------
\* Steps of the consumers.
Place == [pc : {"idle", "handling", "handled"}, pos : Nat \ {0}]

LEMMA PlaceChanged ==
  ASSUME NEW x \in Place, NEW pc \in {"idle", "handling", "handled"}
  PROVE  [x EXCEPT !.pc = pc] \in Place /\ [x EXCEPT !.pc = pc].pc = pc
         /\ [x EXCEPT !.pc = pc].pos = x.pos
BY DEF Place

\* What a step of one consumer has to keep.
LEMMA ConsumerStep ==
  ASSUME IInv, NEW c \in Consumers, NEW x \in Place, consumer' = [consumer EXCEPT ![c] = x],
         UNCHANGED <<tableVars, publisherVars, topic>>, faults' \in 0..MaxFaults,
         offset' \in 0..Len(topic), owner' \in Consumers,
         failures' \in [Consumers -> [Events -> 0..MaxFailures - 1]],
         inbox \subseteq inbox', inbox' \subseteq Events,
         parked \subseteq parked', parked' \subseteq Events,
         applied' \in [Events -> Nat], InboxCounts', OffsetBehindWork',
         x.pos <= Len(topic) + 1, x.pc # "idle" => x.pos <= Len(topic),
         x.pc = "handled" => Worked(x.pos)',
         \A i \in 1..(x.pos - 1) : Worked(i)'
  PROVE  IInv'
<1>1. TableTypes /\ GroupTypes /\ Recorded /\ SentIsThere /\ NoLostEvent /\ Behind
  BY TypesSplit DEF IInv
<1>2. UNCHANGED <<created, row, batch, sent, left, topic>>
  BY DEF tableVars, publisherVars
<1>3. TableTypes' /\ Recorded' /\ NoLostEvent'
  BY <1>1, <1>2 DEF TableTypes, Recorded, NoLostEvent
<1>4. SentIsThere'
  <2>1. \A p \in Publishers : Turn(p)' = Turn(p)
    BY <1>2 DEF Turn
  <2> QED BY <1>1, <1>2, <2>1 DEF SentIsThere
<1>5. GroupTypes'
  <2>1. consumer' \in [Consumers -> Place]
    BY <1>1 DEF GroupTypes, Place
  <2> QED BY <1>1, <1>2, <2>1 DEF GroupTypes, Place
<1>6. Behind'
  <2> DEFINE W(i) == topic[i] \in inbox' \cup parked'
  <2>1. /\ \A i : Worked(i) => W(i)
        /\ x.pc = "handled" => W(x.pos)
        /\ \A i \in 1..(x.pos - 1) : W(i)
    BY <1>2 DEF Worked
  <2>2. ASSUME NEW d \in Consumers
        PROVE  /\ consumer'[d].pos <= Len(topic) + 1
               /\ consumer'[d].pc # "idle" => consumer'[d].pos <= Len(topic)
               /\ consumer'[d].pc = "handled" => W(consumer'[d].pos)
               /\ \A i \in 1..(consumer'[d].pos - 1) : W(i)
    <3> HIDE DEF W
    <3>1. CASE d = c
      <4>1. consumer'[d] = x
        BY <1>1, <3>1 DEF GroupTypes
      <4> QED BY <2>1, <4>1
    <3>2. CASE d # c
      <4>1. consumer'[d] = consumer[d]
        BY <1>1, <3>2 DEF GroupTypes
      <4> QED BY <1>1, <2>1, <4>1 DEF Behind
    <3> QED BY <3>1, <3>2
  <2> QED BY <1>2, <2>2 DEF Behind, Worked
<1>7. TypeOK'
  BY <1>3, <1>5 DEF TypeOK, TableTypes, GroupTypes, Row
<1> QED BY <1>3, <1>4, <1>6, <1>7 DEF IInv

\* What the consumers' lemmas start from.
LEMMA ConsumerFacts ==
  ASSUME IInv, NEW c \in Consumers
  PROVE  /\ GroupTypes /\ InboxCounts /\ OffsetBehindWork /\ Len(topic) \in Nat
         /\ faults \in 0..MaxFaults /\ MaxFaults \in Nat /\ MaxFailures \in Nat \ {0}
         /\ consumer \in [Consumers -> Place] /\ consumer[c] \in Place
         /\ consumer[c].pos \in Nat \ {0} /\ consumer[c].pos <= Len(topic) + 1
         /\ consumer[c].pc # "idle" => consumer[c].pos <= Len(topic)
         /\ consumer[c].pc = "handled" => Worked(consumer[c].pos)
         /\ \A i \in 1..(consumer[c].pos - 1) : Worked(i)
         /\ consumer[c].pos <= Len(topic) => Current(c) \in Events /\ Current(c) \in ToSet(topic)
<1>1. GroupTypes /\ InboxCounts /\ Behind /\ faults \in 0..MaxFaults
  BY TypesSplit DEF IInv
<1>2. MaxFaults \in Nat /\ MaxFailures \in Nat \ {0}
  BY BoundsAssumption
<1>3. Len(topic) \in Nat /\ DOMAIN topic = 1..Len(topic) /\ topic \in [1..Len(topic) -> Events]
  BY <1>1, LenProperties DEF GroupTypes
<1>4. consumer \in [Consumers -> Place] /\ consumer[c] \in Place /\ consumer[c].pos \in Nat \ {0}
  BY <1>1 DEF GroupTypes, Place
<1>5. consumer[c].pos <= Len(topic) => Current(c) \in Events /\ Current(c) \in ToSet(topic)
  <2>1. ASSUME consumer[c].pos <= Len(topic) PROVE consumer[c].pos \in 1..Len(topic)
    BY <1>3, <1>4, <2>1
  <2> QED BY <1>3, <2>1 DEF Current, ToSet
<1> QED BY <1>1, <1>2, <1>3, <1>4, <1>5 DEF Behind

\* A new count of the failures in a row.
LEMMA CountTyped ==
  ASSUME IInv, NEW c \in Consumers, consumer[c].pos <= Len(topic), NEW n \in 0..MaxFailures - 1,
         Count(c, n)
  PROVE  failures' \in [Consumers -> [Events -> 0..MaxFailures - 1]]
<1>1. failures \in [Consumers -> [Events -> 0..MaxFailures - 1]] /\ Current(c) \in Events
  BY ConsumerFacts DEF GroupTypes
<1>2. failures' = [failures EXCEPT ![c] = [failures[c] EXCEPT ![Current(c)] = n]]
  BY DEF Count
<1>3. [failures[c] EXCEPT ![Current(c)] = n] \in [Events -> 0..MaxFailures - 1]
  BY <1>1
<1> QED BY <1>1, <1>2, <1>3

\* Steps that settle nothing keep the counts and the offset's record.
LEMMA SettledKept ==
  ASSUME IInv, NEW c \in Consumers, UNCHANGED <<topic, offset, handledVars>>
  PROVE  /\ InboxCounts' /\ OffsetBehindWork' /\ applied' \in [Events -> Nat]
         /\ inbox' = inbox /\ parked' = parked
         /\ inbox' \subseteq Events /\ parked' \subseteq Events
         /\ offset' \in 0..Len(topic) /\ \A i : Worked(i)' = Worked(i)
BY ConsumerFacts DEF handledVars, InboxCounts, OffsetBehindWork, Worked, GroupTypes

\* Receive: an event that the inbox knows is worked already.
LEMMA ReceiveKeeps ==
  ASSUME IInv, NEW c \in Consumers, Receive(c)
  PROVE  IInv'
<1>1. /\ consumer[c].pc = "idle" /\ consumer[c].pos <= Len(topic)
      /\ UNCHANGED <<tableVars, publisherVars, topic, groupVars, handledVars, faults>>
      /\ \/ /\ Current(c) \in inbox /\ Count(c, 0)
            /\ consumer' = [consumer EXCEPT ![c] = [consumer[c] EXCEPT !.pc = "handled"]]
         \/ /\ UNCHANGED failures
            /\ consumer' = [consumer EXCEPT ![c] = [consumer[c] EXCEPT !.pc = "handling"]]
  BY DEF Receive
<1>2. PICK pc \in {"handling", "handled"} :
        /\ consumer' = [consumer EXCEPT ![c] = [consumer[c] EXCEPT !.pc = pc]]
        /\ pc = "handled" => Worked(consumer[c].pos)
        /\ failures' \in [Consumers -> [Events -> 0..MaxFailures - 1]]
  <2>1. CASE Current(c) \in inbox /\ Count(c, 0)
             /\ consumer' = [consumer EXCEPT ![c] = [consumer[c] EXCEPT !.pc = "handled"]]
    <3>1. 0 \in 0..MaxFailures - 1
      BY ConsumerFacts
    <3>2. failures' \in [Consumers -> [Events -> 0..MaxFailures - 1]]
      BY <1>1, <2>1, <3>1, CountTyped
    <3> QED BY <2>1, <3>2 DEF Current, Worked
  <2>2. CASE UNCHANGED failures
             /\ consumer' = [consumer EXCEPT ![c] = [consumer[c] EXCEPT !.pc = "handling"]]
    BY <2>2, ConsumerFacts DEF GroupTypes
  <2> QED BY <1>1, <2>1, <2>2
<1>3. PICK x : x = [consumer[c] EXCEPT !.pc = pc]
  OBVIOUS
<1>4. x \in Place /\ x.pc = pc /\ x.pos = consumer[c].pos
  BY <1>3, ConsumerFacts DEF Place
<1>5. /\ UNCHANGED <<topic, offset, owner, handledVars, faults>>
      /\ UNCHANGED <<tableVars, publisherVars, topic>>
  BY <1>1 DEF groupVars
<1>6. owner' \in Consumers /\ faults' \in 0..MaxFaults
  BY <1>5, ConsumerFacts DEF GroupTypes
<1>7. /\ x.pos <= Len(topic) + 1 /\ x.pos <= Len(topic)
      /\ x.pc = "handled" => Worked(x.pos) /\ \A i \in 1..(x.pos - 1) : Worked(i)
  BY <1>1, <1>2, <1>4, ConsumerFacts
<1>8. /\ x.pc = "handled" => Worked(x.pos)'
      /\ \A i \in 1..(x.pos - 1) : Worked(i)'
  BY <1>4, <1>5, <1>7, SettledKept, ConsumerFacts
<1> QED BY <1>2, <1>3, <1>4, <1>5, <1>6, <1>7, <1>8, SettledKept, ConsumerStep
\* Steps that settle an event leave settled what was.
LEMMA SettledGrows ==
  ASSUME IInv, UNCHANGED <<topic, offset>>, inbox \subseteq inbox', parked \subseteq parked'
  PROVE  OffsetBehindWork' /\ (\A i : Worked(i) => Worked(i)')
<1>1. OffsetBehindWork
  BY DEF IInv, Behind
<1>2. \A i : topic'[i] = topic[i]
  OBVIOUS
<1> QED BY <1>1, <1>2 DEF OffsetBehindWork, Worked

\* A consumer whose record is settled by the step goes on to the commit.
LEMMA Settles ==
  ASSUME IInv, NEW c \in Consumers, consumer[c].pc = "handling", Count(c, 0),
         consumer' = [consumer EXCEPT ![c].pc = "handled"],
         UNCHANGED <<tableVars, publisherVars, topic, groupVars>>, faults' \in 0..MaxFaults,
         inbox \subseteq inbox', inbox' \subseteq Events,
         parked \subseteq parked', parked' \subseteq Events,
         applied' \in [Events -> Nat], InboxCounts', Current(c) \in inbox' \cup parked'
  PROVE  IInv'
<1>1. PICK x : x = [consumer[c] EXCEPT !.pc = "handled"]
  OBVIOUS
<1>2. x \in Place /\ x.pc = "handled" /\ x.pos = consumer[c].pos
  BY <1>1, ConsumerFacts DEF Place
<1>3. consumer' = [consumer EXCEPT ![c] = x]
  BY <1>1
<1>4. UNCHANGED <<topic, offset, owner>>
  BY DEF groupVars
<1>5. OffsetBehindWork' /\ (\A i : Worked(i) => Worked(i)')
  BY <1>4, SettledGrows
<1>6. offset' \in 0..Len(topic) /\ owner' \in Consumers
  BY <1>4, ConsumerFacts DEF GroupTypes
<1>7. /\ consumer[c].pos <= Len(topic)
      /\ x.pos <= Len(topic) + 1 /\ x.pos <= Len(topic)
  BY <1>2, ConsumerFacts
<1>8. failures' \in [Consumers -> [Events -> 0..MaxFailures - 1]]
  <2>1. 0 \in 0..MaxFailures - 1
    BY ConsumerFacts
  <2> QED BY <1>7, <2>1, CountTyped
<1>9. Worked(x.pos)'
  BY <1>2, <1>4 DEF Worked, Current
<1>10. \A i \in 1..(x.pos - 1) : Worked(i)'
  BY <1>2, <1>5, ConsumerFacts
<1> QED BY <1>2, <1>3, <1>4, <1>5, <1>6, <1>7, <1>8, <1>9, <1>10, ConsumerStep

\* HandlerCommits: the transaction counts the event it puts in the inbox.
LEMMA HandlerCommitsKeeps ==
  ASSUME IInv, NEW c \in Consumers, HandlerCommits(c)
  PROVE  IInv'
<1>1. PICK e : e = Current(c)
  OBVIOUS
<1>2. /\ consumer[c].pc = "handling" /\ e \notin inbox
      /\ inbox' = inbox \cup {e} /\ applied' = [applied EXCEPT ![e] = @ + 1]
      /\ consumer' = [consumer EXCEPT ![c].pc = "handled"] /\ Count(c, 0)
      /\ UNCHANGED <<tableVars, publisherVars, topic, groupVars, parked, faults>>
  BY <1>1 DEF HandlerCommits
<1>3. /\ e \in Events /\ applied \in [Events -> Nat]
      /\ inbox \subseteq Events /\ parked \subseteq Events
  BY <1>1, <1>2, ConsumerFacts DEF GroupTypes
<1>4. applied' \in [Events -> Nat]
  BY <1>2, <1>3
<1>5. InboxCounts'
  <2>1. \A f \in Events : applied[f] = IF f \in inbox THEN 1 ELSE 0
    BY ConsumerFacts DEF InboxCounts
  <2>2. \A f \in Events : applied'[f] = IF f = e THEN applied[e] + 1 ELSE applied[f]
    BY <1>2, <1>3
  <2>3. \A f \in Events : applied'[f] = IF f \in inbox' THEN 1 ELSE 0
    BY <1>2, <1>3, <2>1, <2>2
  <2> QED BY <2>3 DEF InboxCounts
<1>6. faults' \in 0..MaxFaults
  BY <1>2, ConsumerFacts
<1> QED BY <1>1, <1>2, <1>3, <1>4, <1>5, <1>6, Settles

\* HandlerRaises: the record is tried again or parked.
LEMMA HandlerRaisesKeeps ==
  ASSUME IInv, NEW c \in Consumers, HandlerRaises(c)
  PROVE  IInv'
<1>1. /\ consumer[c].pc = "handling" /\ GiveUpOrRetry(c)
      /\ UNCHANGED <<tableVars, publisherVars, topic, groupVars, inbox, applied>>
      /\ UNCHANGED faults \/ Fault
  BY DEF HandlerRaises
<1>2. faults' \in 0..MaxFaults
  BY <1>1, ConsumerFacts DEF Fault
<1>3. PICK n : n = failures[c][Current(c)] + 1
  OBVIOUS
<1>4. consumer[c].pos <= Len(topic) /\ Current(c) \in Events /\ n \in Nat
  <2>1. consumer[c].pos <= Len(topic) /\ Current(c) \in Events
    BY <1>1, ConsumerFacts
  <2>2. failures[c][Current(c)] \in 0..MaxFailures - 1 /\ MaxFailures \in Nat
    BY <2>1, ConsumerFacts DEF GroupTypes
  <2> QED BY <1>3, <2>1, <2>2
<1>5. CASE n < MaxFailures
  <2>1. /\ consumer' = [consumer EXCEPT ![c].pc = "idle"] /\ Count(c, n) /\ UNCHANGED parked
    BY <1>1, <1>3, <1>5 DEF GiveUpOrRetry
  <2>2. PICK x : x = [consumer[c] EXCEPT !.pc = "idle"]
    OBVIOUS
  <2>3. x \in Place /\ x.pc = "idle" /\ x.pos = consumer[c].pos
    BY <2>2, ConsumerFacts DEF Place
  <2>4. consumer' = [consumer EXCEPT ![c] = x]
    BY <2>1, <2>2
  <2>5. UNCHANGED <<topic, offset, owner, handledVars>>
    BY <1>1, <2>1 DEF groupVars, handledVars
  <2>6. failures' \in [Consumers -> [Events -> 0..MaxFailures - 1]]
    <3>1. n \in 0..MaxFailures - 1
      BY <1>4, <1>5, ConsumerFacts
    <3> QED BY <1>4, <2>1, <3>1, CountTyped
  <2>7. owner' \in Consumers
    BY <2>5, ConsumerFacts DEF GroupTypes
  <2>8. x.pos <= Len(topic) + 1
    BY <2>3, ConsumerFacts
  <2>9. \A i \in 1..(x.pos - 1) : Worked(i)'
    BY <2>3, <2>5, SettledKept, ConsumerFacts
  <2> QED BY <1>1, <1>2, <2>3, <2>4, <2>5, <2>6, <2>7, <2>8, <2>9, SettledKept, ConsumerStep
<1>6. CASE ~(n < MaxFailures)
  <2>1. /\ consumer' = [consumer EXCEPT ![c].pc = "handled"] /\ Count(c, 0)
        /\ parked' = parked \cup {Current(c)}
    BY <1>1, <1>3, <1>6 DEF GiveUpOrRetry
  <2>2. inbox' \subseteq Events /\ parked' \subseteq Events /\ applied' \in [Events -> Nat]
    BY <1>1, <1>4, <2>1, ConsumerFacts DEF GroupTypes
  <2>3. InboxCounts'
    BY <1>1, ConsumerFacts DEF InboxCounts
  <2> QED BY <1>1, <1>2, <2>1, <2>2, <2>3, Settles
<1> QED BY <1>5, <1>6

\* A consumer that starts after the committed offset, which may have moved.
LEMMA StartsAfter ==
  ASSUME IInv, NEW c \in Consumers, NEW o \in 0..Len(topic), offset' = o,
         \A i \in 1..o : Worked(i),
         consumer' = [consumer EXCEPT ![c] = At(o + 1)],
         UNCHANGED <<tableVars, publisherVars, topic, handledVars>>, faults' \in 0..MaxFaults,
         owner' \in Consumers, failures' \in [Consumers -> [Events -> 0..MaxFailures - 1]]
  PROVE  IInv'
<1>1. GroupTypes /\ InboxCounts /\ Len(topic) \in Nat /\ o \in Nat
  BY ConsumerFacts
<1>2. PICK x : x = At(o + 1)
  OBVIOUS
<1>3. x \in Place /\ x.pc = "idle" /\ x.pos = o + 1
  BY <1>1, <1>2 DEF Place, At
<1>4. UNCHANGED <<topic, inbox, applied, parked>>
  BY DEF handledVars
<1>5. /\ applied' \in [Events -> Nat] /\ inbox' \subseteq Events /\ parked' \subseteq Events
      /\ InboxCounts'
  BY <1>1, <1>4 DEF GroupTypes, InboxCounts
<1>6. \A i : Worked(i)' = Worked(i)
  BY <1>4 DEF Worked
<1>7. OffsetBehindWork'
  BY <1>4 DEF OffsetBehindWork, Worked
<1>8. x.pos <= Len(topic) + 1 /\ \A i \in 1..(x.pos - 1) : Worked(i)'
  BY <1>1, <1>3, <1>6
<1> QED BY <1>2, <1>3, <1>4, <1>5, <1>7, <1>8, ConsumerStep

\* CommitOffset: the group is done with everything up to the record, which is worked.
LEMMA CommitOffsetKeeps ==
  ASSUME IInv, NEW c \in Consumers, CommitOffset(c)
  PROVE  IInv'
<1>1. PICK o : o = offset'
  OBVIOUS
<1>2. /\ consumer[c].pc = "handled"
      /\ o = IF owner = c THEN consumer[c].pos ELSE offset
      /\ consumer' = [consumer EXCEPT ![c] = At(o + 1)]
      /\ UNCHANGED <<tableVars, publisherVars, topic, owner, failures, handledVars, faults>>
  BY <1>1 DEF CommitOffset
<1>3. o \in 0..Len(topic)
  BY <1>2, ConsumerFacts DEF GroupTypes
<1>4. \A i \in 1..o : Worked(i)
  <2>1. CASE owner = c
    <3>1. ASSUME NEW i \in 1..o
          PROVE  i = consumer[c].pos \/ i \in 1..(consumer[c].pos - 1)
      BY <1>2, <2>1, ConsumerFacts
    <3> QED BY <1>2, <3>1, ConsumerFacts
  <2>2. CASE owner # c
    BY <1>2, <2>2, ConsumerFacts DEF OffsetBehindWork, Worked
  <2> QED BY <2>1, <2>2
<1>5. /\ owner' \in Consumers /\ faults' \in 0..MaxFaults
      /\ failures' \in [Consumers -> [Events -> 0..MaxFailures - 1]]
  BY <1>2, ConsumerFacts DEF GroupTypes
<1> QED BY <1>1, <1>2, <1>3, <1>4, <1>5, StartsAfter

\* Rebalance and crash: the consumer begins at the committed offset.
LEMMA RestartKeeps ==
  ASSUME IInv, NEW c \in Consumers, Rebalance(c) \/ ConsumerCrash(c)
  PROVE  IInv'
<1>1. /\ Fault /\ consumer' = [consumer EXCEPT ![c] = At(offset + 1)]
      /\ UNCHANGED <<tableVars, publisherVars, topic, offset, handledVars>>
      /\ owner' \in {owner, c}
      /\ failures' = failures \/ failures' = [failures EXCEPT ![c] = NoFailures]
  BY DEF Rebalance, ConsumerCrash, groupVars
<1>2. /\ offset \in 0..Len(topic) /\ \A i \in 1..offset : Worked(i)
      /\ owner' \in Consumers
  BY <1>1, ConsumerFacts DEF GroupTypes, OffsetBehindWork, Worked
<1>3. faults' \in 0..MaxFaults
  BY <1>1, ConsumerFacts DEF Fault
<1>4. failures' \in [Consumers -> [Events -> 0..MaxFailures - 1]]
  <2>1. 0 \in 0..MaxFailures - 1
    BY ConsumerFacts
  <2>2. NoFailures \in [Events -> 0..MaxFailures - 1]
    BY <2>1 DEF NoFailures
  <2> QED BY <1>1, <2>2, ConsumerFacts DEF GroupTypes
<1> QED BY <1>1, <1>2, <1>3, <1>4, StartsAfter
-----------------------------------------------------------------------------
\* Every step keeps the invariant.
LEMMA NextKeeps == IInv /\ [Next]_vars => IInv'
<1> SUFFICES ASSUME IInv, [Next]_vars PROVE IInv'
  OBVIOUS
<1>1. CASE UNCHANGED vars
  <2>1. UNCHANGED <<created, row, batch, sent, left, topic, offset, owner, consumer, failures,
                    inbox, applied, parked, faults>>
    BY <1>1 DEF vars, tableVars, publisherVars, consumerVars, groupVars, handledVars
  <2>2. TypeOK' /\ Recorded' /\ NoLostEvent' /\ InboxCounts'
    BY <2>1 DEF IInv, TypeOK, Recorded, NoLostEvent, InboxCounts
  <2>3. SentIsThere' /\ Behind'
    BY <2>1 DEF IInv, SentIsThere, Turn, Behind, OffsetBehindWork, Worked
  <2> QED BY <2>2, <2>3 DEF IInv
<1>2. CASE \E e \in Events : Add(e) \/ AddNotBefore(e)
  BY <1>2, AddKeeps
<1>3. CASE Tick \/ \E e \in Events : BackoffElapses(e)
  BY <1>3, TimeKeeps
<1>4. ASSUME NEW p \in Publishers, Publish(p) \/ SendFailed(p) \/ PublisherCrash(p)
      PROVE  IInv'
  BY <1>4, ClaimKeeps, SendKeeps, PublishedKeeps, SendFailedKeeps, PublisherCrashKeeps DEF Publish
<1>5. ASSUME NEW c \in Consumers,
             Handle(c) \/ HandlerRaises(c) \/ Rebalance(c) \/ ConsumerCrash(c)
      PROVE  IInv'
  BY <1>5, ReceiveKeeps, HandlerCommitsKeeps, HandlerRaisesKeeps, CommitOffsetKeeps, RestartKeeps
  DEF Handle
<1> QED BY <1>1, <1>2, <1>3, <1>4, <1>5 DEF Next

\* The inductive invariant holds of every behaviour.
THEOREM Invariant == Spec => []IInv
BY InitHolds, NextKeeps, PTL DEF Spec

\* The types, among them that no consumer counts MaxFailures failures in a row and goes on.
THEOREM TypeCorrect == Spec => []TypeOK
<1>1. IInv => TypeOK
  BY DEF IInv
<1> QED BY <1>1, Invariant, PTL

\* OutboxRepository.published never comes before the acknowledged send.
THEOREM NothingLost == Spec => []NoLostEvent
<1>1. IInv => NoLostEvent
  BY DEF IInv
<1> QED BY <1>1, Invariant, PTL

\* The inbox makes one transaction of any number of deliveries.
THEOREM Once == Spec => []AppliedOnce
<1>1. IInv => AppliedOnce
  BY DEF IInv, InboxCounts, AppliedOnce
<1> QED BY <1>1, Invariant, PTL

\* A restart at the committed offset skips nothing.
THEOREM NothingSkipped == Spec => []OffsetBehindWork
<1>1. IInv => OffsetBehindWork
  BY DEF IInv, Behind
<1> QED BY <1>1, Invariant, PTL
-----------------------------------------------------------------------------
\* What parking rests on.  A count never exceeds the faults so far, and stays below
\* them where a failure may come without one: the inbox can only hold the record a
\* consumer is handling if somebody else handled it too, which took a rebalance.
Contended(c) == \E d \in Consumers \ {c} : consumer[d].pc = "handling"
Pressed(c, e) ==
  \/ e \notin inbox /\ owner = c /\ Contended(c)
  \/ consumer[c].pc = "handling" /\ Current(c) = e /\ (owner # c \/ e \in inbox)
Causes == \A c \in Consumers, e \in Events \ Poison :
  failures[c][e] <= faults /\ (Pressed(c, e) => failures[c][e] < faults)

FullInv == IInv /\ Causes /\ ParkedForCause

LEMMA FullInit == Init => FullInv
<1> SUFFICES ASSUME Init PROVE FullInv
  OBVIOUS
<1>1. ParkedForCause
  BY DEF Init, ParkedForCause
<1>2. \A c \in Consumers, e \in Events : failures[c][e] = 0
  BY DEF Init, NoFailures
<1>3. \A c, e : ~Pressed(c, e) \/ c \notin Consumers
  BY DEF Init, Pressed, Contended, At
<1>4. faults = 0
  BY DEF Init
<1> QED BY <1>1, <1>2, <1>3, <1>4, InitHolds DEF FullInv, Causes

\* A consumer that stays at its record, and a count that is set.
LEMMA PlaceMoves ==
  ASSUME IInv, NEW d \in Consumers, NEW v, consumer' = [consumer EXCEPT ![d].pc = v]
  PROVE  \A x \in Consumers : /\ consumer'[x].pos = consumer[x].pos
                              /\ x # d => consumer'[x].pc = consumer[x].pc
                              /\ x = d => consumer'[x].pc = v
<1>1. consumer \in [Consumers -> Place]
  BY ConsumerFacts
<1> QED BY <1>1 DEF Place

LEMMA CountMoves ==
  ASSUME IInv, NEW d \in Consumers, NEW n, Count(d, n), consumer[d].pos <= Len(topic)
  PROVE  /\ failures'[d][Current(d)] = n
         /\ \A x \in Consumers, f \in Events :
              x # d \/ f # Current(d) => failures'[x][f] = failures[x][f]
<1>1. failures \in [Consumers -> [Events -> 0..MaxFailures - 1]] /\ Current(d) \in Events
  BY ConsumerFacts DEF GroupTypes
<1> QED BY <1>1 DEF Count

\* Every step keeps the counts below the faults.
LEMMA CausesKept == IInv /\ Causes /\ [Next]_vars => Causes'
<1> SUFFICES ASSUME IInv, Causes, [Next]_vars, NEW c \in Consumers, NEW e \in Events \ Poison
             PROVE  failures'[c][e] <= faults' /\ (Pressed(c, e)' => failures'[c][e] < faults')
  BY DEF Causes
<1>n. /\ failures[c][e] \in Nat /\ faults \in Nat /\ failures[c][e] <= faults
      /\ Pressed(c, e) => failures[c][e] < faults
  <2>1. failures[c][e] \in 0..MaxFailures - 1 /\ MaxFailures \in Nat /\ faults \in Nat
    BY ConsumerFacts DEF GroupTypes
  <2> QED BY <2>1 DEF Causes
<1>f. Fault => faults' = faults + 1
  BY DEF Fault
<1>1. ASSUME UNCHANGED consumerVars, UNCHANGED faults \/ Fault,
             topic' = topic \/ \E x \in Events : topic' = Append(topic, x)
      PROVE  failures'[c][e] <= faults' /\ (Pressed(c, e)' => failures'[c][e] < faults')
  <2>1. UNCHANGED <<consumer, failures, owner, inbox>>
    BY <1>1 DEF consumerVars, groupVars, handledVars
  <2>2. consumer[c].pc = "handling" => Current(c)' = Current(c)
    <3>1. SUFFICES ASSUME consumer[c].pc = "handling" PROVE Current(c)' = Current(c)
      OBVIOUS
    <3>2. consumer[c].pos \in 1..Len(topic) /\ topic \in Seq(Events)
      BY <3>1, ConsumerFacts DEF GroupTypes
    <3>3. topic'[consumer[c].pos] = topic[consumer[c].pos]
      BY <1>1, <3>2, Appended
    <3> QED BY <2>1, <3>3 DEF Current
  <2>3. Pressed(c, e)' => Pressed(c, e)
    BY <2>1, <2>2 DEF Pressed, Contended
  <2> QED BY <1>1, <1>f, <1>n, <2>1, <2>3
<1>2. ASSUME NEW d \in Consumers, Rebalance(d) \/ ConsumerCrash(d)
      PROVE  failures'[c][e] <= faults' /\ (Pressed(c, e)' => failures'[c][e] < faults')
  <2>1. Fault /\ (failures' = failures \/ failures' = [failures EXCEPT ![d] = NoFailures])
    BY <1>2 DEF Rebalance, ConsumerCrash
  <2>2. failures \in [Consumers -> [Events -> 0..MaxFailures - 1]]
    BY ConsumerFacts DEF GroupTypes
  <2>3. failures'[c][e] \in {failures[c][e], 0}
    BY <2>1, <2>2 DEF NoFailures
  <2> QED BY <2>1, <2>3, <1>f, <1>n
<1>3. ASSUME NEW d \in Consumers, Receive(d)
      PROVE  failures'[c][e] <= faults' /\ (Pressed(c, e)' => failures'[c][e] < faults')
  <2>1. /\ owner = d /\ consumer[d].pc = "idle" /\ consumer[d].pos <= Len(topic)
        /\ UNCHANGED <<topic, owner, inbox, faults>>
    BY <1>3 DEF Receive, groupVars, handledVars
  <2>2. CASE Current(d) \in inbox
    <3>1. consumer' = [consumer EXCEPT ![d].pc = "handled"] /\ Count(d, 0)
      BY <1>3, <2>2 DEF Receive
    <3>2. failures'[c][e] \in {failures[c][e], 0}
      BY <2>1, <3>1, CountMoves
    <3>3. Pressed(c, e)' => Pressed(c, e)
      BY <2>1, <3>1, PlaceMoves DEF Pressed, Contended, Current
    <3>4. failures'[c][e] <= failures[c][e] /\ failures'[c][e] \in Nat
      BY <3>2, <1>n
    <3> QED BY <2>1, <3>3, <3>4, <1>n
  <2>3. CASE Current(d) \notin inbox
    <3>1. consumer' = [consumer EXCEPT ![d].pc = "handling"] /\ UNCHANGED failures
      BY <1>3, <2>3 DEF Receive
    <3>2. Pressed(c, e)' => Pressed(c, e)
      <4>1. \A x \in Consumers : Current(x)' = Current(x)
        BY <2>1, <3>1, PlaceMoves DEF Current
      <4>2. CASE c = d
        BY <2>1, <2>3, <3>1, <4>1, <4>2, PlaceMoves DEF Pressed, Contended
      <4>3. CASE c # d
        BY <2>1, <3>1, <4>1, <4>3, PlaceMoves DEF Pressed
      <4> QED BY <4>2, <4>3
    <3> QED BY <2>1, <3>1, <3>2, <1>n
  <2> QED BY <2>2, <2>3
<1>4. ASSUME NEW d \in Consumers, HandlerCommits(d)
      PROVE  failures'[c][e] <= faults' /\ (Pressed(c, e)' => failures'[c][e] < faults')
  <2>1. /\ consumer[d].pc = "handling" /\ Current(d) \notin inbox
        /\ inbox' = inbox \cup {Current(d)}
        /\ consumer' = [consumer EXCEPT ![d].pc = "handled"] /\ Count(d, 0)
        /\ UNCHANGED <<topic, owner, faults>>
    BY <1>4 DEF HandlerCommits, groupVars
  <2>2. consumer[d].pos <= Len(topic)
    BY <2>1, ConsumerFacts
  <2>3. failures'[c][e] \in {failures[c][e], 0}
    BY <2>1, <2>2, CountMoves
  <2>4. Pressed(c, e)' => Pressed(c, e)
    <3>1. \A x \in Consumers : Current(x)' = Current(x)
      BY <2>1, PlaceMoves DEF Current
    <3>2. CASE c = d
      <4>1. \A x \in Consumers : /\ x # d => consumer'[x].pc = consumer[x].pc
                                 /\ x = d => consumer'[x].pc = "handled"
        <5>1. consumer' = [consumer EXCEPT ![d].pc = "handled"]
          BY <2>1
        <5>2. consumer \in [Consumers -> Place]
          BY ConsumerFacts
        <5> QED BY ONLY <5>1, <5>2 DEF Place
      <4>2. Contended(c)' => Contended(c)
        BY <3>2, <4>1 DEF Contended
      <4> QED BY <2>1, <3>2, <4>1, <4>2 DEF Pressed
    <3>3. CASE c # d
      <4>1. d \in Consumers \ {c}
        BY <3>3
      <4>2. Contended(c)
        BY <2>1, <4>1 DEF Contended
      <4> QED BY <2>1, <3>1, <3>3, <4>2, PlaceMoves DEF Pressed
    <3> QED BY <3>2, <3>3
  <2>5. failures'[c][e] <= failures[c][e] /\ failures'[c][e] \in Nat
    BY <2>3, <1>n
  <2> QED BY <2>1, <2>4, <2>5, <1>n
<1>5. ASSUME NEW d \in Consumers, HandlerRaises(d)
      PROVE  failures'[c][e] <= faults' /\ (Pressed(c, e)' => failures'[c][e] < faults')
  <2>1. /\ consumer[d].pc = "handling" /\ UNCHANGED <<topic, owner, inbox>>
        /\ (Current(d) \in Poison \cup inbox /\ UNCHANGED faults) \/ Fault
    BY <1>5 DEF HandlerRaises, groupVars
  <2>2. consumer[d].pos <= Len(topic)
    BY <2>1, ConsumerFacts
  <2>3. PICK v \in {"idle", "handled"}, n \in {failures[d][Current(d)] + 1, 0} :
          consumer' = [consumer EXCEPT ![d].pc = v] /\ Count(d, n)
    BY <1>5 DEF HandlerRaises, GiveUpOrRetry
  <2>4. Pressed(c, e)' => Pressed(c, e) /\ (c # d \/ e \notin inbox)
    BY <2>1, <2>3, PlaceMoves DEF Pressed, Contended, Current
  <2>5. CASE c = d /\ e = Current(d)
    <3>1. failures'[c][e] = n /\ n \in {failures[c][e] + 1, 0}
      BY <2>2, <2>3, <2>5, CountMoves
    <3>2. CASE Fault
      BY <3>1, <3>2, <2>4, <1>f, <1>n
    <3>3. CASE UNCHANGED faults /\ e \in inbox
      <4>1. Pressed(c, e) /\ ~Pressed(c, e)'
        BY <2>1, <2>4, <2>5, <3>3 DEF Pressed
      <4> QED BY <3>1, <3>3, <4>1, <1>n
    <3> QED BY <2>1, <2>5, <3>2, <3>3
  <2>6. CASE ~(c = d /\ e = Current(d))
    <3>1. failures'[c][e] = failures[c][e]
      BY <2>2, <2>3, <2>6, CountMoves
    <3> QED BY <2>1, <3>1, <2>4, <1>f, <1>n
  <2> QED BY <2>5, <2>6
<1>6. ASSUME NEW d \in Consumers, CommitOffset(d)
      PROVE  failures'[c][e] <= faults' /\ (Pressed(c, e)' => failures'[c][e] < faults')
  <2>1. /\ consumer' = [consumer EXCEPT ![d] = At(offset' + 1)]
        /\ UNCHANGED <<topic, owner, failures, inbox, faults>>
    BY <1>6 DEF CommitOffset, handledVars
  <2>2. /\ consumer'[d].pc = "idle"
        /\ \A x \in Consumers \ {d} : consumer'[x] = consumer[x]
    <3>1. consumer \in [Consumers -> Place]
      BY ConsumerFacts
    <3> QED BY <2>1, <3>1 DEF At
  <2>3. Pressed(c, e)' => Pressed(c, e)
    BY <2>1, <2>2 DEF Pressed, Contended, Current
  <2> QED BY <2>1, <2>3, <1>n
<1>7. CASE \/ UNCHANGED vars \/ Tick
           \/ \E x \in Events : Add(x) \/ AddNotBefore(x) \/ BackoffElapses(x)
  BY <1>1, <1>7 DEF vars, Tick, Add, AddNotBefore, BackoffElapses
<1>8. ASSUME NEW p \in Publishers, Publish(p) \/ SendFailed(p) \/ PublisherCrash(p)
      PROVE  failures'[c][e] <= faults' /\ (Pressed(c, e)' => failures'[c][e] < faults')
  <2>1. PICK x : x = Turn(p)
    OBVIOUS
  <2>2. batch[p] # {} => x \in Events
    <3>1. /\ created \in Seq(Events) /\ batch[p] \subseteq ToSet(created)
      BY DEF IInv, TypeOK
    <3>2. ToSet(created) \subseteq Events
      BY <3>1, LenProperties DEF ToSet
    <3> QED BY <2>1, <3>1, <3>2, TurnInBatch
  <2>3. UNCHANGED consumerVars /\ (UNCHANGED faults \/ Fault)
    BY <1>8 DEF Publish, Claim, SendOk, Published, SendFailed, PublisherCrash
  <2>4. topic' = topic \/ (batch[p] # {} /\ topic' = Append(topic, x))
    BY <1>8, <2>1 DEF Publish, Claim, SendOk, Published, SendFailed, PublisherCrash
  <2> QED BY <1>1, <2>2, <2>3, <2>4
<1> QED BY <1>2, <1>3, <1>4, <1>5, <1>6, <1>7, <1>8 DEF Next, Handle

\* Only HandlerRaises parks, at MaxFailures.
LEMMA ParkedKept == IInv /\ Causes /\ ParkedForCause /\ [Next]_vars => ParkedForCause'
<1> SUFFICES ASSUME IInv, Causes, ParkedForCause, [Next]_vars, NEW e \in parked', e \notin Poison
             PROVE  faults' >= MaxFailures
  BY DEF ParkedForCause
<1>1. faults \in Nat /\ MaxFailures \in Nat
  <2>1. owner \in Consumers
    BY DEF IInv, TypeOK
  <2> QED BY <2>1, ConsumerFacts
<1>2. faults' = faults \/ faults' = faults + 1
  BY DEF Next, Add, AddNotBefore, BackoffElapses, Publish, Claim, SendOk, Published, SendFailed,
         PublisherCrash, Handle, Receive, HandlerCommits, CommitOffset, HandlerRaises, Rebalance,
         ConsumerCrash, Tick, Fault, vars
<1>3. CASE e \in parked
  BY <1>1, <1>2, <1>3 DEF ParkedForCause
<1>4. CASE e \notin parked
  <2>1. PICK c \in Consumers : HandlerRaises(c)
    BY <1>4 DEF Next, Add, AddNotBefore, BackoffElapses, Publish, Claim, SendOk, Published,
                SendFailed, PublisherCrash, Handle, Receive, HandlerCommits, CommitOffset, Rebalance,
                ConsumerCrash, Tick, vars, consumerVars, handledVars
  <2>2. /\ consumer[c].pc = "handling" /\ e = Current(c)
        /\ ~(failures[c][e] + 1 < MaxFailures)
        /\ (e \in inbox /\ UNCHANGED faults) \/ Fault
    BY <1>4, <2>1 DEF HandlerRaises, GiveUpOrRetry
  <2>3. e \in Events \ Poison
    BY <2>2, ConsumerFacts
  <2>4. failures[c][e] \in Nat
    <3>1. failures[c][e] \in 0..MaxFailures - 1
      BY <2>3, ConsumerFacts DEF GroupTypes
    <3> QED BY <1>1, <3>1
  <2>5. failures[c][e] <= faults /\ (e \in inbox => failures[c][e] < faults)
    BY <2>2, <2>3 DEF Causes, Pressed
  <2> QED BY <1>1, <2>2, <2>4, <2>5 DEF Fault
<1> QED BY <1>3, <1>4

\* A good event is parked only after MaxFailures faults, whoever counted them.
THEOREM ParkedWithCause == Spec => []ParkedForCause
<1>1. FullInv /\ [Next]_vars => FullInv'
  BY NextKeeps, CausesKept, ParkedKept DEF FullInv
<1>2. FullInv => ParkedForCause
  BY DEF FullInv
<1> QED BY <1>1, <1>2, FullInit, PTL DEF Spec
-----------------------------------------------------------------------------
\* EventDelivery starts with nothing recorded.
LEMMA DeliveryInit == Init => Delivery!Init
BY EmptySeq DEF Init, Delivery!Init, ToSet

\* Every step records one event, settles one that was recorded, or stutters.
LEMMA DeliveryStep == IInv /\ IInv' /\ [Next]_vars => [Delivery!Next]_(Delivery!vars)
<1> SUFFICES ASSUME IInv, IInv', [Next]_vars PROVE [Delivery!Next]_(Delivery!vars)
  OBVIOUS
<1>1. created \in Seq(Events) /\ ToSet(topic) \subseteq ToSet(created)
  BY DEF IInv, TypeOK, Recorded
<1>2. ASSUME UNCHANGED <<created, inbox, parked>>
      PROVE  UNCHANGED Delivery!vars
  BY <1>2 DEF Delivery!vars, ToSet
<1>3. ASSUME NEW e \in Events, Add(e) \/ AddNotBefore(e)
      PROVE  Delivery!Record
  <2>1. /\ e \notin ToSet(created) /\ created' = Append(created, e)
        /\ UNCHANGED <<inbox, parked>>
    BY <1>3 DEF Add, AddNotBefore, consumerVars, handledVars
  <2>2. ToSet(created') = ToSet(created) \cup {e}
    BY <1>1, <2>1, Appended
  <2>3. ToSet(created) \subseteq Events
    BY <1>1, LenProperties DEF ToSet
  <2> QED BY <2>1, <2>2, <2>3 DEF Delivery!Record
<1>4. ASSUME NEW c \in Consumers, HandlerCommits(c) \/ HandlerRaises(c)
      PROVE  [Delivery!Next]_(Delivery!vars)
  <2>1. PICK e : e = Current(c)
    OBVIOUS
  <2>2. e \in ToSet(created) /\ e \in Events
    <3>1. consumer[c].pc = "handling"
      BY <1>4 DEF HandlerCommits, HandlerRaises
    <3> QED BY <1>1, <2>1, <3>1, ConsumerFacts
  <2>3. /\ created' = created
        /\ \/ inbox' \cup parked' = inbox \cup parked
           \/ inbox' \cup parked' = (inbox \cup parked) \cup {e}
    BY <1>4, <2>1 DEF HandlerCommits, HandlerRaises, GiveUpOrRetry, tableVars
  <2>4. CASE e \in inbox \cup parked
    BY <2>3, <2>4 DEF Delivery!vars, ToSet
  <2>5. CASE e \notin inbox \cup parked
    BY <2>2, <2>3, <2>5 DEF Delivery!Next, Delivery!Settle, Delivery!vars, ToSet
  <2> QED BY <2>4, <2>5
<1>5. ASSUME NEW e \in Events, BackoffElapses(e) PROVE UNCHANGED Delivery!vars
  BY <1>2, <1>5 DEF BackoffElapses, consumerVars, handledVars
<1>6. ASSUME NEW p \in Publishers, Publish(p) \/ SendFailed(p) \/ PublisherCrash(p)
      PROVE  UNCHANGED Delivery!vars
  BY <1>2, <1>6 DEF Publish, Claim, SendOk, Published, SendFailed, PublisherCrash,
                    consumerVars, handledVars, tableVars
<1>7. ASSUME NEW c \in Consumers,
             Receive(c) \/ CommitOffset(c) \/ Rebalance(c) \/ ConsumerCrash(c)
      PROVE  UNCHANGED Delivery!vars
  BY <1>2, <1>7 DEF Receive, CommitOffset, Rebalance, ConsumerCrash, handledVars, tableVars
<1>8. CASE Tick \/ UNCHANGED vars
  BY <1>2, <1>8 DEF Tick, vars, tableVars, consumerVars, handledVars
<1> QED BY <1>3, <1>4, <1>5, <1>6, <1>7, <1>8 DEF Next, Handle, Delivery!Next

\* The road implements the safety part of EventDelivery: an event is settled only after
\* it was recorded, and nothing recorded or settled is ever taken back.
THEOREM Implements == Spec => Delivery!Init /\ [][Delivery!Next]_(Delivery!vars)
BY DeliveryInit, DeliveryStep, Invariant, PTL DEF Spec
=============================================================================
