-------------------------- MODULE MessageQueueProofs --------------------------
(***************************************************************************)
(* What holds of MessageQueue for any chats, replies, limits and number of *)
(* failures: the types, that a message appears once, that what is called   *)
(* sent appeared and what is called failed has its cause, and that the     *)
(* queue implements the safety part of EventDelivery.                      *)
(***************************************************************************)
EXTENDS MessageQueue, FiniteSums, SequenceTheorems

Row == [status : {"none", "queued", "sent", "failed"}, attempts : 0..MaxAttempts,
        waiting : BOOLEAN]

\* The relay's keys count what appeared.
KeysCount == \A m \in Messages : delivered[m] = IF <<m>> \in known THEN 1 ELSE 0

\* A message that is not settled has spent no more attempts than it met errors, and
\* has one left.
AttemptsSpent ==
  \A m \in Messages : row[m].status = "queued" =>
    row[m].attempts <= refusals[m] /\ row[m].attempts < MaxAttempts

\* The batch is still queued, and the answer that waits for its mark has its cause.
AnswerBacked ==
  /\ sender.pc # "idle" => sender.batch # {}
  /\ \A m \in sender.batch : row[m].status = "queued"
  /\ sender.pc = "answered" =>
       /\ sender.answer # "none"
       /\ sender.answer = "ok" => delivered[Turn] > 0
       /\ sender.answer \in {"gone", "rejected"} => Turn \in rejected
       /\ sender.answer = "temporary" => row[Turn].attempts < refusals[Turn]

\* The audience, the consumer and the bounds; a processed record is there.
Around ==
  /\ subscribed \subseteq Chats /\ blocked \subseteq Chats
  /\ requests \in 0..MaxRequests /\ offset \in 0..requests /\ consumed \in BOOLEAN
  /\ consumed => offset < requests
  /\ heard \subseteq 1..requests
  /\ moves \in 0..MaxMoves /\ faults \in 0..MaxFaults /\ limits \in 0..MaxLimits

\* What the table calls sent has appeared.
SentWasDelivered == \A m \in Messages : row[m].status = "sent" => delivered[m] > 0

IInv ==
  /\ TypeOK /\ Around /\ KeysCount /\ AttemptsSpent /\ AnswerBacked
  /\ SentWasDelivered /\ FailedForCause

\* What the lemmas start from.
LEMMA Facts ==
  ASSUME IInv
  PROVE  /\ queue \in Seq(Messages) /\ row \in [Messages -> Row]
         /\ MaxAttempts \in Nat \ {0} /\ {MaxRequests, MaxMoves, MaxFaults, MaxLimits} \subseteq Nat
         /\ delivered \in [Messages -> Nat] /\ refusals \in [Messages -> Nat]
         /\ rejected \subseteq Messages /\ sender.batch \subseteq ToSet(queue)
         /\ ToSet(queue) \subseteq Messages
         /\ sender \in [pc : {"idle", "calling", "answered"}, batch : SUBSET ToSet(queue),
                        answer : Answers \cup {"none"}]
<1>1. TypeOK
  BY DEF IInv
<1>2. ToSet(queue) \subseteq Messages
  <2>1. queue \in Seq(Messages)
    BY <1>1 DEF TypeOK
  <2> QED BY <2>1, LenProperties DEF ToSet
<1>3. sender.batch \subseteq ToSet(queue)
  BY <1>1 DEF TypeOK
<1> QED BY <1>1, <1>2, <1>3, BoundsAssumption DEF TypeOK, Row

\* A batch that is not finished has a message whose turn it is.
LEMMA TurnInBatch ==
  ASSUME IInv, sender.batch # {}
  PROVE  Turn \in sender.batch /\ Turn \in Messages /\ Turn \in ToSet(queue)
<1> DEFINE T == {i \in DOMAIN queue : queue[i] \in sender.batch}
<1>1. /\ queue \in Seq(Messages)
      /\ sender.batch \subseteq ToSet(queue) /\ ToSet(queue) \subseteq Messages
  BY Facts
<1>2. DOMAIN queue = 1..Len(queue) /\ Len(queue) \in Nat
  BY <1>1, LenProperties
<1>3. T # {} /\ T \in SUBSET DOMAIN queue
  BY <1>1 DEF ToSet
<1>4. DOMAIN queue \subseteq Nat /\ IsFiniteSet(DOMAIN queue)
  BY ONLY <1>2, FS_Interval
<1>5. \E x \in T : \A y \in T : x <= y
  <2> HIDE DEF T
  <2> QED BY <1>3, <1>4, SmallestExists
<1>6. Min(T) \in T
  <2> HIDE DEF T
  <2> QED BY <1>5 DEF Min
<1> QED BY <1>1, <1>6 DEF Turn
-----------------------------------------------------------------------------
\* Initially nothing was queued.
LEMMA InitHolds == Init => IInv
<1> SUFFICES ASSUME Init PROVE IInv
  OBVIOUS
<1>1. queue = <<>> /\ queue \in Seq(Messages) /\ ToSet(queue) = {}
  BY EmptySeq DEF Init, ToSet
<1>2. MaxAttempts \in Nat \ {0} /\ {MaxRequests, MaxMoves, MaxFaults, MaxLimits} \subseteq Nat
  BY BoundsAssumption
<1>3. row \in [Messages -> Row]
  <2>1. NoRow \in Row
    BY <1>2 DEF NoRow, Row
  <2> QED BY <2>1 DEF Init
<1>4. sender \in [pc : {"idle", "calling", "answered"}, batch : SUBSET ToSet(queue),
                  answer : Answers \cup {"none"}]
  BY DEF Init, Waiting
<1>5. TypeOK
  <2>1. /\ subscribed \subseteq Chats /\ blocked \subseteq Chats /\ rejected \subseteq Messages
        /\ delivered \in [Messages -> Nat] /\ refusals \in [Messages -> Nat]
    BY DEF Init
  <2>2. /\ requests \in 0..MaxRequests /\ offset \in 0..requests
        /\ moves \in 0..MaxMoves /\ faults \in 0..MaxFaults /\ limits \in 0..MaxLimits
    <3>1. requests = 0 /\ offset = 0 /\ moves = 0 /\ faults = 0 /\ limits = 0
      BY DEF Init
    <3> QED BY ONLY <1>2, <3>1
  <2>3. row \in [Messages -> [status : {"none", "queued", "sent", "failed"},
                             attempts : 0..MaxAttempts, waiting : BOOLEAN]]
    BY <1>3 DEF Row
  <2>4. queue \in Seq(Messages)
    BY <1>1
  <2>5. consumed \in BOOLEAN /\ heard \subseteq 1..requests
    BY DEF Init
  <2> QED BY ONLY <1>4, <2>1, <2>2, <2>3, <2>4, <2>5 DEF TypeOK
<1>8. Around
  <2>1. ~consumed
    BY DEF Init
  <2> QED BY <1>5, <2>1 DEF TypeOK, Around
<1>6. KeysCount /\ AttemptsSpent /\ SentWasDelivered /\ FailedForCause
  BY DEF Init, KeysCount, AttemptsSpent, SentWasDelivered, FailedForCause, NoRow
<1>7. AnswerBacked
  BY DEF Init, AnswerBacked, Waiting
<1> QED BY <1>5, <1>6, <1>7, <1>8 DEF IInv
-----------------------------------------------------------------------------
\* Enqueue appends new rows and changes no other.
LEMMA EnqueueAppends ==
  ASSUME IInv, NEW new \in SUBSET Messages, IsFiniteSet(new), Enqueue(new), UNCHANGED sender
  PROVE  /\ queue' \in Seq(Messages) /\ ToSet(queue) \subseteq ToSet(queue')
         /\ ToSet(queue') \subseteq Messages
         /\ row' \in [Messages -> Row]
         /\ \A m \in Messages : row'[m] = row[m] \/ (row[m] = NoRow /\ row'[m] = NewRow)
         /\ sender.batch # {} => Turn' = Turn
<1> DEFINE fresh == {m \in new : row[m] = NoRow}
<1>1. /\ row' = [m \in Messages |-> IF m \in fresh THEN NewRow ELSE row[m]]
      /\ \E order \in SetToSeqs(fresh) : queue' = queue \o order
  BY DEF Enqueue
<1>2. queue \in Seq(Messages) /\ row \in [Messages -> Row] /\ fresh \subseteq Messages
      /\ MaxAttempts \in Nat \ {0}
  BY Facts
<1>3. \A m \in Messages : row'[m] = row[m] \/ (row[m] = NoRow /\ row'[m] = NewRow)
  BY <1>1
<1>4. row' \in [Messages -> Row]
  <2>1. NewRow \in Row
    BY <1>2 DEF NewRow, Row
  <2> QED BY <1>1, <1>2, <2>1
<1>5. PICK order \in SetToSeqs(fresh) : queue' = queue \o order
  BY <1>1
<1>6. order \in Seq(Messages) /\ \A i \in 1..Len(order) : order[i] \in fresh
  <2> HIDE DEF fresh
  <2>1. IsFiniteSet(fresh)
    BY FS_Subset DEF fresh
  <2>2. Cardinality(fresh) \in Nat
    BY <2>1, FS_CardinalityType
  <2>3. order \in [1..Cardinality(fresh) -> fresh]
    BY DEF SetToSeqs
  <2>4. order \in Seq(fresh)
    BY <2>2, <2>3, SeqDef
  <2>5. Len(order) \in Nat /\ order \in [1..Len(order) -> fresh]
    BY <2>4, LenProperties
  <2> QED BY <1>2, <2>4, <2>5, SeqDef
<1> HIDE DEF fresh
<1>7. /\ queue' \in Seq(Messages) /\ Len(queue') = Len(queue) + Len(order)
      /\ Len(queue) \in Nat /\ Len(order) \in Nat
      /\ DOMAIN queue = 1..Len(queue) /\ DOMAIN queue' = 1..Len(queue')
      /\ \A i \in 1..(Len(queue) + Len(order)) :
           queue'[i] = IF i <= Len(queue) THEN queue[i] ELSE order[i - Len(queue)]
  BY <1>2, <1>5, <1>6, ConcatProperties, LenProperties
<1>8. \A i \in DOMAIN queue : i \in DOMAIN queue' /\ queue'[i] = queue[i]
  BY <1>7
<1>9. \A i \in DOMAIN queue' : i \in DOMAIN queue \/ queue'[i] \in fresh
  <2>1. ASSUME NEW i \in DOMAIN queue', i \notin DOMAIN queue PROVE queue'[i] \in fresh
    <3>1. /\ i - Len(queue) \in 1..Len(order) /\ ~(i <= Len(queue))
          /\ i \in 1..(Len(queue) + Len(order))
      BY <1>7, <2>1
    <3> QED BY <1>6, <1>7, <3>1
  <2> QED BY <2>1
<1>10. ToSet(queue) \subseteq ToSet(queue')
  BY <1>8 DEF ToSet
<1>11. ToSet(queue') \subseteq Messages
  BY <1>7, LenProperties DEF ToSet
<1>12. ASSUME sender.batch # {} PROVE Turn' = Turn
  <2> DEFINE T == {i \in DOMAIN queue : queue[i] \in sender.batch}
  <2>1. \A m \in fresh : m \notin sender.batch
    <3>1. \A m \in sender.batch : row[m].status = "queued"
      BY DEF IInv, AnswerBacked
    <3> QED BY <3>1 DEF fresh, NoRow
  <2>2. {i \in DOMAIN queue' : queue'[i] \in sender.batch} = T
    BY <1>8, <1>9, <2>1
  <2>3. T # {} /\ T \in SUBSET DOMAIN queue
    <3>1. PICK d \in sender.batch : d \in ToSet(queue)
      BY <1>12, Facts
    <3>2. PICK i \in DOMAIN queue : queue[i] = d
      BY <3>1 DEF ToSet
    <3> QED BY <3>1, <3>2
  <2>4. DOMAIN queue \subseteq Nat /\ IsFiniteSet(DOMAIN queue)
    <3>1. DOMAIN queue = 1..Len(queue) /\ Len(queue) \in Nat
      BY <1>7
    <3> QED BY ONLY <3>1, FS_Interval
  <2>5. Min(T) \in T
    <3> HIDE DEF T
    <3>1. \E x \in T : \A y \in T : x <= y
      BY <2>3, <2>4, SmallestExists
    <3> QED BY <3>1 DEF Min
  <2>6. queue'[Min(T)] = queue[Min(T)]
    BY <1>8, <2>5
  <2> QED BY <2>2, <2>6 DEF Turn
<1> QED BY <1>3, <1>4, <1>7, <1>10, <1>11, <1>12

\* ChatWrites and QueueRequest.
LEMMA EnqueueKeeps ==
  ASSUME IInv, NEW new \in SUBSET Messages, IsFiniteSet(new), Enqueue(new),
         UNCHANGED <<sender, relayVars>>, Around'
  PROVE  IInv'
<1>1. /\ queue' \in Seq(Messages) /\ ToSet(queue) \subseteq ToSet(queue')
      /\ row' \in [Messages -> Row]
      /\ \A m \in Messages : row'[m] = row[m] \/ (row[m] = NoRow /\ row'[m] = NewRow)
      /\ sender.batch # {} => Turn' = Turn
  BY EnqueueAppends
<1>2. UNCHANGED <<sender, known, delivered, refusals, rejected>>
  BY DEF relayVars
<1>3. /\ sender \in [pc : {"idle", "calling", "answered"}, batch : SUBSET ToSet(queue),
                     answer : Answers \cup {"none"}]
      /\ MaxAttempts \in Nat \ {0} /\ refusals \in [Messages -> Nat]
      /\ delivered \in [Messages -> Nat] /\ rejected \subseteq Messages
      /\ sender.batch \subseteq Messages
  BY Facts
<1>4. sender' \in [pc : {"idle", "calling", "answered"}, batch : SUBSET ToSet(queue'),
                   answer : Answers \cup {"none"}]
  BY <1>1, <1>2, <1>3
<1>5. TypeOK'
  BY <1>1, <1>2, <1>3, <1>4 DEF TypeOK, Row, Around
<1>6. KeysCount'
  BY <1>2 DEF IInv, KeysCount
<1>7. AttemptsSpent'
  <2>1. ASSUME NEW m \in Messages, row'[m].status = "queued"
        PROVE  row'[m].attempts <= refusals[m] /\ row'[m].attempts < MaxAttempts
    <3>1. CASE row'[m] = row[m]
      BY <2>1, <3>1 DEF IInv, AttemptsSpent
    <3>2. CASE row'[m] = NewRow
      <4>1. row'[m].attempts = 0 /\ refusals[m] \in Nat
        BY <1>3, <3>2 DEF NewRow
      <4> QED BY <1>3, <4>1
    <3> QED BY <1>1, <3>1, <3>2
  <2> QED BY <1>2, <2>1 DEF AttemptsSpent
<1>8. SentWasDelivered' /\ FailedForCause'
  BY <1>1, <1>2 DEF IInv, SentWasDelivered, FailedForCause, NewRow
<1>9. AnswerBacked'
  <2>1. \A m \in sender.batch : row[m].status = "queued" /\ row'[m] = row[m]
    BY <1>1, <1>3 DEF IInv, AnswerBacked, NoRow
  <2>2. sender.pc = "answered" => sender.batch # {} /\ Turn \in sender.batch
    BY TurnInBatch DEF IInv, AnswerBacked
  <2> QED BY <1>1, <1>2, <2>1, <2>2 DEF IInv, AnswerBacked
<1> QED BY <1>5, <1>6, <1>7, <1>8, <1>9 DEF IInv

\* ChatWrites: one message.
LEMMA ChatWritesKeeps ==
  ASSUME IInv, NEW m \in Messages, ChatWrites(m)
  PROVE  IInv'
<1>1. Around /\ MaxMoves \in Nat
  BY Facts DEF IInv
<1>2. {m} \in SUBSET Messages /\ IsFiniteSet({m}) /\ m.chat \in Chats
  BY FS_Singleton DEF Messages
<1>3. /\ Enqueue({m}) /\ UNCHANGED <<sender, relayVars>>
      /\ UNCHANGED <<requests, offset, consumed, heard, faults, limits>>
      /\ moves < MaxMoves /\ moves' = moves + 1
      /\ subscribed' \in {subscribed \cup {m.chat}, subscribed \ {m.chat}}
      /\ blocked' = blocked \ {m.chat}
  BY DEF ChatWrites, Move, consumerVars
<1>4. Around'
  BY <1>1, <1>2, <1>3 DEF Around
<1> QED BY <1>2, <1>3, <1>4, EnqueueKeeps

\* A request makes a message for each of the subscribed chats, which are finitely many.
LEMMA NewMessages ==
  ASSUME IInv, QueueRequest
  PROVE  /\ [about : {offset + 1}, chat : subscribed] \in SUBSET Messages
         /\ IsFiniteSet([about : {offset + 1}, chat : subscribed])
<1> DEFINE new == [about : {offset + 1}, chat : subscribed]
<1>1. Around /\ MaxRequests \in Nat
  BY Facts DEF IInv
<1>2. new \in SUBSET Messages
  <2>1. offset + 1 \in 1..MaxRequests /\ subscribed \subseteq Chats
    BY <1>1 DEF Around, QueueRequest
  <2> QED BY <2>1 DEF Messages
<1>3. IsFiniteSet(new)
  <2>1. IsFiniteSet(subscribed)
    BY <1>1, BoundsAssumption, FS_Subset DEF Around
  <2> DEFINE g == [c \in subscribed |-> [about |-> offset + 1, chat |-> c]]
  <2>2. g \in Surjection(subscribed, new)
    BY DEF Surjection
  <2> QED BY <2>1, <2>2, FS_Surjection
<1> QED BY <1>2, <1>3

LEMMA QueueRequestKeeps ==
  ASSUME IInv, QueueRequest
  PROVE  IInv'
<1> DEFINE new == [about : {offset + 1}, chat : subscribed]
<1>1. Around
  BY DEF IInv
<1>2. /\ offset < requests /\ Enqueue(new) /\ consumed' = TRUE
      /\ heard' = heard \cup {offset + 1}
      /\ UNCHANGED <<sender, relayVars>>
      /\ UNCHANGED <<subscribed, blocked, requests, offset, moves, faults, limits>>
  BY DEF QueueRequest, audienceVars, bounds
<1>3. new \in SUBSET Messages /\ IsFiniteSet(new)
  BY NewMessages
<1>4. Around'
  BY <1>1, <1>2 DEF Around
<1> HIDE DEF new
<1> QED BY <1>2, <1>3, <1>4, EnqueueKeeps

\* ChatBlocks, PublishRequest, CommitOffset and ConsumerCrash leave the messages alone.
LEMMA ElsewhereKeeps ==
  ASSUME IInv, UNCHANGED <<queueVars, sender, relayVars>>, Around'
  PROVE  IInv'
<1>1. UNCHANGED <<queue, row, sender, known, delivered, refusals, rejected>>
  BY DEF queueVars, relayVars
<1>2. TypeOK'
  BY <1>1 DEF IInv, TypeOK, Around
<1>3. KeysCount' /\ AttemptsSpent' /\ SentWasDelivered' /\ FailedForCause'
  BY <1>1 DEF IInv, KeysCount, AttemptsSpent, SentWasDelivered, FailedForCause
<1>4. AnswerBacked'
  BY <1>1 DEF IInv, AnswerBacked, Turn
<1> QED BY <1>2, <1>3, <1>4 DEF IInv

LEMMA AudienceAndConsumerKeep ==
  ASSUME IInv,
         (\E c \in Chats : ChatBlocks(c)) \/ PublishRequest \/ CommitOffset \/ ConsumerCrash
  PROVE  IInv'
<1>1. Around /\ {MaxRequests, MaxMoves, MaxFaults, MaxLimits} \subseteq Nat
  BY Facts DEF IInv
<1>2. CASE \E c \in Chats : ChatBlocks(c)
  <2>1. /\ UNCHANGED <<queueVars, sender, relayVars>>
        /\ UNCHANGED <<subscribed, requests, offset, consumed, heard, faults, limits>>
        /\ moves < MaxMoves /\ moves' = moves + 1 /\ \E c \in Chats : blocked' = blocked \cup {c}
    BY <1>2 DEF ChatBlocks, Move, consumerVars
  <2>2. Around'
    BY <1>1, <2>1 DEF Around
  <2> QED BY <2>1, <2>2, ElsewhereKeeps
<1>3. CASE PublishRequest
  <2>1. /\ UNCHANGED <<queueVars, sender, relayVars>>
        /\ UNCHANGED <<subscribed, blocked, offset, consumed, heard, moves, faults, limits>>
        /\ requests < MaxRequests /\ requests' = requests + 1
    BY <1>3 DEF PublishRequest, audienceVars, bounds
  <2>2. Around'
    BY <1>1, <2>1 DEF Around
  <2> QED BY <2>1, <2>2, ElsewhereKeeps
<1>4. CASE CommitOffset
  <2>1. /\ UNCHANGED <<queueVars, sender, relayVars>>
        /\ UNCHANGED <<subscribed, blocked, requests, heard, moves, faults, limits>>
        /\ consumed /\ consumed' = FALSE /\ offset' = offset + 1
    BY <1>4 DEF CommitOffset, audienceVars, bounds
  <2>2. /\ requests' \in 0..MaxRequests /\ offset' \in 0..requests'
        /\ moves' \in 0..MaxMoves /\ faults' \in 0..MaxFaults /\ limits' \in 0..MaxLimits
    BY <1>1, <2>1 DEF Around
  <2>3. consumed' \in BOOLEAN /\ ~consumed'
    BY <2>1
  <2>4. Around'
    BY <1>1, <2>1, <2>2, <2>3 DEF Around
  <2> QED BY <2>1, <2>4, ElsewhereKeeps
<1>5. CASE ConsumerCrash
  <2>1. /\ UNCHANGED <<queueVars, sender, relayVars>>
        /\ UNCHANGED <<subscribed, blocked, requests, offset, heard, moves, limits>>
        /\ consumed' = FALSE /\ faults < MaxFaults /\ faults' = faults + 1
    BY <1>5 DEF ConsumerCrash, Fault, audienceVars
  <2>2. /\ requests' \in 0..MaxRequests /\ offset' \in 0..requests'
        /\ moves' \in 0..MaxMoves /\ faults' \in 0..MaxFaults /\ limits' \in 0..MaxLimits
    BY <1>1, <2>1 DEF Around
  <2>3. consumed' \in BOOLEAN /\ ~consumed'
    BY <2>1
  <2>4. Around'
    BY <1>1, <2>1, <2>2, <2>3 DEF Around
  <2> QED BY <2>1, <2>4, ElsewhereKeeps
<1> QED BY <1>2, <1>3, <1>4, <1>5
-----------------------------------------------------------------------------
\* What a step of the sender has to keep, the audience and the consumer left alone.
LEMMA SenderStep ==
  ASSUME IInv, UNCHANGED queue, Around',
         row' \in [Messages -> Row], AttemptsSpent', SentWasDelivered', FailedForCause',
         sender' \in [pc : {"idle", "calling", "answered"}, batch : SUBSET ToSet(queue),
                      answer : Answers \cup {"none"}],
         AnswerBacked', KeysCount', delivered' \in [Messages -> Nat],
         refusals' \in [Messages -> Nat], rejected' \subseteq Messages
  PROVE  IInv'
<1>1. queue' \in Seq(Messages)
  BY Facts
<1>2. TypeOK'
  BY <1>1 DEF TypeOK, Row, Around
<1> QED BY <1>2 DEF IInv

\* SelectDue: what is taken is due.
LEMMA SelectDueKeeps ==
  ASSUME IInv, SelectDue
  PROVE  IInv'
<1>1. /\ DueBatch # {} /\ UNCHANGED <<queue, row, known, delivered, refusals, rejected>>
      /\ sender' = [pc |-> "calling", batch |-> DueBatch, answer |-> "none"]
      /\ UNCHANGED <<subscribed, blocked, requests, offset, consumed, heard, moves, faults, limits>>
  BY DEF SelectDue, audienceVars, consumerVars, queueVars, relayVars, bounds
<1>2. DueBatch \subseteq ToSet(queue) /\ \A m \in DueBatch : row[m].status = "queued"
  BY DEF DueBatch, Due, ToSet
<1>3. Around'
  BY <1>1 DEF IInv, Around
<1>4. KeysCount' /\ AttemptsSpent' /\ SentWasDelivered' /\ FailedForCause'
  BY <1>1 DEF IInv, KeysCount, AttemptsSpent, SentWasDelivered, FailedForCause
<1>5. AnswerBacked'
  BY <1>1, <1>2 DEF AnswerBacked
<1>6. sender' \in [pc : {"idle", "calling", "answered"}, batch : SUBSET ToSet(queue),
                   answer : Answers \cup {"none"}]
  BY <1>1, <1>2
<1>7. /\ row' \in [Messages -> Row] /\ delivered' \in [Messages -> Nat]
      /\ refusals' \in [Messages -> Nat] /\ rejected' \subseteq Messages
  BY <1>1, Facts
<1> QED BY <1>1, <1>3, <1>4, <1>5, <1>6, <1>7, SenderStep

\* SenderCrash: the marks that were committed stay.
LEMMA SenderCrashKeeps ==
  ASSUME IInv, SenderCrash
  PROVE  IInv'
<1>1. /\ UNCHANGED <<queue, row, known, delivered, refusals, rejected>>
      /\ sender' = Waiting
      /\ UNCHANGED <<subscribed, blocked, requests, offset, consumed, heard, moves, limits>>
      /\ faults < MaxFaults /\ faults' = faults + 1
  BY DEF SenderCrash, Fault, audienceVars, consumerVars, queueVars, relayVars
<1>2. Around'
  BY <1>1, Facts DEF IInv, Around
<1>3. KeysCount' /\ AttemptsSpent' /\ SentWasDelivered' /\ FailedForCause'
  BY <1>1 DEF IInv, KeysCount, AttemptsSpent, SentWasDelivered, FailedForCause
<1>4. AnswerBacked'
  BY <1>1 DEF AnswerBacked, Waiting
<1>5. sender' \in [pc : {"idle", "calling", "answered"}, batch : SUBSET ToSet(queue),
                   answer : Answers \cup {"none"}]
  BY <1>1 DEF Waiting
<1>6. /\ row' \in [Messages -> Row] /\ delivered' \in [Messages -> Nat]
      /\ refusals' \in [Messages -> Nat] /\ rejected' \subseteq Messages
  BY <1>1, Facts
<1> QED BY <1>1, <1>2, <1>3, <1>4, <1>5, <1>6, SenderStep

\* A message appears in its chat; its key is known from then on.
LEMMA BringCounts ==
  ASSUME IInv, NEW m \in Messages, Bring(m)
  PROVE  /\ delivered' \in [Messages -> Nat] /\ KeysCount' /\ delivered'[m] > 0
         /\ \A n \in Messages : delivered'[n] >= delivered[n]
<1>1. /\ known' = known \cup {<<m>>}
      /\ delivered' = [delivered EXCEPT ![m] = IF <<m>> \in known THEN delivered[m]
                                               ELSE delivered[m] + 1]
  BY DEF Bring, IdempotencyKey
<1>2. delivered \in [Messages -> Nat] /\ KeysCount
  BY Facts DEF IInv
<1>3. \A n \in Messages : n # m => delivered'[n] = delivered[n] /\ <<n>> # <<m>>
  BY <1>1, <1>2
<1>4. delivered'[m] = 1
  BY <1>1, <1>2 DEF KeysCount
<1>5. \A n \in Messages : delivered'[n] = IF <<n>> \in known' THEN 1 ELSE 0
  <2>1. ASSUME NEW n \in Messages, n # m
        PROVE  delivered'[n] = IF <<n>> \in known' THEN 1 ELSE 0
    BY <1>1, <1>2, <1>3, <2>1 DEF KeysCount
  <2>2. <<m>> \in known'
    BY <1>1
  <2> QED BY <1>4, <2>1, <2>2
<1>6. delivered' \in [Messages -> Nat]
  BY <1>1, <1>2
<1>7. \A n \in Messages : delivered'[n] >= delivered[n]
  <2>1. delivered[m] <= 1
    <3>1. delivered[m] = 1 \/ delivered[m] = 0
      BY <1>2 DEF KeysCount
    <3> QED BY <3>1
  <2>2. \A n \in Messages : delivered[n] \in Nat
    BY <1>2
  <2> QED BY <1>3, <1>4, <2>1, <2>2
<1> QED BY <1>4, <1>5, <1>6, <1>7 DEF KeysCount

\* CallRelay: the answer has its cause.
LEMMA CallRelayKeeps ==
  ASSUME IInv, CallRelay
  PROVE  IInv'
<1>1. PICK m : m = Turn
  OBVIOUS
<1>2. PICK answer \in Answers :
        /\ Answer(m, answer)
        /\ sender' = [pc |-> "answered", batch |-> sender.batch, answer |-> answer]
        /\ refusals' = [refusals EXCEPT ![m] = IF answer = "temporary" THEN @ + 1 ELSE @]
        /\ rejected' = IF answer \in {"gone", "rejected"} THEN rejected \cup {m} ELSE rejected
  BY <1>1 DEF CallRelay
<1>3. sender.pc = "calling" /\ UNCHANGED <<audienceVars, consumerVars, queueVars>>
  BY DEF CallRelay
<1>4. /\ UNCHANGED <<queue, row, subscribed, blocked, requests, offset, consumed, heard>>
  BY <1>3 DEF audienceVars, consumerVars, queueVars
<1>5. sender.batch # {} /\ m \in sender.batch /\ m \in Messages
  BY <1>1, <1>3, TurnInBatch DEF IInv, AnswerBacked
<1>6. UNCHANGED <<known, delivered>> \/ Bring(m)
  BY <1>2 DEF Answer
<1>7. Around'
  <2>1. /\ moves' = moves
        /\ faults' = faults \/ (faults < MaxFaults /\ faults' = faults + 1)
        /\ limits' = limits \/ (limits < MaxLimits /\ limits' = limits + 1)
    BY <1>2 DEF Answer, Fault, bounds
  <2>2. Around /\ MaxFaults \in Nat /\ MaxLimits \in Nat
    BY Facts DEF IInv
  <2> QED BY <1>4, <2>1, <2>2 DEF Around
<1>8. /\ delivered' \in [Messages -> Nat] /\ KeysCount'
      /\ \A n \in Messages : delivered'[n] >= delivered[n]
  <2>1. CASE UNCHANGED <<known, delivered>>
    <3>1. delivered \in [Messages -> Nat] /\ KeysCount
      BY Facts DEF IInv
    <3>2. \A n \in Messages : delivered[n] >= delivered[n]
      BY <3>1
    <3> QED BY <2>1, <3>1, <3>2 DEF KeysCount
  <2>2. CASE Bring(m)
    BY <1>5, <2>2, BringCounts
  <2> QED BY <1>6, <2>1, <2>2
<1>9. answer = "ok" => delivered'[m] > 0
  <2>1. answer = "ok" => Bring(m)
    BY <1>2 DEF Answer
  <2> QED BY <1>5, <2>1, BringCounts
<1>10. /\ refusals' \in [Messages -> Nat]
       /\ \A n \in Messages : refusals'[n] >= refusals[n]
       /\ answer = "temporary" => refusals'[m] = refusals[m] + 1
  <2>1. refusals \in [Messages -> Nat]
    BY Facts
  <2>2. \A n \in Messages : refusals'[n] = refusals[n] \/ refusals'[n] = refusals[n] + 1
    BY <1>2, <2>1
  <2>3. \A n \in Messages : refusals[n] \in Nat
    BY <2>1
  <2>4. refusals' \in [Messages -> Nat]
    <3>1. PICK k : k = IF answer = "temporary" THEN refusals[m] + 1 ELSE refusals[m]
      OBVIOUS
    <3>2. k \in Nat
      BY <1>5, <2>3, <3>1
    <3>3. refusals' = [refusals EXCEPT ![m] = k]
      BY <1>2, <3>1
    <3> QED BY <2>1, <3>2, <3>3
  <2>5. answer = "temporary" => refusals'[m] = refusals[m] + 1
    BY <1>2, <1>5, <2>1
  <2> QED BY <2>2, <2>3, <2>4, <2>5
<1>11. rejected' \subseteq Messages /\ rejected \subseteq rejected'
       /\ (answer \in {"gone", "rejected"} => m \in rejected')
  BY <1>2, <1>5, Facts
<1>12. sender' \in [pc : {"idle", "calling", "answered"}, batch : SUBSET ToSet(queue),
                    answer : Answers \cup {"none"}]
  BY <1>2, Facts
<1>13. /\ row' \in [Messages -> Row]
       /\ \A n \in Messages :
            row[n].attempts \in Nat /\ refusals[n] \in Nat /\ delivered[n] \in Nat
  <2>1. row \in [Messages -> Row] /\ MaxAttempts \in Nat /\ refusals \in [Messages -> Nat]
        /\ delivered \in [Messages -> Nat]
    BY Facts
  <2> QED BY <1>4, <2>1 DEF Row
<1>14. AttemptsSpent'
  <2>1. ASSUME NEW n \in Messages, row[n].status = "queued"
        PROVE  row[n].attempts <= refusals'[n] /\ row[n].attempts < MaxAttempts
    <3>1. row[n].attempts <= refusals[n] /\ row[n].attempts < MaxAttempts
      BY <2>1 DEF IInv, AttemptsSpent
    <3>2. refusals'[n] >= refusals[n] /\ refusals'[n] \in Nat
      BY <1>10
    <3> QED BY <1>13, <3>1, <3>2
  <2> QED BY <1>4, <2>1 DEF AttemptsSpent
<1>15. SentWasDelivered'
  <2>1. ASSUME NEW n \in Messages, row[n].status = "sent" PROVE delivered'[n] > 0
    <3>1. delivered[n] > 0 /\ delivered'[n] >= delivered[n] /\ delivered'[n] \in Nat
      BY <1>8, <2>1 DEF IInv, SentWasDelivered
    <3> QED BY <1>13, <3>1
  <2> QED BY <1>4, <2>1 DEF SentWasDelivered
<1>16. FailedForCause'
  <2>1. ASSUME NEW n \in Messages, row[n].status = "failed"
        PROVE  n \in rejected' \/ refusals'[n] >= MaxAttempts
    <3>1. n \in rejected \/ refusals[n] >= MaxAttempts
      BY <2>1 DEF IInv, FailedForCause
    <3>2. refusals'[n] >= refusals[n] /\ refusals'[n] \in Nat /\ MaxAttempts \in Nat
      BY <1>10, Facts
    <3> QED BY <1>11, <1>13, <3>1, <3>2
  <2> QED BY <1>4, <2>1 DEF FailedForCause
<1>17. AnswerBacked'
  <2>1. Turn' = m
    BY <1>1, <1>2, <1>4 DEF Turn
  <2>2. row[m].attempts <= refusals[m]
    BY <1>5 DEF IInv, AnswerBacked, AttemptsSpent
  <2>3. answer = "temporary" => row[m].attempts < refusals'[m]
    BY <1>5, <1>10, <1>13, <2>2
  <2>4. answer # "none"
    BY <1>2 DEF Answers
  <2>5. \A n \in sender.batch : row[n].status = "queued"
    BY DEF IInv, AnswerBacked
  <2> QED BY <1>2, <1>4, <1>5, <1>9, <1>11, <2>1, <2>3, <2>4, <2>5 DEF AnswerBacked
<1> QED BY <1>4, <1>7, <1>8, <1>10, <1>11, <1>12, <1>13, <1>14, <1>15, <1>16, <1>17, SenderStep

\* What a mark makes of a row that is queued.
LEMMA MarkedFacts ==
  ASSUME NEW old \in Row, MaxAttempts \in Nat, old.attempts < MaxAttempts, old.status = "queued",
         NEW answer \in Answers
  PROVE  /\ Marked(old, answer) \in Row
         /\ Marked(old, answer).status = "sent" => answer = "ok"
         /\ Marked(old, answer).status = "failed" =>
              \/ answer \in {"gone", "rejected"}
              \/ answer = "temporary" /\ old.attempts + 1 >= MaxAttempts
         /\ Marked(old, answer).status = "queued" =>
              \/ answer = "limited" /\ Marked(old, answer).attempts = old.attempts
              \/ answer = "temporary" /\ Marked(old, answer).attempts = old.attempts + 1
                   /\ old.attempts + 1 < MaxAttempts
         /\ Marked(old, answer).status # "none"
<1>1. old.attempts \in Nat /\ old.attempts + 1 \in 0..MaxAttempts
  BY DEF Row
<1>2. CASE answer = "ok"
  BY <1>1, <1>2 DEF Marked, Row
<1>3. CASE answer \in {"gone", "rejected"}
  BY <1>1, <1>3 DEF Marked, Row
<1>4. CASE answer = "limited"
  BY <1>1, <1>4 DEF Marked, Row
<1>5. CASE answer = "temporary"
  <2>1. CASE old.attempts + 1 >= MaxAttempts
    BY <1>1, <1>5, <2>1 DEF Marked, Row
  <2>2. CASE ~(old.attempts + 1 >= MaxAttempts)
    <3>1. PICK tried : tried = [old EXCEPT !.attempts = @ + 1]
      OBVIOUS
    <3>2. tried \in Row /\ tried.attempts = old.attempts + 1 /\ tried.status = "queued"
      BY <1>1, <3>1 DEF Row
    <3>3. Marked(old, answer) = [tried EXCEPT !.waiting = TRUE]
      BY <1>5, <2>2, <3>1, <3>2 DEF Marked
    <3>4. /\ [tried EXCEPT !.waiting = TRUE] \in Row
          /\ [tried EXCEPT !.waiting = TRUE].status = "queued"
          /\ [tried EXCEPT !.waiting = TRUE].attempts = old.attempts + 1
      BY <3>2 DEF Row
    <3>5. /\ Marked(old, answer) \in Row /\ Marked(old, answer).status = "queued"
          /\ Marked(old, answer).attempts = old.attempts + 1
      BY ONLY <3>3, <3>4, Zenon
    <3>6. old.attempts + 1 < MaxAttempts
      BY <1>1, <2>2
    <3> QED BY <1>5, <3>5, <3>6
  <2> QED BY <2>1, <2>2
<1> QED BY <1>2, <1>3, <1>4, <1>5 DEF Answers

\* MarkMessage: the mark follows the answer, and the rest of the batch is as before.
LEMMA MarkMessageKeeps ==
  ASSUME IInv, MarkMessage
  PROVE  IInv'
<1>a. PICK m : m = Turn
  OBVIOUS
<1>b. PICK answer : answer = sender.answer
  OBVIOUS
<1>c. PICK q : q = Marked(row[m], answer)
  OBVIOUS
<1>1. m = Turn /\ answer = sender.answer /\ q = Marked(row[m], answer)
  BY <1>a, <1>b, <1>c
<1>2. /\ sender.pc = "answered" /\ row' = [row EXCEPT ![m] = q]
      /\ sender' = IF sender.batch = {m} THEN Waiting
                   ELSE [pc |-> "calling", batch |-> sender.batch \ {m}, answer |-> "none"]
      /\ subscribed' = IF answer = "gone" THEN subscribed \ {m.chat} ELSE subscribed
      /\ UNCHANGED <<blocked, consumerVars, queue, relayVars, bounds>>
  BY <1>1 DEF MarkMessage
<1>3. /\ UNCHANGED <<queue, known, delivered, refusals, rejected>>
      /\ UNCHANGED <<blocked, requests, offset, consumed, heard, moves, faults, limits>>
  BY <1>2 DEF consumerVars, relayVars, bounds
<1>4. /\ m \in sender.batch /\ m \in Messages /\ row[m].status = "queued"
      /\ answer \in Answers
      /\ answer = "ok" => delivered[m] > 0
      /\ answer \in {"gone", "rejected"} => m \in rejected
      /\ answer = "temporary" => row[m].attempts < refusals[m]
  <2>1. /\ sender.batch # {} /\ answer # "none" /\ row[m].status = "queued"
        /\ answer = "ok" => delivered[m] > 0
        /\ answer \in {"gone", "rejected"} => m \in rejected
        /\ answer = "temporary" => row[m].attempts < refusals[m]
    BY <1>1, <1>2, TurnInBatch DEF IInv, AnswerBacked
  <2>2. answer \in Answers \cup {"none"}
    BY <1>1, Facts
  <2> QED BY <1>1, <2>1, <2>2, TurnInBatch
<1>5. /\ row \in [Messages -> Row] /\ MaxAttempts \in Nat /\ row[m] \in Row
      /\ row[m].attempts \in Nat /\ refusals[m] \in Nat
      /\ row[m].attempts <= refusals[m] /\ row[m].attempts < MaxAttempts
  <2>1. row \in [Messages -> Row] /\ MaxAttempts \in Nat /\ refusals \in [Messages -> Nat]
    BY Facts
  <2> QED BY <1>4, <2>1 DEF IInv, AttemptsSpent, Row
<1>6. /\ q \in Row /\ q.status # "none"
      /\ q.status = "sent" => answer = "ok"
      /\ q.status = "failed" =>
           \/ answer \in {"gone", "rejected"}
           \/ answer = "temporary" /\ row[m].attempts + 1 >= MaxAttempts
      /\ q.status = "queued" =>
           \/ answer = "limited" /\ q.attempts = row[m].attempts
           \/ answer = "temporary" /\ q.attempts = row[m].attempts + 1
                /\ row[m].attempts + 1 < MaxAttempts
  BY <1>1, <1>4, <1>5, MarkedFacts
<1>7. /\ row' \in [Messages -> Row] /\ row'[m] = q
      /\ \A n \in Messages : n # m => row'[n] = row[n]
  BY <1>2, <1>4, <1>5, <1>6
<1>8. q.status = "queued" => q.attempts <= refusals[m] /\ q.attempts < MaxAttempts
  BY <1>4, <1>5, <1>6
<1>9. q.status = "sent" => delivered[m] > 0
  BY <1>4, <1>6
<1>10. q.status = "failed" => m \in rejected \/ refusals[m] >= MaxAttempts
  BY <1>4, <1>5, <1>6
<1>11. AttemptsSpent'
  <2>1. ASSUME NEW n \in Messages, row'[n].status = "queued"
        PROVE  row'[n].attempts <= refusals[n] /\ row'[n].attempts < MaxAttempts
    BY <1>7, <1>8, <2>1 DEF IInv, AttemptsSpent
  <2> QED BY <1>3, <2>1 DEF AttemptsSpent
<1>12. SentWasDelivered'
  <2>1. ASSUME NEW n \in Messages, row'[n].status = "sent" PROVE delivered[n] > 0
    BY <1>7, <1>9, <2>1 DEF IInv, SentWasDelivered
  <2> QED BY <1>3, <2>1 DEF SentWasDelivered
<1>13. FailedForCause'
  <2>1. ASSUME NEW n \in Messages, row'[n].status = "failed"
        PROVE  n \in rejected \/ refusals[n] >= MaxAttempts
    BY <1>7, <1>10, <2>1 DEF IInv, FailedForCause
  <2> QED BY <1>3, <2>1 DEF FailedForCause
<1>14. Around'
  BY <1>2, <1>3 DEF IInv, Around
<1>15. KeysCount'
  BY <1>3 DEF IInv, KeysCount
<1>16. /\ delivered' \in [Messages -> Nat] /\ refusals' \in [Messages -> Nat]
       /\ rejected' \subseteq Messages
  BY <1>3, Facts
<1>17. sender.batch \subseteq ToSet(queue) /\ sender.batch \subseteq Messages
  BY Facts
<1>18. CASE sender.batch = {m}
  <2>1. sender' = Waiting
    BY <1>2, <1>18
  <2>2. AnswerBacked'
    BY <2>1 DEF AnswerBacked, Waiting
  <2>3. sender' \in [pc : {"idle", "calling", "answered"}, batch : SUBSET ToSet(queue),
                     answer : Answers \cup {"none"}]
    BY <2>1 DEF Waiting
  <2> QED BY <1>3, <1>7, <1>11, <1>12, <1>13, <1>14, <1>15, <1>16, <2>2, <2>3, SenderStep
<1>19. CASE sender.batch # {m}
  <2>1. sender' = [pc |-> "calling", batch |-> sender.batch \ {m}, answer |-> "none"]
    BY <1>2, <1>19
  <2>2. \A n \in sender.batch \ {m} : row'[n].status = "queued"
    BY <1>7, <1>17 DEF IInv, AnswerBacked
  <2>3. sender.batch \ {m} # {}
    BY <1>4, <1>19
  <2>4. AnswerBacked'
    BY <2>1, <2>2, <2>3 DEF AnswerBacked
  <2>5. sender' \in [pc : {"idle", "calling", "answered"}, batch : SUBSET ToSet(queue),
                     answer : Answers \cup {"none"}]
    BY <1>17, <2>1
  <2> QED BY <1>3, <1>7, <1>11, <1>12, <1>13, <1>14, <1>15, <1>16, <2>4, <2>5, SenderStep
<1> QED BY <1>18, <1>19

\* BackoffElapses: the row is due again and otherwise the same.
LEMMA BackoffKeeps ==
  ASSUME IInv, NEW m \in Messages, BackoffElapses(m)
  PROVE  IInv'
<1>1. PICK q : q = [row[m] EXCEPT !.waiting = FALSE]
  OBVIOUS
<1>2. /\ row' = [row EXCEPT ![m] = q]
      /\ UNCHANGED <<audienceVars, consumerVars, queue, sender, relayVars, bounds>>
  BY <1>1 DEF BackoffElapses
<1>3. /\ UNCHANGED <<queue, sender, known, delivered, refusals, rejected>>
      /\ UNCHANGED <<subscribed, blocked, requests, offset, consumed, heard, moves, faults, limits>>
  BY <1>2 DEF audienceVars, consumerVars, relayVars, bounds
<1>4. row \in [Messages -> Row] /\ row[m] \in Row
  BY Facts
<1>5. q \in Row /\ q.status = row[m].status /\ q.attempts = row[m].attempts
  BY <1>1, <1>4 DEF Row
<1>6. /\ row' \in [Messages -> Row]
      /\ \A n \in Messages : row'[n].status = row[n].status /\ row'[n].attempts = row[n].attempts
  BY <1>2, <1>4, <1>5
<1>7. AttemptsSpent' /\ SentWasDelivered' /\ FailedForCause'
  BY <1>3, <1>6 DEF IInv, AttemptsSpent, SentWasDelivered, FailedForCause
<1>8. KeysCount' /\ Around'
  BY <1>3 DEF IInv, KeysCount, Around
<1>9. AnswerBacked'
  <2>1. sender.batch \subseteq Messages
    BY Facts
  <2>2. sender.pc = "answered" => Turn \in Messages
    BY TurnInBatch DEF IInv, AnswerBacked
  <2>3. Turn' = Turn
    BY <1>3 DEF Turn
  <2> QED BY <1>3, <1>6, <2>1, <2>2, <2>3 DEF IInv, AnswerBacked
<1>10. /\ delivered' \in [Messages -> Nat] /\ refusals' \in [Messages -> Nat]
       /\ rejected' \subseteq Messages
       /\ sender' \in [pc : {"idle", "calling", "answered"}, batch : SUBSET ToSet(queue),
                       answer : Answers \cup {"none"}]
  BY <1>3, Facts
<1> QED BY <1>3, <1>6, <1>7, <1>8, <1>9, <1>10, SenderStep
-----------------------------------------------------------------------------
\* Every step keeps the invariant.
LEMMA NextKeeps == IInv /\ [Next]_vars => IInv'
<1> SUFFICES ASSUME IInv, [Next]_vars PROVE IInv'
  OBVIOUS
<1>1. CASE UNCHANGED vars
  <2>1. /\ UNCHANGED <<queueVars, sender, relayVars>>
        /\ UNCHANGED <<subscribed, blocked, requests, offset, consumed, heard, moves, faults, limits>>
    BY <1>1 DEF vars, audienceVars, consumerVars, bounds
  <2>2. Around'
    BY <2>1 DEF IInv, Around
  <2> QED BY <2>1, <2>2, ElsewhereKeeps
<1>2. ASSUME NEW m \in Messages, ChatWrites(m) \/ BackoffElapses(m) PROVE IInv'
  BY <1>2, ChatWritesKeeps, BackoffKeeps
<1>3. CASE (\E c \in Chats : ChatBlocks(c)) \/ PublishRequest \/ CommitOffset \/ ConsumerCrash
  BY <1>3, AudienceAndConsumerKeep
<1>4. CASE QueueRequest
  BY <1>4, QueueRequestKeeps
<1>5. CASE Deliver \/ SenderCrash
  BY <1>5, SelectDueKeeps, CallRelayKeeps, MarkMessageKeeps, SenderCrashKeeps DEF Deliver
<1> QED BY <1>1, <1>2, <1>3, <1>4, <1>5 DEF Next, Consume

\* The inductive invariant holds of every behaviour.
THEOREM Invariant == Spec => []IInv
BY InitHolds, NextKeeps, PTL DEF Spec

\* The types, among them that no message is tried more than MaxAttempts times.
THEOREM TypeCorrect == Spec => []TypeOK
<1>1. IInv => TypeOK
  BY DEF IInv
<1> QED BY <1>1, Invariant, PTL

\* However often the sender dies after the call or loses the answer, a message
\* appears once.
THEOREM AppearsOnce == Spec => []DeliveredOnce
<1>1. IInv => DeliveredOnce
  <2> HAVE IInv
  <2>1. ASSUME NEW m \in Messages
        PROVE  delivered[m] <= 1 /\ (row[m].status = "sent" => delivered[m] = 1)
    <3>1. delivered[m] = 1 \/ delivered[m] = 0
      BY DEF IInv, KeysCount
    <3>2. row[m].status = "sent" => delivered[m] > 0
      BY DEF IInv, SentWasDelivered
    <3> QED BY <3>1, <3>2
  <2> QED BY <2>1 DEF DeliveredOnce
<1> QED BY <1>1, Invariant, PTL

\* A message is given up only for a refusal or for MaxAttempts errors of its own.
THEOREM GivenUpForCause == Spec => []FailedForCause
<1>1. IInv => FailedForCause
  BY DEF IInv
<1> QED BY <1>1, Invariant, PTL
-----------------------------------------------------------------------------
\* EventDelivery starts with nothing recorded.
LEMMA PromiseInit == Init => Promise!Init
BY EmptySeq DEF Init, Promise!Init, ToSet, NoRow

LEMMA RequestInit == Init => RequestPromise!Init
BY DEF Init, RequestPromise!Init

\* Every step queues messages, settles one that was queued, or stutters.
LEMMA PromiseStep == IInv /\ [Next]_vars => [Promise!Next]_(Promise!vars)
<1> SUFFICES ASSUME IInv, [Next]_vars PROVE [Promise!Next]_(Promise!vars)
  OBVIOUS
<1> DEFINE Settled == {m \in Messages : row[m].status \in {"sent", "failed"}}
<1>1. ASSUME UNCHANGED queue, \A m \in Messages : row'[m].status = row[m].status
      PROVE  UNCHANGED Promise!vars
  BY <1>1 DEF Promise!vars
<1>2. ASSUME UNCHANGED <<queue, row>> PROVE UNCHANGED Promise!vars
  BY <1>1, <1>2
<1>3. ASSUME NEW new \in SUBSET Messages, IsFiniteSet(new), Enqueue(new), UNCHANGED sender
      PROVE  Promise!Record
  <2>1. /\ ToSet(queue) \subseteq ToSet(queue') /\ ToSet(queue') \subseteq Messages
        /\ \A m \in Messages : row'[m] = row[m] \/ (row[m] = NoRow /\ row'[m] = NewRow)
    BY <1>3, EnqueueAppends
  <2>2. Settled' = Settled
    BY <2>1 DEF NoRow, NewRow
  <2> QED BY <2>1, <2>2 DEF Promise!Record
<1>4. ASSUME NEW m \in Messages, ChatWrites(m) PROVE Promise!Record
  BY <1>3, <1>4, FS_Singleton DEF ChatWrites
<1>5. CASE QueueRequest
  <2>1. [about : {offset + 1}, chat : subscribed] \in SUBSET Messages
        /\ IsFiniteSet([about : {offset + 1}, chat : subscribed])
    BY <1>5, NewMessages
  <2> QED BY <1>3, <1>5, <2>1 DEF QueueRequest, Promise!Next
<1>6. CASE MarkMessage
  <2>1. PICK m : m = Turn
    OBVIOUS
  <2>2. m \in Messages /\ m \in ToSet(queue) /\ row[m].status = "queued"
    BY <1>6, <2>1, TurnInBatch DEF MarkMessage, IInv, AnswerBacked
  <2>3. UNCHANGED queue /\ row' = [row EXCEPT ![m] = Marked(row[m], sender.answer)]
    BY <1>6, <2>1 DEF MarkMessage
  <2>4. \A n \in Messages : n # m => row'[n] = row[n]
    BY <2>3, Facts
  <2>5. CASE row'[m].status \in {"sent", "failed"}
    <3>1. Settled' = Settled \cup {m}
      BY <2>2, <2>4, <2>5
    <3>2. m \notin Settled
      BY <2>2
    <3> QED BY <2>2, <2>3, <3>1, <3>2 DEF Promise!Next, Promise!Settle, ToSet
  <2>6. CASE row'[m].status \notin {"sent", "failed"}
    <3>1. Settled' = Settled
      BY <2>2, <2>4, <2>6
    <3> QED BY <2>3, <3>1 DEF Promise!vars, ToSet
  <2> QED BY <2>5, <2>6
<1>7. ASSUME NEW m \in Messages, BackoffElapses(m) PROVE UNCHANGED Promise!vars
  <2>1. row \in [Messages -> Row] /\ row' = [row EXCEPT ![m] = [row[m] EXCEPT !.waiting = FALSE]]
        /\ UNCHANGED queue
    BY <1>7, Facts DEF BackoffElapses
  <2>2. [row[m] EXCEPT !.waiting = FALSE].status = row[m].status
    BY <2>1 DEF Row
  <2>3. \A n \in Messages : row'[n].status = row[n].status
    BY <2>1, <2>2
  <2> QED BY <1>1, <2>1, <2>3
<1>8. CASE \/ (\E c \in Chats : ChatBlocks(c)) \/ PublishRequest \/ CommitOffset \/ ConsumerCrash
           \/ SelectDue \/ CallRelay \/ SenderCrash \/ UNCHANGED vars
  <2>1. UNCHANGED <<queue, row>>
    BY <1>8 DEF ChatBlocks, PublishRequest, CommitOffset, ConsumerCrash, SelectDue, CallRelay,
                SenderCrash, vars, queueVars
  <2> QED BY <1>2, <2>1
<1> QED BY <1>4, <1>5, <1>6, <1>7, <1>8 DEF Next, Consume, Deliver, Promise!Next

\* Every step publishes an event, turns one into messages, or stutters; an event that is
\* consumed again after a crash is a stutter too.
LEMMA RequestStep == IInv /\ [Next]_vars => [RequestPromise!Next]_(RequestPromise!vars)
<1> SUFFICES ASSUME IInv, [Next]_vars PROVE [RequestPromise!Next]_(RequestPromise!vars)
  OBVIOUS
<1>1. requests \in Nat /\ requests <= MaxRequests /\ MaxRequests \in Nat /\ offset \in Nat
  BY BoundsAssumption DEF IInv, Around
<1>2. ASSUME UNCHANGED <<requests, heard>> PROVE UNCHANGED RequestPromise!vars
  BY <1>2 DEF RequestPromise!vars
<1>3. CASE PublishRequest
  <2>1. requests < MaxRequests /\ requests' = requests + 1 /\ heard' = heard
    BY <1>3 DEF PublishRequest
  <2>2. 1..requests \subseteq 1..requests' /\ 1..requests' \subseteq 1..MaxRequests
    BY <1>1, <2>1
  <2> QED BY <2>1, <2>2 DEF RequestPromise!Next, RequestPromise!Record
<1>4. CASE QueueRequest
  <2> DEFINE e == offset + 1
  <2>1. offset < requests /\ heard' = heard \cup {e} /\ requests' = requests
    BY <1>4 DEF QueueRequest
  <2>2. e \in 1..requests /\ e \in 1..MaxRequests
    BY <1>1, <2>1
  <2>3. CASE e \in heard
    BY <1>2, <2>1, <2>3
  <2>4. CASE e \notin heard
    <3>1. RequestPromise!Settle(e)
      BY <2>1, <2>2, <2>4 DEF RequestPromise!Settle
    <3> QED BY <2>2, <3>1 DEF RequestPromise!Next
  <2> QED BY <2>3, <2>4
<1>5. CASE \/ (\E m \in Messages : ChatWrites(m) \/ BackoffElapses(m))
           \/ (\E c \in Chats : ChatBlocks(c)) \/ CommitOffset \/ ConsumerCrash
           \/ Deliver \/ SenderCrash \/ UNCHANGED vars
  <2>1. UNCHANGED <<requests, heard>>
    BY <1>5 DEF ChatWrites, BackoffElapses, ChatBlocks, CommitOffset, ConsumerCrash, Deliver,
                SelectDue, CallRelay, MarkMessage, SenderCrash, vars, consumerVars
  <2> QED BY <1>2, <2>1
<1> QED BY <1>3, <1>4, <1>5 DEF Next, Consume

\* The queue implements the safety part of EventDelivery twice: an event is turned into
\* messages only after it was published, a message settled only after it was queued, and
\* nothing queued or settled is ever taken back.
THEOREM Implements ==
  Spec => /\ RequestPromise!Init /\ [][RequestPromise!Next]_(RequestPromise!vars)
          /\ Promise!Init /\ [][Promise!Next]_(Promise!vars)
BY PromiseInit, PromiseStep, RequestInit, RequestStep, Invariant, PTL DEF Spec
=============================================================================
