---------------------------- MODULE MessageQueue -----------------------------
(***************************************************************************)
(* The outgoing messages of one bot (modules/notifications): the consumer  *)
(* that turns a message event into one row per subscribed chat, and the    *)
(* loop that delivers the rows through the relay and marks them.           *)
(*                                                                         *)
(* The worker is a single process (NOTIFICATIONS.md) with one delivery     *)
(* loop per bot.  Chats join and leave as Subscriptions describes.  The    *)
(* relay and the messenger are external: the relay does not bring a        *)
(* message with a known idempotency key twice.                             *)
(***************************************************************************)
EXTENDS Integers, Sequences, FiniteSets, SequencesExt

CONSTANTS
  Chats,
  Replies,      \* replies to updates, by update; each goes to one chat
  MaxAttempts,  \* telegram.send_max_attempts
  BatchLimit,   \* due_messages' limit
  MaxRequests,  \* bound: message events published
  MaxMoves,     \* bound: times a chat joins, leaves or blocks the bot
  MaxFaults,    \* bound: crashes and failures of the relay
  MaxLimits     \* bound: 429 answers

ASSUME BoundsAssumption ==
  /\ IsFiniteSet(Chats)
  /\ {MaxAttempts, BatchLimit} \subseteq Nat \ {0}
  /\ {MaxRequests, MaxMoves, MaxFaults, MaxLimits} \subseteq Nat

\* What dedupe_key tells apart: an event and a chat, or the update replied to.
Messages == [about : (1..MaxRequests) \cup Replies, chat : Chats]

NoRow == [status |-> "none", attempts |-> 0, waiting |-> FALSE]
NewRow == [status |-> "queued", attempts |-> 0, waiting |-> FALSE]

VARIABLES
  subscribed,   \* chats with an active subscription
  blocked,      \* chats that have blocked the bot
  requests,     \* message events in Kafka
  offset,       \* committed offset of the notifications group
  consumed,     \* the record after the offset is processed, not committed
  heard,        \* history: events whose queueing transaction has committed
  queue,        \* outgoing_messages in order of created_at
  row,
  sender,       \* what is left of the batch, and the relay's answer for the message whose turn it is
  known,        \* idempotency keys the relay has seen
  delivered,    \* times the message appeared in its chat
  refusals,     \* history: temporary errors the message met
  rejected,     \* history: messages the relay refused for good
  moves, faults, limits

audienceVars == <<subscribed, blocked>>
consumerVars == <<requests, offset, consumed, heard>>
queueVars == <<queue, row>>
relayVars == <<known, delivered, refusals, rejected>>
bounds == <<moves, faults, limits>>
vars == <<audienceVars, consumerVars, queueVars, sender, relayVars, bounds>>

Waiting == [pc |-> "idle", batch |-> {}, answer |-> "none"]
Answers == {"ok", "gone", "rejected", "limited", "temporary"}

\* The types of the table, of the loops and of what the relay remembers.
TypeOK ==
  /\ subscribed \subseteq Chats /\ blocked \subseteq Chats
  /\ requests \in 0..MaxRequests /\ offset \in 0..requests /\ consumed \in BOOLEAN
  /\ heard \subseteq 1..requests
  /\ queue \in Seq(Messages)
  /\ row \in [Messages -> [status : {"none", "queued", "sent", "failed"},
                           attempts : 0..MaxAttempts, waiting : BOOLEAN]]
  /\ sender \in [pc : {"idle", "calling", "answered"}, batch : SUBSET ToSet(queue),
                 answer : Answers \cup {"none"}]
  /\ delivered \in [Messages -> Nat]
  /\ refusals \in [Messages -> Nat] /\ rejected \subseteq Messages
  /\ moves \in 0..MaxMoves /\ faults \in 0..MaxFaults /\ limits \in 0..MaxLimits

\* Chats have joined, and some blocked the bot, before.
Init ==
  /\ subscribed \in SUBSET Chats /\ blocked \in SUBSET Chats
  /\ requests = 0 /\ offset = 0 /\ consumed = FALSE /\ heard = {}
  /\ queue = <<>>
  /\ row = [m \in Messages |-> NoRow]
  /\ sender = Waiting
  /\ known = {}
  /\ delivered = [m \in Messages |-> 0]
  /\ refusals = [m \in Messages |-> 0] /\ rejected = {}
  /\ moves = 0 /\ faults = 0 /\ limits = 0

Move == moves < MaxMoves /\ moves' = moves + 1 /\ UNCHANGED <<faults, limits>>
Fault == faults < MaxFaults /\ faults' = faults + 1 /\ UNCHANGED <<moves, limits>>
-----------------------------------------------------------------------------
\* NotificationRepository.queue_message, on conflict do nothing, for the messages
\* of one transaction: they share their created_at.
Enqueue(new) ==
  LET fresh == {m \in new : row[m] = NoRow} IN
  /\ row' = [m \in Messages |-> IF m \in fresh THEN NewRow ELSE row[m]]
  /\ \E order \in SetToSeqs(fresh) : queue' = queue \o order

\* /start or /stop was handled: the chat joins, having unblocked the bot, or leaves;
\* the reply is queued with it.
ChatWrites(m) ==
  /\ Move
  /\ m.about \in Replies /\ \A n \in Messages : n.about = m.about => row[n] = NoRow
  /\ subscribed' \in {subscribed \cup {m.chat}, subscribed \ {m.chat}}
  /\ blocked' = blocked \ {m.chat}
  /\ Enqueue({m})
  /\ UNCHANGED <<consumerVars, sender, relayVars>>

ChatBlocks(chat) ==
  /\ Move
  /\ blocked' = blocked \cup {chat}
  /\ UNCHANGED <<subscribed, consumerVars, queueVars, sender, relayVars>>
-----------------------------------------------------------------------------
\* An automation publishes a message event for the seller's chats.
PublishRequest ==
  /\ requests < MaxRequests
  /\ requests' = requests + 1
  /\ UNCHANGED <<audienceVars, offset, consumed, heard, queueVars, sender, relayVars, bounds>>

\* DispatchService.queue: one message for each chat subscribed by now.
QueueRequest ==
  /\ offset < requests /\ ~consumed
  /\ Enqueue([about : {offset + 1}, chat : subscribed])
  /\ consumed' = TRUE
  /\ heard' = heard \cup {offset + 1}
  /\ UNCHANGED <<audienceVars, requests, offset, sender, relayVars, bounds>>

\* Mutant of CommitOffset: the consumer commits a record that it has only received.
CommitReceived ==
  /\ offset < requests
  /\ offset' = offset + 1
  /\ consumed' = FALSE
  /\ UNCHANGED <<audienceVars, requests, heard, queueVars, sender, relayVars, bounds>>

CommitOffset ==
  /\ consumed
  /\ offset' = offset + 1
  /\ consumed' = FALSE
  /\ UNCHANGED <<audienceVars, requests, heard, queueVars, sender, relayVars, bounds>>

\* The process dies, or the commit fails: Kafka delivers the record again.
ConsumerCrash ==
  /\ consumed
  /\ Fault
  /\ consumed' = FALSE
  /\ UNCHANGED <<audienceVars, requests, offset, heard, queueVars, sender, relayVars>>
-----------------------------------------------------------------------------
\* DispatchService.deliver_due.

Due(m) == row[m].status = "queued" /\ ~row[m].waiting

\* due_messages: the oldest of them, BatchLimit at most.
DueBatch ==
  LET due == {i \in DOMAIN queue : Due(queue[i])}
  IN  {queue[i] : i \in {j \in due : Cardinality({k \in due : k < j}) < BatchLimit}}

\* The loop takes the batch in order of created_at.
Turn == queue[Min({i \in DOMAIN queue : queue[i] \in sender.batch})]

\* Mutant of SelectDue: the batch is marked sent before it is sent.
SelectAndMark ==
  /\ sender.pc = "idle" /\ DueBatch # {}
  /\ sender' = [pc |-> "calling", batch |-> DueBatch, answer |-> "none"]
  /\ row' = [m \in Messages |-> IF m \in DueBatch
                                THEN [row[m] EXCEPT !.status = "sent"] ELSE row[m]]
  /\ UNCHANGED <<audienceVars, consumerVars, queue, relayVars, bounds>>

SelectDue ==
  /\ sender.pc = "idle" /\ DueBatch # {}
  /\ sender' = [pc |-> "calling", batch |-> DueBatch, answer |-> "none"]
  /\ UNCHANGED <<audienceVars, consumerVars, queueVars, relayVars, bounds>>

\* Mutant of IdempotencyKey: a key of its own for every attempt.
KeyOfAttempt(m) == <<m, row[m].attempts>>

IdempotencyKey(m) == <<m>>

\* The relay brings the message to the chat, unless it knows the key.
Bring(m) ==
  /\ known' = known \cup {IdempotencyKey(m)}
  /\ delivered' = [delivered EXCEPT ![m] = IF IdempotencyKey(m) \in known THEN @ ELSE @ + 1]

\* The relay's answers to one call.  An answer that is lost or late is a temporary
\* error, whether or not the message went out.
Answer(m, answer) ==
  \/ /\ answer = "ok" /\ m.chat \notin blocked
     /\ Bring(m)
     /\ UNCHANGED bounds
  \/ /\ answer = "gone" /\ m.chat \in blocked
     /\ UNCHANGED <<known, delivered, bounds>>
  \/ /\ answer = "rejected"
     /\ Fault
     /\ UNCHANGED <<known, delivered>>
  \/ /\ answer = "limited"
     /\ limits < MaxLimits /\ limits' = limits + 1
     /\ UNCHANGED <<known, delivered, moves, faults>>
  \/ /\ answer = "temporary"
     /\ Fault
     /\ \/ UNCHANGED <<known, delivered>>
        \/ m.chat \notin blocked /\ Bring(m)

CallRelay ==
  LET m == Turn IN
  /\ sender.pc = "calling"
  /\ \E answer \in Answers :
       /\ Answer(m, answer)
       /\ sender' = [pc |-> "answered", batch |-> sender.batch, answer |-> answer]
       /\ refusals' = [refusals EXCEPT ![m] = IF answer = "temporary" THEN @ + 1 ELSE @]
       /\ rejected' = IF answer \in {"gone", "rejected"} THEN rejected \cup {m} ELSE rejected
  /\ UNCHANGED <<audienceVars, consumerVars, queueVars>>

\* Mutants of Marked: a rate limit spends an attempt; one attempt more than
\* MaxAttempts; a failure is never final.
MarkedLimitCounts(old, answer) ==
  LET tried == [old EXCEPT !.attempts = @ + 1] IN
  CASE answer = "ok" -> [tried EXCEPT !.status = "sent"]
    [] answer \in {"gone", "rejected"} -> [tried EXCEPT !.status = "failed"]
    [] OTHER -> IF tried.attempts >= MaxAttempts THEN [tried EXCEPT !.status = "failed"]
                ELSE [tried EXCEPT !.waiting = TRUE]

MarkedOnceMore(old, answer) ==
  LET tried == [old EXCEPT !.attempts = @ + 1] IN
  CASE answer = "ok" -> [tried EXCEPT !.status = "sent"]
    [] answer \in {"gone", "rejected"} -> [tried EXCEPT !.status = "failed"]
    [] answer = "limited" -> [old EXCEPT !.waiting = TRUE]
    [] OTHER -> IF tried.attempts > MaxAttempts THEN [tried EXCEPT !.status = "failed"]
                ELSE [tried EXCEPT !.waiting = TRUE]

MarkedNeverGone(old, answer) ==
  LET tried == [old EXCEPT !.attempts = @ + 1] IN
  CASE answer = "ok" -> [tried EXCEPT !.status = "sent"]
    [] answer \in {"gone", "rejected", "limited"} -> [old EXCEPT !.waiting = TRUE]
    [] OTHER -> IF tried.attempts >= MaxAttempts THEN [tried EXCEPT !.status = "failed"]
                ELSE [tried EXCEPT !.waiting = TRUE]

\* mark_sent, mark_failed, mark_rate_limited and mark_retry.
Marked(old, answer) ==
  LET tried == [old EXCEPT !.attempts = @ + 1] IN
  CASE answer = "ok" -> [tried EXCEPT !.status = "sent"]
    [] answer \in {"gone", "rejected"} -> [tried EXCEPT !.status = "failed"]
    [] answer = "limited" -> [old EXCEPT !.waiting = TRUE]
    [] OTHER -> IF tried.attempts >= MaxAttempts THEN [tried EXCEPT !.status = "failed"]
                ELSE [tried EXCEPT !.waiting = TRUE]

\* The mark of the head of the batch and its commit; a chat that is gone loses
\* its subscriptions in the same transaction.
MarkMessage ==
  LET m == Turn IN
  /\ sender.pc = "answered"
  /\ row' = [row EXCEPT ![m] = Marked(@, sender.answer)]
  /\ subscribed' = IF sender.answer = "gone" THEN subscribed \ {m.chat} ELSE subscribed
  /\ sender' = IF sender.batch = {m} THEN Waiting
               ELSE [pc |-> "calling", batch |-> sender.batch \ {m}, answer |-> "none"]
  /\ UNCHANGED <<blocked, consumerVars, queue, relayVars, bounds>>

\* The process dies, the loop is replaced or a commit fails: the marks that were
\* committed stay, the rest of the batch is due as before.
SenderCrash ==
  /\ sender.pc # "idle"
  /\ Fault
  /\ sender' = Waiting
  /\ UNCHANGED <<audienceVars, consumerVars, queueVars, relayVars>>

BackoffElapses(m) ==
  /\ row[m].status = "queued" /\ row[m].waiting
  /\ row' = [row EXCEPT ![m].waiting = FALSE]
  /\ UNCHANGED <<audienceVars, consumerVars, queue, sender, relayVars, bounds>>

Consume == QueueRequest \/ CommitOffset
Deliver == SelectDue \/ CallRelay \/ MarkMessage

Next ==
  \/ \E m \in Messages : ChatWrites(m) \/ BackoffElapses(m)
  \/ \E chat \in Chats : ChatBlocks(chat)
  \/ PublishRequest \/ Consume \/ ConsumerCrash
  \/ Deliver \/ SenderCrash

Spec == Init /\ [][Next]_vars

\* The two loops of the worker go on and its timers fire.  Nobody has to write, to
\* block or to publish.
Fairness ==
  /\ WF_vars(Consume) /\ WF_vars(Deliver)
  /\ \A m \in Messages : WF_vars(BackoffElapses(m))

FairSpec == Spec /\ Fairness
-----------------------------------------------------------------------------
\* "must cost neither a duplicate nor a lost alert" (OutgoingMessageModel): however
\* often the sender dies after the call or loses the answer, the message appears at
\* most once, and exactly once when the table calls it sent.
DeliveredOnce ==
  \A m \in Messages : delivered[m] <= 1 /\ (row[m].status = "sent" => delivered[m] = 1)

\* A message is given up only if the relay refused it for good or failed
\* MaxAttempts times; a storm of rate limits costs no alert.
FailedForCause ==
  \A m \in Messages : row[m].status = "failed" => m \in rejected \/ refusals[m] >= MaxAttempts

\* The queue keeps the promise of EventDelivery twice: every event that was published is
\* turned into messages although the consumer may die between the transaction and the
\* commit of the offset, and every message that was queued is sent or given up.
RequestPromise == INSTANCE EventDelivery WITH
  Events <- 1..MaxRequests, recorded <- 1..requests, settled <- heard
Promise == INSTANCE EventDelivery WITH
  Events <- Messages, recorded <- ToSet(queue),
  settled <- {m \in Messages : row[m].status \in {"sent", "failed"}}
QueuePromise == RequestPromise!Spec /\ Promise!Spec
=============================================================================
