---------------------------- MODULE Subscriptions ----------------------------
(***************************************************************************)
(* Who hears one seller through one bot (modules/notifications): the       *)
(* invitations, the subscriptions they make, and the loop that fetches the *)
(* bot's updates from the relay and handles each with the cursor in one    *)
(* transaction.                                                            *)
(*                                                                         *)
(* The worker is a single process with one fetcher per bot                 *)
(* (NOTIFICATIONS.md), but a fetcher that is replaced is not waited for:   *)
(* its COMMIT may arrive while the next one has started.  Invitations are  *)
(* created by any number of API requests.  The relay keeps the updates in  *)
(* order and hands out those after the cursor; it is external.             *)
(***************************************************************************)
EXTENDS Integers, Sequences, FiniteSets

CONSTANTS
  Chats,
  Tokens,      \* tokens of invitations, each issued at most once
  Admins,      \* API requests that may create invitations at the same time
  MaxUpdates,  \* bound: messages the chats write to the bot
  MaxFaults    \* bound: failed transactions and replaced fetchers

ASSUME BoundsAssumption == {MaxUpdates, MaxFaults} \subseteq Nat

UpdateIds == 1..MaxUpdates

\* What a chat may write; "noise" comes from a recipient that is not a number.
Texts == [command : {"start"}, token : Tokens]
           \cup [command : {"stop", "command", "other", "noise"}, token : {"none"}]

VARIABLES
  subscribed,   \* chats with an active subscription
  invite,       \* invite_links by token
  issuing,      \* create_invite between its UPDATE and its INSERT
  joined,       \* history: updates that each token subscribed a chat for
  updates,      \* what the relay holds for the bot, in order of event_id
  cursor,       \* bot_cursors.last_update_id
  fetcher,      \* the updates it fetched, and whether it works on the next one
  late,         \* COMMIT on its way when its fetcher was replaced: update, claim
  handled,      \* history: transactions committed for each update
  overtaken,    \* history: updates taken up again while their COMMIT was on its way
  reply,        \* the queued reply to each update
  published,    \* its command events in the outbox
  faults

inviteVars == <<invite, issuing, joined>>
loopVars == <<fetcher, late, overtaken, faults>>
answerVars == <<cursor, handled, reply, published>>
vars == <<subscribed, inviteVars, updates, loopVars, answerVars>>

NotIssuing == [pc |-> "idle", locked |-> {}]
NoLate == [update |-> 0, claims |-> FALSE]

\* The types of the tables, of the invitations on their way and of the loop.
TypeOK ==
  /\ subscribed \subseteq Chats
  /\ invite \in [Tokens -> {"unissued", "live", "expired", "used", "revoked"}]
  /\ issuing \in [Admins -> [pc : {"idle", "revoking"}, locked : SUBSET Tokens]]
  /\ joined \in [Tokens -> SUBSET UpdateIds]
  /\ updates \in Seq([chat : Chats, text : Texts])
  /\ cursor \in 0..Len(updates)
  /\ fetcher \in [next : Nat \ {0}, last : 0..Len(updates), works : BOOLEAN]
  /\ late \in [update : 0..Len(updates), claims : BOOLEAN]
  /\ handled \in [UpdateIds -> Nat] /\ overtaken \subseteq UpdateIds
  /\ published \in [UpdateIds -> Nat]
  /\ reply \in [UpdateIds -> {"none", "confirmed", "invalid", "stopped", "hint"}]
  /\ faults \in 0..MaxFaults

Init ==
  /\ subscribed = {}
  /\ invite = [t \in Tokens |-> "unissued"]
  /\ issuing = [a \in Admins |-> NotIssuing]
  /\ joined = [t \in Tokens |-> {}]
  /\ updates = <<>> /\ cursor = 0
  /\ fetcher = [next |-> 1, last |-> 0, works |-> FALSE] /\ late = NoLate
  /\ handled = [u \in UpdateIds |-> 0] /\ overtaken = {}
  /\ published = [u \in UpdateIds |-> 0]
  /\ reply = [u \in UpdateIds |-> "none"]
  /\ faults = 0

Fault == faults < MaxFaults /\ faults' = faults + 1
-----------------------------------------------------------------------------
\* SubscriptionService.create_invite.  The UPDATE of revoke_invites locks what it
\* revokes until the commit, and waits for locked rows: those of another request, or
\* the one that claim_invite has locked for a COMMIT on its way.

Unspent == {t \in Tokens : invite[t] \in {"live", "expired"}}
Claimed == IF late.claims THEN {updates[late.update].text.token} ELSE {}
Locked == Claimed \cup UNION {issuing[a].locked : a \in Admins}

RevokeInvites(a) ==
  /\ issuing[a].pc = "idle"
  /\ \E t \in Tokens : invite[t] = "unissued"
  /\ Unspent \cap Locked = {}
  /\ issuing' = [issuing EXCEPT ![a] = [pc |-> "revoking", locked |-> Unspent]]
  /\ UNCHANGED <<subscribed, invite, joined, updates, loopVars, answerVars>>

\* Mutant of TakenMeanwhile: invite_links has no unique index.
NoUniqueIndex(a) == FALSE

\* uq_notifications_invite_links_live refuses the INSERT: an invitation that the
\* UPDATE did not see was committed since.
TakenMeanwhile(a) == Unspent \ issuing[a].locked # {}

\* The INSERT and the commit; an IntegrityError rolls back, and the request revokes and
\* inserts once more.  The unique index waits for whoever is about to spend an invitation.
AddInvite(a) ==
  /\ issuing[a].pc = "revoking" /\ ~late.claims
  /\ issuing' = [issuing EXCEPT ![a] = NotIssuing]
  /\ \/ TakenMeanwhile(a) /\ UNCHANGED invite
     \/ /\ ~TakenMeanwhile(a)
        /\ \E t \in Tokens :
             /\ invite[t] = "unissued"
             /\ invite' = [s \in Tokens |-> IF s = t THEN "live"
                                            ELSE IF s \in issuing[a].locked THEN "revoked"
                                            ELSE invite[s]]
  /\ UNCHANGED <<subscribed, joined, updates, loopVars, answerVars>>

InviteExpires(t) ==
  /\ invite[t] = "live"
  /\ invite' = [invite EXCEPT ![t] = "expired"]
  /\ UNCHANGED <<subscribed, issuing, joined, updates, loopVars, answerVars>>
-----------------------------------------------------------------------------
\* A user writes to the bot; any chat may have been forwarded the link.
UserWrites(chat, text) ==
  /\ Len(updates) < MaxUpdates
  /\ text.command = "start" => invite[text.token] # "unissued"
  /\ updates' = Append(updates, [chat |-> chat, text |-> text])
  /\ UNCHANGED <<subscribed, inviteVars, loopVars, answerVars>>

\* deliver_due finds that the chat has blocked the bot or is gone.
ChatGone(chat) ==
  /\ chat \in subscribed
  /\ subscribed' = subscribed \ {chat}
  /\ UNCHANGED <<inviteVars, updates, loopVars, answerVars>>

\* UpdateFetcher.fetch_once: everything after the cursor.
FetchUpdates ==
  /\ fetcher.next > fetcher.last
  /\ cursor < Len(updates)
  /\ fetcher' = [next |-> cursor + 1, last |-> Len(updates), works |-> FALSE]
  /\ UNCHANGED <<subscribed, inviteVars, updates, late, overtaken, faults, answerVars>>

\* Mutant of Claimable: a spent invitation is accepted again.
ClaimableTwice(t) == invite[t] \in {"live", "used"}

\* claim_invite: unused, not revoked, not expired.
Claimable(t) == invite[t] = "live"

\* What is not a number has no addressee and only moves the cursor.
Addressable(u) == updates[u].text.command # "noise"
Claims(u) == updates[u].text.command = "start" /\ Claimable(updates[u].text.token)

\* The reply's dedupe key keeps the first answer.
Answer(u, r) == reply' = [reply EXCEPT ![u] = IF @ = "none" THEN r ELSE @]
Publish(u) == published' = [published EXCEPT ![u] = @ + 1]

\* _start: an invitation that is claimed subscribes the chat, and the command goes to
\* the bot's automation too.
Start(u, chat, t, claims) ==
  \/ /\ claims
     /\ invite' = [invite EXCEPT ![t] = "used"]
     /\ joined' = [joined EXCEPT ![t] = @ \cup {u}]
     /\ subscribed' = subscribed \cup {chat}
     /\ Answer(u, "confirmed") /\ Publish(u)
  \/ /\ ~claims
     /\ Answer(u, "invalid")
     /\ UNCHANGED <<invite, joined, subscribed, published>>

\* handle_update of a subscription bot: what it does to the audience, what it answers
\* and what it publishes.
HandleUpdate(u, claims) ==
  LET chat == updates[u].chat
      text == updates[u].text
  IN  \/ text.command = "start" /\ Start(u, chat, text.token, claims)
      \/ /\ text.command = "stop"
         /\ subscribed' = subscribed \ {chat}
         /\ Answer(u, "stopped")
         /\ UNCHANGED <<invite, joined, published>>
      \/ /\ text.command = "command"
         /\ Publish(u)
         /\ UNCHANGED <<invite, joined, subscribed, reply>>
      \/ /\ text.command = "other"
         /\ Answer(u, "hint")
         /\ UNCHANGED <<invite, joined, subscribed, published>>

\* save_cursor, which never goes back.
SaveCursor(u) == cursor' = IF u > cursor THEN u ELSE cursor

\* Mutants of CommitUpdate: the relay's count is saved, which is one too high; what has
\* no addressee leaves the cursor alone.
CommitAndSkip(u, claims) ==
  /\ \/ /\ Addressable(u)
        /\ HandleUpdate(u, claims)
        /\ handled' = [handled EXCEPT ![u] = @ + 1]
     \/ ~Addressable(u) /\ UNCHANGED <<subscribed, invite, joined, handled, reply, published>>
  /\ cursor' = u + 1

CommitIgnoringNoise(u, claims) ==
  \/ /\ Addressable(u)
     /\ HandleUpdate(u, claims)
     /\ handled' = [handled EXCEPT ![u] = @ + 1]
     /\ SaveCursor(u)
  \/ ~Addressable(u) /\ UNCHANGED <<subscribed, invite, joined, answerVars>>

\* The work, the reply and the cursor, in one transaction.
CommitUpdate(u, claims) ==
  /\ \/ /\ Addressable(u)
        /\ HandleUpdate(u, claims)
        /\ handled' = [handled EXCEPT ![u] = @ + 1]
     \/ ~Addressable(u) /\ UNCHANGED <<subscribed, invite, joined, handled, reply, published>>
  /\ SaveCursor(u)

Current == fetcher.next
Pending == Current <= fetcher.last
Turned == [next |-> Current + 1, last |-> fetcher.last, works |-> FALSE]
Dropped == [next |-> fetcher.last + 1, last |-> fetcher.last, works |-> FALSE]

\* Mutant of AlreadyHandled: the cursor is not looked at.
NeverLooked(u) == FALSE

AlreadyHandled(u) == u <= cursor

\* accept_update looks at the cursor, without a lock: a COMMIT on its way for the same
\* update is not seen.
FetcherLooks ==
  /\ Pending /\ Addressable(Current) /\ ~fetcher.works
  /\ \/ /\ AlreadyHandled(Current)
        /\ fetcher' = Turned
        /\ UNCHANGED overtaken
     \/ /\ ~AlreadyHandled(Current)
        /\ fetcher' = [fetcher EXCEPT !.works = TRUE]
        /\ overtaken' = overtaken \cup ({Current} \cap {late.update})
  /\ UNCHANGED <<subscribed, inviteVars, updates, late, faults, answerVars>>

\* The transaction has done its work and saved the cursor.  save_cursor waits for a
\* COMMIT on its way, which holds the bot's row, and claim_invite for a request that
\* has locked the invitation.
WorkDone ==
  /\ Pending /\ (Addressable(Current) => fetcher.works)
  /\ late = NoLate
  /\ updates[Current].text.token \notin Locked

FetcherCommits ==
  /\ WorkDone
  /\ CommitUpdate(Current, Claims(Current))
  /\ fetcher' = Turned
  /\ UNCHANGED <<issuing, updates, late, overtaken, faults>>

\* The transaction fails, or its loop is replaced before it commits: the rest of the
\* fetched updates waits for the next fetch.
FetcherFails ==
  /\ Pending
  /\ Fault
  /\ fetcher' = Dropped
  /\ UNCHANGED <<subscribed, inviteVars, updates, late, overtaken, answerVars>>

\* _sync_fetchers cancels the loop of a bot whose row has changed with its COMMIT on
\* its way, and starts another at once.
FetcherReplaced ==
  /\ WorkDone
  /\ Fault
  /\ late' = [update |-> Current, claims |-> Claims(Current)]
  /\ fetcher' = Dropped
  /\ UNCHANGED <<subscribed, inviteVars, updates, overtaken, answerVars>>

\* It arrives, or the connection was closed before it did.
LateCommit ==
  /\ late # NoLate
  /\ late' = NoLate
  /\ CommitUpdate(late.update, late.claims)
  /\ UNCHANGED <<issuing, updates, fetcher, overtaken, faults>>

LateLost ==
  /\ late # NoLate
  /\ late' = NoLate
  /\ UNCHANGED <<subscribed, inviteVars, updates, fetcher, overtaken, faults, answerVars>>

Fetch == FetchUpdates \/ FetcherLooks \/ FetcherCommits
LateEnds == LateCommit \/ LateLost

Next ==
  \/ \E a \in Admins : RevokeInvites(a) \/ AddInvite(a)
  \/ \E t \in Tokens : InviteExpires(t)
  \/ \E chat \in Chats : ChatGone(chat) \/ \E text \in Texts : UserWrites(chat, text)
  \/ Fetch \/ FetcherFails \/ FetcherReplaced \/ LateEnds

Spec == Init /\ [][Next]_vars

\* The worker's loop goes on, a COMMIT on its way arrives or is lost, an API request
\* ends.  Nobody has to write or to create invitations.
Fairness ==
  /\ WF_vars(Fetch) /\ WF_vars(LateEnds)
  /\ \A a \in Admins : WF_vars(AddInvite(a))

FairSpec == Spec /\ Fairness
-----------------------------------------------------------------------------
\* The updates up to the cursor are handled and none after it, whatever fails or is
\* replaced in between: each in one transaction, or in two if another fetcher took it up
\* while its COMMIT was on its way (accept_update reads the cursor without a lock), and
\* never in more.
HandledToCursor ==
  \A u \in UpdateIds :
    /\ handled[u] > 0 <=> u <= cursor /\ Addressable(u)
    /\ handled[u] <= IF u \in overtaken THEN 2 ELSE 1

\* An invitation, forwarded to whomever and read as often as it may be, subscribes for
\* one update.  Exactly that update is answered with a confirmation, and of the /starts
\* it alone is published, once, although a transaction may repeat it.
InviteSpentOnce ==
  /\ \A t \in Tokens : Cardinality(joined[t]) <= 1
  /\ \A u \in UpdateIds :
       LET spends == \E t \in Tokens : u \in joined[t]
       IN  /\ reply[u] = "confirmed" <=> spends
           /\ spends => published[u] = 1
           /\ ~spends => published[u] = 0 \/ updates[u].text.command = "command"

\* A new link voids the earlier ones, also when two are created at once.
OneUnspentInvite == Cardinality(Unspent) <= 1

\* The loop keeps the promise of EventDelivery: an update is settled after it was written,
\* one with each transaction that is committed, and each in the end.  Settled means
\* handled, or passed over because it has no addressee.
Settled == {u \in UpdateIds : handled[u] > 0 \/ (u <= cursor /\ ~Addressable(u))}
Promise == INSTANCE EventDelivery WITH
  Events <- UpdateIds, recorded <- 1..Len(updates), settled <- Settled
UpdatePromise == Promise!Spec
=============================================================================
