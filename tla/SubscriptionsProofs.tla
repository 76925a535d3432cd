------------------------- MODULE SubscriptionsProofs -------------------------
(***************************************************************************)
(* What holds of Subscriptions for any chats, tokens and administrators,   *)
(* any number of updates and of failures: the types, that updates are      *)
(* handled in order, and once unless two fetchers overlapped on them, as   *)
(* EventDelivery says, that an invitation is spent once, and that only one *)
(* is unspent.                                                             *)
(***************************************************************************)
EXTENDS Subscriptions, FiniteSetTheorems, SequenceTheorems, TLAPS

Starts(u) == updates[u].text.command = "start"
TokenOf(u) == updates[u].text.token

\* The fetcher is not at an update past the next one, so that none is passed over.
InReach ==
  /\ Len(updates) <= MaxUpdates
  /\ Pending => Current <= cursor + 1

\* Update u was taken up while its COMMIT was on its way, which has arrived since.
Again(u) == u = cursor /\ u \in overtaken /\ handled[u] = 1

\* A transaction that has done its work on update u may commit: it is the next update or
\* one taken up again, and it has decided rightly what becomes of the invitation.
Ready(u, claims) ==
  /\ u \in 1..Len(updates) /\ u <= cursor + 1
  /\ Addressable(u) => u = cursor + 1 \/ Again(u)
  /\ claims => /\ Starts(u) /\ u = cursor + 1 /\ TokenOf(u) \in Unspent
               /\ \A a \in Admins : TokenOf(u) \notin issuing[a].locked
  /\ Starts(u) /\ ~claims => invite[TokenOf(u)] # "live"

LateReady == late # NoLate => Ready(late.update, late.claims)

\* What the fetcher works on, and that it took it up before the COMMIT on its way.
WorksOn ==
  fetcher.works =>
    /\ Pending /\ Addressable(Current)
    /\ Current = cursor + 1 \/ Again(Current)
    /\ late # NoLate => Current = cursor + 1
    /\ late.update = Current => Current \in overtaken

\* What was not handled has no answer yet, so the first answer is the right one.
Unanswered == \A u \in UpdateIds : u > cursor => reply[u] = "none" /\ published[u] = 0

\* An invitation that a chat has sent was issued, and after that cannot be claimed.
TokensGone ==
  \A u \in 1..Len(updates) :
    Starts(u) => /\ invite[TokenOf(u)] # "unissued"
                 /\ u <= cursor => invite[TokenOf(u)] # "live"

\* What revoke_invites has locked can neither be spent nor be locked again until the
\* commit.
LocksHold ==
  /\ \A a \in Admins : issuing[a].locked \subseteq Unspent
  /\ \A a, b \in Admins : a # b => issuing[a].locked \cap issuing[b].locked = {}

\* An invitation that has subscribed a chat is used, which it stays, and it was sent with
\* a /start.
SpentIsUsed == \A t \in Tokens : joined[t] # {} => invite[t] = "used"
JoinedStart == \A t \in Tokens : \A u \in joined[t] : u <= cursor /\ Starts(u)

\* InviteSpentOnce and OneUnspentInvite without cardinalities.
JoinedOnce == \A t \in Tokens : \A u, v \in joined[t] : u = v
Spends(u) == \E t \in Tokens : u \in joined[t]
Confirmed ==
  \A u \in UpdateIds :
    /\ reply[u] = "confirmed" <=> Spends(u)
    /\ Spends(u) => published[u] = 1
    /\ ~Spends(u) => published[u] = 0 \/ updates[u].text.command = "command"
OneUnspent == \A s, t \in Unspent : s = t

InviteInv == SpentIsUsed /\ JoinedStart /\ JoinedOnce /\ Confirmed /\ OneUnspent
HandledInv == Unanswered /\ HandledToCursor /\ TokensGone
LoopInv == InReach /\ LateReady /\ WorksOn
IInv == TypeOK /\ LoopInv /\ HandledInv /\ LocksHold /\ InviteInv

Updates == [chat : Chats, text : Texts]
States == {"unissued", "live", "expired", "used", "revoked"}
Replies == {"none", "confirmed", "invalid", "stopped", "hint"}

\* The parts of the type invariant that handling an update may change.
HandlingTypes ==
  /\ subscribed \subseteq Chats /\ invite \in [Tokens -> States]
  /\ joined \in [Tokens -> SUBSET UpdateIds]
  /\ cursor \in 0..Len(updates)
  /\ handled \in [UpdateIds -> Nat] /\ reply \in [UpdateIds -> Replies]
  /\ published \in [UpdateIds -> Nat]

\* What the invariant says of the numbers of updates.
LEMMA Counts ==
  IInv => /\ updates \in Seq(Updates) /\ Len(updates) \in Nat /\ Len(updates) <= MaxUpdates
          /\ MaxUpdates \in Nat /\ cursor \in 0..Len(updates) /\ cursor \in Nat
          /\ \A u \in 1..Len(updates) : u \in Nat \ {0} /\ u \in UpdateIds
                                        /\ updates[u] \in Updates
<1> SUFFICES ASSUME IInv PROVE
          /\ updates \in Seq(Updates) /\ Len(updates) \in Nat /\ Len(updates) <= MaxUpdates
          /\ MaxUpdates \in Nat /\ cursor \in 0..Len(updates) /\ cursor \in Nat
          /\ \A u \in 1..Len(updates) : u \in Nat \ {0} /\ u \in UpdateIds
                                        /\ updates[u] \in Updates
  OBVIOUS
<1>1. /\ updates \in Seq(Updates) /\ Len(updates) \in Nat /\ Len(updates) <= MaxUpdates
      /\ MaxUpdates \in Nat /\ cursor \in 0..Len(updates)
  BY LenProperties, BoundsAssumption DEF IInv, TypeOK, Updates, LoopInv, InReach
<1>2. \A u \in 1..Len(updates) : updates[u] \in Updates
  BY <1>1, ElementOfSeq
<1> QED BY <1>1, <1>2 DEF UpdateIds

\* A token that a chat has sent is one.
LEMMA TokenTypes ==
  ASSUME IInv, NEW u \in 1..Len(updates), Starts(u)
  PROVE  TokenOf(u) \in Tokens /\ Addressable(u)
<1>1. updates[u].text \in Texts
  BY Counts DEF Updates
<1> QED BY <1>1 DEF Texts, Starts, TokenOf, Addressable

\* Initially nothing was issued, written or handled.
LEMMA InitHolds == Init => IInv
<1> SUFFICES ASSUME Init PROVE IInv
  OBVIOUS
<1>1. Len(updates) = 0 /\ updates \in Seq(Updates)
  BY EmptySeq DEF Init
<1>2. Unspent = {}
  BY DEF Init, Unspent
<1>3. TypeOK
  BY <1>1, BoundsAssumption DEF Init, TypeOK, NotIssuing, NoLate, Updates
<1>4. LoopInv
  BY <1>1, BoundsAssumption DEF Init, LoopInv, InReach, LateReady, WorksOn, Pending, Current
<1>5. HandledInv
  BY <1>1 DEF Init, HandledInv, Unanswered, HandledToCursor, TokensGone, UpdateIds
<1>6. LocksHold /\ InviteInv
  BY <1>2 DEF Init, InviteInv, LocksHold, SpentIsUsed, JoinedStart, JoinedOnce, Confirmed, Spends,
              OneUnspent, NotIssuing
<1> QED BY <1>3, <1>4, <1>5, <1>6 DEF IInv
-----------------------------------------------------------------------------
\* create_invite: the UPDATE locks every unspent invitation.
LEMMA RevokeKeeps ==
  ASSUME IInv, NEW a \in Admins, RevokeInvites(a)
  PROVE  IInv'
<1>1. /\ issuing' = [issuing EXCEPT ![a] = [pc |-> "revoking", locked |-> Unspent]]
      /\ Unspent \cap Locked = {}
      /\ UNCHANGED <<subscribed, invite, joined, updates, loopVars, answerVars>>
  BY DEF RevokeInvites
<1>2. Unspent' = Unspent /\ Unspent \subseteq Tokens
  BY <1>1 DEF Unspent
<1>3. TypeOK'
  BY <1>1, <1>2 DEF IInv, TypeOK, loopVars, answerVars
<1>4. LateReady'
  <2>1. late' = late /\ UNCHANGED <<invite, updates, cursor, handled, overtaken>>
    BY <1>1 DEF loopVars, answerVars
  <2>2. CASE late = NoLate
    BY <2>1, <2>2 DEF LateReady
  <2>3. CASE late # NoLate
    <3>1. Ready(late.update, late.claims)
      BY <2>3 DEF IInv, LoopInv, LateReady
    <3>2. ~late.claims
      BY <1>1, <3>1 DEF Ready, Locked, Claimed, TokenOf
    <3> QED BY <2>1, <3>1, <3>2 DEF LateReady, Ready, Addressable, Again, Starts, TokenOf
  <2> QED BY <2>2, <2>3
<1>5. LoopInv' /\ HandledInv'
  BY <1>1, <1>4 DEF IInv, LoopInv, InReach, WorksOn, Pending, Current, Again, Addressable,
     HandledInv, Unanswered, HandledToCursor, TokensGone, Starts, TokenOf, loopVars, answerVars
<1>6. LocksHold'
  <2>1. \A b \in Admins : issuing'[b].locked = IF b = a THEN Unspent ELSE issuing[b].locked
    BY <1>1 DEF IInv, TypeOK
  <2>2. \A b \in Admins : issuing[b].locked \cap Unspent = {}
    BY <1>1 DEF Locked
  <2> QED BY <1>2, <2>1, <2>2 DEF IInv, LocksHold
<1>7. InviteInv'
  BY <1>1, <1>2 DEF IInv, InviteInv, SpentIsUsed, JoinedStart, JoinedOnce, Confirmed, Spends,
     OneUnspent, Starts, answerVars
<1> QED BY <1>3, <1>5, <1>6, <1>7 DEF IInv

\* The loop's part of the invariant while only invitations change that no update has
\* spent or is about to spend.
LEMMA OtherTokens ==
  ASSUME IInv, UNCHANGED <<updates, loopVars, answerVars>>,
         \A t \in Tokens : invite[t] # "unissued" =>
           invite'[t] # "unissued" /\ (invite'[t] = "live" => invite[t] = "live"),
         late.claims => Ready(late.update, late.claims)'
  PROVE  LoopInv' /\ HandledInv'
<1>1. UNCHANGED <<cursor, handled, reply, published, fetcher, late, overtaken>>
  BY DEF loopVars, answerVars
<1>2. \A u \in 1..Len(updates) : Starts(u) => TokenOf(u) \in Tokens /\ invite[TokenOf(u)] # "unissued"
  BY TokenTypes DEF IInv, HandledInv, TokensGone
<1>3. TokensGone'
  BY <1>1, <1>2 DEF IInv, HandledInv, TokensGone, Starts, TokenOf
<1>4. LateReady'
  <2>1. CASE late = NoLate \/ late.claims
    BY <1>1, <2>1 DEF LateReady
  <2>2. CASE late # NoLate /\ ~late.claims
    <3>1. Ready(late.update, late.claims) /\ late.update \in 1..Len(updates)
      BY <2>2 DEF IInv, LoopInv, LateReady, Ready
    <3>2. Ready(late.update, late.claims)'
      BY <1>1, <1>2, <2>2, <3>1 DEF Ready, Addressable, Again, Starts, TokenOf
    <3> QED BY <3>2 DEF LateReady
  <2> QED BY <2>1, <2>2
<1> QED BY <1>1, <1>3, <1>4 DEF IInv, LoopInv, InReach, WorksOn, Pending, Current, Again,
         Addressable, HandledInv, Unanswered, HandledToCursor

\* The INSERT: the new link is the only unspent one.
LEMMA AddKeeps ==
  ASSUME IInv, NEW a \in Admins, AddInvite(a)
  PROVE  IInv'
<1>1. /\ issuing' = [issuing EXCEPT ![a] = NotIssuing] /\ ~late.claims
      /\ UNCHANGED <<subscribed, joined, updates, loopVars, answerVars>>
  BY DEF AddInvite
<1>2. \A b \in Admins : issuing'[b].locked = IF b = a THEN {} ELSE issuing[b].locked
  BY <1>1 DEF IInv, TypeOK, NotIssuing
<1>3. CASE TakenMeanwhile(a) /\ UNCHANGED invite
  <2>1. Unspent' = Unspent
    BY <1>3 DEF Unspent
  <2>2. TypeOK'
    BY <1>1, <1>3 DEF IInv, TypeOK, NotIssuing, loopVars, answerVars
  <2>3. LocksHold'
    BY <1>2, <2>1 DEF IInv, LocksHold
  <2>4. LoopInv' /\ HandledInv'
    BY <1>1, <1>3, OtherTokens
  <2>5. InviteInv'
    BY <1>1, <1>3, <2>1 DEF IInv, InviteInv, SpentIsUsed, JoinedStart, JoinedOnce, Confirmed,
       Spends, OneUnspent, Starts, answerVars
  <2> QED BY <2>2, <2>3, <2>4, <2>5 DEF IInv
<1>4. ASSUME NEW t \in Tokens, invite[t] = "unissued", ~TakenMeanwhile(a),
             invite' = [s \in Tokens |-> IF s = t THEN "live"
                                         ELSE IF s \in issuing[a].locked THEN "revoked"
                                         ELSE invite[s]]
      PROVE  IInv'
  <2>1. Unspent \subseteq issuing[a].locked
    BY <1>4 DEF TakenMeanwhile
  <2>2. Unspent' = {t}
    BY <1>4, <2>1 DEF Unspent
  <2>3. \A b \in Admins : issuing'[b].locked = {}
    <3>1. ASSUME NEW b \in Admins, b # a PROVE issuing[b].locked = {}
      <4>1. issuing[b].locked \subseteq issuing[a].locked
        BY <2>1 DEF IInv, LocksHold
      <4>2. issuing[b].locked \cap issuing[a].locked = {}
        BY <3>1 DEF IInv, LocksHold
      <4> QED BY <4>1, <4>2
    <3> QED BY <1>2, <3>1
  <2>4. TypeOK'
    BY <1>1, <1>4 DEF IInv, TypeOK, NotIssuing, loopVars, answerVars
  <2>5. LocksHold' /\ OneUnspent'
    BY <2>2, <2>3 DEF LocksHold, OneUnspent
  <2>6. SpentIsUsed'
    <3>1. \A s \in issuing[a].locked : invite[s] # "used"
      BY DEF IInv, LocksHold, Unspent
    <3> QED BY <1>1, <1>4, <3>1 DEF IInv, InviteInv, SpentIsUsed
  <2>7. LoopInv' /\ HandledInv'
    BY <1>1, <1>4, OtherTokens
  <2> QED BY <1>1, <2>4, <2>5, <2>6, <2>7 DEF IInv, InviteInv, JoinedStart, JoinedOnce, Confirmed,
      Spends, Starts, answerVars
<1> QED BY <1>3, <1>4 DEF AddInvite

\* Expiry leaves an invitation unspent, and a claim that was made of it.
LEMMA ExpiryKeeps ==
  ASSUME IInv, NEW t \in Tokens, InviteExpires(t)
  PROVE  IInv'
<1>1. /\ invite[t] = "live" /\ invite' = [invite EXCEPT ![t] = "expired"]
      /\ UNCHANGED <<subscribed, issuing, joined, updates, loopVars, answerVars>>
  BY DEF InviteExpires
<1>2. Unspent' = Unspent
  BY <1>1 DEF IInv, TypeOK, Unspent
<1>3. SpentIsUsed'
  BY <1>1 DEF IInv, InviteInv, SpentIsUsed, TypeOK
<1>4. TypeOK'
  BY <1>1 DEF IInv, TypeOK, loopVars, answerVars
<1>5. ASSUME late.claims PROVE Ready(late.update, late.claims)'
  <2>1. late # NoLate /\ UNCHANGED <<late, updates, cursor, handled, overtaken, issuing>>
    BY <1>1, <1>5 DEF NoLate, loopVars, answerVars
  <2>2. Ready(late.update, late.claims)
    BY <2>1 DEF IInv, LoopInv, LateReady
  <2> QED BY <1>2, <1>5, <2>1, <2>2 DEF Ready, Addressable, Again, Starts, TokenOf
<1>6. \A s \in Tokens : invite[s] # "unissued" =>
        invite'[s] # "unissued" /\ (invite'[s] = "live" => invite[s] = "live")
  BY <1>1 DEF IInv, TypeOK
<1>7. LoopInv' /\ HandledInv'
  BY <1>1, <1>5, <1>6, OtherTokens
<1> QED BY <1>1, <1>2, <1>3, <1>4, <1>7
        DEF IInv, InviteInv, LocksHold, JoinedStart, JoinedOnce, Confirmed, Spends, OneUnspent,
            Starts, answerVars
-----------------------------------------------------------------------------
\* A new update is past the cursor, and its invitation was issued.
LEMMA WriteKeeps ==
  ASSUME IInv, NEW chat \in Chats, NEW text \in Texts, UserWrites(chat, text)
  PROVE  IInv'
<1> DEFINE n == Len(updates) + 1
<1>1. /\ Len(updates) < MaxUpdates
      /\ text.command = "start" => invite[text.token] # "unissued"
      /\ updates' = Append(updates, [chat |-> chat, text |-> text])
      /\ UNCHANGED <<subscribed, inviteVars, loopVars, answerVars>>
  BY DEF UserWrites
<1>2. updates \in Seq(Updates) /\ [chat |-> chat, text |-> text] \in Updates
  BY DEF IInv, TypeOK, Updates
<1>3. /\ updates' \in Seq(Updates) /\ Len(updates') = n
      /\ \A u \in 1..Len(updates) : updates'[u] = updates[u]
      /\ updates'[n] = [chat |-> chat, text |-> text]
  BY <1>1, <1>2, AppendProperties
<1>4. /\ Len(updates) \in Nat /\ cursor \in 0..Len(updates) /\ MaxUpdates \in Nat
      /\ \A u \in 1..Len(updates) : u \in UpdateIds
  BY Counts
<1>5. /\ UNCHANGED <<subscribed, invite, issuing, joined, cursor, handled, reply, published>>
      /\ UNCHANGED <<fetcher, late, overtaken, faults>>
  BY <1>1 DEF inviteVars, loopVars, answerVars
<1>6. TypeOK'
  BY <1>3, <1>4, <1>5 DEF IInv, TypeOK, Updates
<1>7. \A u \in 1..Len(updates) : /\ Addressable(u)' = Addressable(u) /\ Starts(u)' = Starts(u)
                                 /\ TokenOf(u)' = TokenOf(u)
  BY <1>3 DEF Addressable, Starts, TokenOf
<1>8. \A u \in UpdateIds : u <= cursor => u \in 1..Len(updates)
  BY <1>4 DEF UpdateIds
<1>9. HandledToCursor'
  BY <1>5, <1>7, <1>8 DEF IInv, HandledInv, HandledToCursor
<1>10. TokensGone'
  <2>1. ASSUME NEW u \in 1..Len(updates'), Starts(u)'
        PROVE  /\ invite'[TokenOf(u)'] # "unissued"
               /\ u <= cursor' => invite'[TokenOf(u)'] # "live"
    <3>1. CASE u \in 1..Len(updates)
      BY <1>5, <1>7, <2>1, <3>1 DEF IInv, HandledInv, TokensGone
    <3>2. CASE u = n
      BY <1>1, <1>3, <1>4, <1>5, <2>1, <3>2 DEF Starts, TokenOf
    <3> QED BY <1>3, <1>4, <2>1, <3>1, <3>2
  <2> QED BY <2>1 DEF TokensGone
<1>11. HandledInv'
  BY <1>5, <1>9, <1>10 DEF IInv, HandledInv, Unanswered
<1>12. LateReady'
  <2>1. CASE late = NoLate
    BY <1>5, <2>1 DEF LateReady
  <2>2. CASE late # NoLate
    <3>1. Ready(late.update, late.claims) /\ late.update \in 1..Len(updates)
      BY <2>2 DEF IInv, LoopInv, LateReady, Ready
    <3>2. late.update \in 1..Len(updates') /\ Unspent' = Unspent
      BY <1>3, <1>4, <1>5, <3>1 DEF Unspent
    <3>3. Again(late.update)' = Again(late.update)
      BY <1>5 DEF Again
    <3> QED BY <1>5, <1>7, <3>1, <3>2, <3>3 DEF LateReady, Ready
  <2> QED BY <2>1, <2>2
<1>13. InReach' /\ WorksOn'
  <2>1. fetcher.works => Current \in 1..Len(updates)
    BY <1>4 DEF IInv, TypeOK, LoopInv, WorksOn, Pending, Current
  <2> QED BY <1>1, <1>3, <1>4, <1>5, <1>7, <2>1 DEF IInv, LoopInv, InReach, WorksOn, Again,
       Pending, Current
<1>14. JoinedStart' /\ Confirmed'
  <2>1. \A t \in Tokens : \A u \in joined[t] : u \in 1..Len(updates)
    BY <1>8 DEF IInv, InviteInv, JoinedStart, TypeOK
  <2>2. JoinedStart'
    BY <1>5, <1>7, <2>1 DEF IInv, InviteInv, JoinedStart
  <2>3. ASSUME NEW u \in UpdateIds, published[u] # 0 PROVE updates'[u] = updates[u]
    <3>1. u <= cursor
      BY <1>4, <2>3 DEF IInv, HandledInv, Unanswered, UpdateIds
    <3> QED BY <1>3, <1>8, <3>1
  <2> QED BY <1>5, <2>2, <2>3 DEF IInv, InviteInv, Confirmed, Spends
<1>15. LocksHold' /\ InviteInv'
  BY <1>5, <1>14 DEF IInv, LocksHold, InviteInv, SpentIsUsed, JoinedOnce, OneUnspent, Unspent
<1> QED BY <1>6, <1>11, <1>12, <1>13, <1>15 DEF IInv, LoopInv

\* What handle_update changes: an invitation only with a confirmation of a reply that was
\* not given, and the outbox otherwise only for a command.
Spent(u) ==
  /\ TokenOf(u) \in Tokens
  /\ invite' = [invite EXCEPT ![TokenOf(u)] = "used"]
  /\ joined' = [joined EXCEPT ![TokenOf(u)] = @ \cup {u}]
  /\ reply' = [reply EXCEPT ![u] = "confirmed"]
  /\ published' = [published EXCEPT ![u] = 1]

Answered(u) ==
  /\ UNCHANGED <<invite, joined>>
  /\ reply' \in [UpdateIds -> Replies] /\ published' \in [UpdateIds -> Nat]
  /\ \A v \in UpdateIds : reply'[v] = "confirmed" <=> reply[v] = "confirmed"
  /\ \A v \in UpdateIds \ {u} : reply'[v] = reply[v] /\ published'[v] = published[v]
  /\ published'[u] # published[u] => updates[u].text.command = "command"

LEMMA HandleEffect ==
  ASSUME IInv, NEW u, NEW claims \in BOOLEAN, Ready(u, claims), HandleUpdate(u, claims)
  PROVE  /\ subscribed' \subseteq Chats
         /\ claims => Spent(u)
         /\ ~claims => Answered(u)
<1>1. /\ u \in 1..Len(updates) /\ u \in UpdateIds /\ updates[u] \in Updates /\ cursor \in Nat
      /\ claims => Starts(u) /\ u = cursor + 1
  BY Counts DEF Ready
<1>2. updates[u].chat \in Chats /\ subscribed \subseteq Chats
  BY <1>1 DEF Updates, IInv, TypeOK
<1>3. reply \in [UpdateIds -> Replies] /\ published \in [UpdateIds -> Nat]
  BY DEF IInv, TypeOK, Replies
<1>4. ASSUME NEW r \in {"invalid", "stopped", "hint"}, Answer(u, r),
             UNCHANGED <<invite, joined, published>>
      PROVE  Answered(u)
  BY <1>1, <1>3, <1>4 DEF Answer, Answered, Replies
<1>5. CASE Starts(u) /\ Start(u, updates[u].chat, TokenOf(u), claims)
  <2>1. CASE claims
    <3>1. reply[u] = "none" /\ published[u] = 0 /\ TokenOf(u) \in Tokens
      BY <1>1, <1>5, <2>1, TokenTypes DEF IInv, HandledInv, Unanswered
    <3>2. Spent(u)
      BY <1>1, <1>3, <1>5, <2>1, <3>1 DEF Start, Answer, Publish, Spent
    <3> QED BY <1>2, <1>5, <2>1, <3>2 DEF Start
  <2>2. CASE ~claims
    BY <1>2, <1>4, <1>5, <2>2 DEF Start
  <2> QED BY <2>1, <2>2
<1>6. CASE /\ updates[u].text.command = "stop"
           /\ subscribed' = subscribed \ {updates[u].chat}
           /\ Answer(u, "stopped")
           /\ UNCHANGED <<invite, joined, published>>
  BY <1>1, <1>2, <1>4, <1>6 DEF Starts
<1>7. CASE /\ updates[u].text.command = "command"
           /\ Publish(u)
           /\ UNCHANGED <<invite, joined, subscribed, reply>>
  <2>1. Answered(u)
    BY <1>1, <1>3, <1>7 DEF Publish, Answered
  <2> QED BY <1>1, <1>2, <1>7, <2>1 DEF Starts
<1>8. CASE /\ updates[u].text.command = "other"
           /\ Answer(u, "hint")
           /\ UNCHANGED <<invite, joined, subscribed, published>>
  BY <1>1, <1>2, <1>4, <1>8 DEF Starts
<1> QED BY <1>5, <1>6, <1>7, <1>8 DEF HandleUpdate, Starts, TokenOf

\* A transaction that may commit keeps what was handled, answered and spent.
LEMMA HandledKeeps ==
  ASSUME IInv, NEW u, NEW claims \in BOOLEAN, Ready(u, claims), Addressable(u),
         HandleUpdate(u, claims), handled' = [handled EXCEPT ![u] = @ + 1], SaveCursor(u),
         UNCHANGED <<updates, issuing, overtaken>>
  PROVE  HandlingTypes' /\ HandledInv' /\ LocksHold' /\ InviteInv'
<1>1. /\ Len(updates) \in Nat /\ cursor \in Nat /\ cursor \in 0..Len(updates)
      /\ u \in 1..Len(updates) /\ u \in Nat \ {0} /\ u \in UpdateIds
      /\ u = cursor + 1 \/ Again(u)
      /\ \A v \in 1..Len(updates) : v \in UpdateIds
  BY Counts DEF Ready
<1>2. /\ cursor' = u /\ cursor' \in Nat /\ cursor' >= cursor /\ cursor' \in 0..Len(updates)'
      /\ \A v \in UpdateIds : v <= cursor' <=> v <= cursor \/ v = u
  BY <1>1 DEF SaveCursor, Again, UpdateIds
<1>3. handled' \in [UpdateIds -> Nat]
  BY <1>1 DEF IInv, TypeOK
<1>4. \A v \in UpdateIds : /\ Addressable(v)' = Addressable(v) /\ Starts(v)' = Starts(v)
                           /\ TokenOf(v)' = TokenOf(v)
  BY DEF Addressable, Starts, TokenOf
<1>5. HandledToCursor'
  <2>1. \A v \in UpdateIds : handled[v] \in Nat
                             /\ handled'[v] = IF v = u THEN handled[v] + 1 ELSE handled[v]
    BY <1>1 DEF IInv, TypeOK
  <2>2. \A v \in UpdateIds : /\ handled[v] > 0 <=> v <= cursor /\ Addressable(v)
                             /\ handled[v] <= IF v \in overtaken THEN 2 ELSE 1
    BY DEF IInv, HandledInv, HandledToCursor
  <2>3. handled[u] = 0 \/ (handled[u] = 1 /\ u \in overtaken)
    BY <1>1, <2>1, <2>2 DEF Again
  <2> QED BY <1>2, <1>4, <2>1, <2>2, <2>3 DEF HandledToCursor
<1>6. \A v \in UpdateIds : v > cursor' => v # u /\ reply[v] = "none" /\ published[v] = 0
  BY <1>1, <1>2 DEF IInv, HandledInv, Unanswered, UpdateIds
<1>7. ASSUME Spent(u), claims, subscribed' \subseteq Chats
      PROVE  HandlingTypes' /\ HandledInv' /\ LocksHold' /\ InviteInv'
  <2> DEFINE t == TokenOf(u)
  <2>1. /\ t \in Tokens
        /\ invite' = [invite EXCEPT ![t] = "used"]
        /\ joined' = [joined EXCEPT ![t] = @ \cup {u}]
        /\ reply' = [reply EXCEPT ![u] = "confirmed"]
        /\ published' = [published EXCEPT ![u] = 1]
    BY <1>7 DEF Spent
  <2>2. /\ Starts(u) /\ u = cursor + 1 /\ t \in Unspent
        /\ \A a \in Admins : t \notin issuing[a].locked
    BY <1>7 DEF Ready
  <2>3. joined[t] = {}
    BY <2>1, <2>2 DEF IInv, InviteInv, SpentIsUsed, Unspent
  <2>4. HandlingTypes'
    BY <1>1, <1>2, <1>3, <1>7, <2>1 DEF HandlingTypes, IInv, TypeOK, States, Replies
  <2>5. Unanswered'
    BY <1>1, <1>6, <2>1 DEF Unanswered, IInv, TypeOK
  <2>6. TokensGone'
    BY <1>1, <1>2, <1>4, <2>1 DEF TokensGone, IInv, TypeOK, HandledInv, TokenOf
  <2>7. Unspent' = Unspent \ {t}
    BY <2>1 DEF Unspent, IInv, TypeOK
  <2>8. LocksHold'
    BY <2>2, <2>7 DEF LocksHold, IInv
  <2>9. SpentIsUsed' /\ JoinedOnce'
    BY <2>1, <2>3 DEF SpentIsUsed, JoinedOnce, IInv, InviteInv, TypeOK
  <2>10. \A s \in Tokens : joined'[s] = IF s = t THEN {u} ELSE joined[s]
    BY <2>1, <2>3 DEF IInv, TypeOK
  <2>11. JoinedStart'
    <3>1. \A s \in Tokens : \A v \in joined'[s] : v = u \/ v \in joined[s]
      BY <2>10
    <3>2. \A s \in Tokens : \A v \in joined[s] : v \in UpdateIds /\ v <= cursor /\ Starts(v)
      BY DEF IInv, TypeOK, InviteInv, JoinedStart
    <3> QED BY <1>1, <1>2, <1>4, <2>2, <3>1, <3>2 DEF JoinedStart
  <2>12. Confirmed'
    <3>1. \A v \in UpdateIds : /\ reply'[v] = IF v = u THEN "confirmed" ELSE reply[v]
                               /\ published'[v] = IF v = u THEN 1 ELSE published[v]
      BY <1>1, <2>1 DEF IInv, TypeOK
    <3>2. \A v \in UpdateIds : Spends(v)' <=> v = u \/ Spends(v)
      BY <2>1, <2>3, <2>10 DEF Spends
    <3> QED BY <3>1, <3>2 DEF Confirmed, IInv, InviteInv
  <2>13. OneUnspent'
    BY <2>7 DEF OneUnspent, IInv, InviteInv
  <2> QED BY <1>5, <2>4, <2>5, <2>6, <2>8, <2>9, <2>11, <2>12, <2>13 DEF HandledInv, InviteInv
<1>8. ASSUME Answered(u), ~claims, subscribed' \subseteq Chats
      PROVE  HandlingTypes' /\ HandledInv' /\ LocksHold' /\ InviteInv'
  <2>1. UNCHANGED <<invite, joined>> /\ Unspent' = Unspent
    BY <1>8 DEF Answered, Unspent
  <2>2. HandlingTypes'
    BY <1>2, <1>3, <1>8 DEF Answered, HandlingTypes, IInv, TypeOK, States
  <2>3. Unanswered'
    BY <1>6, <1>8 DEF Unanswered, Answered
  <2>4. TokensGone'
    <3>1. Starts(u) => invite[TokenOf(u)] # "live"
      BY <1>8 DEF Ready
    <3> QED BY <1>1, <1>2, <1>4, <2>1, <3>1 DEF TokensGone, IInv, HandledInv
  <2>5. JoinedStart'
    <3>1. \A s \in Tokens : \A v \in joined[s] : v \in UpdateIds /\ v <= cursor /\ Starts(v)
      BY DEF IInv, TypeOK, InviteInv, JoinedStart
    <3> QED BY <1>2, <1>4, <2>1, <3>1 DEF JoinedStart
  <2>6. Confirmed'
    <3>1. \A v \in UpdateIds : Spends(v)' = Spends(v)
      BY <2>1 DEF Spends
    <3>2. Spends(u) => Starts(u)
      BY DEF Spends, IInv, InviteInv, JoinedStart
    <3>3. \A v \in UpdateIds : /\ reply'[v] = "confirmed" <=> reply[v] = "confirmed"
                               /\ v # u => published'[v] = published[v]
      BY <1>8 DEF Answered
    <3>4. published'[u] # published[u] => updates[u].text.command = "command" /\ ~Spends(u)
      BY <1>8, <3>2 DEF Answered, Starts
    <3>5. \A v \in UpdateIds :
            /\ reply'[v] = "confirmed" <=> Spends(v)
            /\ Spends(v) => published'[v] = 1
            /\ ~Spends(v) => published'[v] = 0 \/ updates[v].text.command = "command"
      BY <3>3, <3>4 DEF Confirmed, IInv, InviteInv
    <3> QED BY <3>1, <3>5 DEF Confirmed
  <2> QED BY <1>5, <2>1, <2>2, <2>3, <2>4, <2>5, <2>6
          DEF HandledInv, IInv, LocksHold, InviteInv, SpentIsUsed, JoinedOnce, OneUnspent
<1> QED BY <1>7, <1>8, HandleEffect

\* The same of an update without an addressee, which moves the cursor at most.
LEMMA PassedOver ==
  ASSUME IInv, NEW u, NEW claims, Ready(u, claims), ~Addressable(u), SaveCursor(u),
         UNCHANGED <<subscribed, invite, joined, handled, reply, published, updates, issuing,
                     overtaken>>
  PROVE  HandlingTypes' /\ HandledInv' /\ LocksHold' /\ InviteInv'
<1>1. /\ Len(updates) \in Nat /\ cursor \in Nat /\ cursor \in 0..Len(updates)
      /\ u \in 1..Len(updates) /\ u \in Nat \ {0} /\ u <= cursor + 1
      /\ \A v \in 1..Len(updates) : v \in UpdateIds
  BY Counts DEF Ready
<1>2. /\ cursor' \in Nat /\ cursor' >= cursor /\ cursor' \in 0..Len(updates)'
      /\ \A v \in UpdateIds : v <= cursor' => v <= cursor \/ v = u
      /\ \A v \in UpdateIds : v <= cursor => v <= cursor'
  BY <1>1 DEF SaveCursor, UpdateIds
<1>3. \A v \in UpdateIds : /\ Addressable(v)' = Addressable(v) /\ Starts(v)' = Starts(v)
                           /\ TokenOf(v)' = TokenOf(v)
  BY DEF Addressable, Starts, TokenOf
<1>4. HandlingTypes'
  BY <1>2 DEF HandlingTypes, IInv, TypeOK, States, Replies
<1>5. Unanswered'
  <2>1. \A v \in UpdateIds : v > cursor' => v > cursor
    BY <1>1, <1>2 DEF UpdateIds
  <2> QED BY <2>1 DEF Unanswered, IInv, HandledInv
<1>6. HandledToCursor'
  BY <1>2, <1>3 DEF HandledToCursor, IInv, HandledInv
<1>7. TokensGone'
  <2>1. ~Starts(u)
    BY DEF Starts, Addressable
  <2> QED BY <1>1, <1>2, <1>3, <2>1 DEF TokensGone, IInv, HandledInv
<1>8. JoinedStart'
  <2>1. \A s \in Tokens : \A v \in joined[s] : v \in UpdateIds /\ v <= cursor /\ Starts(v)
    BY DEF IInv, TypeOK, InviteInv, JoinedStart
  <2> QED BY <1>2, <1>3, <2>1 DEF JoinedStart
<1>9. LocksHold' /\ SpentIsUsed' /\ JoinedOnce' /\ Confirmed' /\ OneUnspent'
  BY DEF IInv, InviteInv, LocksHold, SpentIsUsed, JoinedOnce, Confirmed, Spends, OneUnspent, Unspent
<1> QED BY <1>4, <1>5, <1>6, <1>7, <1>8, <1>9 DEF HandledInv, InviteInv

\* The cursor goes up to the update that is committed, and not back; the update is then
\* handled once, unless it was handled before.
LEMMA CommitKeeps ==
  ASSUME IInv, NEW u, NEW claims \in BOOLEAN, Ready(u, claims), CommitUpdate(u, claims),
         UNCHANGED <<updates, issuing, overtaken>>
  PROVE  /\ HandlingTypes' /\ HandledInv' /\ LocksHold' /\ InviteInv'
         /\ cursor' \in Nat /\ cursor' >= cursor /\ cursor' >= u
         /\ cursor' = cursor \/ cursor' = u
         /\ Addressable(u) /\ u = cursor + 1 => handled'[u] = 1
<1>1. cursor \in Nat /\ u \in 1..Len(updates) /\ u \in UpdateIds /\ u \in Nat
  BY Counts DEF Ready
<1>2. CASE /\ Addressable(u) /\ HandleUpdate(u, claims)
           /\ handled' = [handled EXCEPT ![u] = @ + 1] /\ SaveCursor(u)
  <2>1. HandlingTypes' /\ HandledInv' /\ LocksHold' /\ InviteInv'
    BY <1>2, HandledKeeps
  <2>2. u = cursor + 1 => handled[u] = 0
    BY <1>1 DEF IInv, HandledInv, HandledToCursor, TypeOK
  <2> QED BY <1>1, <1>2, <2>1, <2>2 DEF SaveCursor, IInv, TypeOK
<1>3. CASE /\ ~Addressable(u) /\ UNCHANGED <<subscribed, invite, joined, handled, reply, published>>
           /\ SaveCursor(u)
  <2>1. HandlingTypes' /\ HandledInv' /\ LocksHold' /\ InviteInv'
    BY <1>3, PassedOver
  <2> QED BY <1>1, <1>3, <2>1 DEF SaveCursor
<1> QED BY <1>2, <1>3 DEF CommitUpdate
-----------------------------------------------------------------------------
\* Nothing that the loop's part of the invariant does not mention.
Still == UNCHANGED <<subscribed, inviteVars, updates, answerVars>>

LEMMA StillKeeps ==
  ASSUME IInv, Still, overtaken \subseteq overtaken'
  PROVE  HandlingTypes' /\ HandledInv' /\ LocksHold' /\ InviteInv'
<1>1. UNCHANGED <<subscribed, invite, issuing, joined, updates, cursor, handled, reply, published>>
  BY DEF Still, inviteVars, answerVars
<1>2. HandlingTypes'
  BY <1>1 DEF HandlingTypes, IInv, TypeOK, States, Replies
<1>3. Unanswered' /\ TokensGone'
  BY <1>1 DEF IInv, HandledInv, Unanswered, TokensGone, Starts, TokenOf
<1>4. LocksHold'
  BY <1>1 DEF IInv, LocksHold, Unspent
<1>5. InviteInv'
  BY <1>1 DEF IInv, InviteInv, SpentIsUsed, JoinedStart, JoinedOnce, Confirmed, Spends, OneUnspent,
     Unspent, Starts
<1>6. HandledToCursor'
  BY <1>1, overtaken \subseteq overtaken' DEF IInv, TypeOK, HandledInv, HandledToCursor, Addressable
<1> QED BY <1>2, <1>3, <1>4, <1>5, <1>6 DEF HandledInv

Fetchers == [next : Nat \ {0}, last : 0..Len(updates), works : BOOLEAN]
Lates == [update : 0..Len(updates), claims : BOOLEAN]

\* What the loop's own variables have to be for the rest of the invariant to hold.
LEMMA LoopTypes ==
  ASSUME IInv, UNCHANGED <<updates, issuing>>, HandlingTypes', HandledInv', LocksHold', InviteInv',
         fetcher' \in Fetchers, late' \in Lates, overtaken' \subseteq UpdateIds,
         faults' \in 0..MaxFaults, LateReady', WorksOn',
         fetcher'.next <= fetcher'.last => fetcher'.next <= cursor' + 1
  PROVE  IInv'
<1>1. TypeOK'
  BY DEF IInv, TypeOK, HandlingTypes, States, Replies, Fetchers, Lates
<1>2. InReach'
  BY DEF IInv, LoopInv, InReach, Pending, Current
<1> QED BY <1>1, <1>2 DEF IInv, LoopInv

\* The fetch starts again after the cursor.
LEMMA FetchKeeps ==
  ASSUME IInv, FetchUpdates
  PROVE  IInv'
<1>1. /\ fetcher' = [next |-> cursor + 1, last |-> Len(updates), works |-> FALSE]
      /\ UNCHANGED <<late, overtaken, faults, issuing>> /\ Still
  BY DEF FetchUpdates, Still, inviteVars
<1>2. HandlingTypes' /\ HandledInv' /\ LocksHold' /\ InviteInv'
  BY <1>1, overtaken \subseteq overtaken', StillKeeps
<1>3. fetcher' \in Fetchers /\ fetcher'.next <= cursor' + 1
  BY <1>1, Counts DEF Fetchers, Still, answerVars
<1>4. LateReady' /\ WorksOn'
  BY <1>1 DEF IInv, LoopInv, LateReady, WorksOn, Ready, Addressable, Again, Starts, TokenOf,
     Unspent, Still, inviteVars, answerVars
<1> QED BY <1>1, <1>2, <1>3, <1>4, LoopTypes DEF IInv, TypeOK, Lates, Still

\* The cursor that accept_update reads may be one whose COMMIT on its way moves.
LEMMA LooksKeeps ==
  ASSUME IInv, FetcherLooks
  PROVE  IInv'
<1>1. /\ Pending /\ Addressable(Current) /\ ~fetcher.works /\ Still
      /\ UNCHANGED <<late, faults, issuing>> /\ overtaken \subseteq overtaken'
  BY DEF FetcherLooks, Still, inviteVars
<1>2. HandlingTypes' /\ HandledInv' /\ LocksHold' /\ InviteInv'
  BY <1>1, overtaken \subseteq overtaken', StillKeeps
<1>3. /\ Current \in Nat \ {0} /\ fetcher.last \in 0..Len(updates) /\ cursor \in Nat
      /\ Len(updates) \in Nat /\ fetcher \in Fetchers /\ Current <= cursor + 1
      /\ Current \in UpdateIds
  <2>1. /\ Current \in Nat \ {0} /\ fetcher.last \in 0..Len(updates) /\ fetcher \in Fetchers
        /\ Current <= cursor + 1 /\ Current <= fetcher.last
    BY <1>1 DEF IInv, TypeOK, Fetchers, Current, LoopInv, InReach, Pending
  <2>2. Current \in 1..Len(updates)
    BY <2>1, Counts
  <2> QED BY <2>1, <2>2, Counts
<1>4. cursor' = cursor /\ updates' = updates /\ handled' = handled
  BY <1>1 DEF Still, answerVars
<1>6. LateReady'
  BY <1>1 DEF IInv, LoopInv, LateReady, Ready, Addressable, Again, Starts, TokenOf, Unspent,
     Still, inviteVars, answerVars
<1>7. CASE AlreadyHandled(Current) /\ fetcher' = Turned /\ UNCHANGED overtaken
  <2>1. fetcher' \in Fetchers /\ ~fetcher'.works /\ fetcher'.next = Current + 1
    BY <1>3, <1>4, <1>7 DEF Turned, Current, Fetchers
  <2>2. fetcher'.next <= cursor' + 1
    BY <1>3, <1>4, <1>7, <2>1 DEF AlreadyHandled
  <2> QED BY <1>1, <1>2, <1>6, <1>7, <2>1, <2>2, LoopTypes DEF WorksOn, IInv, TypeOK, Lates, Still
<1>8. CASE /\ ~AlreadyHandled(Current) /\ fetcher' = [fetcher EXCEPT !.works = TRUE]
           /\ overtaken' = overtaken \cup ({Current} \cap {late.update})
  <2>1. /\ fetcher' \in Fetchers /\ fetcher'.next = Current /\ fetcher'.last = fetcher.last
        /\ overtaken' \subseteq UpdateIds
    BY <1>3, <1>4, <1>8 DEF Fetchers, Current, IInv, TypeOK
  <2>2. Current = cursor + 1
    BY <1>3, <1>8 DEF AlreadyHandled
  <2>3. WorksOn'
    <3>1. /\ Current' = Current /\ Pending' /\ Addressable(Current)' /\ cursor' = cursor
      BY <1>1, <1>4, <2>1 DEF Pending, Current, Addressable
    <3>2. late' = late /\ (late.update = Current => Current \in overtaken')
      BY <1>1, <1>8
    <3> QED BY <2>2, <3>1, <3>2 DEF WorksOn
  <2> QED BY <1>1, <1>2, <1>3, <1>4, <1>6, <2>1, <2>2, <2>3, LoopTypes
          DEF IInv, TypeOK, Lates, Still
<1> QED BY <1>7, <1>8 DEF FetcherLooks

\* A transaction that has done its work may commit.
LEMMA DoneIsReady ==
  ASSUME IInv, WorkDone
  PROVE  Ready(Current, Claims(Current)) /\ Claims(Current) \in BOOLEAN
<1>1. Current \in 1..Len(updates) /\ Current <= cursor + 1
  BY Counts DEF WorkDone, Pending, Current, IInv, TypeOK, LoopInv, InReach
<1>2. Addressable(Current) => Current = cursor + 1 \/ Again(Current)
  BY DEF WorkDone, IInv, LoopInv, WorksOn
<1>3. Claims(Current) <=> Starts(Current) /\ invite[TokenOf(Current)] = "live"
  BY DEF Claims, Claimable, Starts, TokenOf
<1>4. ASSUME Claims(Current)
      PROVE  /\ Starts(Current) /\ Current = cursor + 1 /\ TokenOf(Current) \in Unspent
             /\ \A a \in Admins : TokenOf(Current) \notin issuing[a].locked
  <2>1. Starts(Current) /\ invite[TokenOf(Current)] = "live" /\ TokenOf(Current) \in Tokens
    BY <1>1, <1>3, <1>4, TokenTypes
  <2>2. ~(Current <= cursor)
    BY <1>1, <2>1 DEF IInv, HandledInv, TokensGone
  <2>3. Current = cursor + 1
    BY <1>1, <2>2, Counts
  <2>4. \A a \in Admins : TokenOf(Current) \notin issuing[a].locked
    BY DEF WorkDone, Locked, TokenOf
  <2> QED BY <2>1, <2>3, <2>4 DEF Unspent
<1> QED BY <1>1, <1>2, <1>3, <1>4 DEF Ready, Claims

LEMMA FetcherCommitKeeps ==
  ASSUME IInv, FetcherCommits
  PROVE  IInv'
<1>1. /\ WorkDone /\ Pending /\ late = NoLate
      /\ CommitUpdate(Current, Claims(Current)) /\ fetcher' = Turned
      /\ UNCHANGED <<issuing, updates, late, overtaken, faults>>
  BY DEF FetcherCommits, WorkDone
<1>2. Ready(Current, Claims(Current)) /\ Claims(Current) \in BOOLEAN
  BY <1>1, DoneIsReady
<1>3. /\ HandlingTypes' /\ HandledInv' /\ LocksHold' /\ InviteInv'
      /\ cursor' \in Nat /\ cursor' >= Current
  BY <1>1, <1>2, CommitKeeps
<1>4. fetcher \in Fetchers /\ Current \in Nat \ {0} /\ updates' = updates
  BY <1>1 DEF IInv, TypeOK, Fetchers, Current
<1>5. /\ fetcher' \in Fetchers /\ ~fetcher'.works /\ fetcher'.next = Current + 1
  BY <1>1, <1>4 DEF Turned, Fetchers, Current
<1>6. fetcher'.next <= cursor' + 1
  <2>1. cursor' \in Nat /\ Current \in Nat /\ cursor' >= Current /\ fetcher'.next = Current + 1
    BY <1>3, <1>4, <1>5
  <2>2. \A i, j \in Nat : i >= j => j + 1 <= i + 1
    OBVIOUS
  <2> QED BY <2>1, <2>2
<1>7. LateReady' /\ WorksOn'
  BY <1>1, <1>5 DEF LateReady, WorksOn
<1> QED BY <1>1, <1>3, <1>5, <1>6, <1>7, LoopTypes DEF IInv, TypeOK, Lates

\* What is dropped is fetched again; what was done of it may still be committed.
LEMMA DroppedKeeps ==
  ASSUME IInv, FetcherFails \/ FetcherReplaced
  PROVE  IInv'
<1>1. /\ Pending /\ fetcher' = Dropped /\ Still /\ UNCHANGED <<overtaken, issuing>>
      /\ faults < MaxFaults /\ faults' = faults + 1
      /\ late' = late \/ (WorkDone /\ late' = [update |-> Current, claims |-> Claims(Current)])
  BY DEF FetcherFails, FetcherReplaced, WorkDone, Fault, Still, inviteVars
<1>2. HandlingTypes' /\ HandledInv' /\ LocksHold' /\ InviteInv'
  BY <1>1, overtaken \subseteq overtaken', StillKeeps
<1>3. /\ fetcher \in Fetchers /\ fetcher.last \in Nat /\ Len(updates) \in Nat
      /\ updates' = updates /\ faults' \in 0..MaxFaults
  BY <1>1, Counts, BoundsAssumption DEF IInv, TypeOK, Fetchers, Still
<1>4. fetcher' \in Fetchers /\ ~fetcher'.works /\ ~(fetcher'.next <= fetcher'.last)
  BY <1>1, <1>3 DEF Dropped, Fetchers
<1>5. WorksOn'
  BY <1>4 DEF WorksOn
<1>6. \A u, claims : Ready(u, claims) => Ready(u, claims)'
  BY <1>1 DEF Ready, Addressable, Again, Starts, TokenOf, Unspent, Still, inviteVars, answerVars
<1>7. CASE late' = late
  <2>1. LateReady'
    BY <1>6, <1>7 DEF IInv, LoopInv, LateReady
  <2> QED BY <1>1, <1>2, <1>3, <1>4, <1>5, <1>7, <2>1, LoopTypes DEF IInv, TypeOK, Lates, Still
<1>8. CASE WorkDone /\ late' = [update |-> Current, claims |-> Claims(Current)]
  <2>1. Ready(Current, Claims(Current)) /\ Claims(Current) \in BOOLEAN
    BY <1>8, DoneIsReady
  <2>2. Current \in 1..Len(updates)
    BY <2>1 DEF Ready
  <2>3. late' \in Lates
    BY <1>3, <1>8, <2>1, <2>2 DEF Lates
  <2>4. late'.update = Current /\ late'.claims = Claims(Current)
    BY <1>8
  <2>5. LateReady'
    BY <1>6, <2>1, <2>4 DEF LateReady
  <2> QED BY <1>1, <1>2, <1>3, <1>4, <1>5, <2>3, <2>5, LoopTypes DEF IInv, TypeOK, Still
<1> QED BY <1>1, <1>7, <1>8

\* A COMMIT that arrives late: whoever has taken its update up since knows it as overtaken.
LEMMA LateKeeps ==
  ASSUME IInv, LateCommit
  PROVE  IInv'
<1> DEFINE u == late.update
<1>1. /\ late # NoLate /\ late' = NoLate /\ CommitUpdate(u, late.claims)
      /\ UNCHANGED <<issuing, updates, fetcher, overtaken, faults>>
  BY DEF LateCommit
<1>2. Ready(u, late.claims) /\ late.claims \in BOOLEAN
  BY <1>1 DEF IInv, TypeOK, LoopInv, LateReady
<1>3. /\ HandlingTypes' /\ HandledInv' /\ LocksHold' /\ InviteInv'
      /\ cursor' \in Nat /\ cursor' >= cursor
      /\ cursor' = cursor \/ cursor' = u
      /\ Addressable(u) /\ u = cursor + 1 => handled'[u] = 1
  BY <1>1, <1>2, CommitKeeps
<1>4. /\ cursor \in Nat /\ Len(updates) \in Nat /\ u \in Nat /\ u <= cursor + 1
      /\ fetcher \in Fetchers /\ late' \in Lates
  BY <1>1, <1>2, Counts DEF Ready, IInv, TypeOK, Fetchers, Lates, NoLate
<1>5. fetcher'.next <= fetcher'.last => fetcher'.next <= cursor' + 1
  BY <1>1, <1>3, <1>4 DEF IInv, LoopInv, InReach, Pending, Current, Fetchers
<1>6. WorksOn'
  <2>1. CASE ~fetcher.works
    BY <1>1, <2>1 DEF WorksOn
  <2>2. CASE fetcher.works
    <3>1. /\ Pending /\ Addressable(Current) /\ Current = cursor + 1 /\ Current \in Nat \ {0}
          /\ u = Current => Current \in overtaken
      BY <1>1, <2>2 DEF IInv, LoopInv, WorksOn, TypeOK, Current
    <3>2. /\ Pending' /\ Addressable(Current)' /\ Current' = Current
          /\ late'.update = 0
      BY <1>1, <3>1 DEF Pending, Current, Addressable, NoLate
    <3>3. CASE cursor' = cursor
      BY <1>1, <3>1, <3>2, <3>3 DEF WorksOn
    <3>4. CASE cursor' = u /\ cursor' # cursor
      <4>1. u = Current
        BY <1>3, <1>4, <3>1, <3>4
      <4>2. Again(Current)'
        BY <1>1, <1>3, <3>1, <3>2, <3>4, <4>1 DEF Again
      <4> QED BY <1>1, <3>1, <3>2, <4>2 DEF WorksOn
    <3> QED BY <1>3, <3>3, <3>4
  <2> QED BY <2>1, <2>2
<1>7. LateReady'
  BY <1>1 DEF LateReady
<1> QED BY <1>1, <1>3, <1>4, <1>5, <1>6, <1>7, LoopTypes DEF IInv, TypeOK, Fetchers

LEMMA LostKeeps ==
  ASSUME IInv, LateLost
  PROVE  IInv'
<1>1. /\ late' = NoLate /\ Still /\ UNCHANGED <<issuing, fetcher, overtaken, faults>>
  BY DEF LateLost, Still, inviteVars
<1>2. HandlingTypes' /\ HandledInv' /\ LocksHold' /\ InviteInv'
  BY <1>1, overtaken \subseteq overtaken', StillKeeps
<1>3. LateReady' /\ late' \in Lates /\ UNCHANGED <<cursor, updates, handled>>
  BY <1>1, Counts DEF LateReady, Lates, NoLate, Still, answerVars
<1>4. WorksOn'
  <2>1. fetcher.works => Current # 0
    BY DEF IInv, TypeOK, Current
  <2> QED BY <1>1, <1>3, <2>1 DEF IInv, LoopInv, WorksOn, Pending, Current, Addressable, Again, NoLate
<1>5. fetcher'.next <= fetcher'.last => fetcher'.next <= cursor' + 1
  BY <1>1, <1>3 DEF IInv, LoopInv, InReach, Pending, Current
<1> QED BY <1>1, <1>2, <1>3, <1>4, <1>5, LoopTypes DEF IInv, TypeOK, Fetchers

\* No step breaks the invariant.
LEMMA NextKeeps == IInv /\ [Next]_vars => IInv'
<1> SUFFICES ASSUME IInv, [Next]_vars PROVE IInv'
  OBVIOUS
<1>1. ASSUME NEW a \in Admins, RevokeInvites(a) \/ AddInvite(a) PROVE IInv'
  BY <1>1, RevokeKeeps, AddKeeps
<1>2. ASSUME NEW t \in Tokens, InviteExpires(t) PROVE IInv'
  BY <1>2, ExpiryKeeps
<1>3. ASSUME subscribed' \subseteq Chats, UNCHANGED <<inviteVars, updates, loopVars, answerVars>>
      PROVE  IInv'
  BY <1>3 DEF IInv, TypeOK, LoopInv, InReach, LateReady, WorksOn, Ready, Pending, Current,
     Addressable, Again, Starts, TokenOf, HandledInv, Unanswered, HandledToCursor, TokensGone,
     LocksHold, InviteInv, SpentIsUsed, JoinedStart, JoinedOnce, Confirmed, Spends, OneUnspent,
     Unspent, inviteVars, loopVars, answerVars
<1>4. ASSUME NEW chat \in Chats, ChatGone(chat) PROVE IInv'
  BY <1>3, <1>4 DEF ChatGone, IInv, TypeOK
<1>5. ASSUME NEW chat \in Chats, NEW text \in Texts, UserWrites(chat, text) PROVE IInv'
  BY <1>5, WriteKeeps
<1>6. CASE Fetch \/ FetcherFails \/ FetcherReplaced \/ LateEnds
  BY <1>6, FetchKeeps, LooksKeeps, FetcherCommitKeeps, DroppedKeeps, LateKeeps, LostKeeps
     DEF Fetch, LateEnds
<1>7. CASE UNCHANGED vars
  BY <1>3, <1>7 DEF vars, IInv, TypeOK
<1> QED BY <1>1, <1>2, <1>4, <1>5, <1>6, <1>7 DEF Next

THEOREM Invariant == Spec => []IInv
<1> QED BY InitHolds, NextKeeps, PTL DEF Spec
-----------------------------------------------------------------------------
\* The tables, the invitations on their way and the loop keep their types.
THEOREM TypeCorrect == Spec => []TypeOK
<1>1. IInv => TypeOK
  BY DEF IInv
<1> QED BY <1>1, Invariant, PTL

\* Whatever fails, is replaced or commits late, the updates up to the cursor are handled
\* and none after it, each in one transaction, or in two if a fetcher took it up while its
\* COMMIT was on its way.
THEOREM HandledInOrder == Spec => []HandledToCursor
<1>1. IInv => HandledToCursor
  BY DEF IInv, HandledInv
<1> QED BY <1>1, Invariant, PTL

\* However updates are repeated and administrators revoke meanwhile, an invitation
\* subscribes for one update, and that one is confirmed and published once.
THEOREM SpentOnce == Spec => []InviteSpentOnce
<1>1. IInv => InviteSpentOnce
  <2> HAVE IInv
  <2>1. ASSUME NEW t \in Tokens PROVE Cardinality(joined[t]) <= 1
    <3>1. joined[t] = {} \/ \E u \in joined[t] : joined[t] = {u}
      BY <2>1 DEF IInv, InviteInv, JoinedOnce
    <3>2. CASE joined[t] = {}
      <4>1. Cardinality(joined[t]) = 0
        BY <3>2, FS_EmptySet
      <4> QED BY <4>1
    <3>3. ASSUME NEW u \in joined[t], joined[t] = {u} PROVE Cardinality(joined[t]) <= 1
      <4>1. Cardinality({u}) = 1
        BY FS_Singleton
      <4> QED BY <3>3, <4>1
    <3> QED BY <3>1, <3>2, <3>3
  <2> QED BY <2>1 DEF InviteSpentOnce, IInv, InviteInv, Confirmed, Spends
<1> QED BY <1>1, Invariant, PTL

\* However many requests create invitations together, one is unspent at most.
THEOREM LinkUnique == Spec => []OneUnspentInvite
<1>1. IInv => OneUnspentInvite
  <2> HAVE IInv
  <2>1. Unspent = {} \/ \E t \in Unspent : Unspent = {t}
    BY DEF IInv, InviteInv, OneUnspent
  <2> QED BY <2>1, FS_EmptySet, FS_Singleton DEF OneUnspentInvite
<1> QED BY <1>1, Invariant, PTL
-----------------------------------------------------------------------------
\* EventDelivery starts with nothing recorded.
LEMMA PromiseInit == Init => Promise!Init
<1> SUFFICES ASSUME Init PROVE Promise!Init
  OBVIOUS
<1>1. 1..Len(updates) = {}
  BY EmptySeq DEF Init
<1>2. Settled = {}
  BY DEF Init, Settled, UpdateIds
<1> QED BY <1>1, <1>2 DEF Promise!Init

\* Settled are exactly the updates up to the cursor, which the relay holds.
SettledInOrder ==
  /\ Settled = 1..cursor /\ cursor \in Nat /\ Len(updates) \in Nat
  /\ 1..Len(updates) \subseteq UpdateIds

LEMMA SettledToCursor == IInv => SettledInOrder
<1> SUFFICES ASSUME IInv PROVE SettledInOrder
  OBVIOUS
<1>1. \A u \in UpdateIds : handled[u] > 0 <=> u <= cursor /\ Addressable(u)
  BY DEF IInv, HandledInv, HandledToCursor
<1>2. \A u \in UpdateIds : u \in Settled <=> u <= cursor
  BY <1>1 DEF Settled
<1>3. Settled \subseteq UpdateIds /\ 1..cursor \subseteq UpdateIds
  BY Counts DEF Settled, UpdateIds
<1>4. \A u \in UpdateIds : u \in 1..cursor <=> u <= cursor
  BY Counts DEF UpdateIds
<1> QED BY <1>2, <1>3, <1>4, Counts DEF SettledInOrder

\* A transaction that does not move the cursor settles nothing; one that does settles the
\* next update.
LEMMA CommitSettles ==
  ASSUME IInv, SettledInOrder, SettledInOrder', NEW u, NEW claims, Ready(u, claims),
         CommitUpdate(u, claims), UNCHANGED updates
  PROVE  [Promise!Next]_(Promise!vars)
<1>1. /\ Settled = 1..cursor /\ cursor \in Nat /\ Len(updates) \in Nat
      /\ 1..Len(updates) \subseteq UpdateIds /\ u \in 1..Len(updates) /\ u <= cursor + 1
  BY DEF SettledInOrder, Ready
<1>2. Settled' = 1..cursor'
  BY DEF SettledInOrder
<1>3. cursor' = cursor \/ (cursor' = u /\ u = cursor + 1)
  BY <1>1 DEF CommitUpdate, SaveCursor
<1>4. CASE cursor' = cursor
  BY <1>1, <1>2, <1>4 DEF Promise!vars
<1>5. CASE cursor' = u /\ u = cursor + 1
  <2>1. Settled' = Settled \cup {u}
    BY <1>1, <1>2, <1>5
  <2>2. u \in UpdateIds /\ u \notin Settled
    BY <1>1, <1>5
  <2>3. Promise!Settle(u)
    BY <1>1, <2>1, <2>2 DEF Promise!Settle
  <2> QED BY <2>2, <2>3 DEF Promise!Next
<1> QED BY <1>3, <1>4, <1>5

\* Every step writes an update, settles one that was written, or stutters.
LEMMA PromiseStep ==
  IInv /\ SettledInOrder /\ SettledInOrder' /\ [Next]_vars => [Promise!Next]_(Promise!vars)
<1> SUFFICES ASSUME IInv, SettledInOrder, SettledInOrder', [Next]_vars
             PROVE  [Promise!Next]_(Promise!vars)
  OBVIOUS
<1>1. /\ Settled = 1..cursor /\ Settled' = 1..cursor'
      /\ Len(updates) \in Nat /\ cursor \in Nat
      /\ (1..Len(updates))' \subseteq UpdateIds
  BY DEF SettledInOrder
<1>2. ASSUME UNCHANGED <<updates, cursor>> PROVE UNCHANGED Promise!vars
  BY <1>1, <1>2 DEF Promise!vars
<1>3. ASSUME NEW chat \in Chats, NEW text \in Texts, UserWrites(chat, text)
      PROVE  Promise!Record
  <2>1. updates' = Append(updates, [chat |-> chat, text |-> text]) /\ UNCHANGED cursor
    BY <1>3 DEF UserWrites, answerVars
  <2>2. updates \in Seq(Updates) /\ [chat |-> chat, text |-> text] \in Updates
    BY <1>3 DEF IInv, TypeOK, Updates
  <2>3. Len(updates') = Len(updates) + 1
    BY <2>1, <2>2, AppendProperties
  <2>4. 1..Len(updates) \subseteq 1..Len(updates')
    BY <1>1, <2>3
  <2> QED BY <1>1, <2>1, <2>4 DEF Promise!Record
<1>4. CASE FetcherCommits
  <2>1. WorkDone /\ CommitUpdate(Current, Claims(Current)) /\ UNCHANGED updates
    BY <1>4 DEF FetcherCommits
  <2>2. Ready(Current, Claims(Current))
    BY <2>1, DoneIsReady
  <2> QED BY <2>1, <2>2, CommitSettles
<1>5. CASE LateCommit
  <2>1. /\ Ready(late.update, late.claims) /\ CommitUpdate(late.update, late.claims)
        /\ UNCHANGED updates
    BY <1>5 DEF LateCommit, IInv, LoopInv, LateReady
  <2> QED BY <2>1, CommitSettles
<1>6. CASE \/ \E a \in Admins : RevokeInvites(a) \/ AddInvite(a)
           \/ \E t \in Tokens : InviteExpires(t)
           \/ \E chat \in Chats : ChatGone(chat)
           \/ FetchUpdates \/ FetcherLooks \/ FetcherFails \/ FetcherReplaced \/ LateLost
           \/ UNCHANGED vars
  <2>1. UNCHANGED <<updates, cursor>>
    BY <1>6 DEF RevokeInvites, AddInvite, InviteExpires, ChatGone, FetchUpdates, FetcherLooks,
                FetcherFails, FetcherReplaced, LateLost, vars, answerVars
  <2> QED BY <1>2, <2>1
<1> QED BY <1>3, <1>4, <1>5, <1>6 DEF Next, Fetch, LateEnds, Promise!Next

\* The loop implements the safety part of EventDelivery: transactions that fail, commit late
\* or come again settle one update each at most, in the order in which they were written.
THEOREM Implements == Spec => Promise!Init /\ [][Promise!Next]_(Promise!vars)
BY PromiseInit, PromiseStep, SettledToCursor, Invariant, PTL DEF Spec
=============================================================================
