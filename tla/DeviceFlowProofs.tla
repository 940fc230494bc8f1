-------------------------- MODULE DeviceFlowProofs --------------------------
(***************************************************************************)
(* Proofs about module DeviceFlow, for any number of requests,             *)
(* transactions, accounts, restarts and clock ticks: a transaction is      *)
(* approved only with all of its rows, a GitHub token is always on its way *)
(* to being revoked, and one request at most pairs a transaction.          *)
(***************************************************************************)
EXTENDS DeviceFlow, RowTheorems

USE DeviceFlowAssumption

(* What is left of the branches after their first calls.                   *)
ToAccess  == <<Store("access"), Store("refresh"), Update("approved"),
               MarkConsumed, Audit("device_flow_approved"), RevokeToken,
               Answer("approved")>>
ToRefresh == <<Store("refresh"), Update("approved"), MarkConsumed,
               Audit("device_flow_approved"), RevokeToken, Answer("approved")>>
ToUpdate  == <<Update("approved"), MarkConsumed, Audit("device_flow_approved"),
               RevokeToken, Answer("approved")>>
ToConsume == <<MarkConsumed, Audit("device_flow_approved"), RevokeToken,
               Answer("approved")>>
ToAudit   == <<Audit("device_flow_approved"), RevokeToken, Answer("approved")>>
ToRevoke  == <<RevokeToken, Answer("approved")>>

ToDeny         == <<Update("denied"), Answer("denied")>>
ToDenyAudited  == <<Update("denied"), Audit("device_flow_denied"),
                    Answer("denied")>>
ToAuditDenied  == <<Audit("device_flow_denied"), Answer("denied")>>
ToForbid       == <<Update("forbidden"), Audit("device_flow_forbidden"),
                    Answer("forbidden")>>
ToAuditForbidden == <<Audit("device_flow_forbidden"), Answer("forbidden")>>

(* All the rows of the transaction are stored; the handler holds the       *)
(* GitHub token of the transaction; it has sent its revocation.            *)
Paired   == {ToUpdate, ToConsume, ToAudit, ToRevoke}
Holding  == {<<UserEmails>>, EmailsFailed, NoPrimary, NotAllowed, StoreFailed,
             Approve, ToAccess, ToRefresh} \cup Paired
Released == {ToDeny, ToDenyAudited, ToAuditDenied, ToForbid, ToAuditForbidden}
Replies  == {<<Answer(s)>> : s \in Answers}
Slowing  == {SlowDown(i) : i \in 1..MaxInterval}
Paths    == {<<>>, <<Insertion>>, <<Poll>>, Expire}
              \cup Holding \cup Released \cup Replies \cup Slowing

(* The rows S that a handler with the calls todo ahead has stored.         *)
Progress(todo, S) ==
  /\ todo = ToAccess => "device" \in S
  /\ todo = ToRefresh => {"device", "access"} \subseteq S
  /\ todo \in Paired \cup {<<Answer("approved")>>, <<Answer("consumed")>>} =>
       S = RowKinds

(* What a handler with the local variables l may rely on; S, token, state  *)
(* and there (is there a row) are of its transaction.                      *)
HandlerOK(l, S, token, state, there) ==
  /\ l.todo \in Paths
  /\ l.todo # <<>> => l.tx \in Txns
  /\ Progress(l.todo, S)
  /\ l.todo = <<Poll>> => l.status \in {"pending", "slow_down"}
  /\ l.todo \in Holding => token = "held" /\ state = "used"
  /\ l.todo = <<Insertion>> => ~there /\ state # "none"

Handlers ==
  \A r \in Reqs :
    LET tx == req[r].tx
    IN  HandlerOK(req[r], stored[tx], tokens[tx], github[tx].state,
                  tx \in DOMAIN device_authorizations)

(* One request inserts a transaction, and one gets its token.              *)
OneEach ==
  \A q, r \in Reqs :
    q # r /\ req[q].tx = req[r].tx =>
      /\ req[q].todo = <<Insertion>> => req[r].todo # <<Insertion>>
      /\ req[q].todo \in Holding => req[r].todo \notin Holding

(* The token of a device code is not without a handler that holds it.      *)
Held ==
  \A tx \in Txns :
    tokens[tx] = "held" =>
      \E r \in Reqs : req[r].tx = tx /\ req[r].todo \in Holding

RowsKnown == \A tx \in DOMAIN device_authorizations : github[tx].state # "none"

(* ApprovedIsComplete for one transaction with rows S.                     *)
CompleteOK(S, told, recorded, table, tx) ==
  \/ S = RowKinds
  \/ /\ told \cap {"approved", "consumed"} = {}
     /\ ~recorded
     /\ tx \in DOMAIN table => ~table[tx].consumed /\ table[tx].status # "approved"

Complete ==
  \A tx \in Txns :
    CompleteOK(stored[tx], answers[tx],
               <<"device_flow_approved", tx>> \in audit_events,
               device_authorizations, tx)

FlowInv ==
  /\ TypeOK
  /\ Handlers
  /\ OneEach
  /\ Held
  /\ RowsKnown
  /\ Complete

-----------------------------------------------------------------------------
(* The calls of the branches, one after the other.                         *)
LEMMA Tails ==
  /\ Tail(Approve) = ToAccess /\ Tail(ToAccess) = ToRefresh
  /\ Tail(ToRefresh) = ToUpdate /\ Tail(ToUpdate) = ToConsume
  /\ Tail(ToConsume) = ToAudit /\ Tail(ToAudit) = ToRevoke
  /\ Tail(ToRevoke) = <<Answer("approved")>>
  /\ Tail(EmailsFailed) = ToDeny /\ Tail(ToDeny) = <<Answer("denied")>>
  /\ Tail(NoPrimary) = ToDenyAudited /\ Tail(ToDenyAudited) = ToAuditDenied
  /\ Tail(ToAuditDenied) = <<Answer("denied")>>
  /\ Tail(NotAllowed) = ToForbid /\ Tail(ToForbid) = ToAuditForbidden
  /\ Tail(ToAuditForbidden) = <<Answer("forbidden")>>
  /\ Tail(StoreFailed) = <<Answer("server_error")>>
  /\ Tail(Expire) = <<Answer("expired")>>
  /\ \A i \in 1..MaxInterval : Tail(SlowDown(i)) = <<Answer("slow_down")>>
BY DEF Approve, ToAccess, ToRefresh, ToUpdate, ToConsume, ToAudit, ToRevoke,
   EmailsFailed, ToDeny, NoPrimary, ToDenyAudited, ToAuditDenied, NotAllowed,
   ToForbid, ToAuditForbidden, StoreFailed, Expire, SlowDown

LEMMA Heads ==
  /\ Head(Approve) = Store("device") /\ Head(ToAccess) = Store("access")
  /\ Head(ToRefresh) = Store("refresh") /\ Head(ToUpdate) = Update("approved")
  /\ Head(ToConsume) = MarkConsumed
  /\ Head(ToAudit) = Audit("device_flow_approved")
  /\ Head(ToRevoke) = RevokeToken
  /\ Head(EmailsFailed) = RevokeToken /\ Head(ToDeny) = Update("denied")
  /\ Head(NoPrimary) = RevokeToken /\ Head(ToDenyAudited) = Update("denied")
  /\ Head(ToAuditDenied) = Audit("device_flow_denied")
  /\ Head(NotAllowed) = RevokeToken /\ Head(ToForbid) = Update("forbidden")
  /\ Head(ToAuditForbidden) = Audit("device_flow_forbidden")
  /\ Head(StoreFailed) = RevokeToken /\ Head(Expire) = Update("expired")
  /\ Head(<<UserEmails>>) = UserEmails /\ Head(<<Poll>>) = Poll
  /\ Head(<<Insertion>>) = Insertion
  /\ \A i \in 1..MaxInterval : Head(SlowDown(i)) = Interval(i)
  /\ \A s \in Answers : Head(<<Answer(s)>>) = Answer(s)
BY DEF Approve, ToAccess, ToRefresh, ToUpdate, ToConsume, ToAudit, ToRevoke,
   EmailsFailed, ToDeny, NoPrimary, ToDenyAudited, ToAuditDenied, NotAllowed,
   ToForbid, ToAuditForbidden, StoreFailed, Expire, SlowDown

LEMMA Names ==
  /\ Insertion[1] = "insert" /\ Poll[1] = "poll" /\ UserEmails[1] = "emails"
  /\ RevokeToken[1] = "revoke" /\ MarkConsumed[1] = "consume"
  /\ \A x : /\ Store(x)[1] = "store" /\ Store(x)[2] = x
            /\ Update(x)[1] = "update" /\ Update(x)[2] = x
            /\ Interval(x)[1] = "interval" /\ Interval(x)[2] = x
            /\ Audit(x)[1] = "audit" /\ Audit(x)[2] = x
            /\ Answer(x)[1] = "answer" /\ Answer(x)[2] = x
BY DEF Insertion, Poll, UserEmails, RevokeToken, MarkConsumed, Store, Update,
   Interval, Audit, Answer

(* Which branches are at a call.                                           *)
LEMMA AtCall ==
  ASSUME NEW t \in Paths, t # <<>>
  PROVE  /\ Head(t)[1] = "insert" => t = <<Insertion>>
         /\ Head(t)[1] = "poll" => t = <<Poll>>
         /\ Head(t)[1] = "emails" => t = <<UserEmails>>
         /\ Head(t)[1] = "revoke" =>
              t \in {EmailsFailed, NoPrimary, NotAllowed, StoreFailed, ToRevoke}
         /\ Head(t)[1] = "store" => t \in {Approve, ToAccess, ToRefresh}
         /\ Head(t)[1] = "update" =>
              t \in {Expire, ToUpdate, ToDeny, ToDenyAudited, ToForbid}
         /\ Head(t)[1] = "interval" => t \in Slowing
         /\ Head(t)[1] = "consume" => t = ToConsume
         /\ Head(t)[1] = "audit" =>
              t \in {ToAudit, ToAuditDenied, ToAuditForbidden}
         /\ Head(t)[1] = "answer" => t \in Replies
<1>1. CASE t \in {<<Insertion>>, <<Poll>>, <<UserEmails>>}
  BY <1>1, Heads, Names
<1>2. CASE t \in {EmailsFailed, NoPrimary, NotAllowed, StoreFailed, ToRevoke}
  BY <1>2, Heads, Names
<1>3. CASE t \in {Approve, ToAccess, ToRefresh}
  BY <1>3, Heads, Names
<1>4. CASE t \in {Expire, ToUpdate, ToDeny, ToDenyAudited, ToForbid}
  BY <1>4, Heads, Names
<1>5. CASE t \in {ToAudit, ToAuditDenied, ToAuditForbidden} \/ t = ToConsume
  BY <1>5, Heads, Names
<1>6. CASE t \in Slowing
  BY <1>6, Heads, Names DEF Slowing
<1>7. CASE t \in Replies
  BY <1>7, Heads, Names DEF Replies
<1> QED BY <1>1, <1>2, <1>3, <1>4, <1>5, <1>6, <1>7
        DEF Paths, Holding, Paired, Released

(* Every branch is a sequence of calls.                                    *)
LEMMA PathTypes == Paths \subseteq Seq(Calls)
<1>1. /\ Poll \in Calls /\ UserEmails \in Calls /\ RevokeToken \in Calls
      /\ MarkConsumed \in Calls /\ Insertion \in Calls
      /\ Store("device") \in Calls /\ Store("access") \in Calls
      /\ Store("refresh") \in Calls
  BY DEF Calls, RowKinds
<1>2. /\ Update("approved") \in Calls /\ Update("denied") \in Calls
      /\ Update("forbidden") \in Calls /\ Update("expired") \in Calls
  BY DEF Calls, Terminal
<1>3. /\ Audit("device_flow_approved") \in Calls
      /\ Audit("device_flow_denied") \in Calls
      /\ Audit("device_flow_forbidden") \in Calls
  BY DEF Calls, EventCodes
<1>4. /\ \A i \in 1..MaxInterval : Interval(i) \in Calls
      /\ \A s \in Answers : Answer(s) \in Calls
  BY DEF Calls
<1>5. \A s \in Terminal \cup {"slow_down", "server_error"} : s \in Answers
  BY DEF Answers, Statuses, Terminal
<1>6. /\ Answer("approved") \in Calls /\ Answer("denied") \in Calls
      /\ Answer("forbidden") \in Calls /\ Answer("expired") \in Calls
      /\ Answer("slow_down") \in Calls /\ Answer("server_error") \in Calls
  BY <1>4, <1>5 DEF Terminal
<1>7. {<<>>, <<Insertion>>, <<Poll>>, Expire} \subseteq Seq(Calls)
  BY <1>1, <1>2, <1>6 DEF Expire
<1>8. Paired \subseteq Seq(Calls)
  BY <1>1, <1>2, <1>3, <1>6 DEF Paired, ToUpdate, ToConsume, ToAudit, ToRevoke
<1>9. {<<UserEmails>>, EmailsFailed, NoPrimary, NotAllowed, StoreFailed}
        \subseteq Seq(Calls)
  BY <1>1, <1>2, <1>3, <1>6 DEF EmailsFailed, NoPrimary, NotAllowed, StoreFailed
<1>10. {Approve, ToAccess, ToRefresh} \subseteq Seq(Calls)
  BY <1>1, <1>2, <1>3, <1>6 DEF Approve, ToAccess, ToRefresh
<1>11. Released \subseteq Seq(Calls)
  BY <1>2, <1>3, <1>6 DEF Released, ToDeny, ToDenyAudited, ToAuditDenied,
     ToForbid, ToAuditForbidden
<1>12. Replies \subseteq Seq(Calls)
  <2>1. \A c \in Calls : <<c>> \in Seq(Calls)
    OBVIOUS
  <2> QED BY <1>4, <2>1 DEF Replies
<1>13. Slowing \subseteq Seq(Calls)
  <2>1. \A c, d \in Calls : <<c, d>> \in Seq(Calls)
    OBVIOUS
  <2> QED BY <1>4, <1>6, <2>1 DEF Slowing, SlowDown
<1> QED BY <1>7, <1>8, <1>9, <1>10, <1>11, <1>12, <1>13 DEF Paths, Holding

(* A handler that holds the token has a call ahead that needs it.          *)
TokenAhead(t) == \E i \in DOMAIN t : t[i] \in {UserEmails, RevokeToken}

LEMMA HoldingAhead == \A t \in Holding : TokenAhead(t)
<1>1. TokenAhead(<<UserEmails>>) /\ TokenAhead(EmailsFailed)
  BY DEF TokenAhead, EmailsFailed
<1>2. TokenAhead(NoPrimary) /\ TokenAhead(NotAllowed) /\ TokenAhead(StoreFailed)
  BY DEF TokenAhead, NoPrimary, NotAllowed, StoreFailed
<1>3. TokenAhead(Approve)
  <2>1. 7 \in DOMAIN Approve /\ Approve[7] = RevokeToken
    BY DEF Approve
  <2> QED BY <2>1 DEF TokenAhead
<1>4. TokenAhead(ToAccess)
  <2>1. 6 \in DOMAIN ToAccess /\ ToAccess[6] = RevokeToken
    BY DEF ToAccess
  <2> QED BY <2>1 DEF TokenAhead
<1>5. TokenAhead(ToRefresh)
  <2>1. 5 \in DOMAIN ToRefresh /\ ToRefresh[5] = RevokeToken
    BY DEF ToRefresh
  <2> QED BY <2>1 DEF TokenAhead
<1>6. TokenAhead(ToUpdate)
  <2>1. 4 \in DOMAIN ToUpdate /\ ToUpdate[4] = RevokeToken
    BY DEF ToUpdate
  <2> QED BY <2>1 DEF TokenAhead
<1>7. TokenAhead(ToConsume) /\ TokenAhead(ToAudit) /\ TokenAhead(ToRevoke)
  BY DEF TokenAhead, ToConsume, ToAudit, ToRevoke
<1> QED BY <1>1, <1>2, <1>3, <1>4, <1>5, <1>6, <1>7 DEF Holding, Paired

(* The other handlers have none.                                           *)
Free == {<<>>, <<Insertion>>, <<Poll>>, Expire} \cup Released \cup Replies
          \cup Slowing

LEMMA FreeOfTokens == \A t \in Free : t \notin Holding
<1>1. /\ Insertion # UserEmails /\ Insertion # RevokeToken
      /\ Poll # UserEmails /\ Poll # RevokeToken
      /\ \A x : /\ Update(x) # UserEmails /\ Update(x) # RevokeToken
                /\ Audit(x) # UserEmails /\ Audit(x) # RevokeToken
                /\ Answer(x) # UserEmails /\ Answer(x) # RevokeToken
                /\ Interval(x) # UserEmails /\ Interval(x) # RevokeToken
  BY Names
<1>2. \A t \in {<<>>, <<Insertion>>, <<Poll>>, Expire} : ~TokenAhead(t)
  BY <1>1 DEF TokenAhead, Expire
<1>3. \A t \in Released : ~TokenAhead(t)
  BY <1>1 DEF TokenAhead, Released, ToDeny, ToDenyAudited, ToAuditDenied,
     ToForbid, ToAuditForbidden
<1>4. \A t \in Replies : ~TokenAhead(t)
  BY <1>1 DEF TokenAhead, Replies
<1>5. \A t \in Slowing : ~TokenAhead(t)
  BY <1>1 DEF TokenAhead, Slowing, SlowDown
<1> QED BY <1>2, <1>3, <1>4, <1>5, HoldingAhead DEF Free

(* The paths on which nothing is known of the rows.                        *)
Early == {<<>>, <<Insertion>>, <<Poll>>, Expire, <<UserEmails>>, EmailsFailed,
          NoPrimary, NotAllowed, StoreFailed, Approve}
           \cup Released \cup Slowing
           \cup {<<Answer(s)>> : s \in Answers \ {"approved", "consumed"}}

LEMMA EarlyProgress ==
  ASSUME NEW t \in Early, NEW S
  PROVE  Progress(t, S)
<1>1. /\ <<>> # ToAccess /\ <<>> # ToRefresh /\ <<>> \notin Paired
      /\ <<>> # <<Answer("approved")>> /\ <<>> # <<Answer("consumed")>>
  BY DEF ToAccess, ToRefresh, Paired, ToUpdate, ToConsume, ToAudit, ToRevoke
<1>2. {"approved", "consumed"} \subseteq Answers
  BY DEF Answers, Statuses, Terminal
<1> DEFINE T == {ToAccess, ToRefresh, ToUpdate, ToConsume, ToAudit, ToRevoke,
                 <<Answer("approved")>>, <<Answer("consumed")>>}
<1>3. CASE t = <<>>
  BY <1>3, <1>1 DEF Progress
<1>4. CASE t \in {<<Insertion>>, <<Poll>>, Expire, <<UserEmails>>, Approve}
  <2>1. t \notin T
    BY <1>2, <1>4, Heads, Names
  <2> QED BY <2>1 DEF Progress, Paired
<1>5. CASE t \in Released
  <2>1. t \notin T
    BY <1>2, <1>5, Heads, Names DEF Released
  <2> QED BY <2>1 DEF Progress, Paired
<1>6. CASE t \in Slowing
  <2>1. t \notin T
    BY <1>2, <1>6, Heads, Names DEF Slowing
  <2> QED BY <2>1 DEF Progress, Paired
<1>7. ASSUME NEW s \in Answers \ {"approved", "consumed"}, t = <<Answer(s)>>
      PROVE  Progress(t, S)
  <2>1. t \notin T
    BY <1>2, <1>7, Heads, Names
  <2> QED BY <2>1 DEF Progress, Paired
<1>8. CASE t \in {EmailsFailed, NoPrimary, NotAllowed, StoreFailed}
  <2>1. Head(t) = RevokeToken
    BY <1>8, Heads
  <2>2. Head(Tail(t)) # Answer("approved")
    <3>1. CASE t \in {EmailsFailed, NoPrimary, NotAllowed}
      <4>1. Head(Tail(t)) = Update("denied") \/ Head(Tail(t)) = Update("forbidden")
        BY <3>1, Tails, Heads
      <4>2. /\ Update("denied") # Answer("approved")
            /\ Update("forbidden") # Answer("approved")
        BY DEF Update, Answer
      <4> QED BY <4>1, <4>2
    <3>2. CASE t = StoreFailed
      <4>1. "server_error" \in Answers
        BY DEF Answers
      <4>2. Head(Tail(t)) = Answer("server_error")
        BY <3>2, <4>1, Tails, Heads
      <4>3. Answer("server_error") # Answer("approved")
        BY Names
      <4> QED BY <4>2, <4>3
    <3> QED BY <1>8, <3>1, <3>2
  <2>3. Head(Tail(ToRevoke)) = Answer("approved")
    BY <1>2, Tails, Heads
  <2>4. t \notin T \ {ToRevoke}
    BY <1>2, <2>1, Heads, Names
  <2> QED BY <2>2, <2>3, <2>4 DEF Progress, Paired
<1> QED BY <1>3, <1>4, <1>5, <1>6, <1>7, <1>8 DEF Early

-----------------------------------------------------------------------------
(* What a handler relies on outlives the steps of others: rows are only    *)
(* added to a pairing, and a token stays with its holder.                  *)
LEMMA HandlerKept ==
  ASSUME NEW l, NEW S, NEW token, NEW state, NEW there,
         NEW S2, NEW token2, NEW state2, NEW there2,
         HandlerOK(l, S, token, state, there),
         S \subseteq S2, S2 \subseteq RowKinds,
         l.todo \in Holding => token2 = token /\ state2 = state,
         l.todo = <<Insertion>> => (there2 => there),
         state # "none" => state2 # "none"
  PROVE  HandlerOK(l, S2, token2, state2, there2)
<1>1. Progress(l.todo, S2)
  BY DEF HandlerOK, Progress
<1> QED BY <1>1 DEF HandlerOK

LEMMA RestingOK ==
  ASSUME NEW l, l.todo = <<>>, NEW S, NEW token, NEW state, NEW there
  PROVE  HandlerOK(l, S, token, state, there)
<1>1. <<>> \in Paths /\ <<>> \in Early /\ <<>> \in Free
  BY DEF Paths, Early, Free
<1>2. <<>> # <<Poll>> /\ <<>> # <<Insertion>>
  OBVIOUS
<1> QED BY <1>1, <1>2, EarlyProgress, FreeOfTokens DEF HandlerOK

(* Paths on which a handler relies on no more than its progress.           *)
LEMMA FreeOK ==
  ASSUME NEW l, l.todo \in {Expire} \cup Released \cup Replies \cup Slowing,
         l.tx \in Txns, NEW S, Progress(l.todo, S),
         NEW token, NEW state, NEW there
  PROVE  HandlerOK(l, S, token, state, there)
<1>1. l.todo \in Paths /\ l.todo \in Free
  BY DEF Paths, Free
<1>2. Head(l.todo)[1] \notin {"poll", "insert"}
  <2>1. CASE l.todo \in {Expire} \cup Released
    BY <2>1, Heads, Names DEF Released
  <2>2. CASE l.todo \in Replies
    BY <2>2, Heads, Names DEF Replies
  <2>3. CASE l.todo \in Slowing
    BY <2>3, Heads, Names DEF Slowing
  <2> QED BY <2>1, <2>2, <2>3
<1>3. l.todo # <<Poll>> /\ l.todo # <<Insertion>>
  BY <1>2, Heads, Names
<1> QED BY <1>1, <1>3, FreeOfTokens DEF HandlerOK

LEMMA HoldingOK ==
  ASSUME NEW l, l.todo \in Holding, l.tx \in Txns, NEW S, Progress(l.todo, S),
         NEW there
  PROVE  HandlerOK(l, S, "held", "used", there)
<1>1. l.todo \in Paths
  BY DEF Paths
<1>2. l.todo # <<Poll>> /\ l.todo # <<Insertion>>
  BY FreeOfTokens DEF Free
<1> QED BY <1>1, <1>2 DEF HandlerOK

(* A step that takes the request r to l changes the token, the device code *)
(* and the row of its own transaction tx at most.                          *)
MovesTo(r, l, tx) ==
  /\ tx = req[r].tx /\ req' = [req EXCEPT ![r] = l]
  /\ l.todo # <<Insertion>>
  /\ l.todo # <<>> =>
       /\ l.tx = tx
       /\ HandlerOK(l, stored'[tx], tokens'[tx], github'[tx].state,
                    tx \in DOMAIN device_authorizations')
  /\ \A u \in Txns : stored[u] \subseteq stored'[u] /\ stored'[u] \subseteq RowKinds
  /\ \A u \in DOMAIN device_authorizations' :
       \/ u \in DOMAIN device_authorizations
       \/ u = tx /\ req[r].todo = <<Insertion>>
  /\ \A u \in Txns \ {tx} : /\ tokens'[u] = tokens[u]
                            /\ github'[u].state = github[u].state
  /\ github[tx].state # "none" => github'[tx].state # "none"
  /\ \/ /\ tokens'[tx] = tokens[tx] /\ github'[tx].state = github[tx].state
        /\ l.todo \in Holding => req[r].todo \in Holding
     \/ \A q \in Reqs \ {r} : req[q].tx = tx => req[q].todo \notin Holding
  /\ tokens'[tx] = "held" =>
       \/ l.todo \in Holding
       \/ tokens[tx] = "held" /\ req[r].todo \notin Holding

LEMMA Moves ==
  ASSUME FlowInv, NEW r \in Reqs, NEW l \in Local, NEW tx \in Txns,
         MovesTo(r, l, tx)
  PROVE  Handlers' /\ OneEach' /\ Held' /\ RowsKnown'
<1> USE DEF MovesTo
<1>t. /\ req \in [Reqs -> Local] /\ DOMAIN device_authorizations \subseteq Txns
      /\ Handlers /\ OneEach /\ Held /\ RowsKnown
  BY DEF FlowInv, TypeOK, IsTable
<1>r. req'[r] = l /\ \A q \in Reqs \ {r} : req'[q] = req[q]
  BY <1>t
<1>e. <<>> \notin Holding
  BY FreeOfTokens DEF Free
<1>1. ASSUME NEW q \in Reqs
      PROVE  HandlerOK(req'[q], stored'[req'[q].tx], tokens'[req'[q].tx],
                       github'[req'[q].tx].state,
                       req'[q].tx \in DOMAIN device_authorizations')
  <2>1. CASE q = r
    <3>1. CASE l.todo = <<>>
      BY <2>1, <3>1, <1>r, RestingOK
    <3>2. CASE l.todo # <<>>
      BY <2>1, <3>2, <1>r
    <3> QED BY <3>1, <3>2
  <2>2. CASE q # r /\ req[q].todo = <<>>
    BY <2>2, <1>r, RestingOK
  <2>3. CASE q # r /\ req[q].todo # <<>>
    <3> DEFINE u == req[q].tx
    <3>1. HandlerOK(req[q], stored[u], tokens[u], github[u].state,
                    u \in DOMAIN device_authorizations)
      BY <1>t DEF Handlers
    <3>2. u \in Txns /\ req'[q] = req[q]
      BY <2>3, <3>1, <1>r DEF HandlerOK
    <3>3. /\ req[q].todo \in Holding => /\ tokens'[u] = tokens[u]
                                        /\ github'[u].state = github[u].state
          /\ github[u].state # "none" => github'[u].state # "none"
      BY <2>3, <3>2
    <3>4. req[q].todo = <<Insertion>> =>
            (u \in DOMAIN device_authorizations' =>
               u \in DOMAIN device_authorizations)
      BY <2>3, <1>t DEF OneEach
    <3>5. stored[u] \subseteq stored'[u] /\ stored'[u] \subseteq RowKinds
      BY <3>2
    <3>6. HandlerOK(req[q], stored'[u], tokens'[u], github'[u].state,
                    u \in DOMAIN device_authorizations')
      <4> HIDE DEF u
      <4> QED BY <3>1, <3>3, <3>4, <3>5, HandlerKept
    <3> QED BY <3>2, <3>6
  <2> QED BY <2>1, <2>2, <2>3
<1>2. Handlers'
  BY <1>1 DEF Handlers
<1>3. OneEach'
  <2> SUFFICES ASSUME NEW p \in Reqs, NEW q \in Reqs, p # q,
                      req'[p].tx = req'[q].tx
               PROVE  /\ ~(req'[p].todo = <<Insertion>>
                           /\ req'[q].todo = <<Insertion>>)
                      /\ ~(req'[p].todo \in Holding /\ req'[q].todo \in Holding)
    BY DEF OneEach
  <2>1. CASE p # r /\ q # r
    BY <2>1, <1>r, <1>t DEF OneEach
  <2>2. ASSUME NEW a \in Reqs \ {r}, l.tx = req[a].tx, l.todo \in Holding,
               req[a].todo \in Holding
        PROVE  FALSE
    BY <2>2, <1>e, <1>t DEF OneEach
  <2>3. CASE p = r \/ q = r
    BY <2>2, <2>3, <1>r
  <2> QED BY <2>1, <2>3
<1>4. Held'
  <2> SUFFICES ASSUME NEW u \in Txns, tokens'[u] = "held"
               PROVE  \E q \in Reqs : req'[q].tx = u /\ req'[q].todo \in Holding
    BY DEF Held
  <2>1. CASE u # tx
    <3>1. PICK q \in Reqs : req[q].tx = u /\ req[q].todo \in Holding
      BY <2>1, <1>t DEF Held
    <3> QED BY <3>1, <2>1, <1>r
  <2>2. CASE u = tx /\ l.todo \in Holding
    BY <2>2, <1>r, <1>e
  <2>3. CASE u = tx /\ tokens[tx] = "held" /\ req[r].todo \notin Holding
    <3>1. PICK q \in Reqs : req[q].tx = u /\ req[q].todo \in Holding
      BY <2>3, <1>t DEF Held
    <3> QED BY <3>1, <2>3, <1>r
  <2> QED BY <2>1, <2>2, <2>3
<1>5. RowsKnown'
  <2> SUFFICES ASSUME NEW u \in DOMAIN device_authorizations'
               PROVE  github'[u].state # "none"
    BY DEF RowsKnown
  <2>1. CASE u \in DOMAIN device_authorizations
    BY <2>1, <1>t DEF RowsKnown
  <2>2. CASE u = tx /\ req[r].todo = <<Insertion>>
    BY <2>2, <1>t DEF Handlers, HandlerOK
  <2> QED BY <2>1, <2>2
<1> QED BY <1>2, <1>3, <1>4, <1>5

(* A request arrives at the free handler r, which becomes l.               *)
ArrivesAs(r, l, tx) ==
  /\ req' = [req EXCEPT ![r] = l]
  /\ req[r].todo = <<>> /\ l.tx = tx /\ l.todo \notin Holding
  /\ HandlerOK(l, stored[tx], tokens[tx], github'[tx].state,
               tx \in DOMAIN device_authorizations)
  /\ l.todo = <<Insertion>> => github[tx].state = "none"
  /\ UNCHANGED <<stored, tokens, device_authorizations>>
  /\ \A u \in Txns \ {tx} : github'[u].state = github[u].state
  /\ \/ github'[tx].state = github[tx].state
     \/ github[tx].state = "none" /\ github'[tx].state = "pending"

LEMMA Arrives ==
  ASSUME FlowInv, NEW r \in Reqs, NEW l \in Local, NEW tx \in Txns,
         ArrivesAs(r, l, tx)
  PROVE  Handlers' /\ OneEach' /\ Held' /\ RowsKnown'
<1> USE DEF ArrivesAs
<1>t. /\ req \in [Reqs -> Local] /\ DOMAIN device_authorizations \subseteq Txns
      /\ stored \in [Txns -> SUBSET RowKinds]
      /\ Handlers /\ OneEach /\ Held /\ RowsKnown
  BY DEF FlowInv, TypeOK, IsTable
<1>r. req'[r] = l /\ \A q \in Reqs \ {r} : req'[q] = req[q]
  BY <1>t
<1>e. <<>> \notin Holding
  BY FreeOfTokens DEF Free
<1>g. \A u \in Txns : /\ github[u].state # "none" =>
                           github'[u].state = github[u].state
                      /\ github'[u].state = "none" => github[u].state = "none"
  OBVIOUS
<1>1. ASSUME NEW q \in Reqs
      PROVE  HandlerOK(req'[q], stored'[req'[q].tx], tokens'[req'[q].tx],
                       github'[req'[q].tx].state,
                       req'[q].tx \in DOMAIN device_authorizations')
  <2>1. CASE q = r
    BY <2>1, <1>r
  <2>2. CASE q # r /\ req[q].todo = <<>>
    BY <2>2, <1>r, RestingOK
  <2>3. CASE q # r /\ req[q].todo # <<>>
    <3> DEFINE u == req[q].tx
    <3>1. HandlerOK(req[q], stored[u], tokens[u], github[u].state,
                    u \in DOMAIN device_authorizations)
      BY <1>t DEF Handlers
    <3>2. u \in Txns /\ req'[q] = req[q]
      BY <2>3, <3>1, <1>r DEF HandlerOK
    <3>3. /\ req[q].todo \in Holding => github'[u].state = github[u].state
          /\ github[u].state # "none" => github'[u].state # "none"
      BY <3>1, <3>2, <1>g DEF HandlerOK
    <3>4. stored[u] \subseteq RowKinds
      BY <3>2, <1>t
    <3>5. HandlerOK(req[q], stored[u], tokens[u], github'[u].state,
                    u \in DOMAIN device_authorizations)
      <4> HIDE DEF u
      <4> QED BY <3>1, <3>3, <3>4, HandlerKept
    <3> QED BY <3>2, <3>5
  <2> QED BY <2>1, <2>2, <2>3
<1>2. Handlers'
  BY <1>1 DEF Handlers
<1>3. OneEach'
  <2> SUFFICES ASSUME NEW p \in Reqs, NEW q \in Reqs, p # q,
                      req'[p].tx = req'[q].tx
               PROVE  /\ ~(req'[p].todo = <<Insertion>>
                           /\ req'[q].todo = <<Insertion>>)
                      /\ ~(req'[p].todo \in Holding /\ req'[q].todo \in Holding)
    BY DEF OneEach
  <2>1. CASE p # r /\ q # r
    BY <2>1, <1>r, <1>t DEF OneEach
  <2>2. ASSUME NEW a \in Reqs \ {r}, req[a].tx = tx, req[a].todo = <<Insertion>>,
               l.todo = <<Insertion>>
        PROVE  FALSE
    BY <2>2, <1>t DEF Handlers, HandlerOK
  <2>3. CASE p = r \/ q = r
    BY <2>2, <2>3, <1>r
  <2> QED BY <2>1, <2>3
<1>4. Held'
  <2> SUFFICES ASSUME NEW u \in Txns, tokens[u] = "held"
               PROVE  \E q \in Reqs : req'[q].tx = u /\ req'[q].todo \in Holding
    BY DEF Held
  <2>1. PICK q \in Reqs : req[q].tx = u /\ req[q].todo \in Holding
    BY <1>t DEF Held
  <2> QED BY <2>1, <1>r, <1>e
<1>5. RowsKnown'
  BY <1>t, <1>g DEF RowsKnown
<1> QED BY <1>2, <1>3, <1>4, <1>5

(* The handler r becomes l, which goes on with the calls t.                *)
GoesOn(r, t, l) ==
  /\ req' = [req EXCEPT ![r] = l]
  /\ l.todo = t /\ l.tx = req[r].tx

LEMMA TodoIs ==
  ASSUME req \in [Reqs -> Local], NEW r \in Reqs, NEW t \in Paths, Take(r, t)
  PROVE  \E l \in Local : GoesOn(r, t, l)
<1> DEFINE l == [req[r] EXCEPT !.todo = t]
<1>1. t \in Seq(Calls)
  BY PathTypes
<1>2. l \in Local /\ l.todo = t /\ l.tx = req[r].tx
  BY <1>1 DEF Local
<1>3. req' = [req EXCEPT ![r] = l]
  BY DEF Take
<1> HIDE DEF l
<1>4. GoesOn(r, t, l)
  BY <1>2, <1>3 DEF GoesOn
<1> QED BY <1>2, <1>4

(* The step of a handler that leaves GitHub alone.                         *)
Underway == Holding \cup {Expire} \cup Released \cup Replies \cup Slowing

ProceedsTo(r, t) ==
  /\ req[r].todo # <<>> /\ Take(r, t)
  /\ UNCHANGED <<tokens, github>>
  /\ t \in Holding <=> req[r].todo \in Holding
  /\ \A u \in Txns : stored[u] \subseteq stored'[u] /\ stored'[u] \subseteq RowKinds
  /\ DOMAIN device_authorizations' \subseteq DOMAIN device_authorizations
  /\ Progress(t, stored'[req[r].tx])

LEMMA Proceeds ==
  ASSUME FlowInv, NEW r \in Reqs, NEW t \in Underway, ProceedsTo(r, t)
  PROVE  req' \in [Reqs -> Local] /\ Handlers' /\ OneEach' /\ Held' /\ RowsKnown'
<1> DEFINE tx == req[r].tx
<1>t. req \in [Reqs -> Local] /\ Handlers
  BY DEF FlowInv, TypeOK
<1>1. t \in Paths /\ Take(r, t)
  BY DEF Underway, Paths, ProceedsTo
<1>l. PICK l \in Local : GoesOn(r, t, l)
  BY <1>t, <1>1, TodoIs
<1>2. req' = [req EXCEPT ![r] = l] /\ l.todo = t /\ l.tx = req[r].tx
  BY <1>l DEF GoesOn
<1> USE DEF ProceedsTo
<1>3. /\ HandlerOK(req[r], stored[tx], tokens[tx], github[tx].state,
                   tx \in DOMAIN device_authorizations)
      /\ tx \in Txns
  BY <1>t DEF Handlers, HandlerOK
<1>4. HandlerOK(l, stored'[tx], tokens'[tx], github'[tx].state,
                tx \in DOMAIN device_authorizations')
  <2>1. CASE t \in Holding
    <3>1. tokens[tx] = "held" /\ github[tx].state = "used"
      BY <2>1, <1>3 DEF HandlerOK
    <3> QED BY <1>2, <1>3, <2>1, <3>1, HoldingOK
  <2>2. CASE t \notin Holding
    BY <1>2, <1>3, <2>2, FreeOK DEF Underway
  <2> QED BY <2>1, <2>2
<1>5. l.todo # <<Insertion>>
  <2>1. CASE t \in Holding
    BY <1>2, <2>1, FreeOfTokens DEF Free
  <2>2. CASE t \notin Holding
    <3>1. Head(t)[1] # "insert"
      <4>1. CASE t \in {Expire} \cup Released
        BY <4>1, Heads, Names DEF Released
      <4>2. CASE t \in Replies
        BY <4>2, Heads, Names DEF Replies
      <4>3. CASE t \in Slowing
        BY <4>3, Heads, Names DEF Slowing
      <4> QED BY <2>2, <4>1, <4>2, <4>3 DEF Underway
    <3> QED BY <1>2, <3>1, Heads, Names
  <2> QED BY <2>1, <2>2
<1>6. req' \in [Reqs -> Local]
  BY <1>2, <1>t
<1>7. tx = req[r].tx /\ l.tx = tx /\ tx \in Txns
  BY <1>2, <1>3
<1> HIDE DEF tx
<1>8. tokens'[tx] = "held" =>
        \/ l.todo \in Holding
        \/ tokens[tx] = "held" /\ req[r].todo \notin Holding
  BY <1>2
<1>9. /\ \A u \in Txns \ {tx} : /\ tokens'[u] = tokens[u]
                                /\ github'[u].state = github[u].state
      /\ tokens'[tx] = tokens[tx] /\ github'[tx].state = github[tx].state
      /\ l.todo \in Holding => req[r].todo \in Holding
  BY <1>2
<1>10. \A u \in DOMAIN device_authorizations' : u \in DOMAIN device_authorizations
  OBVIOUS
<1>11. MovesTo(r, l, tx)
  BY <1>2, <1>4, <1>5, <1>7, <1>8, <1>9, <1>10 DEF MovesTo
<1>12. Handlers' /\ OneEach' /\ Held' /\ RowsKnown'
  BY <1>7, <1>11, Moves
<1> QED BY <1>6, <1>12

(* What is stored when a pairing goes on to its next row, or past them.    *)
LEMMA LateProgress ==
  /\ \A S : "device" \in S => Progress(ToAccess, S)
  /\ \A S : {"device", "access"} \subseteq S => Progress(ToRefresh, S)
  /\ \A t : Progress(t, RowKinds)
<1>1. {"approved", "consumed"} \subseteq Answers
  BY DEF Answers, Statuses, Terminal
<1>2. /\ Store("access") # Store("refresh")
      /\ \A x : /\ Store("access") # Update(x) /\ Store("refresh") # Update(x)
                /\ Store("access") # Audit(x) /\ Store("refresh") # Audit(x)
                /\ Store("access") # Answer(x) /\ Store("refresh") # Answer(x)
      /\ Store("access") # MarkConsumed /\ Store("refresh") # MarkConsumed
      /\ Store("access") # RevokeToken /\ Store("refresh") # RevokeToken
  BY Names
<1>3. /\ ToAccess # ToRefresh
      /\ ToAccess \notin Paired \cup {<<Answer("approved")>>, <<Answer("consumed")>>}
      /\ ToRefresh \notin Paired \cup {<<Answer("approved")>>, <<Answer("consumed")>>}
  BY <1>1, <1>2, Heads DEF Paired
<1>4. \A t : Progress(t, RowKinds)
  BY DEF Progress, RowKinds
<1> QED BY <1>3, <1>4 DEF Progress

(* The calls after which a handler goes on with the next one, whatever     *)
(* came of them.                                                           *)
Passing == {Expire, ToUpdate, ToDeny, ToDenyAudited, ToForbid, ToConsume,
            ToAudit, ToAuditDenied, ToAuditForbidden} \cup Slowing

LEMMA Onwards ==
  ASSUME NEW t \in Passing, NEW S, Progress(t, S)
  PROVE  /\ Tail(t) \in Underway
         /\ Tail(t) \in Holding <=> t \in Holding
         /\ Progress(Tail(t), S)
<1>1. CASE t \in {ToUpdate, ToConsume, ToAudit}
  <2>1. Tail(t) \in Paired /\ t \in Paired
    BY <1>1, Tails DEF Paired
  <2>2. S = RowKinds
    BY <2>1 DEF Progress
  <2> QED BY <2>1, <2>2, LateProgress DEF Underway, Holding
<1>2. CASE t \in {ToDenyAudited, ToForbid}
  <2>1. Tail(t) \in Released /\ t \in Released
    BY <1>2, Tails DEF Released
  <2> QED BY <2>1, EarlyProgress, FreeOfTokens DEF Underway, Early, Free
<1>3. CASE t \in {Expire, ToDeny, ToAuditDenied, ToAuditForbidden} \cup Slowing
  <2>1. {"expired", "denied", "forbidden", "slow_down"} \subseteq
          Answers \ {"approved", "consumed"}
    BY DEF Answers, Statuses, Terminal
  <2>2. Tail(t) \in {<<Answer(s)>> : s \in Answers \ {"approved", "consumed"}}
    <3>1. PICK s \in {"expired", "denied", "forbidden", "slow_down"} :
            Tail(t) = <<Answer(s)>>
      BY <1>3, Tails DEF Slowing
    <3> QED BY <2>1, <3>1
  <2>3. Tail(t) \in Replies /\ Tail(t) \in Early
    BY <2>2 DEF Replies, Early
  <2>4. t \in Free /\ Tail(t) \in Free
    BY <1>3, <2>3 DEF Free, Released
  <2> QED BY <2>3, <2>4, EarlyProgress, FreeOfTokens DEF Underway
<1> QED BY <1>1, <1>2, <1>3 DEF Passing

-----------------------------------------------------------------------------
(* Rows are neither added nor reopened, and only those of a transaction in *)
(* C are approved or consumed.                                             *)
RowsMove(old, new, C) ==
  \A u \in DOMAIN new :
    /\ u \in DOMAIN old
    /\ old[u].consumed => new[u].consumed
    /\ u \in C \/ /\ new[u].consumed => old[u].consumed
                  /\ new[u].status = "approved" => old[u].status = "approved"

LEMMA CompleteMoves ==
  ASSUME FlowInv, UNCHANGED <<stored, answers, audit_events>>,
         RowsMove(device_authorizations, device_authorizations',
                  {u \in Txns : stored[u] = RowKinds})
  PROVE  Complete'
<1> SUFFICES ASSUME NEW u \in Txns
             PROVE  CompleteOK(stored[u], answers[u],
                               <<"device_flow_approved", u>> \in audit_events,
                               device_authorizations', u)
  BY DEF Complete
<1>1. CompleteOK(stored[u], answers[u],
                 <<"device_flow_approved", u>> \in audit_events,
                 device_authorizations, u)
  BY DEF FlowInv, Complete
<1> QED BY <1>1 DEF CompleteOK, RowsMove

LEMMA StatusRow ==
  ASSUME IsTable(device_authorizations, Txns, AuthRow), NEW tx,
         NEW s \in Terminal, UpdateDeviceAuthorizationStatus(tx, s),
         NEW C, s = "approved" => tx \in C
  PROVE  /\ IsTable(device_authorizations', Txns, AuthRow)
         /\ DOMAIN device_authorizations' = DOMAIN device_authorizations
         /\ RowsMove(device_authorizations, device_authorizations', C)
<1>1. /\ DOMAIN device_authorizations' = DOMAIN device_authorizations
      /\ \A u \in DOMAIN device_authorizations :
           device_authorizations'[u] =
             IF u = tx
               THEN [device_authorizations[u] EXCEPT
                       !.status = s,
                       !.consumed = @ \/ s = "approved"]
               ELSE device_authorizations[u]
      /\ device_authorizations' =
           [u \in DOMAIN device_authorizations |-> device_authorizations'[u]]
  BY DEF UpdateDeviceAuthorizationStatus, UpdateRow
<1>2. ASSUME NEW u \in DOMAIN device_authorizations
      PROVE  /\ device_authorizations'[u] \in AuthRow
             /\ device_authorizations[u].consumed =>
                  device_authorizations'[u].consumed
             /\ u \in C \/ /\ device_authorizations'[u].consumed =>
                                device_authorizations[u].consumed
                           /\ device_authorizations'[u].status = "approved" =>
                                device_authorizations[u].status = "approved"
  <2> DEFINE row == device_authorizations[u]
             new == device_authorizations'[u]
  <2>1. row \in AuthRow
    BY DEF IsTable
  <2>2. CASE u # tx
    BY <1>1, <2>1, <2>2
  <2>3. CASE u = tx
    <3>1. new = [row EXCEPT !.status = s,
                            !.consumed = row.consumed \/ s = "approved"]
      BY <1>1, <2>3
    <3> HIDE DEF row, new
    <3>2. /\ new \in AuthRow
          /\ row.consumed => new.consumed
          /\ s # "approved" => /\ new.consumed => row.consumed
                               /\ new.status # "approved"
      BY <2>1, <3>1 DEF AuthRow, Statuses
    <3> QED BY <2>3, <3>2 DEF row, new
  <2> QED BY <2>2, <2>3
<1>3. IsTable(device_authorizations', Txns, AuthRow)
  BY <1>1, <1>2 DEF IsTable
<1>4. RowsMove(device_authorizations, device_authorizations', C)
  BY <1>1, <1>2 DEF RowsMove
<1> QED BY <1>1, <1>3, <1>4

LEMMA IntervalRow ==
  ASSUME IsTable(device_authorizations, Txns, AuthRow), NEW tx,
         NEW i \in 1..MaxInterval, UpdateDeviceAuthorizationPollInterval(tx, i),
         NEW C
  PROVE  /\ IsTable(device_authorizations', Txns, AuthRow)
         /\ DOMAIN device_authorizations' = DOMAIN device_authorizations
         /\ RowsMove(device_authorizations, device_authorizations', C)
<1>1. device_authorizations' =
        [u \in DOMAIN device_authorizations |->
           IF u = tx
             THEN [device_authorizations[u] EXCEPT !.poll_after_seconds = i,
                                                   !.status = "slow_down"]
             ELSE device_authorizations[u]]
  BY DEF UpdateDeviceAuthorizationPollInterval, UpdateRow
<1>2. \A row \in AuthRow :
        LET new == [row EXCEPT !.poll_after_seconds = i, !.status = "slow_down"]
        IN  /\ new \in AuthRow /\ new.consumed = row.consumed
            /\ new.status = "slow_down"
  BY DEF AuthRow, Statuses
<1>3. \A u \in DOMAIN device_authorizations : device_authorizations[u] \in AuthRow
  BY DEF IsTable
<1>4. IsTable(device_authorizations', Txns, AuthRow)
  BY <1>1, <1>2, <1>3 DEF IsTable
<1>5. RowsMove(device_authorizations, device_authorizations', C)
  BY <1>1, <1>2, <1>3 DEF RowsMove
<1> QED BY <1>1, <1>4, <1>5

LEMMA ConsumedRow ==
  ASSUME IsTable(device_authorizations, Txns, AuthRow), NEW tx,
         MarkDeviceAuthorizationConsumed(tx), NEW C, tx \in C
  PROVE  /\ IsTable(device_authorizations', Txns, AuthRow)
         /\ DOMAIN device_authorizations' = DOMAIN device_authorizations
         /\ RowsMove(device_authorizations, device_authorizations', C)
<1>1. device_authorizations' =
        [u \in DOMAIN device_authorizations |->
           IF u = tx THEN [device_authorizations[u] EXCEPT !.consumed = TRUE]
                     ELSE device_authorizations[u]]
  BY DEF MarkDeviceAuthorizationConsumed, UpdateRow
<1>2. \A row \in AuthRow :
        LET new == [row EXCEPT !.consumed = TRUE]
        IN  /\ new \in AuthRow /\ new.consumed
  BY DEF AuthRow
<1>3. \A u \in DOMAIN device_authorizations : device_authorizations[u] \in AuthRow
  BY DEF IsTable
<1>4. IsTable(device_authorizations', Txns, AuthRow)
  BY <1>1, <1>2, <1>3 DEF IsTable
<1>5. RowsMove(device_authorizations, device_authorizations', C)
  BY <1>1, <1>2, <1>3 DEF RowsMove
<1> QED BY <1>1, <1>4, <1>5

LEMMA CleanedRows ==
  ASSUME IsTable(device_authorizations, Txns, AuthRow), NEW cutoff,
         \/ device_authorizations' = CleanedUp(cutoff)
         \/ UNCHANGED device_authorizations,
         NEW C
  PROVE  /\ IsTable(device_authorizations', Txns, AuthRow)
         /\ DOMAIN device_authorizations' \subseteq DOMAIN device_authorizations
         /\ RowsMove(device_authorizations, device_authorizations', C)
BY DEF CleanedUp, Delete, IsTable, RowsMove

-----------------------------------------------------------------------------
(* The steps of a handler, one by one.                                     *)
LEMMA FlowStore ==
  ASSUME FlowInv, NEW r \in Reqs, StoreRow(r)
  PROVE  FlowInv'
<1> DEFINE tx == req[r].tx
           t == req[r].todo
<1>t. TypeOK /\ Handlers /\ Complete
  BY DEF FlowInv
<1>1. /\ HandlerOK(req[r], stored[tx], tokens[tx], github[tx].state,
                   tx \in DOMAIN device_authorizations)
      /\ t # <<>> /\ Head(t)[1] = "store"
  BY <1>t DEF Handlers, StoreRow, Ahead, Call
<1>2. tx \in Txns /\ t \in {Approve, ToAccess, ToRefresh} /\ Progress(t, stored[tx])
  BY <1>1, AtCall DEF HandlerOK
<1>3. t \in Holding
  BY <1>2 DEF Holding
<1>4. Arg(r) \in RowKinds
  <2>1. Arg(r) \in {"device", "access", "refresh"}
    BY <1>2, Heads, Names DEF Arg
  <2> QED BY <2>1 DEF RowKinds
<1>5. /\ stored' \in [Txns -> SUBSET RowKinds]
      /\ \A u \in Txns : stored[u] \subseteq stored'[u]
                         /\ stored'[u] \subseteq RowKinds
  BY <1>t, <1>4 DEF StoreRow, TypeOK
<1>6. PICK n \in {ToAccess, ToRefresh, ToUpdate, StoreFailed} :
        req' = [req EXCEPT ![r].todo = n] /\ Progress(n, stored'[tx])
  <2>1. CASE Take(r, StoreFailed)
    <3>1. StoreFailed \in Early
      BY DEF Early
    <3> QED BY <2>1, <3>1, EarlyProgress DEF Take
  <2>2. CASE /\ stored' = [stored EXCEPT ![tx] = @ \cup {Arg(r)}]
             /\ Return(r)
    <3>1. stored'[tx] = stored[tx] \cup {Arg(r)} /\ stored[tx] \subseteq RowKinds
      BY <2>2, <1>t, <1>2 DEF TypeOK
    <3>2. req' = [req EXCEPT ![r].todo = Tail(t)]
      BY <2>2 DEF Return
    <3>3. CASE t = Approve
      <4>1. Tail(t) = ToAccess /\ Arg(r) = "device"
        BY <3>3, Tails, Heads, Names DEF Arg
      <4> QED BY <4>1, <3>1, <3>2, LateProgress
    <3>4. CASE t = ToAccess
      <4>1. Tail(t) = ToRefresh /\ Arg(r) = "access"
        BY <3>4, Tails, Heads, Names DEF Arg
      <4>2. "device" \in stored[tx]
        BY <3>4, <1>2 DEF Progress
      <4> QED BY <4>1, <4>2, <3>1, <3>2, LateProgress
    <3>5. CASE t = ToRefresh
      <4>1. Tail(t) = ToUpdate /\ Arg(r) = "refresh"
        BY <3>5, Tails, Heads, Names DEF Arg
      <4>2. {"device", "access"} \subseteq stored[tx]
        BY <3>5, <1>2 DEF Progress
      <4>3. stored'[tx] = RowKinds
        BY <4>1, <4>2, <3>1 DEF RowKinds
      <4> QED BY <4>1, <4>3, <3>2, LateProgress
    <3> QED BY <1>2, <3>3, <3>4, <3>5
  <2> QED BY <2>1, <2>2 DEF StoreRow
<1>7. n \in Holding /\ n \in Underway
  BY DEF Holding, Paired, Underway
<1>8. UNCHANGED <<now, serverSecret, allowedEmails, device_authorizations,
                  audit_events, github, tokens, answers, restarts>>
  BY DEF StoreRow, configVars, githubVars
<1>p. ProceedsTo(r, n)
  BY <1>1, <1>3, <1>5, <1>6, <1>7, <1>8 DEF ProceedsTo, Take
<1>9. req' \in [Reqs -> Local] /\ Handlers' /\ OneEach' /\ Held' /\ RowsKnown'
  BY <1>7, <1>p, Proceeds
<1>10. TypeOK'
  BY <1>t, <1>5, <1>8, <1>9 DEF TypeOK
<1>11. Complete'
  <2>1. \A u \in Txns : stored[u] = RowKinds => stored'[u] = RowKinds
    BY <1>5
  <2> QED BY <1>t, <1>8, <2>1 DEF Complete, CompleteOK
<1> QED BY <1>9, <1>10, <1>11 DEF FlowInv

LEMMA WriteRows ==
  ASSUME FlowInv, NEW r \in Reqs, WriteStatus(r)
  PROVE  /\ IsTable(device_authorizations', Txns, AuthRow)
         /\ DOMAIN device_authorizations' = DOMAIN device_authorizations
         /\ RowsMove(device_authorizations, device_authorizations',
                     {u \in Txns : stored[u] = RowKinds})
         /\ req[r].todo \in Passing /\ req[r].todo # <<>>
<1> DEFINE tx == req[r].tx
           t == req[r].todo
           C == {u \in Txns : stored[u] = RowKinds}
<1>t. IsTable(device_authorizations, Txns, AuthRow) /\ Handlers
  BY DEF FlowInv, TypeOK
<1>1. /\ HandlerOK(req[r], stored[tx], tokens[tx], github[tx].state,
                   tx \in DOMAIN device_authorizations)
      /\ t # <<>> /\ Head(t)[1] \in {"update", "interval", "consume"}
  BY <1>t DEF Handlers, WriteStatus, Ahead, Call
<1>2. tx \in Txns /\ t \in Paths /\ Progress(t, stored[tx])
  BY <1>1 DEF HandlerOK
<1>3. t \in Passing
  BY <1>1, <1>2, AtCall DEF Passing
<1>4. CASE UNCHANGED device_authorizations
  BY <1>1, <1>3, <1>4, <1>t DEF RowsMove
<1>5. CASE Head(t)[1] = "update" /\ UpdateDeviceAuthorizationStatus(tx, Arg(r))
  <2> DEFINE s == Arg(r)
  <2>1. /\ s \in {"expired", "approved", "denied", "forbidden"}
        /\ s = "approved" => t = ToUpdate
    <3>1. t \in {Expire, ToUpdate, ToDeny, ToDenyAudited, ToForbid}
      BY <1>1, <1>2, <1>5, AtCall
    <3> QED BY <3>1, Heads, Names DEF Arg
  <2>2. s \in Terminal
    BY <2>1 DEF Terminal
  <2>3. s = "approved" => tx \in C
    BY <1>2, <2>1 DEF Progress, Paired
  <2> HIDE DEF s, C
  <2>4. UpdateDeviceAuthorizationStatus(tx, s)
    BY <1>5 DEF s
  <2> HIDE DEF tx
  <2>5. /\ IsTable(device_authorizations', Txns, AuthRow)
        /\ DOMAIN device_authorizations' = DOMAIN device_authorizations
        /\ RowsMove(device_authorizations, device_authorizations', C)
    BY <1>t, <2>2, <2>3, <2>4, StatusRow
  <2> QED BY <1>1, <1>3, <2>5 DEF C
<1>6. CASE Head(t)[1] = "interval" /\ UpdateDeviceAuthorizationPollInterval(tx, Arg(r))
  <2>1. Arg(r) \in 1..MaxInterval
    <3>1. t \in Slowing
      BY <1>1, <1>2, <1>6, AtCall
    <3>2. PICK i \in 1..MaxInterval : t = SlowDown(i)
      BY <3>1 DEF Slowing
    <3>3. Arg(r) = i
      BY <3>2, Heads, Names DEF Arg
    <3> QED BY <3>3
  <2> DEFINE i == Arg(r)
  <2>2. UpdateDeviceAuthorizationPollInterval(tx, i) /\ i \in 1..MaxInterval
    BY <1>6, <2>1
  <2> HIDE DEF i, tx, C
  <2>3. /\ IsTable(device_authorizations', Txns, AuthRow)
        /\ DOMAIN device_authorizations' = DOMAIN device_authorizations
        /\ RowsMove(device_authorizations, device_authorizations', C)
    BY <1>t, <2>2, IntervalRow
  <2> QED BY <1>1, <1>3, <2>3 DEF C
<1>7. CASE Head(t)[1] = "consume" /\ MarkDeviceAuthorizationConsumed(tx)
  <2>1. tx \in C
    <3>1. t = ToConsume
      BY <1>1, <1>2, <1>7, AtCall
    <3> QED BY <1>2, <3>1 DEF Progress, Paired
  <2> HIDE DEF tx, C
  <2>2. /\ IsTable(device_authorizations', Txns, AuthRow)
        /\ DOMAIN device_authorizations' = DOMAIN device_authorizations
        /\ RowsMove(device_authorizations, device_authorizations', C)
    BY <1>t, <1>7, <2>1, ConsumedRow
  <2> QED BY <1>1, <1>3, <2>2 DEF C
<1> QED BY <1>4, <1>5, <1>6, <1>7 DEF WriteStatus, Call

LEMMA FlowWrite ==
  ASSUME FlowInv, NEW r \in Reqs, WriteStatus(r)
  PROVE  FlowInv'
<1> DEFINE tx == req[r].tx
           t == req[r].todo
<1>t. TypeOK /\ Handlers
  BY DEF FlowInv
<1>1. /\ IsTable(device_authorizations', Txns, AuthRow)
      /\ DOMAIN device_authorizations' = DOMAIN device_authorizations
      /\ RowsMove(device_authorizations, device_authorizations',
                  {u \in Txns : stored[u] = RowKinds})
      /\ t \in Passing /\ t # <<>>
  BY WriteRows
<1>2. Progress(t, stored[tx])
  BY <1>t DEF Handlers, HandlerOK
<1>3. /\ Tail(t) \in Underway
      /\ Tail(t) \in Holding <=> t \in Holding
      /\ Progress(Tail(t), stored[tx])
  BY <1>1, <1>2, Onwards
<1>4. req' = [req EXCEPT ![r].todo = Tail(t)]
  BY DEF WriteStatus, Return
<1>5. UNCHANGED <<now, serverSecret, allowedEmails, stored, audit_events, github,
                  tokens, answers, restarts>>
  BY DEF WriteStatus, configVars, githubVars
<1>6. \A u \in Txns : stored[u] \subseteq stored'[u] /\ stored'[u] \subseteq RowKinds
  BY <1>5, <1>t DEF TypeOK
<1> DEFINE n == Tail(t)
<1>7. /\ n \in Underway /\ req' = [req EXCEPT ![r].todo = n]
      /\ n \in Holding <=> req[r].todo \in Holding
      /\ Progress(n, stored'[req[r].tx])
  BY <1>3, <1>4, <1>5
<1> HIDE DEF n
<1>p. ProceedsTo(r, n)
  BY <1>1, <1>5, <1>6, <1>7 DEF ProceedsTo, Take
<1>8. req' \in [Reqs -> Local] /\ Handlers' /\ OneEach' /\ Held' /\ RowsKnown'
  BY <1>7, <1>p, Proceeds
<1>9. TypeOK'
  BY <1>t, <1>1, <1>5, <1>8 DEF TypeOK
<1>10. Complete'
  BY <1>1, <1>5, CompleteMoves
<1> QED BY <1>8, <1>9, <1>10 DEF FlowInv

LEMMA FlowAudit ==
  ASSUME FlowInv, NEW r \in Reqs, CreateAuditEvent(r)
  PROVE  FlowInv'
<1> DEFINE tx == req[r].tx
           t == req[r].todo
           n == Tail(t)
<1>t. TypeOK /\ Handlers /\ Complete
  BY DEF FlowInv
<1>1. /\ HandlerOK(req[r], stored[tx], tokens[tx], github[tx].state,
                   tx \in DOMAIN device_authorizations)
      /\ t # <<>> /\ Head(t)[1] = "audit"
  BY <1>t DEF Handlers, CreateAuditEvent, Ahead, Call
<1>2. /\ tx \in Txns /\ t \in {ToAudit, ToAuditDenied, ToAuditForbidden}
      /\ Progress(t, stored[tx])
  BY <1>1, AtCall DEF HandlerOK
<1>3. t \in Passing
  BY <1>2 DEF Passing
<1>4. UNCHANGED <<now, serverSecret, allowedEmails, device_authorizations, stored,
                  github, tokens, answers, restarts>>
  BY DEF CreateAuditEvent, configVars, githubVars
<1>5. req' = [req EXCEPT ![r].todo = n]
  BY DEF CreateAuditEvent, Return
<1>6. /\ n \in Underway
      /\ n \in Holding <=> req[r].todo \in Holding
      /\ Progress(n, stored'[req[r].tx])
  BY <1>2, <1>3, <1>4, Onwards
<1>7. \A u \in Txns : stored[u] \subseteq stored'[u] /\ stored'[u] \subseteq RowKinds
  BY <1>4, <1>t DEF TypeOK
<1>8. /\ Arg(r) \in EventCodes
      /\ Arg(r) = "device_flow_approved" => stored[tx] = RowKinds
  <2>1. /\ Arg(r) \in {"device_flow_denied", "device_flow_forbidden",
                       "device_flow_approved"}
        /\ Arg(r) = "device_flow_approved" => t = ToAudit
    BY <1>2, Heads, Names DEF Arg
  <2> QED BY <1>2, <2>1 DEF EventCodes, Progress, Paired
<1> HIDE DEF n
<1>p. ProceedsTo(r, n)
  BY <1>1, <1>4, <1>5, <1>6, <1>7 DEF ProceedsTo, Take
<1>9. req' \in [Reqs -> Local] /\ Handlers' /\ OneEach' /\ Held' /\ RowsKnown'
  BY <1>6, <1>p, Proceeds
<1>10. audit_events' \subseteq audit_events \cup {<<Arg(r), tx>>}
  BY DEF CreateAuditEvent
<1>11. TypeOK'
  <2>1. audit_events' \in SUBSET (EventCodes \X Txns)
    BY <1>t, <1>2, <1>8, <1>10 DEF TypeOK
  <2> QED BY <2>1, <1>t, <1>4, <1>9 DEF TypeOK
<1>12. Complete'
  <2> SUFFICES ASSUME NEW u \in Txns
               PROVE  CompleteOK(stored[u], answers[u],
                                 <<"device_flow_approved", u>> \in audit_events',
                                 device_authorizations, u)
    BY <1>4 DEF Complete
  <2>1. CompleteOK(stored[u], answers[u],
                   <<"device_flow_approved", u>> \in audit_events,
                   device_authorizations, u)
    BY <1>t DEF Complete
  <2>2. <<"device_flow_approved", u>> \in audit_events' =>
          \/ <<"device_flow_approved", u>> \in audit_events
          \/ stored[u] = RowKinds
    BY <1>8, <1>10
  <2> QED BY <2>1, <2>2 DEF CompleteOK
<1> QED BY <1>9, <1>11, <1>12 DEF FlowInv

LEMMA FlowEmails ==
  ASSUME FlowInv, NEW r \in Reqs, GetUserEmails(r)
  PROVE  FlowInv'
<1> DEFINE tx == req[r].tx
           t == req[r].todo
<1>t. TypeOK /\ Handlers /\ Complete
  BY DEF FlowInv
<1>1. t \in Paths /\ t # <<>> /\ Head(t)[1] = "emails"
  BY <1>t DEF Handlers, HandlerOK, GetUserEmails, Ahead, Call
<1>2. t \in Holding
  BY <1>1, AtCall DEF Holding
<1>3. PICK n \in {EmailsFailed, NoPrimary, NotAllowed, Approve} :
        req' = [req EXCEPT ![r].todo = n]
  BY DEF GetUserEmails, Take
<1>4. n \in Holding /\ n \in Underway /\ n \in Early
  BY DEF Holding, Underway, Early
<1>5. UNCHANGED <<now, serverSecret, allowedEmails, device_authorizations, stored,
                  audit_events, github, tokens, answers, restarts>>
  BY DEF GetUserEmails, configVars, githubVars
<1>6. Progress(n, stored'[req[r].tx])
  BY <1>4, EarlyProgress
<1>7. \A u \in Txns : stored[u] \subseteq stored'[u] /\ stored'[u] \subseteq RowKinds
  BY <1>5, <1>t DEF TypeOK
<1>p. ProceedsTo(r, n)
  BY <1>1, <1>2, <1>3, <1>4, <1>5, <1>6, <1>7 DEF ProceedsTo, Take
<1>8. req' \in [Reqs -> Local] /\ Handlers' /\ OneEach' /\ Held' /\ RowsKnown'
  BY <1>4, <1>p, Proceeds
<1>9. TypeOK' /\ Complete'
  BY <1>t, <1>5, <1>8 DEF TypeOK, Complete
<1> QED BY <1>8, <1>9 DEF FlowInv

(* The local variables of a free handler.                                  *)
LEMMA IdleIsLocal == Idle \in Local /\ Idle.todo = <<>>
<1>1. <<>> \in Seq(Calls) /\ "pending" \in Statuses /\ 1 \in 1..MaxInterval
  BY DEF Statuses
<1> QED BY <1>1 DEF Idle, Local

LEMMA IdleWith ==
  ASSUME NEW u \in Txns, NEW t \in Paths
  PROVE  LET l == [Idle EXCEPT !.tx = u, !.todo = t]
         IN  l \in Local /\ l.tx = u /\ l.todo = t
<1>1. t \in Seq(Calls)
  BY PathTypes
<1>2. DOMAIN Idle = {"tx", "status", "poll_after", "at", "todo"}
  BY DEF Idle
<1> QED BY <1>1, <1>2, IdleIsLocal DEF Local

(* A handler that does not hold the token returns.                         *)
LEMMA Ends ==
  ASSUME FlowInv, NEW r \in Reqs, NEW l \in Local, req' = [req EXCEPT ![r] = l],
         NEW tx \in Txns, tx = req[r].tx, l.todo = <<>>,
         req[r].todo \notin Holding, UNCHANGED <<stored, tokens, github>>,
         \A u \in DOMAIN device_authorizations' :
           \/ u \in DOMAIN device_authorizations
           \/ u = tx /\ req[r].todo = <<Insertion>>
  PROVE  Handlers' /\ OneEach' /\ Held' /\ RowsKnown'
<1>1. l.todo # <<Insertion>> /\ l.todo \notin Holding
  BY FreeOfTokens DEF Free
<1>2. stored \in [Txns -> SUBSET RowKinds]
  BY DEF FlowInv, TypeOK
<1>3. \A u \in Txns : stored[u] \subseteq stored'[u] /\ stored'[u] \subseteq RowKinds
  BY <1>2
<1>4. MovesTo(r, l, tx)
  BY <1>1, <1>3 DEF MovesTo
<1> QED BY <1>4, Moves

(* A handler at its last call: its transaction and what it relies on.      *)
LEMMA AtLast ==
  ASSUME FlowInv, NEW r \in Reqs, Ahead(r), Call(r) \in {"answer", "insert"},
         req' = [req EXCEPT ![r] = Idle], UNCHANGED <<stored, tokens, github>>,
         \A u \in DOMAIN device_authorizations' :
           \/ u \in DOMAIN device_authorizations
           \/ u = req[r].tx /\ req[r].todo = <<Insertion>>
  PROVE  /\ req[r].tx \in Txns
         /\ req[r].todo = <<Insertion>> \/ req[r].todo \in Replies
         /\ Progress(req[r].todo, stored[req[r].tx])
         /\ req' \in [Reqs -> Local]
         /\ Handlers' /\ OneEach' /\ Held' /\ RowsKnown'
<1> DEFINE tx == req[r].tx
           t == req[r].todo
<1>t. TypeOK /\ Handlers
  BY DEF FlowInv
<1>1. /\ HandlerOK(req[r], stored[tx], tokens[tx], github[tx].state,
                   tx \in DOMAIN device_authorizations)
      /\ t # <<>> /\ Head(t)[1] \in {"answer", "insert"}
  BY <1>t DEF Handlers, Ahead, Call
<1>2. /\ tx \in Txns /\ Progress(t, stored[tx])
      /\ t = <<Insertion>> \/ t \in Replies
  BY <1>1, AtCall DEF HandlerOK
<1>3. t \notin Holding
  BY <1>2, FreeOfTokens DEF Free
<1>4. req' \in [Reqs -> Local]
  BY <1>t, IdleIsLocal DEF TypeOK
<1>5. Handlers' /\ OneEach' /\ Held' /\ RowsKnown'
  BY <1>2, <1>3, IdleIsLocal, Ends
<1> QED BY <1>2, <1>4, <1>5

LEMMA FlowRespond ==
  ASSUME FlowInv, NEW r \in Reqs, Respond(r)
  PROVE  FlowInv'
<1> DEFINE tx == req[r].tx
           t == req[r].todo
<1>t. TypeOK /\ Complete
  BY DEF FlowInv
<1>1. UNCHANGED <<now, serverSecret, allowedEmails, device_authorizations, stored,
                  audit_events, github, tokens, restarts>>
  BY DEF Respond, configVars, githubVars
<1>2. /\ tx \in Txns
      /\ t = <<Insertion>> \/ t \in Replies
      /\ Progress(t, stored[tx])
      /\ req' \in [Reqs -> Local]
      /\ Handlers' /\ OneEach' /\ Held' /\ RowsKnown'
  BY <1>1, AtLast DEF Respond
<1>3. t \in Replies
  <2>1. Head(t)[1] = "answer"
    BY DEF Respond, Call
  <2> QED BY <1>2, <2>1, Heads, Names
<1>4. PICK s \in Answers : t = <<Answer(s)>>
  BY <1>3 DEF Replies
<1>5. Arg(r) = s
  BY <1>4, Heads, Names DEF Arg
<1>6. s \in {"approved", "consumed"} => stored[tx] = RowKinds
  BY <1>2, <1>4 DEF Progress
<1>7. answers' = [answers EXCEPT ![tx] = @ \cup ({s} \cap Final)]
  BY <1>5 DEF Respond
<1>8. TypeOK'
  <2>1. answers' \in [Txns -> SUBSET Answers]
    BY <1>t, <1>7 DEF TypeOK
  <2> QED BY <2>1, <1>t, <1>1, <1>2 DEF TypeOK
<1>9. Complete'
  <2> SUFFICES ASSUME NEW u \in Txns
               PROVE  CompleteOK(stored[u], answers'[u],
                                 <<"device_flow_approved", u>> \in audit_events,
                                 device_authorizations, u)
    BY <1>1 DEF Complete
  <2>1. CompleteOK(stored[u], answers[u],
                   <<"device_flow_approved", u>> \in audit_events,
                   device_authorizations, u)
    BY <1>t DEF Complete
  <2>2. CASE u # tx
    BY <1>t, <1>7, <2>1, <2>2 DEF TypeOK
  <2>3. CASE u = tx
    <3>1. answers'[u] \subseteq answers[u] \cup {s}
      BY <1>t, <1>7, <2>3 DEF TypeOK
    <3> QED BY <1>6, <2>1, <2>3, <3>1 DEF CompleteOK
  <2> QED BY <2>2, <2>3
<1> QED BY <1>2, <1>8, <1>9 DEF FlowInv

LEMMA FlowCreate ==
  ASSUME FlowInv, NEW r \in Reqs, CreateDeviceAuthorization(r)
  PROVE  /\ FlowInv'
         /\ req[r].tx \in Txns \ DOMAIN device_authorizations
         /\ UNCHANGED stored
         /\ \A u \in DOMAIN device_authorizations :
              u \in DOMAIN device_authorizations'
              /\ device_authorizations'[u] = device_authorizations[u]
<1> DEFINE tx == req[r].tx
           row == [status |-> "pending", consumed |-> FALSE,
                   expires_at |-> req[r].at + ExpiresIn, poll_after_seconds |-> 1,
                   encrypted_under |-> Encrypt]
<1>t. TypeOK /\ Handlers /\ Complete
  BY DEF FlowInv
<1>1. UNCHANGED <<now, serverSecret, allowedEmails, stored, audit_events, github,
                  tokens, restarts>>
  BY DEF CreateDeviceAuthorization, configVars, githubVars
<1>2. /\ HandlerOK(req[r], stored[tx], tokens[tx], github[tx].state,
                   tx \in DOMAIN device_authorizations)
      /\ req[r].todo # <<>> /\ Head(req[r].todo)[1] = "insert"
  BY <1>t DEF Handlers, CreateDeviceAuthorization, Ahead, Call
<1>3. /\ tx \in Txns /\ req[r].todo = <<Insertion>>
      /\ tx \notin DOMAIN device_authorizations
  BY <1>2, AtCall DEF HandlerOK
<1>4. \/ /\ device_authorizations' = Insert(device_authorizations, tx, row)
         /\ answers' = [answers EXCEPT ![tx] = @ \cup {"created"}]
      \/ UNCHANGED <<device_authorizations, answers>>
  BY DEF CreateDeviceAuthorization
<1>5. row \in AuthRow /\ ~row.consumed /\ row.status = "pending"
  <2>1. req[r].at \in Nat /\ serverSecret \in Secrets
    BY <1>t DEF TypeOK, Local
  <2> QED BY <2>1 DEF AuthRow, Statuses, Encrypt
<1> HIDE DEF row
<1>6. /\ IsTable(device_authorizations', Txns, AuthRow)
      /\ \A u \in DOMAIN device_authorizations' :
           \/ /\ u \in DOMAIN device_authorizations
              /\ device_authorizations'[u] = device_authorizations[u]
           \/ u = tx /\ device_authorizations'[u] = row
      /\ \A u \in DOMAIN device_authorizations :
           u \in DOMAIN device_authorizations'
           /\ device_authorizations'[u] = device_authorizations[u]
  <2>1. IsTable(device_authorizations, Txns, AuthRow)
    BY <1>t DEF TypeOK
  <2>2. CASE device_authorizations' = Insert(device_authorizations, tx, row)
    <3> HIDE DEF tx
    <3>1. IsTable(device_authorizations', Txns, AuthRow)
      BY <2>1, <2>2, <1>3, <1>5, InsertIsTable
    <3>2. /\ DOMAIN device_authorizations' = DOMAIN device_authorizations \cup {tx}
          /\ device_authorizations'[tx] = row
          /\ \A u \in DOMAIN device_authorizations :
               u # tx => device_authorizations'[u] = device_authorizations[u]
      BY <2>2 DEF Insert
    <3>3. tx \notin DOMAIN device_authorizations
      BY <1>3 DEF tx
    <3> QED BY <3>1, <3>2, <3>3
  <2>3. CASE UNCHANGED device_authorizations
    BY <2>1, <2>3
  <2> QED BY <1>4, <2>2, <2>3
<1>7. /\ req' \in [Reqs -> Local]
      /\ Handlers' /\ OneEach' /\ Held' /\ RowsKnown'
  BY <1>1, <1>3, <1>6, AtLast DEF CreateDeviceAuthorization
<1>8. TypeOK'
  <2>1. answers' \in [Txns -> SUBSET Answers]
    BY <1>t, <1>4 DEF TypeOK, Answers
  <2> QED BY <2>1, <1>t, <1>1, <1>6, <1>7 DEF TypeOK
<1>9. Complete'
  <2> SUFFICES ASSUME NEW u \in Txns
               PROVE  CompleteOK(stored[u], answers'[u],
                                 <<"device_flow_approved", u>> \in audit_events,
                                 device_authorizations', u)
    BY <1>1 DEF Complete
  <2>1. CompleteOK(stored[u], answers[u],
                   <<"device_flow_approved", u>> \in audit_events,
                   device_authorizations, u)
    BY <1>t DEF Complete
  <2>2. answers'[u] \subseteq answers[u] \cup {"created"}
    BY <1>t, <1>4 DEF TypeOK
  <2> QED BY <1>5, <1>6, <2>1, <2>2 DEF CompleteOK
<1> QED BY <1>1, <1>3, <1>6, <1>7, <1>8, <1>9 DEF FlowInv

-----------------------------------------------------------------------------
(* The step of a handler that gets, loses or gives back the token of its   *)
(* transaction.                                                            *)
TokenMovesTo(r, l, tx, v) ==
  /\ req' = [req EXCEPT ![r] = l]
  /\ tx = req[r].tx /\ l.tx = tx /\ l.todo # <<Insertion>>
  /\ tokens'[tx] = v /\ github'[tx].state = "used"
  /\ \A u \in Txns \ {tx} : /\ tokens'[u] = tokens[u]
                            /\ github'[u].state = github[u].state
  /\ UNCHANGED <<stored, device_authorizations>>
  /\ \A q \in Reqs \ {r} : req[q].tx = tx => req[q].todo \notin Holding
  /\ v = "held" => l.todo \in Holding
  /\ HandlerOK(l, stored[tx], v, "used", tx \in DOMAIN device_authorizations)

LEMMA TokenMoves ==
  ASSUME FlowInv, NEW r \in Reqs, NEW l \in Local, NEW tx \in Txns, NEW v,
         TokenMovesTo(r, l, tx, v)
  PROVE  Handlers' /\ OneEach' /\ Held' /\ RowsKnown'
<1> USE DEF TokenMovesTo
<1>1. stored \in [Txns -> SUBSET RowKinds]
  BY DEF FlowInv, TypeOK
<1>2. \A u \in Txns : stored[u] \subseteq stored'[u] /\ stored'[u] \subseteq RowKinds
  BY <1>1
<1>3. HandlerOK(l, stored'[tx], tokens'[tx], github'[tx].state,
                tx \in DOMAIN device_authorizations')
  OBVIOUS
<1>4. \A u \in DOMAIN device_authorizations' : u \in DOMAIN device_authorizations
  OBVIOUS
<1>5. tokens'[tx] = "held" => l.todo \in Holding
  OBVIOUS
<1>6. MovesTo(r, l, tx)
  BY <1>2, <1>3, <1>4, <1>5 DEF MovesTo
<1> QED BY <1>6, Moves

LEMMA FlowRevoke ==
  ASSUME FlowInv, NEW r \in Reqs, GitHubRevokeToken(r)
  PROVE  FlowInv'
<1> DEFINE tx == req[r].tx
           t == req[r].todo
           n == Tail(t)
<1>t. TypeOK /\ Handlers /\ OneEach /\ Complete
  BY DEF FlowInv
<1>1. /\ HandlerOK(req[r], stored[tx], tokens[tx], github[tx].state,
                   tx \in DOMAIN device_authorizations)
      /\ t # <<>> /\ Head(t)[1] = "revoke"
  BY <1>t DEF Handlers, GitHubRevokeToken, Ahead, Call
<1>2. /\ tx \in Txns /\ Progress(t, stored[tx])
      /\ t \in {EmailsFailed, NoPrimary, NotAllowed, StoreFailed, ToRevoke}
  BY <1>1, AtCall DEF HandlerOK
<1>3. t \in Holding
  BY <1>2 DEF Holding, Paired
<1>4. github[tx].state = "used"
  BY <1>1, <1>3 DEF HandlerOK
<1>5. \A q \in Reqs \ {r} : req[q].tx = tx => req[q].todo \notin Holding
  BY <1>t, <1>3 DEF OneEach
<1>6. n \in Released \cup Replies /\ Progress(n, stored[tx])
  <2>1. CASE t = ToRevoke
    <3>1. stored[tx] = RowKinds
      BY <1>2, <2>1 DEF Progress, Paired
    <3>2. n = <<Answer("approved")>> /\ "approved" \in Answers
      BY <2>1, Tails DEF Answers, Statuses, Terminal
    <3> QED BY <3>1, <3>2, LateProgress DEF Replies
  <2>2. CASE t = StoreFailed
    <3>1. /\ n = <<Answer("server_error")>>
          /\ "server_error" \in Answers \ {"approved", "consumed"}
      BY <2>2, Tails DEF Answers
    <3>2. n \in Early /\ n \in Replies
      BY <3>1 DEF Early, Replies
    <3> QED BY <3>2, EarlyProgress
  <2>3. CASE t \in {EmailsFailed, NoPrimary, NotAllowed}
    <3>1. n \in Released
      BY <2>3, Tails DEF Released
    <3> QED BY <3>1, EarlyProgress DEF Early
  <2> QED BY <1>2, <2>1, <2>2, <2>3
<1>7. Take(r, n)
  BY DEF GitHubRevokeToken, Return, Take
<1>8. UNCHANGED <<now, serverSecret, allowedEmails, device_authorizations, stored,
                  audit_events, github, answers, restarts>>
  BY DEF GitHubRevokeToken, configVars
<1>9. tokens' = [tokens EXCEPT ![tx] = "revoke_sent"]
  BY DEF GitHubRevokeToken
<1>10. n \in Paths /\ n \in Free
  BY <1>6 DEF Paths, Free
<1> HIDE DEF n
<1>l. PICK l \in Local : GoesOn(r, n, l)
  <2>1. req \in [Reqs -> Local]
    BY <1>t DEF TypeOK
  <2> QED BY <2>1, <1>7, <1>10, TodoIs
<1>11. req' = [req EXCEPT ![r] = l] /\ l.todo = n /\ l.tx = req[r].tx
  BY <1>l DEF GoesOn
<1>12. HandlerOK(l, stored[tx], "revoke_sent", "used",
                 tx \in DOMAIN device_authorizations)
  BY <1>2, <1>6, <1>11, FreeOK
<1>13. l.todo # <<Insertion>>
  <2>1. Head(n)[1] # "insert"
    <3>1. CASE n \in Released
      BY <3>1, Heads, Names DEF Released
    <3>2. CASE n \in Replies
      BY <3>2, Heads, Names DEF Replies
    <3> QED BY <1>6, <3>1, <3>2
  <2> QED BY <1>11, <2>1, Heads, Names
<1>14. tx = req[r].tx /\ l.tx = tx /\ tx \in Txns
  BY <1>2, <1>11
<1>15. /\ tokens'[tx] = "revoke_sent" /\ github'[tx].state = "used"
       /\ \A u \in Txns \ {tx} : /\ tokens'[u] = tokens[u]
                                /\ github'[u].state = github[u].state
  BY <1>t, <1>2, <1>4, <1>8, <1>9 DEF TypeOK
<1>16. req' \in [Reqs -> Local]
  BY <1>t, <1>11 DEF TypeOK
<1>17. TypeOK'
  <2>1. tokens' \in [Txns -> TokenStates]
    BY <1>t, <1>9 DEF TypeOK, TokenStates
  <2> QED BY <2>1, <1>t, <1>8, <1>16 DEF TypeOK
<1>18. Complete'
  BY <1>t, <1>8 DEF Complete
<1> HIDE DEF tx
<1>19. TokenMovesTo(r, l, tx, "revoke_sent")
  BY <1>5, <1>8, <1>11, <1>12, <1>13, <1>14, <1>15 DEF TokenMovesTo
<1>20. Handlers' /\ OneEach' /\ Held' /\ RowsKnown'
  BY <1>14, <1>19, TokenMoves
<1> QED BY <1>17, <1>18, <1>20 DEF FlowInv

LEMMA FlowPollToken ==
  ASSUME FlowInv, NEW r \in Reqs, PollToken(r)
  PROVE  FlowInv'
<1> DEFINE tx == req[r].tx
<1>t. TypeOK /\ Handlers /\ Complete
  BY DEF FlowInv
<1>1. /\ HandlerOK(req[r], stored[tx], tokens[tx], github[tx].state,
                   tx \in DOMAIN device_authorizations)
      /\ req[r].todo # <<>> /\ github[tx].state = "approved"
  BY <1>t DEF Handlers, PollToken, Ahead
<1>2. tx \in Txns
  BY <1>1 DEF HandlerOK
<1>3. \A q \in Reqs \ {r} : req[q].tx = tx => req[q].todo \notin Holding
  BY <1>t, <1>1 DEF Handlers, HandlerOK
<1>4. UNCHANGED <<now, serverSecret, allowedEmails, device_authorizations, stored,
                  audit_events, answers, restarts>>
  BY DEF PollToken, configVars
<1>5. /\ tokens' = [tokens EXCEPT ![tx] = "held"]
      /\ github' = [github EXCEPT ![tx].state = "used"]
      /\ Take(r, <<UserEmails>>)
  BY DEF PollToken
<1>6. <<UserEmails>> \in Paths /\ <<UserEmails>> \in Holding
      /\ <<UserEmails>> \in Early
  BY DEF Paths, Holding, Early
<1>l. PICK l \in Local : GoesOn(r, <<UserEmails>>, l)
  <2>1. req \in [Reqs -> Local]
    BY <1>t DEF TypeOK
  <2> QED BY <2>1, <1>5, <1>6, TodoIs
<1>7. req' = [req EXCEPT ![r] = l] /\ l.todo = <<UserEmails>> /\ l.tx = req[r].tx
  BY <1>l DEF GoesOn
<1>8. HandlerOK(l, stored[tx], "held", "used", tx \in DOMAIN device_authorizations)
  BY <1>2, <1>6, <1>7, EarlyProgress, HoldingOK
<1>9. l.todo # <<Insertion>>
  BY <1>6, <1>7, FreeOfTokens DEF Free
<1>10. /\ tokens'[tx] = "held" /\ github'[tx].state = "used"
       /\ \A u \in Txns \ {tx} : /\ tokens'[u] = tokens[u]
                                /\ github'[u].state = github[u].state
       /\ tokens' \in [Txns -> TokenStates]
       /\ github' \in [Txns -> [state : GitHubStates,
                                email : Emails \cup {NoEmail}]]
  BY <1>t, <1>2, <1>5 DEF TypeOK, TokenStates, GitHubStates
<1>11. req' \in [Reqs -> Local]
  BY <1>t, <1>7 DEF TypeOK
<1>12. TypeOK' /\ Complete'
  BY <1>t, <1>4, <1>10, <1>11 DEF TypeOK, Complete
<1>13. tx = req[r].tx /\ l.tx = tx /\ tx \in Txns
  BY <1>2, <1>7
<1> HIDE DEF tx
<1>14. TokenMovesTo(r, l, tx, "held")
  BY <1>3, <1>4, <1>6, <1>7, <1>8, <1>9, <1>10, <1>13 DEF TokenMovesTo
<1>15. Handlers' /\ OneEach' /\ Held' /\ RowsKnown'
  BY <1>13, <1>14, TokenMoves
<1> QED BY <1>12, <1>15 DEF FlowInv

(* What a poll without a token goes on with.                               *)
LEMMA PollBranches ==
  ASSUME FlowInv, NEW r \in Reqs, PollNoToken(r)
  PROVE  \E n \in Paths :
           /\ req' = [req EXCEPT ![r].todo = n]
           /\ n \in Slowing
                \cup {<<Answer(s)>> : s \in Answers \ {"approved", "consumed"}}
<1> DEFINE t == req[r].todo
           N == Slowing
                  \cup {<<Answer(s)>> : s \in Answers \ {"approved", "consumed"}}
<1>t. Handlers
  BY DEF FlowInv
<1>1. /\ HandlerOK(req[r], stored[req[r].tx], tokens[req[r].tx],
                   github[req[r].tx].state,
                   req[r].tx \in DOMAIN device_authorizations)
      /\ t # <<>> /\ Head(t)[1] = "poll"
  BY <1>t DEF Handlers, PollNoToken, Ahead, Call
<1>2. t = <<Poll>> /\ req[r].status \in {"pending", "slow_down"}
  BY <1>1, AtCall DEF HandlerOK
<1>3. {"pending", "slow_down"} \subseteq Answers \ {"approved", "consumed"}
  BY DEF Answers, Statuses, Terminal
<1>4. N \subseteq Paths
  BY DEF Paths, Replies
<1>5. \A s \in {"pending", "slow_down"} : <<Answer(s)>> \in N
  BY <1>3
<1>6. \A i \in 1..MaxInterval : SlowDown(i) \in N
  BY DEF Slowing
<1>7. \A i \in {SlowDownInterval(n) : n \in 0..MaxInterval} : i \in 1..MaxInterval
  BY DEF SlowDownInterval
<1> HIDE DEF N
<1>8. ASSUME NEW i \in {SlowDownInterval(n) : n \in 0..MaxInterval},
             Take(r, IF i > req[r].poll_after
                       THEN SlowDown(i) ELSE <<Answer("slow_down")>>)
      PROVE  \E n \in N : req' = [req EXCEPT ![r].todo = n]
  BY <1>5, <1>6, <1>7, <1>8 DEF Take
<1>9. \E n \in N : req' = [req EXCEPT ![r].todo = n]
  BY <1>2, <1>5, <1>8 DEF PollNoToken, Take
<1> QED BY <1>4, <1>9 DEF N

LEMMA FlowPollNo ==
  ASSUME FlowInv, NEW r \in Reqs, PollNoToken(r)
  PROVE  FlowInv'
<1> DEFINE tx == req[r].tx
           t == req[r].todo
<1>t. TypeOK /\ Handlers /\ Complete
  BY DEF FlowInv
<1>1. /\ HandlerOK(req[r], stored[tx], tokens[tx], github[tx].state,
                   tx \in DOMAIN device_authorizations)
      /\ t # <<>> /\ Head(t)[1] = "poll"
  BY <1>t DEF Handlers, PollNoToken, Ahead, Call
<1>2. tx \in Txns /\ t = <<Poll>>
  BY <1>1, AtCall DEF HandlerOK
<1>3. t \notin Holding
  BY <1>2, FreeOfTokens DEF Free
<1>4. PICK n \in Paths :
        /\ req' = [req EXCEPT ![r].todo = n]
        /\ n \in Slowing
             \cup {<<Answer(s)>> : s \in Answers \ {"approved", "consumed"}}
  BY PollBranches
<1>5. n \in Underway /\ n \in Early /\ n \in Free /\ n \in Replies \cup Slowing
  BY <1>4 DEF Underway, Early, Free, Replies
<1>6. n \notin Holding /\ Progress(n, stored[tx])
  BY <1>5, FreeOfTokens, EarlyProgress
<1>7. UNCHANGED <<now, serverSecret, allowedEmails, device_authorizations, stored,
                  audit_events, answers, restarts>>
  BY DEF PollNoToken, configVars
<1>8. CASE UNCHANGED <<github, tokens>>
  <2>1. \A u \in Txns : stored[u] \subseteq stored'[u]
                        /\ stored'[u] \subseteq RowKinds
    BY <1>7, <1>t DEF TypeOK
  <2>2. Progress(n, stored'[req[r].tx])
    BY <1>6, <1>7
  <2>3. DOMAIN device_authorizations' \subseteq DOMAIN device_authorizations
    BY <1>7
  <2>p. ProceedsTo(r, n)
    BY <1>1, <1>3, <1>4, <1>6, <1>8, <2>1, <2>2, <2>3 DEF ProceedsTo, Take
  <2>4. req' \in [Reqs -> Local] /\ Handlers' /\ OneEach' /\ Held' /\ RowsKnown'
    BY <1>5, <2>p, Proceeds
  <2>5. TypeOK' /\ Complete'
    BY <1>t, <1>7, <1>8, <2>4 DEF TypeOK, Complete
  <2> QED BY <2>4, <2>5 DEF FlowInv
<1>9. CASE /\ github[tx].state = "approved"
           /\ github' = [github EXCEPT ![tx].state = "used"]
           /\ tokens' = [tokens EXCEPT ![tx] = "lost"]
  <2>1. \A q \in Reqs \ {r} : req[q].tx = tx => req[q].todo \notin Holding
    BY <1>t, <1>9 DEF Handlers, HandlerOK
  <2>l. PICK l \in Local : GoesOn(r, n, l)
    <3>1. req \in [Reqs -> Local]
      BY <1>t DEF TypeOK
    <3>2. Take(r, n)
      BY <1>4 DEF Take
    <3> QED BY <3>1, <3>2, TodoIs
  <2>2. req' = [req EXCEPT ![r] = l] /\ l.todo = n /\ l.tx = req[r].tx
    BY <2>l DEF GoesOn
  <2>3. HandlerOK(l, stored[tx], "lost", "used", tx \in DOMAIN device_authorizations)
    BY <1>2, <1>5, <1>6, <2>2, FreeOK
  <2>4. l.todo # <<Insertion>>
    <3>1. Head(n)[1] # "insert"
      <4>1. CASE n \in Slowing
        BY <4>1, Heads, Names DEF Slowing
      <4>2. CASE n \in Replies
        BY <4>2, Heads, Names DEF Replies
      <4> QED BY <1>5, <4>1, <4>2
    <3> QED BY <2>2, <3>1, Heads, Names
  <2>5. /\ tokens'[tx] = "lost" /\ github'[tx].state = "used"
        /\ \A u \in Txns \ {tx} : /\ tokens'[u] = tokens[u]
                                 /\ github'[u].state = github[u].state
        /\ tokens' \in [Txns -> TokenStates]
        /\ github' \in [Txns -> [state : GitHubStates,
                                 email : Emails \cup {NoEmail}]]
    BY <1>t, <1>2, <1>9 DEF TypeOK, TokenStates, GitHubStates
  <2>6. req' \in [Reqs -> Local]
    BY <1>t, <2>2 DEF TypeOK
  <2>7. TypeOK' /\ Complete'
    BY <1>t, <1>7, <2>5, <2>6 DEF TypeOK, Complete
  <2>8. tx = req[r].tx /\ l.tx = tx /\ tx \in Txns
    BY <1>2, <2>2
  <2> HIDE DEF tx
  <2>9. TokenMovesTo(r, l, tx, "lost")
    BY <1>7, <2>1, <2>2, <2>3, <2>4, <2>5, <2>8 DEF TokenMovesTo
  <2>10. Handlers' /\ OneEach' /\ Held' /\ RowsKnown'
    BY <2>8, <2>9, TokenMoves
  <2> QED BY <2>7, <2>10 DEF FlowInv
<1> QED BY <1>8, <1>9 DEF PollNoToken, githubVars

-----------------------------------------------------------------------------
(* Requests that arrive.                                                   *)
LEMMA FlowRequest ==
  ASSUME FlowInv, NEW r \in Reqs, NEW tx \in Txns, RequestDeviceAuthorization(r, tx)
  PROVE  FlowInv'
<1> DEFINE l == [Idle EXCEPT !.tx = tx, !.at = now, !.todo = <<Insertion>>]
<1>t. TypeOK /\ RowsKnown /\ Complete
  BY DEF FlowInv
<1>1. UNCHANGED <<now, serverSecret, allowedEmails, device_authorizations, stored,
                  audit_events, tokens, answers, restarts>>
  BY DEF RequestDeviceAuthorization, configVars
<1>2. /\ req[r].todo = <<>> /\ req' = [req EXCEPT ![r] = l]
      /\ github[tx].state = "none"
      /\ github' = [github EXCEPT ![tx].state = "pending"]
  BY DEF RequestDeviceAuthorization, Ahead
<1>3. /\ <<Insertion>> \in Paths /\ <<Insertion>> \in Early
      /\ <<Insertion>> \notin Holding /\ Insertion # Poll
  BY FreeOfTokens, Names DEF Paths, Early, Free
<1>4. now \in Nat
  BY <1>t DEF TypeOK
<1>5. l \in Local /\ l.tx = tx /\ l.todo = <<Insertion>>
  <2>1. /\ DOMAIN Idle = {"tx", "status", "poll_after", "at", "todo"}
        /\ <<Insertion>> \in Seq(Calls)
    BY <1>3, PathTypes DEF Idle
  <2> QED BY <1>4, <2>1, IdleIsLocal DEF Local
<1> HIDE DEF l
<1>6. /\ github'[tx].state = "pending"
      /\ \A u \in Txns \ {tx} : github'[u].state = github[u].state
      /\ github' \in [Txns -> [state : GitHubStates,
                               email : Emails \cup {NoEmail}]]
  BY <1>t, <1>2 DEF TypeOK, GitHubStates
<1>7. tx \notin DOMAIN device_authorizations
  BY <1>t, <1>2 DEF RowsKnown
<1>8. HandlerOK(l, stored[tx], tokens[tx], github'[tx].state,
                tx \in DOMAIN device_authorizations)
  BY <1>3, <1>5, <1>6, <1>7, EarlyProgress DEF HandlerOK
<1>9. ArrivesAs(r, l, tx)
  BY <1>1, <1>2, <1>3, <1>5, <1>6, <1>8 DEF ArrivesAs
<1>10. Handlers' /\ OneEach' /\ Held' /\ RowsKnown'
  BY <1>5, <1>9, Arrives
<1>11. req' \in [Reqs -> Local]
  BY <1>t, <1>2, <1>5 DEF TypeOK
<1>12. TypeOK' /\ Complete'
  BY <1>t, <1>1, <1>6, <1>11 DEF TypeOK, Complete
<1> QED BY <1>10, <1>12 DEF FlowInv

(* The branch a row leads to; S are the rows stored for its transaction.   *)
LEMMA Branches ==
  ASSUME NEW row \in AuthRow, NEW S,
         row.consumed \/ row.status = "approved" => S = RowKinds
  PROVE  /\ Branch(row) \in {Expire, <<Poll>>} \cup Replies
         /\ Branch(row) = <<Poll>> => row.status \in {"pending", "slow_down"}
         /\ Progress(Branch(row), S)
<1>1. /\ Statuses \subseteq Answers
      /\ {"consumed", "server_error"} \subseteq Answers
      /\ "consumed" \notin Statuses
  BY DEF Answers, Statuses, Terminal
<1>2. row.status \in Statuses
  BY DEF AuthRow
<1>3. CASE row.consumed
  <2>1. Branch(row) = <<Answer("consumed")>>
    BY <1>3 DEF Branch
  <2> QED BY <1>1, <1>3, <2>1, LateProgress, Heads, Names DEF Replies
<1>4. CASE ~row.consumed /\ Branch(row) = <<Answer(row.status)>>
  <2>1. CASE row.status = "approved"
    BY <1>1, <1>2, <1>4, <2>1, LateProgress, Heads, Names DEF Replies
  <2>2. CASE row.status # "approved"
    <3>1. <<Answer(row.status)>> \in Early
      BY <1>1, <1>2, <2>2 DEF Early
    <3> QED BY <1>1, <1>2, <1>4, <3>1, EarlyProgress, Heads, Names DEF Replies
  <2> QED BY <2>1, <2>2
<1>5. CASE Branch(row) = <<Answer("server_error")>>
  <2>1. <<Answer("server_error")>> \in Early
    BY <1>1 DEF Early
  <2> QED BY <1>1, <1>5, <2>1, EarlyProgress, Heads, Names DEF Replies
<1>6. CASE Branch(row) = Expire
  <2>1. Expire \in Early
    BY DEF Early
  <2>2. Expire # <<Poll>>
    BY Heads, Names
  <2> QED BY <1>6, <2>1, <2>2, EarlyProgress
<1>7. CASE Branch(row) = <<Poll>> /\ row.status \in {"pending", "slow_down"}
  <2>1. <<Poll>> \in Early
    BY DEF Early
  <2> QED BY <1>7, <2>1, EarlyProgress
<1> QED BY <1>3, <1>4, <1>5, <1>6, <1>7 DEF Branch

LEMMA FlowGet ==
  ASSUME FlowInv, NEW r \in Reqs, NEW tx \in Txns, GetDeviceAuthorization(r, tx)
  PROVE  FlowInv'
<1>t. TypeOK /\ Complete
  BY DEF FlowInv
<1>1. UNCHANGED <<now, serverSecret, allowedEmails, device_authorizations, stored,
                  audit_events, github, tokens, answers, restarts>>
  BY DEF GetDeviceAuthorization, configVars, githubVars
<1>2. req[r].todo = <<>>
  BY DEF GetDeviceAuthorization, Ahead
<1>3. PICK l \in Local :
        /\ req' = [req EXCEPT ![r] = l] /\ l.tx = tx
        /\ l.todo \in {Expire, <<Poll>>} \cup Replies
        /\ l.todo = <<Poll>> => l.status \in {"pending", "slow_down"}
        /\ Progress(l.todo, stored[tx])
  <2>1. CASE tx \in DOMAIN device_authorizations
    <3> DEFINE row == device_authorizations[tx]
               l == [Idle EXCEPT !.tx = tx, !.status = row.status,
                                 !.poll_after = row.poll_after_seconds,
                                 !.todo = Branch(row)]
    <3>1. req' = [req EXCEPT ![r] = l]
      BY <2>1 DEF GetDeviceAuthorization
    <3>2. row \in AuthRow
      BY <1>t, <2>1 DEF TypeOK, IsTable
    <3>3. row.consumed \/ row.status = "approved" => stored[tx] = RowKinds
      BY <1>t, <2>1 DEF Complete, CompleteOK
    <3> HIDE DEF row
    <3>4. /\ Branch(row) \in {Expire, <<Poll>>} \cup Replies
          /\ Branch(row) = <<Poll>> => row.status \in {"pending", "slow_down"}
          /\ Progress(Branch(row), stored[tx])
      BY <3>2, <3>3, Branches
    <3>5. /\ row.status \in Statuses /\ row.poll_after_seconds \in 1..MaxInterval
          /\ Branch(row) \in Paths
      BY <3>2, <3>4 DEF AuthRow, Paths
    <3>6. Branch(row) \in Seq(Calls)
      BY <3>5, PathTypes
    <3>7. l \in Local /\ l.tx = tx /\ l.status = row.status /\ l.todo = Branch(row)
      BY <3>5, <3>6 DEF Idle, Local
    <3> HIDE DEF l
    <3> QED BY <3>1, <3>4, <3>7
  <2>2. CASE tx \notin DOMAIN device_authorizations
    <3> DEFINE l == [Idle EXCEPT !.tx = tx, !.todo = <<Answer("not_found")>>]
    <3>1. req' = [req EXCEPT ![r] = l]
      BY <2>2 DEF GetDeviceAuthorization
    <3>2. /\ <<Answer("not_found")>> \in Replies
          /\ <<Answer("not_found")>> \in Early
          /\ <<Answer("not_found")>> # <<Poll>>
      <4>1. "not_found" \in Answers \ {"approved", "consumed"}
        BY DEF Answers
      <4> QED BY <4>1, Heads, Names DEF Replies, Early
    <3>3. <<Answer("not_found")>> \in Paths
      BY <3>2 DEF Paths
    <3>4. l \in Local /\ l.tx = tx /\ l.todo = <<Answer("not_found")>>
      BY <3>3, IdleWith
    <3> HIDE DEF l
    <3> QED BY <3>1, <3>2, <3>4, EarlyProgress
  <2> QED BY <2>1, <2>2
<1>4. l.todo \notin Holding
  BY <1>3, FreeOfTokens DEF Free
<1>5. l.todo # <<Insertion>>
  <2>1. Head(l.todo)[1] # "insert"
    <3>1. CASE l.todo \in {Expire, <<Poll>>}
      BY <3>1, Heads, Names
    <3>2. CASE l.todo \in Replies
      BY <3>2, Heads, Names DEF Replies
    <3> QED BY <1>3, <3>1, <3>2
  <2> QED BY <2>1, Heads, Names
<1>6. HandlerOK(l, stored[tx], tokens[tx], github'[tx].state,
                tx \in DOMAIN device_authorizations)
  <2>1. l.todo \in Paths
    BY <1>3 DEF Paths
  <2> QED BY <1>3, <1>4, <1>5, <2>1 DEF HandlerOK
<1>7. ArrivesAs(r, l, tx)
  BY <1>1, <1>2, <1>3, <1>4, <1>5, <1>6 DEF ArrivesAs
<1>8. Handlers' /\ OneEach' /\ Held' /\ RowsKnown'
  BY <1>7, Arrives
<1>9. req' \in [Reqs -> Local]
  BY <1>t, <1>3 DEF TypeOK
<1>10. TypeOK' /\ Complete'
  BY <1>t, <1>1, <1>9 DEF TypeOK, Complete
<1> QED BY <1>8, <1>10 DEF FlowInv

(* Steps outside the handlers.                                             *)
LEMMA FlowUser ==
  ASSUME FlowInv, NEW tx \in Txns, UserDecides(tx)
  PROVE  FlowInv'
<1>t. /\ TypeOK /\ Handlers /\ OneEach /\ Held /\ RowsKnown /\ Complete
      /\ stored \in [Txns -> SUBSET RowKinds]
      /\ DOMAIN device_authorizations \subseteq Txns
  BY DEF FlowInv, TypeOK, IsTable
<1>1. UNCHANGED <<now, serverSecret, allowedEmails, device_authorizations, stored,
                  audit_events, tokens, req, answers, restarts>>
  BY DEF UserDecides, configVars
<1>2. /\ github[tx].state = "pending" /\ github'[tx].state # "none"
      /\ \A u \in Txns \ {tx} : github'[u] = github[u]
      /\ github' \in [Txns -> [state : GitHubStates,
                               email : Emails \cup {NoEmail}]]
  BY <1>t DEF UserDecides, TypeOK, GitHubStates
<1>3. Handlers'
  <2> SUFFICES ASSUME NEW q \in Reqs
               PROVE  HandlerOK(req[q], stored[req[q].tx], tokens[req[q].tx],
                                github'[req[q].tx].state,
                                req[q].tx \in DOMAIN device_authorizations)
    BY <1>1 DEF Handlers
  <2> DEFINE u == req[q].tx
  <2>1. HandlerOK(req[q], stored[u], tokens[u], github[u].state,
                  u \in DOMAIN device_authorizations)
    BY <1>t DEF Handlers
  <2>2. CASE req[q].todo = <<>>
    BY <2>2, RestingOK
  <2>3. CASE req[q].todo # <<>>
    <3>1. u \in Txns
      BY <2>1, <2>3 DEF HandlerOK
    <3>2. /\ req[q].todo \in Holding => github'[u].state = github[u].state
          /\ github[u].state # "none" => github'[u].state # "none"
      BY <1>2, <2>1, <3>1 DEF HandlerOK
    <3>3. stored[u] \subseteq RowKinds
      BY <1>t, <3>1
    <3> HIDE DEF u
    <3>4. HandlerOK(req[q], stored[u], tokens[u], github'[u].state,
                    u \in DOMAIN device_authorizations)
      BY <2>1, <3>2, <3>3, HandlerKept
    <3> QED BY <3>4 DEF u
  <2> QED BY <2>2, <2>3
<1>4. OneEach' /\ Held' /\ Complete'
  BY <1>t, <1>1 DEF OneEach, Held, Complete
<1>5. RowsKnown'
  BY <1>t, <1>1, <1>2 DEF RowsKnown
<1>6. TypeOK'
  BY <1>t, <1>1, <1>2 DEF TypeOK
<1> QED BY <1>3, <1>4, <1>5, <1>6 DEF FlowInv

LEMMA FlowCleanup ==
  ASSUME FlowInv, CleanupExpired
  PROVE  FlowInv'
<1>t. TypeOK /\ Handlers /\ OneEach /\ Held /\ RowsKnown
  BY DEF FlowInv
<1>1. UNCHANGED <<now, serverSecret, allowedEmails, stored, audit_events, github,
                  tokens, req, answers, restarts>>
  BY DEF CleanupExpired, configVars, githubVars
<1>2. IsTable(device_authorizations, Txns, AuthRow)
  BY <1>t DEF TypeOK
<1>3. PICK cutoff \in 0..now : device_authorizations' = CleanedUp(cutoff)
  BY DEF CleanupExpired
<1>4. /\ IsTable(device_authorizations', Txns, AuthRow)
      /\ DOMAIN device_authorizations' \subseteq DOMAIN device_authorizations
      /\ RowsMove(device_authorizations, device_authorizations',
                  {u \in Txns : stored[u] = RowKinds})
  BY <1>2, <1>3, CleanedRows
<1>5. TypeOK'
  BY <1>t, <1>1, <1>4 DEF TypeOK
<1>6. Complete'
  BY <1>1, <1>4, CompleteMoves
<1>7. Handlers'
  BY <1>t, <1>1, <1>4 DEF Handlers, HandlerOK
<1>8. OneEach' /\ Held' /\ RowsKnown'
  BY <1>t, <1>1, <1>4 DEF OneEach, Held, RowsKnown
<1> QED BY <1>5, <1>6, <1>7, <1>8 DEF FlowInv

LEMMA FlowRestart ==
  ASSUME FlowInv, Restart
  PROVE  FlowInv'
<1>t. TypeOK /\ RowsKnown
  BY DEF FlowInv
<1>1. UNCHANGED <<now, stored, audit_events, github, answers>>
  BY DEF Restart
<1>2. IsTable(device_authorizations, Txns, AuthRow)
  BY <1>t DEF TypeOK
<1>3. device_authorizations' = CleanedUp(now) \/ UNCHANGED device_authorizations
  BY DEF Restart
<1>4. /\ IsTable(device_authorizations', Txns, AuthRow)
      /\ DOMAIN device_authorizations' \subseteq DOMAIN device_authorizations
      /\ RowsMove(device_authorizations, device_authorizations',
                  {u \in Txns : stored[u] = RowKinds})
  BY <1>2, <1>3, CleanedRows
<1>5. /\ tokens' \in [Txns -> TokenStates]
      /\ \A tx \in Txns : tokens'[tx] # "held"
  BY <1>t DEF Restart, TypeOK, TokenStates
<1>6. /\ req' \in [Reqs -> Local]
      /\ \A r \in Reqs : req'[r].todo = <<>>
  BY IdleIsLocal DEF Restart
<1>7. TypeOK'
  <2>1. serverSecret' \in Secrets /\ allowedEmails' \in SUBSET Emails
    BY DEF Restart
  <2>2. restarts' \in 0..MaxRestarts
    BY <1>t DEF Restart, TypeOK
  <2> QED BY <1>t, <1>1, <1>4, <1>5, <1>6, <2>1, <2>2 DEF TypeOK
<1>8. Complete'
  BY <1>1, <1>4, CompleteMoves
<1>9. Handlers'
  BY <1>6, RestingOK DEF Handlers
<1>10. OneEach' /\ Held' /\ RowsKnown'
  <2>1. <<>> \notin Holding /\ <<>> # <<Insertion>>
    BY FreeOfTokens DEF Free
  <2> QED BY <1>t, <1>1, <1>4, <1>5, <1>6, <2>1 DEF OneEach, Held, RowsKnown
<1> QED BY <1>7, <1>8, <1>9, <1>10 DEF FlowInv

LEMMA FlowInit == Init => FlowInv
<1> SUFFICES ASSUME Init PROVE FlowInv
  OBVIOUS
<1>1. /\ IsTable(device_authorizations, Txns, AuthRow)
      /\ DOMAIN device_authorizations = {}
  BY EmptyTableIsTable DEF Init
<1>2. req \in [Reqs -> Local] /\ \A r \in Reqs : req[r].todo = <<>>
  BY IdleIsLocal DEF Init
<1>3. TypeOK
  BY <1>1, <1>2 DEF Init, TypeOK, GitHubStates, TokenStates
<1>4. Handlers
  BY <1>2, RestingOK DEF Handlers
<1>5. OneEach /\ Held
  <2>1. <<>> \notin Holding /\ <<>> # <<Insertion>>
    BY FreeOfTokens DEF Free
  <2> QED BY <1>2, <2>1 DEF OneEach, Held, Init
<1>6. RowsKnown
  BY <1>1 DEF RowsKnown
<1>7. Complete
  BY <1>1 DEF Complete, CompleteOK, Init
<1> QED BY <1>3, <1>4, <1>5, <1>6, <1>7 DEF FlowInv

LEMMA FlowNext == FlowInv /\ [Next]_vars => FlowInv'
<1> SUFFICES ASSUME FlowInv, [Next]_vars PROVE FlowInv'
  OBVIOUS
<1>1. ASSUME NEW r \in Reqs, Step(r) PROVE FlowInv'
  BY <1>1, FlowCreate, FlowPollNo, FlowPollToken, FlowEmails, FlowRevoke,
     FlowStore, FlowWrite, FlowAudit, FlowRespond DEF Step
<1>2. ASSUME NEW r \in Reqs, NEW tx \in Txns,
             \/ RequestDeviceAuthorization(r, tx)
             \/ GetDeviceAuthorization(r, tx)
      PROVE  FlowInv'
  BY <1>2, FlowRequest, FlowGet
<1>3. ASSUME NEW tx \in Txns, UserDecides(tx) PROVE FlowInv'
  BY <1>3, FlowUser
<1>4. CASE CleanupExpired \/ Restart
  BY <1>4, FlowCleanup, FlowRestart
<1>5. CASE Tick
  <2>1. now' \in 0..MaxNow
    BY <1>5 DEF Tick, FlowInv, TypeOK
  <2>2. UNCHANGED <<serverSecret, allowedEmails, device_authorizations, stored,
                    audit_events, github, tokens, req, answers, restarts>>
    BY <1>5 DEF Tick, configVars, githubVars
  <2> QED BY <2>1, <2>2 DEF FlowInv, TypeOK, Handlers, OneEach, Held, RowsKnown,
          Complete
<1>6. CASE UNCHANGED vars
  BY <1>6 DEF vars, FlowInv, TypeOK, Handlers, OneEach, Held, RowsKnown, Complete
<1> QED BY <1>1, <1>2, <1>3, <1>4, <1>5, <1>6 DEF Next

LEMMA FlowInductive == Spec => []FlowInv
BY FlowInit, FlowNext, PTL DEF Spec

-----------------------------------------------------------------------------
(* Every reachable state is of the shape the tables, the device codes and  *)
(* the handlers of handleGetDeviceAuthorization have: no handler ever runs *)
(* off its branch.                                                         *)
THEOREM FlowTypeCorrect == Spec => []TypeOK
BY FlowInductive, PTL DEF FlowInv

(* Whichever call of a pairing fails and wherever the process dies, a      *)
(* transaction is recorded or reported as approved only with its device    *)
(* and both of its sessions stored.                                        *)
THEOREM PairedWhenApproved == Spec => []ApprovedIsComplete
<1>1. FlowInv => ApprovedIsComplete
  BY DEF FlowInv, Complete, CompleteOK, ApprovedIsComplete
<1> QED BY <1>1, FlowInductive, PTL

(* A GitHub token that was delivered and not yet revoked is in the hands   *)
(* of a running handler that has the revocation ahead of it.               *)
THEOREM TokensAccountedFor == Spec => []TokenNotForgotten
<1>1. FlowInv => TokenNotForgotten
  <2> SUFFICES ASSUME FlowInv, NEW tx \in Txns, tokens[tx] = "held"
               PROVE  \E r \in Reqs :
                        /\ req[r].tx = tx
                        /\ \E i \in DOMAIN req[r].todo :
                             req[r].todo[i] \in {UserEmails, RevokeToken}
    BY DEF TokenNotForgotten
  <2>1. PICK r \in Reqs : req[r].tx = tx /\ req[r].todo \in Holding
    BY DEF FlowInv, Held
  <2>2. TokenAhead(req[r].todo)
    BY <2>1, HoldingAhead
  <2> QED BY <2>1, <2>2 DEF TokenAhead
<1> QED BY <1>1, FlowInductive, PTL

(* However many polls of a transaction run at the same time, at most one   *)
(* of them ever has the GitHub token, so at most one stores rows: a        *)
(* transaction does not pair two devices.                                  *)
OnePairs ==
  \A q, r \in Reqs :
    q # r /\ req[q].tx = req[r].tx =>
      ~(/\ Ahead(q) /\ Call(q) \in {"emails", "store"}
        /\ Ahead(r) /\ Call(r) \in {"emails", "store"})

THEOREM OneRequestPairs == Spec => []OnePairs
<1>1. FlowInv => OnePairs
  <2> SUFFICES ASSUME FlowInv, NEW q \in Reqs, NEW r \in Reqs, q # r,
                      req[q].tx = req[r].tx,
                      Ahead(q), Call(q) \in {"emails", "store"},
                      Ahead(r), Call(r) \in {"emails", "store"}
               PROVE  FALSE
    BY DEF OnePairs
  <2>1. /\ req[q].todo \in Paths /\ req[q].todo # <<>>
        /\ req[r].todo \in Paths /\ req[r].todo # <<>>
    BY DEF FlowInv, Handlers, HandlerOK, Ahead
  <2>2. \A t \in Paths : t # <<>> /\ Head(t)[1] \in {"emails", "store"} =>
                           t \in Holding
    BY AtCall DEF Holding
  <2>3. req[q].todo \in Holding /\ req[r].todo \in Holding
    BY <2>1, <2>2 DEF Call
  <2> QED BY <2>3 DEF FlowInv, OneEach
<1> QED BY <1>1, FlowInductive, PTL

(* No late write of another poll, no cleanup and no restart reopens a      *)
(* consumed transaction, and no row is stored for it any more.             *)
THEOREM ConsumedStays == Spec => ConsumedIsFinal
<1> DEFINE Kept == \A tx \in DOMAIN device_authorizations :
                     device_authorizations[tx].consumed =>
                       /\ stored'[tx] = stored[tx]
                       /\ tx \in DOMAIN device_authorizations' =>
                            device_authorizations'[tx].consumed
<1>1. ASSUME FlowInv, [Next]_vars PROVE Kept
  <2>t. /\ IsTable(device_authorizations, Txns, AuthRow)
        /\ stored \in [Txns -> SUBSET RowKinds]
        /\ \A tx \in DOMAIN device_authorizations :
             device_authorizations[tx].consumed => stored[tx] = RowKinds
    BY <1>1 DEF FlowInv, TypeOK, IsTable, Complete, CompleteOK
  <2>k. /\ DOMAIN device_authorizations \subseteq Txns
        /\ FlowInv'
    BY <1>1, <2>t, FlowNext DEF IsTable
  <2>1. CASE UNCHANGED <<device_authorizations, stored>>
    BY <2>1
  <2>2. ASSUME NEW C, UNCHANGED stored,
               RowsMove(device_authorizations, device_authorizations', C)
        PROVE  Kept
    BY <2>2 DEF RowsMove
  <2>3. ASSUME NEW r \in Reqs, CreateDeviceAuthorization(r) PROVE Kept
    <3>1. /\ UNCHANGED stored
          /\ \A u \in DOMAIN device_authorizations :
               /\ u \in DOMAIN device_authorizations'
               /\ device_authorizations'[u] = device_authorizations[u]
      BY <1>1, <2>3, FlowCreate
    <3> QED BY <3>1
  <2>4. ASSUME NEW r \in Reqs, StoreRow(r) PROVE Kept
    <3>1. /\ UNCHANGED device_authorizations
          /\ UNCHANGED stored
             \/ stored' = [stored EXCEPT ![req[r].tx] = @ \cup {Arg(r)}]
      BY <2>4 DEF StoreRow
    <3>2. \A u \in Txns : stored[u] \subseteq stored'[u]
      BY <3>1, <2>t
    <3>3. \A u \in Txns : stored'[u] \subseteq RowKinds
      BY <2>k DEF FlowInv, TypeOK
    <3>4. \A u \in Txns : stored[u] = RowKinds => stored'[u] = stored[u]
      BY <3>2, <3>3
    <3> QED BY <2>t, <2>k, <3>1, <3>4
  <2>5. ASSUME NEW r \in Reqs, WriteStatus(r) PROVE Kept
    <3>1. UNCHANGED stored
      BY <2>5 DEF WriteStatus
    <3> QED BY <1>1, <2>2, <2>5, <3>1, WriteRows
  <2>6. CASE CleanupExpired \/ Restart
    <3>1. PICK cutoff : \/ device_authorizations' = CleanedUp(cutoff)
                        \/ UNCHANGED device_authorizations
      BY <2>6 DEF CleanupExpired, Restart
    <3>2. RowsMove(device_authorizations, device_authorizations', {})
      BY <2>t, <3>1, CleanedRows
    <3>3. UNCHANGED stored
      BY <2>6 DEF CleanupExpired, Restart
    <3> QED BY <2>2, <3>2, <3>3
  <2>7. CASE UNCHANGED vars
    BY <2>1, <2>7 DEF vars
  <2>8. ASSUME NEW r \in Reqs,
               \/ PollNoToken(r) \/ PollToken(r) \/ GetUserEmails(r)
               \/ GitHubRevokeToken(r) \/ CreateAuditEvent(r) \/ Respond(r)
        PROVE  Kept
    BY <2>1, <2>8 DEF PollNoToken, PollToken, GetUserEmails, GitHubRevokeToken,
       CreateAuditEvent, Respond
  <2>9. ASSUME NEW r \in Reqs, NEW tx \in Txns,
               \/ RequestDeviceAuthorization(r, tx)
               \/ GetDeviceAuthorization(r, tx)
        PROVE  Kept
    BY <2>1, <2>9 DEF RequestDeviceAuthorization, GetDeviceAuthorization
  <2>10. ASSUME NEW tx \in Txns, UserDecides(tx) PROVE Kept
    BY <2>1, <2>10 DEF UserDecides
  <2>11. CASE Tick
    BY <2>1, <2>11 DEF Tick
  <2> HIDE DEF Kept
  <2>12. ASSUME NEW r \in Reqs, Step(r) PROVE Kept
    BY <2>3, <2>4, <2>5, <2>8, <2>12 DEF Step
  <2> QED BY <1>1, <2>6, <2>7, <2>9, <2>10, <2>11, <2>12 DEF Next
<1>2. FlowInv /\ [Next]_vars => [Kept]_vars
  BY <1>1
<1> QED BY <1>2, FlowInductive, PTL DEF Spec, ConsumedIsFinal

-----------------------------------------------------------------------------
(* A handler that is about to ask GitHub, or was just told to slow down,   *)
(* and the row it read before.                                             *)
Asking == {<<Poll>>} \cup Slowing

AskedRows ==
  \A r \in Reqs :
    req[r].todo \in Asking /\ req[r].tx \in DOMAIN device_authorizations =>
      device_authorizations[req[r].tx].status \in {"pending", "slow_down"}

LEMMA NotAsking ==
  /\ <<>> \notin Asking /\ <<Insertion>> \notin Asking
  /\ \A t \in Holding \cup Released \cup Replies \cup {Expire} : t \notin Asking
<1>1. \A t \in Asking : t # <<>> /\ Head(t)[1] \in {"poll", "interval"}
  <2>1. \A i \in 1..MaxInterval : SlowDown(i) # <<>>
    BY DEF SlowDown
  <2> QED BY <2>1, Heads, Names DEF Asking, Slowing
<1>2. Head(<<Insertion>>)[1] = "insert"
  BY Heads, Names
<1>3. Asking \subseteq Free
  BY DEF Asking, Free
<1>4. ASSUME NEW t \in Released \cup {Expire} PROVE t \notin Asking
  <2>1. Head(t)[1] \in {"update", "audit"}
    BY Heads, Names DEF Released
  <2> QED BY <1>1, <2>1
<1>5. ASSUME NEW t \in Replies PROVE t \notin Asking
  <2>1. Head(t)[1] = "answer"
    BY Heads, Names DEF Replies
  <2> QED BY <1>1, <2>1
<1> QED BY <1>1, <1>2, <1>3, <1>4, <1>5, FreeOfTokens

(* After the calls whose result is ignored, and after a row was stored.    *)
LEMMA TailNotAsking ==
  ASSUME NEW t \in Paths, t # <<>>,
         Head(t)[1] \in {"revoke", "store", "update", "interval", "consume",
                         "audit"}
  PROVE  Tail(t) \notin Asking
<1>1. CASE t \in {EmailsFailed, NoPrimary, NotAllowed}
  BY <1>1, Tails, NotAsking DEF Released
<1>2. CASE t \in {Approve, ToAccess, ToRefresh, ToUpdate, ToConsume, ToAudit}
  BY <1>2, Tails, NotAsking DEF Holding, Paired
<1>3. CASE t \in {ToDenyAudited, ToForbid}
  BY <1>3, Tails, NotAsking DEF Released
<1>4. CASE t \in {StoreFailed, ToRevoke, Expire, ToDeny, ToAuditDenied,
                  ToAuditForbidden} \cup Slowing
  <2>1. {"server_error", "approved", "expired", "denied", "forbidden",
         "slow_down"} \subseteq Answers
    BY DEF Answers, Statuses, Terminal
  <2>2. PICK s \in {"server_error", "approved", "expired", "denied", "forbidden",
                    "slow_down"} : Tail(t) = <<Answer(s)>>
    BY <1>4, Tails DEF Slowing
  <2>3. Tail(t) \in Replies
    BY <2>1, <2>2 DEF Replies
  <2> QED BY <2>3, NotAsking
<1> QED BY <1>1, <1>2, <1>3, <1>4, AtCall

LEMMA AskedNext ==
  ASSUME \A q, r \in Reqs : q = r, FlowInv, AskedRows, [Next]_vars
  PROVE  AskedRows'
<1>t. /\ req \in [Reqs -> Local] /\ Handlers /\ Complete
      /\ IsTable(device_authorizations, Txns, AuthRow)
  BY DEF FlowInv, TypeOK
<1>1. ASSUME NEW r \in Reqs, req'[r].todo \notin Asking
      PROVE  AskedRows'
  BY <1>1 DEF AskedRows
<1>2. CASE UNCHANGED <<req, device_authorizations>>
  BY <1>2 DEF AskedRows
<1>3. ASSUME NEW r \in Reqs, NEW n, req' = [req EXCEPT ![r].todo = n],
             n \notin Asking
      PROVE  AskedRows'
  <2>1. req'[r].todo = n
    BY <1>3, <1>t DEF Local
  <2> QED BY <1>1, <1>3, <2>1
<1>4. ASSUME NEW r \in Reqs, req' = [req EXCEPT ![r] = Idle]
      PROVE  AskedRows'
  <2>1. req'[r].todo = <<>>
    BY <1>4, <1>t, IdleIsLocal
  <2> QED BY <1>1, <2>1, NotAsking
<1>5. ASSUME NEW r \in Reqs, CreateDeviceAuthorization(r) \/ Respond(r)
      PROVE  AskedRows'
  BY <1>4, <1>5 DEF CreateDeviceAuthorization, Respond
<1>6. ASSUME NEW r \in Reqs,
             \/ GitHubRevokeToken(r) \/ StoreRow(r) \/ WriteStatus(r)
             \/ CreateAuditEvent(r)
      PROVE  AskedRows'
  <2>1. /\ req[r].todo # <<>>
        /\ Head(req[r].todo)[1] \in {"revoke", "store", "update", "interval",
                                     "consume", "audit"}
    BY <1>6 DEF GitHubRevokeToken, StoreRow, WriteStatus, CreateAuditEvent,
       Ahead, Call
  <2>2. req[r].todo \in Paths
    BY <1>t DEF Handlers, HandlerOK
  <2>3. Tail(req[r].todo) \notin Asking
    BY <2>1, <2>2, TailNotAsking
  <2>4. StoreFailed \notin Asking
    BY NotAsking DEF Holding
  <2>5. \/ req' = [req EXCEPT ![r].todo = Tail(req[r].todo)]
        \/ req' = [req EXCEPT ![r].todo = StoreFailed]
    BY <1>6 DEF GitHubRevokeToken, StoreRow, WriteStatus, CreateAuditEvent,
       Return, Take
  <2> QED BY <1>3, <2>3, <2>4, <2>5
<1>7. ASSUME NEW r \in Reqs, PollToken(r) \/ GetUserEmails(r) PROVE AskedRows'
  <2>1. PICK n \in {<<UserEmails>>, EmailsFailed, NoPrimary, NotAllowed, Approve} :
          req' = [req EXCEPT ![r].todo = n]
    BY <1>7 DEF PollToken, GetUserEmails, Take
  <2>2. n \notin Asking
    BY NotAsking DEF Holding
  <2> QED BY <1>3, <2>1, <2>2
<1>8. ASSUME NEW r \in Reqs, PollNoToken(r) PROVE AskedRows'
  <2>1. req[r].todo \in Paths /\ req[r].todo # <<>> /\ Head(req[r].todo)[1] = "poll"
    BY <1>8, <1>t DEF Handlers, HandlerOK, PollNoToken, Ahead, Call
  <2>2. req[r].todo \in Asking
    BY <2>1, AtCall DEF Asking
  <2>3. PICK n \in Paths : req' = [req EXCEPT ![r].todo = n]
    BY <1>8, PollBranches
  <2>4. req'[r].tx = req[r].tx
    BY <1>t, <2>3 DEF Local
  <2>5. UNCHANGED device_authorizations
    BY <1>8 DEF PollNoToken
  <2> QED BY <2>2, <2>4, <2>5 DEF AskedRows
<1>9. ASSUME NEW r \in Reqs, NEW tx \in Txns, RequestDeviceAuthorization(r, tx)
      PROVE  AskedRows'
  <2>1. req'[r] = [Idle EXCEPT !.tx = tx, !.at = now, !.todo = <<Insertion>>]
    BY <1>9, <1>t DEF RequestDeviceAuthorization
  <2>2. req'[r].todo = <<Insertion>>
    BY <2>1 DEF Idle
  <2> QED BY <1>1, <2>2, NotAsking
<1>10. ASSUME NEW r \in Reqs, NEW tx \in Txns, GetDeviceAuthorization(r, tx)
       PROVE  AskedRows'
  <2>1. UNCHANGED device_authorizations
    BY <1>10 DEF GetDeviceAuthorization
  <2>2. CASE tx \in DOMAIN device_authorizations
    <3> DEFINE row == device_authorizations[tx]
    <3>1. req'[r] = [Idle EXCEPT !.tx = tx, !.status = row.status,
                                 !.poll_after = row.poll_after_seconds,
                                 !.todo = Branch(row)]
      BY <1>10, <1>t, <2>2 DEF GetDeviceAuthorization
    <3>2. req'[r].tx = tx /\ req'[r].todo = Branch(row)
      BY <3>1 DEF Idle
    <3>3. row \in AuthRow
      BY <1>t, <2>2 DEF IsTable
    <3>4. /\ Branch(row) \in {Expire, <<Poll>>} \cup Replies
          /\ Branch(row) = <<Poll>> => row.status \in {"pending", "slow_down"}
      <4> HIDE DEF row
      <4> QED BY <3>3, Branches
    <3>5. Branch(row) \in Asking => row.status \in {"pending", "slow_down"}
      BY <3>4, NotAsking
    <3> QED BY <2>1, <3>2, <3>5 DEF AskedRows
  <2>3. CASE tx \notin DOMAIN device_authorizations
    <3>1. req'[r] = [Idle EXCEPT !.tx = tx, !.todo = <<Answer("not_found")>>]
      BY <1>10, <1>t, <2>3 DEF GetDeviceAuthorization
    <3>2. req'[r].tx = tx
      BY <3>1 DEF Idle
    <3> QED BY <2>1, <2>3, <3>2 DEF AskedRows
  <2> QED BY <2>2, <2>3
<1>11. CASE CleanupExpired
  <2>1. UNCHANGED req
    BY <1>11 DEF CleanupExpired
  <2>2. \A u \in DOMAIN device_authorizations' :
          /\ u \in DOMAIN device_authorizations
          /\ device_authorizations'[u] = device_authorizations[u]
    BY <1>11 DEF CleanupExpired, CleanedUp, Delete
  <2> QED BY <2>1, <2>2 DEF AskedRows
<1>12. CASE Restart
  <2>1. \A r \in Reqs : req'[r].todo = <<>>
    BY <1>12, IdleIsLocal DEF Restart
  <2> QED BY <2>1, NotAsking DEF AskedRows
<1>13. CASE Tick \/ UNCHANGED vars \/ \E tx \in Txns : UserDecides(tx)
  BY <1>2, <1>13 DEF Tick, vars, UserDecides
<1>14. ASSUME NEW r \in Reqs, Step(r) PROVE AskedRows'
  BY <1>5, <1>6, <1>7, <1>8, <1>14 DEF Step
<1> QED BY <1>9, <1>10, <1>11, <1>12, <1>13, <1>14 DEF Next

(* The step of TerminalStatusStays.                                        *)
DecisionStays ==
  \A tx \in DOMAIN device_authorizations \cap DOMAIN device_authorizations' :
    device_authorizations[tx].status \in {"denied", "forbidden"} =>
      device_authorizations'[tx].status \in Terminal

LEMMA DecisionStaysNext ==
  ASSUME FlowInv, AskedRows, [Next]_vars
  PROVE  DecisionStays
<1>t. Handlers /\ IsTable(device_authorizations, Txns, AuthRow)
  BY DEF FlowInv, TypeOK
<1>d. {"denied", "forbidden"} \subseteq Terminal
  BY DEF Terminal
<1>1. ASSUME \A u \in DOMAIN device_authorizations
                        \cap DOMAIN device_authorizations' :
               device_authorizations'[u].status \in
                 Terminal \cup {device_authorizations[u].status}
      PROVE  DecisionStays
  BY <1>1, <1>d DEF DecisionStays
<1>2. CASE UNCHANGED device_authorizations
  BY <1>1, <1>2
<1>3. ASSUME NEW r \in Reqs, CreateDeviceAuthorization(r) PROVE DecisionStays
  <2>1. \A u \in DOMAIN device_authorizations :
          device_authorizations'[u] = device_authorizations[u]
    BY <1>3, FlowCreate
  <2> QED BY <1>1, <2>1
<1>4. ASSUME NEW r \in Reqs, WriteStatus(r) PROVE DecisionStays
  <2> DEFINE tx == req[r].tx
             t == req[r].todo
  <2>1. t \in Paths /\ t # <<>>
    BY <1>4, <1>t DEF Handlers, HandlerOK, WriteStatus, Ahead
  <2>2. CASE Head(t)[1] = "update" /\ UpdateDeviceAuthorizationStatus(tx, Arg(r))
    <3>1. Arg(r) \in {"expired", "approved", "denied", "forbidden"}
      <4>1. t \in {Expire, ToUpdate, ToDeny, ToDenyAudited, ToForbid}
        BY <2>1, <2>2, AtCall
      <4> QED BY <4>1, Heads, Names DEF Arg
    <3>2. ASSUME NEW u \in DOMAIN device_authorizations
          PROVE  device_authorizations'[u].status \in
                   Terminal \cup {device_authorizations[u].status}
      <4>1. device_authorizations[u] \in AuthRow
        BY <1>t DEF IsTable
      <4>2. \/ device_authorizations'[u] = device_authorizations[u]
            \/ device_authorizations'[u] =
                 [device_authorizations[u] EXCEPT
                    !.status = Arg(r), !.consumed = @ \/ Arg(r) = "approved"]
        BY <2>2 DEF UpdateDeviceAuthorizationStatus, UpdateRow
      <4> QED BY <3>1, <4>1, <4>2 DEF AuthRow, Terminal
    <3> QED BY <1>1, <3>2
  <2>3. CASE /\ Head(t)[1] = "interval"
             /\ UpdateDeviceAuthorizationPollInterval(tx, Arg(r))
    <3>1. t \in Asking
      BY <2>1, <2>3, AtCall DEF Asking
    <3>2. \A u \in DOMAIN device_authorizations :
            u # tx => device_authorizations'[u] = device_authorizations[u]
      BY <2>3 DEF UpdateDeviceAuthorizationPollInterval, UpdateRow
    <3>3. tx \in DOMAIN device_authorizations =>
            device_authorizations[tx].status \notin {"denied", "forbidden"}
      BY <3>1 DEF AskedRows
    <3> QED BY <1>d, <3>2, <3>3 DEF DecisionStays
  <2>4. CASE MarkDeviceAuthorizationConsumed(tx)
    <3>1. ASSUME NEW u \in DOMAIN device_authorizations
          PROVE  device_authorizations'[u].status = device_authorizations[u].status
      <4>1. device_authorizations[u] \in AuthRow
        BY <1>t DEF IsTable
      <4>2. \/ device_authorizations'[u] = device_authorizations[u]
            \/ device_authorizations'[u] =
                 [device_authorizations[u] EXCEPT !.consumed = TRUE]
        BY <2>4 DEF MarkDeviceAuthorizationConsumed, UpdateRow
      <4> QED BY <4>1, <4>2 DEF AuthRow
    <3> QED BY <1>1, <3>1
  <2> QED BY <1>2, <1>4, <2>2, <2>3, <2>4 DEF WriteStatus, Call
<1>5. CASE CleanupExpired \/ Restart
  <2>1. \A u \in DOMAIN device_authorizations' :
          device_authorizations'[u] = device_authorizations[u]
    BY <1>5 DEF CleanupExpired, Restart, CleanedUp, Delete
  <2> QED BY <1>1, <2>1
<1>6. ASSUME NEW r \in Reqs,
             \/ PollNoToken(r) \/ PollToken(r) \/ GetUserEmails(r)
             \/ GitHubRevokeToken(r) \/ StoreRow(r) \/ CreateAuditEvent(r)
             \/ Respond(r)
      PROVE  DecisionStays
  BY <1>2, <1>6 DEF PollNoToken, PollToken, GetUserEmails, GitHubRevokeToken,
     StoreRow, CreateAuditEvent, Respond
<1>7. ASSUME NEW r \in Reqs, NEW tx \in Txns,
             \/ RequestDeviceAuthorization(r, tx)
             \/ GetDeviceAuthorization(r, tx)
      PROVE  DecisionStays
  BY <1>2, <1>7 DEF RequestDeviceAuthorization, GetDeviceAuthorization
<1>8. CASE Tick \/ UNCHANGED vars \/ \E tx \in Txns : UserDecides(tx)
  BY <1>2, <1>8 DEF Tick, vars, UserDecides
<1>9. ASSUME NEW r \in Reqs, Step(r) PROVE DecisionStays
  BY <1>3, <1>4, <1>6, <1>9 DEF Step
<1> QED BY <1>5, <1>7, <1>8, <1>9 DEF Next

(* README.md's terminal statuses are terminal as long as requests are      *)
(* served one at a time: only a poll that read the row before another one  *)
(* decided it takes denied or forbidden back.                              *)
THEOREM SerialDecisionsStay ==
  ASSUME \A q, r \in Reqs : q = r
  PROVE  Spec => TerminalStatusStays
<1>1. Init => AskedRows
  <2>1. Init => \A r \in Reqs : req[r].todo = <<>>
    BY IdleIsLocal DEF Init
  <2> QED BY <2>1, NotAsking DEF AskedRows
<1>2. FlowInv /\ AskedRows /\ [Next]_vars => AskedRows'
  BY AskedNext
<1>3. FlowInv /\ AskedRows /\ [Next]_vars => [DecisionStays]_vars
  BY DecisionStaysNext
<1>4. DecisionStays <=>
        \A tx \in DOMAIN device_authorizations
                    \cap DOMAIN device_authorizations' :
          device_authorizations[tx].status \in {"denied", "forbidden"} =>
            device_authorizations'[tx].status \in Terminal
  BY DEF DecisionStays
<1>5. Spec => [][DecisionStays]_vars
  BY <1>1, <1>2, <1>3, FlowInductive, PTL DEF Spec
<1> QED BY <1>4, <1>5, PTL DEF TerminalStatusStays
=============================================================================
