------------------------- MODULE SessionsRowProofs -------------------------
(***************************************************************************)
(* What becomes of the session rows while handlers, cleanups and restarts  *)
(* interleave, for every number of requests, tokens and every lifetime.    *)
(* The invariants are stated as operators of the tables and the time, so   *)
(* that the lemmas about them are free of primes.                          *)
(***************************************************************************)
EXTENDS SessionsTokenProofs, FiniteSetTheorems

USE SessionsAssumption

(* Where a handler still has a row to insert for its pair, and where it    *)
(* has inserted it.                                                        *)
BeforeAccess  == {"createAccess", "createNewAccess"}
BeforeRefresh == {"createAccess", "createRefresh", "createNewAccess", "rotate"}
AfterAccess   == {"createRefresh", "respondPair", "rotate", "auditRefresh",
                  "respondRefresh"}
AfterRefresh  == {"respondPair", "auditRefresh", "respondRefresh"}

(* Where a handler holds a refresh session, or an access session that it   *)
(* is going to revoke.                                                     *)
Refreshing == {"getDevice", "createNewAccess", "rotate", "auditRefresh",
               "respondRefresh"}
Revoking   == {"revokeAll", "auditRevoke"}

(* At time t, row k is there until the second e.                           *)
Honoured(table, k, e, t) ==
  ~After(t, e) => k \in DOMAIN table /\ table[k].expires_at = e

OfDevice(table, k, device) ==
  k \in DOMAIN table => table[k].device_id = device

(* What a handler with the local variables l may rely on, the access and   *)
(* refresh sessions being a and f at time t.                               *)
HandlerOK(l, a, f, t) ==
  /\ l.pc \in BeforeAccess => l.new \notin DOMAIN a
  /\ l.pc \in BeforeRefresh => l.new \notin DOMAIN f
  /\ l.pc \in AfterAccess => /\ Honoured(a, l.new, Unix(l.at + AccessTTL), t)
                             /\ OfDevice(a, l.new, l.device)
  /\ l.pc \in AfterRefresh => /\ Honoured(f, l.new, Unix(l.at + RefreshTTL), t)
                              /\ OfDevice(f, l.new, l.device)
  /\ l.pc \in Refreshing => OfDevice(f, l.session, l.device)
  /\ l.pc \in Revoking => OfDevice(a, l.session, l.device)
  /\ l.pc = "auditRevoke" /\ l.session \in DOMAIN a => a[l.session].revoked
  /\ l.pc = "auditRefresh" /\ l.new \in DOMAIN f =>
       f[l.new].parent_token_hash # NoHash

(* No cleanup works with a time that is still to come.                     *)
Cutoffs == \A c \in Cleaners : cleaner[c].cutoff <= Unix(now)

Handlers ==
  \A r \in Reqs : HandlerOK(req[r], access_sessions, refresh_sessions, now)

(* A promise to the client about the pair k.                               *)
PromiseKept(told, k, a, f, t) ==
  Honoured(a, k, told.access, t) /\ Honoured(f, k, told.refresh, t)

Promises ==
  \A k \in DOMAIN delivered :
    PromiseKept(delivered[k], k, access_sessions, refresh_sessions, now)

(* SameDevice, row by row.                                                 *)
PairOK(a, f, k) == k \in DOMAIN a /\ k \in DOMAIN f =>
                     a[k].device_id = f[k].device_id
ChildOK(f, p, k) ==
  p \in DOMAIN f /\ k \in DOMAIN f
    /\ f[k].parent_token_hash = f[p].token_hash
      => f[k].device_id = f[p].device_id /\ f[p].rotated

(* The token a session was rotated from had been handed out.               *)
ParentKnown(f, k, known) ==
  k \in DOMAIN f /\ f[k].parent_token_hash # NoHash =>
    f[k].parent_token_hash[2] \in known

Lineage ==
  /\ \A k \in Pairs : PairOK(access_sessions, refresh_sessions, k)
  /\ \A p, k \in Pairs : ChildOK(refresh_sessions, p, k)
  /\ \A k \in Pairs : ParentKnown(refresh_sessions, k, DOMAIN delivered)

(* AuditTruthful, event by event.                                          *)
EventOK(event, a, f) ==
  /\ event[1] = "session_revoked" /\ event[3] \in DOMAIN a =>
       a[event[3]].device_id = event[2] /\ a[event[3]].revoked
  /\ event[1] = "token_refreshed" /\ event[3] \in DOMAIN f =>
       /\ f[event[3]].device_id = event[2]
       /\ f[event[3]].parent_token_hash # NoHash

(* No row is going to be inserted for a session on the audit trail.        *)
Settled(event, known, n, locals) ==
  /\ event[1] = "session_revoked" => event[3] \in known
  /\ event[1] = "token_refreshed" =>
       /\ event[3] < n
       /\ \A r \in Reqs :
            locals[r].pc \in BeforeRefresh => locals[r].new # event[3]

Trail ==
  \A event \in audit_events :
    /\ EventOK(event, access_sessions, refresh_sessions)
    /\ Settled(event, DOMAIN delivered, nextPair, req)

RowInv ==
  /\ TokenInv
  /\ Cutoffs
  /\ Handlers
  /\ Promises
  /\ Lineage
  /\ Trail

-----------------------------------------------------------------------------
(* What a step at time t does to the row k: it stays, and its revocation   *)
(* stays, or it is deleted after its expiry.                               *)
Ages(old, new, k, t) ==
  /\ k \in DOMAIN new =>
       /\ k \in DOMAIN old
       /\ new[k].device_id = old[k].device_id
       /\ new[k].token_hash = old[k].token_hash
       /\ new[k].expires_at = old[k].expires_at
       /\ old[k].revoked => new[k].revoked
  /\ k \in DOMAIN old /\ k \notin DOMAIN new => After(t, old[k].expires_at)

RefreshAges(old, new, k, t) ==
  /\ Ages(old, new, k, t)
  /\ k \in DOMAIN new =>
       /\ new[k].parent_token_hash = old[k].parent_token_hash
       /\ old[k].rotated => new[k].rotated

(* Every row but those of the pairs K ages.                                *)
TablesAge(K) ==
  \A k \in (0..MaxPairs) \ K :
    /\ Ages(access_sessions, access_sessions', k, now)
    /\ RefreshAges(refresh_sessions, refresh_sessions', k, now)

(* No secret hashes to the parent of a session that was not rotated.       *)
LEMMA SomeHash == \A h \in Hashes : h # NoHash
<1> SUFFICES ASSUME NEW a \in Secrets, NEW k \in Pairs PROVE <<a, k>> # NoHash
  BY DEF Hashes
<1>1. 1 \in DOMAIN <<a, k>> /\ 1 \notin DOMAIN << >>
  OBVIOUS
<1> QED BY <1>1 DEF NoHash

(* Time only adds to what has expired.                                     *)
LEMMA AfterLater ==
  ASSUME NEW t \in Nat, NEW u \in Nat, t <= u, NEW e \in Nat, After(t, e)
  PROVE  After(u, e)
<1>1. e * TicksPerSecond \in Nat
  OBVIOUS
<1> QED BY <1>1 DEF After

(* A row whose second lies before the current one has expired, whichever   *)
(* fraction of the second has passed.                                      *)
LEMMA ExpiredBefore ==
  ASSUME NEW t \in Nat, NEW e \in Nat, NEW c \in Nat, e < c, c <= Unix(t)
  PROVE  After(t, e)
<1> DEFINE q == t \div TicksPerSecond
<1>1. q \in Nat /\ q * TicksPerSecond <= t
  BY DivIsNat, DivBounds
<1>2. e + 1 <= q
  BY <1>1 DEF Unix
<1> HIDE DEF q
<1>3. (e + 1) * TicksPerSecond <= q * TicksPerSecond
  BY <1>1, <1>2
<1>4. (e + 1) * TicksPerSecond = e * TicksPerSecond + TicksPerSecond
  OBVIOUS
<1>5. e * TicksPerSecond \in Nat /\ q * TicksPerSecond \in Nat
  BY <1>1
<1> QED BY <1>1, <1>3, <1>4, <1>5 DEF After

(* The second of the clock never goes back.                                *)
LEMMA UnixLater ==
  ASSUME NEW t \in Nat
  PROVE  Unix(t) <= Unix(t + 1)
<1> DEFINE q == t \div TicksPerSecond
           v == (t + 1) \div TicksPerSecond
<1>1. q \in Nat /\ q * TicksPerSecond <= t
  BY DivIsNat, DivBounds
<1>2. v \in Nat /\ t + 1 < v * TicksPerSecond + TicksPerSecond
  BY DivIsNat, DivBounds
<1> HIDE DEF q, v
<1>3. SUFFICES ASSUME v < q PROVE FALSE
  BY <1>1, <1>2 DEF Unix, q, v
<1>4. (v + 1) * TicksPerSecond <= q * TicksPerSecond
  BY <1>1, <1>2, <1>3
<1>5. (v + 1) * TicksPerSecond = v * TicksPerSecond + TicksPerSecond
  BY <1>2
<1>6. v * TicksPerSecond \in Nat /\ q * TicksPerSecond \in Nat
  BY <1>1, <1>2
<1> QED BY <1>1, <1>2, <1>4, <1>5, <1>6

LEMMA HonouredAges ==
  ASSUME NEW old, NEW new, NEW k, NEW e \in Nat, NEW t \in Nat,
         NEW u \in Nat, t <= u, Ages(old, new, k, t), Honoured(old, k, e, t)
  PROVE  Honoured(new, k, e, u)
BY AfterLater DEF Ages, Honoured

(* A handler keeps what it relies on as long as the rows it knows of age.  *)
LEMMA HandlerAges ==
  ASSUME NEW l \in Local, NEW a, NEW b, NEW f, NEW g, NEW t \in Nat,
         NEW u \in Nat, t <= u, HandlerOK(l, a, f, t),
         \A k \in {l.new, l.session} : /\ Ages(a, b, k, t)
                                       /\ RefreshAges(f, g, k, t)
  PROVE  HandlerOK(l, b, g, u)
<1>1. Unix(l.at + AccessTTL) \in Nat /\ Unix(l.at + RefreshTTL) \in Nat
  BY UnixIsNat DEF Local, Times
<1>2. /\ Ages(a, b, l.new, t) /\ Ages(f, g, l.new, t)
      /\ Ages(a, b, l.session, t) /\ Ages(f, g, l.session, t)
      /\ l.new \in DOMAIN g =>
           g[l.new].parent_token_hash = f[l.new].parent_token_hash
  BY DEF RefreshAges
<1>3. /\ l.pc \in BeforeAccess => l.new \notin DOMAIN b
      /\ l.pc \in BeforeRefresh => l.new \notin DOMAIN g
  BY <1>2 DEF HandlerOK, Ages
<1>4. /\ l.pc \in AfterAccess =>
           Honoured(b, l.new, Unix(l.at + AccessTTL), u)
      /\ l.pc \in AfterRefresh =>
           Honoured(g, l.new, Unix(l.at + RefreshTTL), u)
  BY <1>1, <1>2, HonouredAges DEF HandlerOK
<1>5. /\ l.pc \in AfterAccess => OfDevice(b, l.new, l.device)
      /\ l.pc \in AfterRefresh => OfDevice(g, l.new, l.device)
      /\ l.pc \in Refreshing => OfDevice(g, l.session, l.device)
      /\ l.pc \in Revoking => OfDevice(b, l.session, l.device)
  BY <1>2 DEF HandlerOK, OfDevice, Ages
<1>6. /\ l.pc = "auditRevoke" /\ l.session \in DOMAIN b => b[l.session].revoked
      /\ l.pc = "auditRefresh" /\ l.new \in DOMAIN g =>
           g[l.new].parent_token_hash # NoHash
  BY <1>2 DEF HandlerOK, Ages
<1> QED BY <1>3, <1>4, <1>5, <1>6 DEF HandlerOK

LEMMA PromiseAges ==
  ASSUME NEW told \in [access : Nat, refresh : Nat, secret : Secrets], NEW k,
         NEW a, NEW b, NEW f, NEW g, NEW t \in Nat, NEW u \in Nat, t <= u,
         PromiseKept(told, k, a, f, t), Ages(a, b, k, t), RefreshAges(f, g, k, t)
  PROVE  PromiseKept(told, k, b, g, u)
<1>1. told.access \in Nat /\ told.refresh \in Nat
  OBVIOUS
<1> QED BY <1>1, HonouredAges DEF PromiseKept, RefreshAges

LEMMA EventAges ==
  ASSUME NEW event, NEW a, NEW b, NEW f, NEW g, NEW t, EventOK(event, a, f),
         Ages(a, b, event[3], t), RefreshAges(f, g, event[3], t)
  PROVE  EventOK(event, b, g)
BY DEF EventOK, Ages, RefreshAges

LEMMA LineageAges ==
  ASSUME NEW a, NEW b, NEW f, NEW g, NEW t, NEW p, NEW k, NEW known,
         Ages(a, b, k, t), RefreshAges(f, g, k, t), RefreshAges(f, g, p, t)
  PROVE  /\ PairOK(a, f, k) => PairOK(b, g, k)
         /\ ChildOK(f, p, k) => ChildOK(g, p, k)
         /\ ParentKnown(f, k, known) => ParentKnown(g, k, known)
BY DEF Ages, RefreshAges, PairOK, ChildOK, ParentKnown
-----------------------------------------------------------------------------
(* A step under which every row but those of the pairs K ages keeps the    *)
(* invariant for everybody who has nothing to do with K.                   *)
LEMMA FrameStep ==
  ASSUME RowInv, TypeInv', NEW K, TablesAge(K), now <= now',
         K \cap DOMAIN delivered = {},
         \A event \in audit_events : event[1] = "token_refreshed" => event[3] \notin K
  PROVE  /\ \A q \in Reqs :
              req[q].new \notin K /\ req[q].session \notin K =>
                HandlerOK(req[q], access_sessions', refresh_sessions', now')
         /\ \A k \in DOMAIN delivered :
              PromiseKept(delivered[k], k, access_sessions', refresh_sessions',
                          now')
         /\ \A event \in audit_events :
              EventOK(event, access_sessions', refresh_sessions')
         /\ \A k \in Pairs \ K :
              /\ PairOK(access_sessions', refresh_sessions', k)
              /\ ParentKnown(refresh_sessions', k, DOMAIN delivered)
         /\ \A p, k \in Pairs \ K : ChildOK(refresh_sessions', p, k)
<1>t. /\ now \in Nat /\ now' \in Nat
      /\ req \in [Reqs -> Local]
      /\ IsTable(delivered, Pairs, [access : Nat, refresh : Nat, secret : Secrets])
      /\ audit_events \in SUBSET (EventCodes \X Devices \X Pairs)
  BY DEF RowInv, TokenInv, TypeInv, TypeOK, Times
<1>u. Handlers /\ Promises /\ Lineage /\ Trail
  BY DEF RowInv
<1>p. Pairs \subseteq 0..MaxPairs
  BY DEF Pairs
<1>1. ASSUME NEW q \in Reqs, req[q].new \notin K, req[q].session \notin K
      PROVE  HandlerOK(req[q], access_sessions', refresh_sessions', now')
  <2>1. /\ req[q] \in Local
        /\ req[q].new \in 0..MaxPairs /\ req[q].session \in 0..MaxPairs
    BY <1>t DEF Local
  <2>2. \A k \in {req[q].new, req[q].session} :
          /\ Ages(access_sessions, access_sessions', k, now)
          /\ RefreshAges(refresh_sessions, refresh_sessions', k, now)
    BY <1>1, <2>1 DEF TablesAge
  <2>3. HandlerOK(req[q], access_sessions, refresh_sessions, now)
    BY <1>u DEF Handlers
  <2> QED BY <1>t, <2>1, <2>2, <2>3, HandlerAges
<1>2. ASSUME NEW k \in DOMAIN delivered
      PROVE  PromiseKept(delivered[k], k, access_sessions', refresh_sessions',
                         now')
  <2>1. /\ k \in (0..MaxPairs) \ K
        /\ delivered[k] \in [access : Nat, refresh : Nat, secret : Secrets]
    BY <1>t, <1>p DEF IsTable
  <2>2. /\ Ages(access_sessions, access_sessions', k, now)
        /\ RefreshAges(refresh_sessions, refresh_sessions', k, now)
    BY <2>1 DEF TablesAge
  <2>3. PromiseKept(delivered[k], k, access_sessions, refresh_sessions, now)
    BY <1>u DEF Promises
  <2> QED BY <1>t, <2>1, <2>2, <2>3, PromiseAges
<1>3. ASSUME NEW event \in audit_events
      PROVE  EventOK(event, access_sessions', refresh_sessions')
  <2>1. CASE event[1] \notin {"session_revoked", "token_refreshed"}
    BY <2>1 DEF EventOK
  <2>2. CASE event[1] \in {"session_revoked", "token_refreshed"}
    <3>1. /\ EventOK(event, access_sessions, refresh_sessions)
          /\ Settled(event, DOMAIN delivered, nextPair, req)
      BY <1>u DEF Trail
    <3>2. event[3] \in (0..MaxPairs) \ K
      BY <1>t, <1>p, <2>2, <3>1 DEF Settled
    <3>3. /\ Ages(access_sessions, access_sessions', event[3], now)
          /\ RefreshAges(refresh_sessions, refresh_sessions', event[3], now)
      BY <3>2 DEF TablesAge
    <3> QED BY <3>1, <3>3, EventAges
  <2> QED BY <2>1, <2>2
<1>4. ASSUME NEW p \in Pairs \ K, NEW k \in Pairs \ K
      PROVE  /\ PairOK(access_sessions', refresh_sessions', k)
             /\ ParentKnown(refresh_sessions', k, DOMAIN delivered)
             /\ ChildOK(refresh_sessions', p, k)
  <2>1. /\ Ages(access_sessions, access_sessions', k, now)
        /\ RefreshAges(refresh_sessions, refresh_sessions', k, now)
        /\ RefreshAges(refresh_sessions, refresh_sessions', p, now)
    BY <1>p DEF TablesAge
  <2>2. /\ PairOK(access_sessions, refresh_sessions, k)
        /\ ParentKnown(refresh_sessions, k, DOMAIN delivered)
        /\ ChildOK(refresh_sessions, p, k)
    BY <1>u DEF Lineage
  <2> QED BY <2>1, <2>2, LineageAges
<1> QED BY <1>1, <1>2, <1>3, <1>4

(* Which handlers have a row to insert: those that had, and one that has   *)
(* just generated its pair.                                                *)
InsertsKept ==
  \A q \in Reqs :
    req'[q].pc \in BeforeRefresh =>
      \/ req'[q].new = nextPair
      \/ req[q].pc \in BeforeRefresh /\ req'[q].new = req[q].new

LEMMA SettledKept ==
  ASSUME TypeInv, TypeInv', Trail, NEW event \in audit_events, InsertsKept,
         DOMAIN delivered \subseteq DOMAIN delivered', nextPair <= nextPair'
  PROVE  Settled(event, DOMAIN delivered', nextPair', req')
<1>1. /\ nextPair \in Nat /\ nextPair' \in Nat
      /\ audit_events \in SUBSET (EventCodes \X Devices \X Pairs)
  BY DEF TypeInv, TypeOK
<1>2. event[3] \in Nat /\ Settled(event, DOMAIN delivered, nextPair, req)
  BY <1>1 DEF Trail, Pairs
<1>3. event[1] = "token_refreshed" => event[3] < nextPair /\ event[3] < nextPair'
  BY <1>1, <1>2 DEF Settled
<1> QED BY <1>2, <1>3 DEF Settled, InsertsKept

(* A step that inserts no session row and answers nobody.                  *)
LEMMA AgeStep ==
  ASSUME RowInv, TokenInv', TablesAge({}), now <= now', Cutoffs',
         UNCHANGED delivered, nextPair <= nextPair', InsertsKept,
         \A q \in Reqs :
           \/ req'[q] = req[q]
           \/ HandlerOK(req'[q], access_sessions', refresh_sessions', now'),
         \A event \in audit_events' :
           \/ event \in audit_events
           \/ /\ EventOK(event, access_sessions', refresh_sessions')
              /\ Settled(event, DOMAIN delivered', nextPair', req')
  PROVE  RowInv'
<1>t. TypeInv /\ TypeInv' /\ Trail
  BY DEF RowInv, TokenInv
<1>1. /\ \A q \in Reqs :
           HandlerOK(req[q], access_sessions', refresh_sessions', now')
      /\ \A k \in DOMAIN delivered :
           PromiseKept(delivered[k], k, access_sessions', refresh_sessions', now')
      /\ \A event \in audit_events :
           EventOK(event, access_sessions', refresh_sessions')
      /\ \A k \in Pairs :
           /\ PairOK(access_sessions', refresh_sessions', k)
           /\ ParentKnown(refresh_sessions', k, DOMAIN delivered)
      /\ \A p, k \in Pairs : ChildOK(refresh_sessions', p, k)
  BY <1>t, FrameStep
<1>2. Handlers'
  BY <1>1 DEF Handlers
<1>3. Promises'
  BY <1>1 DEF Promises
<1>4. Lineage'
  BY <1>1 DEF Lineage
<1>5. \A event \in audit_events :
        Settled(event, DOMAIN delivered', nextPair', req')
  BY <1>t, SettledKept
<1>6. Trail'
  BY <1>1, <1>5 DEF Trail
<1> QED BY <1>2, <1>3, <1>4, <1>6 DEF RowInv
-----------------------------------------------------------------------------
(* What the statements of internal/db do to the rows they do not insert.   *)
LEMMA UnchangedAge ==
  ASSUME UNCHANGED <<access_sessions, refresh_sessions>>
  PROVE  TablesAge({})
BY DEF TablesAge, Ages, RefreshAges

LEMMA RevokedAge ==
  ASSUME TypeInv, NEW device, RevokeAllSessionsForDevice(device)
  PROVE  TablesAge({})
<1>1. /\ access_sessions' = Revoked(access_sessions, device)
      /\ refresh_sessions' = Revoked(refresh_sessions, device)
  BY DEF RevokeAllSessionsForDevice
<1>2. ASSUME NEW k \in DOMAIN access_sessions
      PROVE  /\ access_sessions'[k].device_id = access_sessions[k].device_id
             /\ access_sessions'[k].token_hash = access_sessions[k].token_hash
             /\ access_sessions'[k].expires_at = access_sessions[k].expires_at
             /\ access_sessions[k].revoked => access_sessions'[k].revoked
  BY <1>1 DEF Revoked, TypeInv, TypeOK, IsTable, AccessRow
<1>3. ASSUME NEW k \in DOMAIN refresh_sessions
      PROVE  /\ refresh_sessions'[k].device_id = refresh_sessions[k].device_id
             /\ refresh_sessions'[k].token_hash = refresh_sessions[k].token_hash
             /\ refresh_sessions'[k].expires_at = refresh_sessions[k].expires_at
             /\ refresh_sessions[k].revoked => refresh_sessions'[k].revoked
             /\ refresh_sessions'[k].parent_token_hash =
                  refresh_sessions[k].parent_token_hash
             /\ refresh_sessions'[k].rotated = refresh_sessions[k].rotated
  BY <1>1 DEF Revoked, TypeInv, TypeOK, IsTable, RefreshRow
<1>4. /\ DOMAIN access_sessions' = DOMAIN access_sessions
      /\ DOMAIN refresh_sessions' = DOMAIN refresh_sessions
  BY <1>1, RevokedRows
<1> QED BY <1>2, <1>3, <1>4 DEF TablesAge, Ages, RefreshAges

(* One DELETE of CleanupExpired, with a cutoff that has passed.            *)
LEMMA DeletedAge ==
  ASSUME TypeInv, NEW table, \A k \in DOMAIN table : table[k].expires_at \in Nat,
         NEW cutoff \in Nat, cutoff <= Unix(now), NEW k
  PROVE  LET new == Delete(table, ExpiredRows(table, cutoff))
         IN  /\ Ages(table, new, k, now)
             /\ RefreshAges(table, new, k, now)
<1> DEFINE S == ExpiredRows(table, cutoff)
           new == Delete(table, S)
<1>t. now \in Nat
  BY DEF TypeInv, TypeOK, Times
<1>1. /\ DOMAIN new = DOMAIN table \ S
      /\ \A j \in DOMAIN table \ S : new[j] = table[j]
  BY DeleteRows
<1>2. \A j \in S : j \in DOMAIN table /\ After(now, table[j].expires_at)
  BY <1>t, ExpiredBefore DEF ExpiredRows
<1> HIDE DEF S, new
<1>3. Ages(table, new, k, now) /\ RefreshAges(table, new, k, now)
  BY <1>1, <1>2 DEF Ages, RefreshAges
<1> QED BY <1>3 DEF new, S

LEMMA CleanupAge ==
  ASSUME TypeInv, NEW cutoff \in Nat, cutoff <= Unix(now),
         \/ UNCHANGED access_sessions
         \/ access_sessions' =
              Delete(access_sessions, ExpiredRows(access_sessions, cutoff)),
         \/ UNCHANGED refresh_sessions
         \/ refresh_sessions' =
              Delete(refresh_sessions, ExpiredRows(refresh_sessions, cutoff))
  PROVE  TablesAge({})
<1>1. /\ \A k \in DOMAIN access_sessions : access_sessions[k].expires_at \in Nat
      /\ \A k \in DOMAIN refresh_sessions : refresh_sessions[k].expires_at \in Nat
  BY DEF TypeInv, TypeOK, IsTable, AccessRow, RefreshRow
<1>2. ASSUME NEW k
      PROVE  Ages(access_sessions, access_sessions', k, now)
  <2>1. CASE UNCHANGED access_sessions
    BY <2>1 DEF Ages
  <2>2. CASE access_sessions' =
               Delete(access_sessions, ExpiredRows(access_sessions, cutoff))
    BY <1>1, <2>2, DeletedAge
  <2> QED BY <2>1, <2>2
<1>3. ASSUME NEW k
      PROVE  RefreshAges(refresh_sessions, refresh_sessions', k, now)
  <2>1. CASE UNCHANGED refresh_sessions
    BY <2>1 DEF Ages, RefreshAges
  <2>2. CASE refresh_sessions' =
               Delete(refresh_sessions, ExpiredRows(refresh_sessions, cutoff))
    BY <1>1, <2>2, DeletedAge
  <2> QED BY <2>1, <2>2
<1> QED BY <1>2, <1>3 DEF TablesAge

-----------------------------------------------------------------------------
(* The local variables a step may leave a handler with: none.              *)
LEMMA IdleOK ==
  ASSUME NEW a, NEW f, NEW t
  PROVE  HandlerOK(Idle, a, f, t)
BY DEF HandlerOK, Idle, BeforeAccess, BeforeRefresh, AfterAccess,
   AfterRefresh, Refreshing, Revoking

(* A step of one handler that inserts no session row and answers nobody.   *)
LEMMA OneHandlerStep ==
  ASSUME RowInv, TokenInv', NEW r \in Reqs, NEW l, req' = [req EXCEPT ![r] = l],
         TablesAge({}), UNCHANGED <<now, cleaner, delivered>>,
         nextPair' \in {nextPair, nextPair + 1},
         HandlerOK(l, access_sessions', refresh_sessions', now),
         l.pc \in BeforeRefresh =>
           \/ l.new = nextPair
           \/ req[r].pc \in BeforeRefresh /\ l.new = req[r].new,
         \A event \in audit_events' :
           \/ event \in audit_events
           \/ /\ EventOK(event, access_sessions', refresh_sessions')
              /\ Settled(event, DOMAIN delivered', nextPair', req')
  PROVE  RowInv'
<1>t. req \in [Reqs -> Local] /\ now \in Nat /\ nextPair \in Nat
  BY DEF RowInv, TokenInv, TypeInv, TypeOK, Times
<1>1. req'[r] = l /\ \A q \in Reqs \ {r} : req'[q] = req[q]
  BY <1>t
<1>2. Cutoffs'
  BY DEF RowInv, Cutoffs
<1>3. now <= now' /\ nextPair <= nextPair'
  BY <1>t
<1>4. InsertsKept
  BY <1>1 DEF InsertsKept
<1>5. \A q \in Reqs :
        \/ req'[q] = req[q]
        \/ HandlerOK(req'[q], access_sessions', refresh_sessions', now')
  BY <1>1
<1> QED BY <1>2, <1>3, <1>4, <1>5, AgeStep

(* A handler returns.                                                      *)
LEMMA FinishKeeps ==
  ASSUME RowInv, TokenInv', NEW r \in Reqs, Finish(r), TablesAge({}),
         UNCHANGED <<now, cleaner, delivered, nextPair>>,
         \A event \in audit_events' :
           \/ event \in audit_events
           \/ /\ EventOK(event, access_sessions', refresh_sessions')
              /\ Settled(event, DOMAIN delivered', nextPair', req')
  PROVE  RowInv'
<1>1. HandlerOK(Idle, access_sessions', refresh_sessions', now)
  BY IdleOK
<1>2. Idle.pc \notin BeforeRefresh
  BY DEF Idle, BeforeRefresh
<1> QED BY <1>1, <1>2, OneHandlerStep DEF Finish

(* GenerateTokenPair.                                                      *)
LEMMA GenerateKeeps ==
  ASSUME RowInv, TokenInv', NEW r \in Reqs, NEW l, req' = [req EXCEPT ![r] = l],
         l.new = nextPair,
         \/ l.pc = "createAccess"
         \/ /\ l.pc = "createNewAccess" /\ req[r].pc = "getDevice"
            /\ l.session = req[r].session /\ l.device = req[r].device,
         nextPair' = nextPair + 1,
         UNCHANGED <<access_sessions, refresh_sessions, now, cleaner, delivered,
                     audit_events>>
  PROVE  RowInv'
<1>t. nextPair \in Nat /\ Generated
  BY DEF RowInv, TokenInv, TypeInv, TypeOK
<1>1. nextPair \notin DOMAIN access_sessions \cup DOMAIN refresh_sessions
  BY <1>t DEF Generated
<1>2. HandlerOK(req[r], access_sessions, refresh_sessions, now)
  BY DEF RowInv, Handlers
<1>3. HandlerOK(l, access_sessions', refresh_sessions', now)
  BY <1>1, <1>2 DEF HandlerOK, BeforeAccess, BeforeRefresh, AfterAccess,
     AfterRefresh, Refreshing, Revoking
<1> QED BY <1>3, UnchangedAge, OneHandlerStep

(* The token lookup.                                                       *)
LEMMA FoundKeeps ==
  ASSUME RowInv, TokenInv', NEW r \in Reqs, NEW s,
         \/ /\ s \in DOMAIN refresh_sessions
            /\ req' = [req EXCEPT ![r] =
                         Found("getDevice", s, refresh_sessions[s].device_id)]
         \/ /\ s \in DOMAIN access_sessions
            /\ \E pc \in {"revokeAll", "authDevice"} :
                 req' = [req EXCEPT ![r] =
                           Found(pc, s, access_sessions[s].device_id)],
         UNCHANGED <<access_sessions, refresh_sessions, now, cleaner, delivered,
                     audit_events, nextPair>>
  PROVE  RowInv'
<1>1. ASSUME NEW l, req' = [req EXCEPT ![r] = l], l.session = s,
             \/ /\ s \in DOMAIN refresh_sessions
                /\ l.pc = "getDevice"
                /\ l.device = refresh_sessions[s].device_id
             \/ /\ s \in DOMAIN access_sessions
                /\ l.pc \in {"revokeAll", "authDevice"}
                /\ l.device = access_sessions[s].device_id
      PROVE  RowInv'
  <2>1. HandlerOK(l, access_sessions', refresh_sessions', now)
    BY <1>1 DEF HandlerOK, OfDevice, BeforeAccess, BeforeRefresh, AfterAccess,
       AfterRefresh, Refreshing, Revoking
  <2>2. l.pc \notin BeforeRefresh
    BY <1>1 DEF BeforeRefresh
  <2> QED BY <1>1, <2>1, <2>2, UnchangedAge, OneHandlerStep
<1>2. ASSUME NEW pc, NEW d
      PROVE  /\ Found(pc, s, d).pc = pc /\ Found(pc, s, d).session = s
             /\ Found(pc, s, d).device = d
  BY DEF Found
<1>3. CASE /\ s \in DOMAIN refresh_sessions
           /\ req' = [req EXCEPT ![r] =
                        Found("getDevice", s, refresh_sessions[s].device_id)]
  <2> DEFINE l == Found("getDevice", s, refresh_sessions[s].device_id)
  <2>1. /\ l.pc = "getDevice" /\ l.session = s
        /\ l.device = refresh_sessions[s].device_id
        /\ req' = [req EXCEPT ![r] = l]
    BY <1>2, <1>3
  <2> HIDE DEF l
  <2> QED BY <1>1, <1>3, <2>1
<1>4. ASSUME NEW pc \in {"revokeAll", "authDevice"},
             s \in DOMAIN access_sessions,
             req' = [req EXCEPT ![r] =
                       Found(pc, s, access_sessions[s].device_id)]
      PROVE  RowInv'
  <2> DEFINE l == Found(pc, s, access_sessions[s].device_id)
  <2>1. /\ l.pc = pc /\ l.session = s
        /\ l.device = access_sessions[s].device_id
        /\ req' = [req EXCEPT ![r] = l]
    BY <1>2, <1>4
  <2> HIDE DEF l
  <2> QED BY <1>1, <1>4, <2>1
<1> QED BY <1>3, <1>4

(* A handler goes on to a place that asks no more of the tables.           *)
LEMMA GotoKeeps ==
  ASSUME RowInv, TokenInv', NEW r \in Reqs, NEW pc,
         Goto(r, pc), TablesAge({}),
         UNCHANGED <<now, cleaner, delivered, nextPair>>,
         \/ pc \in {"proxying", "denyRevoke", "denyAudit"}
         \/ req[r].pc = "auditRefresh" /\ pc = "respondRefresh"
         \/ /\ req[r].pc = "revokeAll" /\ pc = "auditRevoke"
            /\ req[r].session \in DOMAIN access_sessions' =>
                 access_sessions'[req[r].session].revoked,
         \A event \in audit_events' :
           \/ event \in audit_events
           \/ /\ EventOK(event, access_sessions', refresh_sessions')
              /\ Settled(event, DOMAIN delivered', nextPair', req')
  PROVE  RowInv'
<1>t. req[r] \in Local /\ now \in Nat /\ req \in [Reqs -> Local]
  BY DEF RowInv, TokenInv, TypeInv, TypeOK, Times
<1> DEFINE l == [req[r] EXCEPT !.pc = pc]
<1>1. /\ l.pc = pc /\ l.new = req[r].new /\ l.session = req[r].session
      /\ l.device = req[r].device /\ l.at = req[r].at
  BY <1>t DEF Local
<1>2. req' = [req EXCEPT ![r] = l]
  BY <1>t DEF Goto
<1> HIDE DEF l
<1>3. HandlerOK(req[r], access_sessions', refresh_sessions', now)
  <2>1. HandlerOK(req[r], access_sessions, refresh_sessions, now)
    BY DEF RowInv, Handlers
  <2>2. req[r].new \in 0..MaxPairs /\ req[r].session \in 0..MaxPairs
    BY <1>t DEF Local
  <2>3. \A k \in {req[r].new, req[r].session} :
          /\ Ages(access_sessions, access_sessions', k, now)
          /\ RefreshAges(refresh_sessions, refresh_sessions', k, now)
    BY <2>2 DEF TablesAge
  <2> QED BY <1>t, <2>1, <2>3, HandlerAges
<1>4. HandlerOK(l, access_sessions', refresh_sessions', now)
  BY <1>1, <1>3 DEF HandlerOK, BeforeAccess, BeforeRefresh, AfterAccess,
     AfterRefresh, Refreshing, Revoking
<1>5. l.pc \notin BeforeRefresh
  BY <1>1 DEF BeforeRefresh
<1> QED BY <1>2, <1>4, <1>5, OneHandlerStep

(* CreateAuditEvent names a session that has its rows.                     *)
LEMMA AuditKeeps ==
  ASSUME RowInv, TokenInv', NEW r \in Reqs,
         RefreshAudit(r) \/ RevokeAudit(r) \/ DenyAudit(r)
  PROVE  RowInv'
<1>t. /\ TypeInv /\ Owned /\ Presented /\ Generated
      /\ req[r] \in Local /\ LocalOK(req[r]) /\ req \in [Reqs -> Local]
      /\ HandlerOK(req[r], access_sessions, refresh_sessions, now)
  BY DEF RowInv, TokenInv, TypeInv, TypeOK, Handlers
<1>1. /\ TablesAge({})
      /\ UNCHANGED <<access_sessions, refresh_sessions, now, cleaner, delivered,
                     nextPair>>
  BY UnchangedAge DEF RefreshAudit, RevokeAudit, DenyAudit, tableVars
<1>2. CASE RefreshAudit(r)
  <2> DEFINE e == <<"token_refreshed", req[r].device, req[r].new>>
  <2>1. audit_events' = audit_events \cup {e} /\ Goto(r, "respondRefresh")
    BY <1>2 DEF RefreshAudit
  <2>2. EventOK(e, access_sessions', refresh_sessions')
    BY <1>2, <1>1, <1>t
       DEF EventOK, RefreshAudit, HandlerOK, AfterRefresh, OfDevice
  <2>3. /\ req'[r].pc = "respondRefresh"
        /\ \A q \in Reqs \ {r} : req'[q] = req[q]
    BY <2>1, <1>t DEF Goto, Local
  <2>4. req[r].new \in Pairs /\ req[r].pc = "auditRefresh"
    BY <1>2, <1>t DEF RefreshAudit, LocalOK, HasNew
  <2>5. \A q \in Reqs \ {r} : req[q].new # req[r].new
    BY <1>t, <2>4 DEF Owned, Pairs
  <2>6. Settled(e, DOMAIN delivered', nextPair', req')
    BY <1>1, <1>t, <2>3, <2>5 DEF Settled, BeforeRefresh, Generated
  <2> HIDE DEF e
  <2> QED BY <1>1, <2>1, <2>2, <2>4, <2>6, GotoKeeps
<1>3. CASE RevokeAudit(r)
  <2> DEFINE e == <<"session_revoked", req[r].device, req[r].session>>
  <2>1. audit_events' = audit_events \cup {e} /\ Finish(r)
    BY <1>3 DEF RevokeAudit
  <2>2. EventOK(e, access_sessions', refresh_sessions')
    BY <1>3, <1>1, <1>t DEF EventOK, RevokeAudit, HandlerOK, Revoking, OfDevice
  <2>3. req[r].session \in DOMAIN delivered
    BY <1>3, <1>t DEF RevokeAudit, LocalOK, HasSession, Presented, Pairs
  <2>4. Settled(e, DOMAIN delivered', nextPair', req')
    BY <1>1, <2>3 DEF Settled
  <2> HIDE DEF e
  <2> QED BY <1>1, <2>1, <2>2, <2>4, FinishKeeps
<1>4. CASE DenyAudit(r)
  <2> DEFINE e == <<"proxy_denied", req[r].device, req[r].session>>
  <2>1. audit_events' = audit_events \cup {e} /\ Finish(r)
    BY <1>4 DEF DenyAudit
  <2>2. /\ EventOK(e, access_sessions', refresh_sessions')
        /\ Settled(e, DOMAIN delivered', nextPair', req')
    BY DEF EventOK, Settled
  <2> HIDE DEF e
  <2> QED BY <1>1, <2>1, <2>2, FinishKeeps
<1> QED BY <1>2, <1>3, <1>4
-----------------------------------------------------------------------------
(* A handler inserts a row for its own pair.                               *)
LEMMA InsertFrame ==
  ASSUME RowInv, TokenInv', NEW r \in Reqs, req[r].pc \in BeforeRefresh,
         TablesAge({req[r].new}), NEW pc, Goto(r, pc),
         UNCHANGED <<now, cleaner, delivered, nextPair, audit_events>>,
         HandlerOK([req[r] EXCEPT !.pc = pc], access_sessions',
                   refresh_sessions', now),
         PairOK(access_sessions', refresh_sessions', req[r].new),
         ParentKnown(refresh_sessions', req[r].new, DOMAIN delivered),
         \A p \in Pairs : /\ ChildOK(refresh_sessions', p, req[r].new)
                          /\ ChildOK(refresh_sessions', req[r].new, p)
  PROVE  RowInv'
<1> DEFINE k == req[r].new
<1>t. /\ TypeInv /\ TypeInv' /\ Owned /\ Presented /\ Trail /\ Cutoffs
      /\ req[r] \in Local /\ LocalOK(req[r]) /\ req \in [Reqs -> Local]
      /\ now \in Nat /\ nextPair \in Nat
  BY DEF RowInv, TokenInv, TypeInv, TypeOK, Times
<1>1. k \in Pairs /\ k # 0
  BY <1>t DEF LocalOK, HasNew, BeforeRefresh, Pairs
<1>2. {k} \cap DOMAIN delivered = {} /\ \A q \in Reqs \ {r} : req[q].new # k
  BY <1>t, <1>1 DEF Owned
<1>3. \A q \in Reqs : req[q].session # k
  BY <1>t, <1>1, <1>2 DEF Presented
<1>4. \A event \in audit_events : event[1] = "token_refreshed" => event[3] # k
  BY <1>t DEF Trail, Settled
<1>5. /\ req'[r] = [req[r] EXCEPT !.pc = pc]
      /\ req'[r].new = k /\ req'[r].pc = pc
      /\ \A q \in Reqs \ {r} : req'[q] = req[q]
  BY <1>t DEF Goto, Local
<1> HIDE DEF k
<1>6. /\ \A q \in Reqs \ {r} :
           HandlerOK(req[q], access_sessions', refresh_sessions', now')
      /\ \A j \in DOMAIN delivered :
           PromiseKept(delivered[j], j, access_sessions', refresh_sessions', now')
      /\ \A event \in audit_events :
           EventOK(event, access_sessions', refresh_sessions')
      /\ \A j \in Pairs \ {k} :
           /\ PairOK(access_sessions', refresh_sessions', j)
           /\ ParentKnown(refresh_sessions', j, DOMAIN delivered)
      /\ \A p, j \in Pairs \ {k} : ChildOK(refresh_sessions', p, j)
  <2>1. TablesAge({k}) /\ now <= now'
    BY <1>t DEF k
  <2>2. \A event \in audit_events :
          event[1] = "token_refreshed" => event[3] \notin {k}
    BY <1>4
  <2>3. \A q \in Reqs \ {r} : req[q].new \notin {k} /\ req[q].session \notin {k}
    BY <1>2, <1>3
  <2> DEFINE K == {k}
  <2> HIDE DEF K
  <2>4. /\ \A q \in Reqs :
             req[q].new \notin K /\ req[q].session \notin K =>
               HandlerOK(req[q], access_sessions', refresh_sessions', now')
        /\ \A j \in DOMAIN delivered :
             PromiseKept(delivered[j], j, access_sessions', refresh_sessions',
                         now')
        /\ \A event \in audit_events :
             EventOK(event, access_sessions', refresh_sessions')
        /\ \A j \in Pairs \ K :
             /\ PairOK(access_sessions', refresh_sessions', j)
             /\ ParentKnown(refresh_sessions', j, DOMAIN delivered)
        /\ \A p, j \in Pairs \ K : ChildOK(refresh_sessions', p, j)
    <3>1. /\ TablesAge(K) /\ K \cap DOMAIN delivered = {}
          /\ \A event \in audit_events :
               event[1] = "token_refreshed" => event[3] \notin K
      BY <1>2, <2>1, <2>2 DEF K
    <3> QED BY <1>t, <2>1, <3>1, FrameStep
  <2> QED BY <2>3, <2>4 DEF K
<1>7. Handlers'
  BY <1>5, <1>6 DEF Handlers
<1>8. Promises'
  BY <1>6 DEF Promises
<1>9. Lineage'
  <2>1. \A j \in Pairs : /\ PairOK(access_sessions', refresh_sessions', j)
                         /\ ParentKnown(refresh_sessions', j, DOMAIN delivered')
    BY <1>6 DEF k
  <2>2. \A p, j \in Pairs : ChildOK(refresh_sessions', p, j)
    BY <1>6 DEF k
  <2> QED BY <2>1, <2>2 DEF Lineage
<1>10. InsertsKept
  BY <1>5 DEF InsertsKept, k
<1>11. \A event \in audit_events :
         Settled(event, DOMAIN delivered', nextPair', req')
  BY <1>t, <1>10, SettledKept
<1>12. Trail'
  BY <1>6, <1>11 DEF Trail
<1>13. Cutoffs'
  BY <1>t DEF Cutoffs
<1> QED BY <1>7, <1>8, <1>9, <1>12, <1>13 DEF RowInv
(* CreateAccessSession, by either handler.                                 *)
LEMMA AccessInserted ==
  ASSUME RowInv, TokenInv', NEW r \in Reqs,
         PairCreateAccess(r) \/ RefreshCreateAccess(r)
  PROVE  RowInv'
<1> DEFINE k == req[r].new
           row == [device_id |-> req[r].device, token_hash |-> HashSecret(k),
                   expires_at |-> Unix(req[r].at + AccessTTL),
                   revoked |-> FALSE]
<1>t. /\ TypeInv /\ req[r] \in Local /\ LocalOK(req[r])
      /\ HandlerOK(req[r], access_sessions, refresh_sessions, now)
      /\ Lineage
  BY DEF RowInv, TokenInv, TypeInv, TypeOK, Handlers
<1>1. /\ access_sessions' = Insert(access_sessions, k, row)
      /\ UNCHANGED <<refresh_sessions, now, cleaner, delivered, nextPair,
                     audit_events>>
  BY DEF PairCreateAccess, RefreshCreateAccess, CreateAccessSession
<1>2. PICK pc : /\ Goto(r, pc)
                /\ \/ req[r].pc = "createAccess" /\ pc = "createRefresh"
                   \/ req[r].pc = "createNewAccess" /\ pc = "rotate"
  BY DEF PairCreateAccess, RefreshCreateAccess
<1>3. /\ row.device_id = req[r].device
      /\ row.expires_at = Unix(req[r].at + AccessTTL)
  OBVIOUS
<1>4. k \in Pairs /\ req[r].pc \in BeforeRefresh
  BY <1>t, <1>2 DEF LocalOK, HasNew, BeforeRefresh
<1> HIDE DEF row
<1>5. /\ DOMAIN access_sessions' = DOMAIN access_sessions \cup {k}
      /\ access_sessions'[k] = row
      /\ \A j \in DOMAIN access_sessions :
           j # k => access_sessions'[j] = access_sessions[j]
  BY <1>1 DEF Insert
<1>6. TablesAge({k})
  BY <1>1, <1>5 DEF TablesAge, Ages, RefreshAges
<1>7. k \notin DOMAIN refresh_sessions
  BY <1>t, <1>4 DEF HandlerOK
<1>8. HandlerOK([req[r] EXCEPT !.pc = pc], access_sessions', refresh_sessions',
                now)
  <2> DEFINE l == [req[r] EXCEPT !.pc = pc]
  <2>1. /\ l.pc = pc /\ l.new = k /\ l.session = req[r].session
        /\ l.device = req[r].device /\ l.at = req[r].at
    BY <1>t DEF Local
  <2> HIDE DEF l, k
  <2>2. /\ Honoured(access_sessions', k, Unix(l.at + AccessTTL), now)
        /\ OfDevice(access_sessions', k, l.device)
    BY <1>3, <1>5, <2>1 DEF Honoured, OfDevice
  <2>3. l.pc = "rotate" => OfDevice(refresh_sessions', l.session, l.device)
    BY <1>1, <1>2, <1>t, <2>1 DEF HandlerOK, Refreshing
  <2>4. HandlerOK(l, access_sessions', refresh_sessions', now)
    BY <1>1, <1>2, <1>7, <2>1, <2>2, <2>3
       DEF HandlerOK, BeforeAccess, BeforeRefresh, AfterAccess, AfterRefresh,
           Refreshing, Revoking
  <2> QED BY <2>4 DEF l
<1>9. /\ PairOK(access_sessions', refresh_sessions', k)
      /\ ParentKnown(refresh_sessions', k, DOMAIN delivered)
      /\ \A p \in Pairs : /\ ChildOK(refresh_sessions', p, k)
                           /\ ChildOK(refresh_sessions', k, p)
  BY <1>1, <1>7 DEF PairOK, ParentKnown, ChildOK
<1> QED BY <1>1, <1>2, <1>4, <1>6, <1>8, <1>9, InsertFrame

(* A refresh session stored for a new pair has no children yet, and its    *)
(* parent, if it has one, is known.                                        *)
LEMMA NewRefreshRow ==
  ASSUME RowInv, NEW r \in Reqs, NEW k \in Pairs, k = req[r].new,
         NEW g, NEW row, DOMAIN g = DOMAIN refresh_sessions \cup {k},
         g[k] = row, row.token_hash = HashSecret(k),
         \A j \in DOMAIN refresh_sessions :
           j # k => /\ g[j].token_hash = refresh_sessions[j].token_hash
                    /\ g[j].parent_token_hash =
                         refresh_sessions[j].parent_token_hash,
         \/ row.parent_token_hash = NoHash
         \/ \E s \in Pairs \ {k} : row.parent_token_hash = HashSecret(s)
  PROVE  \A p \in Pairs : ChildOK(g, k, p)
<1>t. /\ TypeInv /\ Owned /\ Lineage
      /\ IsTable(refresh_sessions, Pairs, RefreshRow)
  BY DEF RowInv, TokenInv, TypeInv, TypeOK
<1>1. k # 0 /\ k \notin DOMAIN delivered
  BY <1>t DEF Owned, Pairs
<1>2. HashSecret(k) # NoHash /\ HashSecret(k)[2] = k
  BY DEF HashSecret, NoHash
<1>3. \A s \in Pairs \ {k} : HashSecret(s) # HashSecret(k)
  BY DEF HashSecret
<1>4. ASSUME NEW p \in Pairs, p \in DOMAIN g, g[p].parent_token_hash = HashSecret(k)
      PROVE  FALSE
  <2>1. CASE p = k
    BY <2>1, <1>2, <1>3, <1>4
  <2>2. CASE p # k
    <3>1. p \in DOMAIN refresh_sessions
          /\ refresh_sessions[p].parent_token_hash = HashSecret(k)
      BY <2>2, <1>4
    <3>2. ParentKnown(refresh_sessions, p, DOMAIN delivered)
      BY <1>t DEF Lineage
    <3> QED BY <3>1, <3>2, <1>1, <1>2 DEF ParentKnown
  <2> QED BY <2>1, <2>2
<1> QED BY <1>4 DEF ChildOK

(* CreateRefreshSession, when pairing.                                     *)
LEMMA RefreshInserted ==
  ASSUME RowInv, TokenInv', NEW r \in Reqs, PairCreateRefresh(r)
  PROVE  RowInv'
<1> DEFINE k == req[r].new
           row == [device_id |-> req[r].device, token_hash |-> HashSecret(k),
                   parent_token_hash |-> NoHash,
                   expires_at |-> Unix(req[r].at + RefreshTTL),
                   revoked |-> FALSE, rotated |-> FALSE]
<1>t. /\ TypeInv /\ req[r] \in Local /\ LocalOK(req[r])
      /\ HandlerOK(req[r], access_sessions, refresh_sessions, now)
      /\ Lineage /\ IsTable(refresh_sessions, Pairs, RefreshRow)
  BY DEF RowInv, TokenInv, TypeInv, TypeOK, Handlers
<1>1. /\ refresh_sessions' = Insert(refresh_sessions, k, row)
      /\ UNCHANGED <<access_sessions, now, cleaner, delivered, nextPair,
                     audit_events>>
      /\ Goto(r, "respondPair") /\ req[r].pc = "createRefresh"
  BY DEF PairCreateRefresh, CreateRefreshSession
<1>2. /\ row.device_id = req[r].device /\ row.token_hash = HashSecret(k)
      /\ row.parent_token_hash = NoHash
      /\ row.expires_at = Unix(req[r].at + RefreshTTL)
  OBVIOUS
<1>3. k \in Pairs /\ req[r].pc \in BeforeRefresh
  BY <1>t, <1>1 DEF LocalOK, HasNew, BeforeRefresh
<1> HIDE DEF row
<1>4. /\ DOMAIN refresh_sessions' = DOMAIN refresh_sessions \cup {k}
      /\ refresh_sessions'[k] = row
      /\ \A j \in DOMAIN refresh_sessions :
           j # k => refresh_sessions'[j] = refresh_sessions[j]
  BY <1>1 DEF Insert
<1>5. TablesAge({k})
  BY <1>1, <1>4 DEF TablesAge, Ages, RefreshAges
<1>6. /\ Honoured(access_sessions, k, Unix(req[r].at + AccessTTL), now)
      /\ OfDevice(access_sessions, k, req[r].device)
  BY <1>t, <1>1 DEF HandlerOK, AfterAccess
<1>7. HandlerOK([req[r] EXCEPT !.pc = "respondPair"], access_sessions',
                refresh_sessions', now)
  <2> DEFINE l == [req[r] EXCEPT !.pc = "respondPair"]
  <2>1. /\ l.pc = "respondPair" /\ l.new = k
        /\ l.device = req[r].device /\ l.at = req[r].at
    BY <1>t DEF Local
  <2> HIDE DEF l, k
  <2>2. /\ Honoured(refresh_sessions', k, Unix(l.at + RefreshTTL), now)
        /\ OfDevice(refresh_sessions', k, l.device)
    BY <1>2, <1>4, <2>1 DEF Honoured, OfDevice
  <2>3. HandlerOK(l, access_sessions', refresh_sessions', now)
    BY <1>1, <1>6, <2>1, <2>2
       DEF HandlerOK, BeforeAccess, BeforeRefresh, AfterAccess, AfterRefresh,
           Refreshing, Revoking
  <2> QED BY <2>3 DEF l
<1>8. /\ PairOK(access_sessions', refresh_sessions', k)
      /\ ParentKnown(refresh_sessions', k, DOMAIN delivered)
  BY <1>1, <1>2, <1>4, <1>6 DEF PairOK, ParentKnown, OfDevice
<1>9. \A p \in Pairs : ChildOK(refresh_sessions', k, p)
  BY <1>2, <1>3, <1>4, NewRefreshRow
<1>10. \A p \in DOMAIN refresh_sessions' : refresh_sessions'[p].token_hash # NoHash
  <2>1. IsTable(refresh_sessions', Pairs, RefreshRow)
    BY DEF TokenInv, TypeInv, TypeOK
  <2> QED BY <2>1, SomeHash DEF IsTable, RefreshRow
<1>11. \A p \in Pairs : ChildOK(refresh_sessions', p, k)
  <2>1. refresh_sessions'[k].parent_token_hash = NoHash
    BY <1>2, <1>4
  <2>2. SUFFICES ASSUME NEW p \in Pairs PROVE ChildOK(refresh_sessions', p, k)
    OBVIOUS
  <2> QED BY <2>1, <1>10 DEF ChildOK
<1> QED BY <1>1, <1>3, <1>5, <1>7, <1>8, <1>9, <1>11, InsertFrame
(* RotateRefreshSession finds the row of the session the handler was sent. *)
LEMMA RotateRows ==
  ASSUME RowInv, NEW r \in Reqs, RefreshRotate(r), NEW k, k = req[r].new,
         NEW s, s = req[r].session
  PROVE  /\ k \in Pairs /\ k \notin DOMAIN refresh_sessions
         /\ s \in DOMAIN refresh_sessions \cap DOMAIN delivered
         /\ DOMAIN refresh_sessions' = DOMAIN refresh_sessions \cup {k}
         /\ refresh_sessions'[k] = RotatedInto(s, s, k, req[r].at)
         /\ refresh_sessions'[s] = [refresh_sessions[s] EXCEPT !.rotated = TRUE]
         /\ \A j \in DOMAIN refresh_sessions \ {s} :
              refresh_sessions'[j] = refresh_sessions[j]
<1> DEFINE marked == [refresh_sessions EXCEPT ![s].rotated = TRUE]
<1>t. /\ LocalOK(req[r]) /\ Keyed(refresh_sessions) /\ Presented
      /\ HandlerOK(req[r], access_sessions, refresh_sessions, now)
  BY DEF RowInv, TokenInv, TypeInv, TypeOK, Handlers
<1>1. RotateRefreshSession(s, k, req[r].at) /\ req[r].pc = "rotate"
  BY DEF RefreshRotate
<1>2. PICK parent \in DOMAIN refresh_sessions :
        /\ refresh_sessions[parent].token_hash = HashSecret(s)
        /\ refresh_sessions' = Insert(marked, k, RotatedInto(s, parent, k, req[r].at))
  BY <1>1 DEF RotateRefreshSession, GetRefreshSession
<1>3. parent = s
  BY <1>2, <1>t DEF Keyed, HashSecret
<1> DEFINE row == RotatedInto(s, s, k, req[r].at)
<1>4. s \in DOMAIN refresh_sessions /\ refresh_sessions' = Insert(marked, k, row)
  BY <1>2, <1>3
<1>5. k \in Pairs /\ s \in Pairs /\ s # 0
  BY <1>t, <1>1 DEF LocalOK, HasNew, HasSession, Pairs
<1>6. s \in DOMAIN delivered
  BY <1>t, <1>5 DEF Presented
<1>7. k \notin DOMAIN refresh_sessions
  BY <1>t, <1>1 DEF HandlerOK, BeforeRefresh
<1>8. /\ DOMAIN marked = DOMAIN refresh_sessions
      /\ \A j \in DOMAIN refresh_sessions : j # s => marked[j] = refresh_sessions[j]
      /\ marked[s] = [refresh_sessions[s] EXCEPT !.rotated = TRUE]
  BY <1>4
<1> HIDE DEF row, marked
<1>9. /\ DOMAIN refresh_sessions' = DOMAIN refresh_sessions \cup {k}
      /\ refresh_sessions'[k] = row
      /\ \A j \in DOMAIN refresh_sessions : refresh_sessions'[j] = marked[j]
  BY <1>4, <1>7, <1>8 DEF Insert
<1>10. /\ refresh_sessions'[s] = [refresh_sessions[s] EXCEPT !.rotated = TRUE]
       /\ \A j \in DOMAIN refresh_sessions \ {s} :
            refresh_sessions'[j] = refresh_sessions[j]
  BY <1>4, <1>8, <1>9
<1>11. refresh_sessions'[k] = RotatedInto(s, s, k, req[r].at)
  BY <1>9 DEF row
<1> QED BY <1>4, <1>5, <1>6, <1>7, <1>9, <1>10, <1>11

(* The new row gets the device the handler has read.                       *)
LEMMA Rotated ==
  ASSUME RowInv, TokenInv', NEW r \in Reqs, RefreshRotate(r)
  PROVE  RowInv'
<1> DEFINE k == req[r].new
           s == req[r].session
           row == RotatedInto(s, s, k, req[r].at)
<1>t. /\ TypeInv /\ req[r] \in Local /\ LocalOK(req[r])
      /\ HandlerOK(req[r], access_sessions, refresh_sessions, now)
      /\ Lineage /\ IsTable(refresh_sessions, Pairs, RefreshRow)
  BY DEF RowInv, TokenInv, TypeInv, TypeOK, Handlers
<1>1. /\ UNCHANGED <<access_sessions, now, cleaner, delivered, nextPair,
                     audit_events>>
      /\ Goto(r, "auditRefresh") /\ req[r].pc = "rotate"
  BY DEF RefreshRotate
<1>2. /\ row.device_id = refresh_sessions[s].device_id
      /\ row.token_hash = HashSecret(k) /\ row.parent_token_hash = HashSecret(s)
      /\ row.expires_at = Unix(req[r].at + RefreshTTL)
  BY DEF RotatedInto
<1> HIDE DEF row, k, s
<1>3. /\ s \in DOMAIN refresh_sessions /\ s \in DOMAIN delivered
      /\ k \in Pairs /\ k \notin DOMAIN refresh_sessions
      /\ DOMAIN refresh_sessions' = DOMAIN refresh_sessions \cup {k}
      /\ refresh_sessions'[k] = row
      /\ refresh_sessions'[s] = [refresh_sessions[s] EXCEPT !.rotated = TRUE]
      /\ \A j \in DOMAIN refresh_sessions \ {s} :
           refresh_sessions'[j] = refresh_sessions[j]
  BY RotateRows DEF row, k, s
<1>4. s # k /\ s \in Pairs /\ req[r].pc \in BeforeRefresh
  BY <1>1, <1>3, <1>t DEF BeforeRefresh, IsTable
<1>5. /\ refresh_sessions'[s].device_id = refresh_sessions[s].device_id
      /\ refresh_sessions'[s].token_hash = refresh_sessions[s].token_hash
      /\ refresh_sessions'[s].expires_at = refresh_sessions[s].expires_at
      /\ refresh_sessions'[s].revoked = refresh_sessions[s].revoked
      /\ refresh_sessions'[s].parent_token_hash =
           refresh_sessions[s].parent_token_hash
      /\ refresh_sessions'[s].rotated
  BY <1>t, <1>3 DEF IsTable, RefreshRow
<1>6. TablesAge({k})
  BY <1>1, <1>3, <1>4, <1>5 DEF TablesAge, Ages, RefreshAges
<1>7. /\ Honoured(access_sessions, k, Unix(req[r].at + AccessTTL), now)
       /\ OfDevice(access_sessions, k, req[r].device)
       /\ refresh_sessions[s].device_id = req[r].device
  BY <1>t, <1>1, <1>3 DEF HandlerOK, AfterAccess, Refreshing, OfDevice, k, s
<1>8. HashSecret(s) # NoHash /\ HashSecret(s)[2] = s
  BY DEF HashSecret, NoHash
<1>9. HandlerOK([req[r] EXCEPT !.pc = "auditRefresh"], access_sessions',
                 refresh_sessions', now)
  <2> DEFINE l == [req[r] EXCEPT !.pc = "auditRefresh"]
  <2>1. /\ l.pc = "auditRefresh" /\ l.new = k /\ l.session = s
        /\ l.device = req[r].device /\ l.at = req[r].at
    BY <1>t DEF Local, k, s
  <2> HIDE DEF l
  <2>2. /\ Honoured(refresh_sessions', k, Unix(l.at + RefreshTTL), now)
        /\ OfDevice(refresh_sessions', k, l.device)
        /\ OfDevice(refresh_sessions', s, l.device)
        /\ refresh_sessions'[k].parent_token_hash # NoHash
    BY <1>3, <1>2, <1>5, <1>7, <1>8, <2>1 DEF Honoured, OfDevice
  <2>3. HandlerOK(l, access_sessions', refresh_sessions', now)
    BY <1>1, <1>7, <2>1, <2>2
       DEF HandlerOK, BeforeAccess, BeforeRefresh, AfterAccess, AfterRefresh,
           Refreshing, Revoking
  <2> QED BY <2>3 DEF l
<1>10. /\ PairOK(access_sessions', refresh_sessions', k)
       /\ ParentKnown(refresh_sessions', k, DOMAIN delivered)
  BY <1>1, <1>3, <1>2, <1>7, <1>8 DEF PairOK, ParentKnown, OfDevice
<1>11. \A p \in Pairs : ChildOK(refresh_sessions', k, p)
  <2>1. \A j \in DOMAIN refresh_sessions :
          j # k => /\ refresh_sessions'[j].token_hash =
                        refresh_sessions[j].token_hash
                   /\ refresh_sessions'[j].parent_token_hash =
                        refresh_sessions[j].parent_token_hash
    BY <1>3, <1>5
  <2>2. s \in Pairs \ {k} /\ k = req[r].new
    BY <1>4 DEF k
  <2> QED BY <1>3, <1>2, <2>1, <2>2, NewRefreshRow
<1>12. \A p \in Pairs : ChildOK(refresh_sessions', p, k)
  <2>1. SUFFICES ASSUME NEW p \in Pairs, p \in DOMAIN refresh_sessions',
                        refresh_sessions'[k].parent_token_hash =
                          refresh_sessions'[p].token_hash
                 PROVE  /\ refresh_sessions'[k].device_id =
                             refresh_sessions'[p].device_id
                        /\ refresh_sessions'[p].rotated
    BY DEF ChildOK
  <2>2. refresh_sessions'[p].token_hash[2] = p
    <3>1. refresh_sessions'[p].token_hash =
            <<refresh_sessions'[p].token_hash[1], p>>
      BY <2>1 DEF TokenInv, Keyed
    <3> DEFINE h == refresh_sessions'[p].token_hash
               h1 == h[1]
    <3>2. h = <<h1, p>>
      BY <3>1
    <3> HIDE DEF h, h1
    <3>3. h[2] = p
      BY <3>2
    <3> QED BY <3>3 DEF h
  <2>3. p = s
    BY <2>1, <2>2, <1>3, <1>2, <1>8
  <2> QED BY <2>3, <1>3, <1>2, <1>5
<1> QED BY <1>1, <1>3, <1>4, <1>6, <1>9, <1>10, <1>11, <1>12, InsertFrame DEF k
(* The response tells the client of rows that are stored.                  *)
LEMMA Answered ==
  ASSUME RowInv, TokenInv', NEW r \in Reqs, Respond(r)
  PROVE  RowInv'
<1> DEFINE k == req[r].new
           told == [access  |-> Unix(req[r].at + AccessTTL),
                    refresh |-> Unix(req[r].at + RefreshTTL),
                    secret  |-> serverSecret]
<1>t. /\ TypeInv /\ TypeInv' /\ req[r] \in Local /\ LocalOK(req[r])
      /\ req \in [Reqs -> Local] /\ nextPair \in Nat
      /\ HandlerOK(req[r], access_sessions, refresh_sessions, now)
      /\ Handlers /\ Promises /\ Lineage /\ Trail /\ Cutoffs
  BY DEF RowInv, TokenInv, TypeInv, TypeOK, Handlers
<1>1. /\ UNCHANGED <<access_sessions, refresh_sessions, now, cleaner, nextPair,
                     audit_events>>
      /\ Finish(r) /\ req[r].pc \in {"respondPair", "respondRefresh"}
      /\ delivered' = Insert(delivered, k, told) \/ UNCHANGED delivered
  BY DEF Respond, tableVars
<1>2. CASE UNCHANGED delivered
  BY <1>1, <1>2, UnchangedAge, FinishKeeps
<1>3. CASE delivered' = Insert(delivered, k, told)
  <2>1. /\ told.access = Unix(req[r].at + AccessTTL)
        /\ told.refresh = Unix(req[r].at + RefreshTTL)
    OBVIOUS
  <2> HIDE DEF told
  <2>2. /\ DOMAIN delivered' = DOMAIN delivered \cup {k}
        /\ delivered'[k] = told
        /\ \A j \in DOMAIN delivered : j # k => delivered'[j] = delivered[j]
    BY <1>3 DEF Insert
  <2>3. PromiseKept(told, k, access_sessions, refresh_sessions, now)
    BY <1>1, <1>t, <2>1 DEF PromiseKept, HandlerOK, AfterAccess, AfterRefresh
  <2> HIDE DEF k
  <2>4. Promises'
    BY <1>1, <1>t, <2>2, <2>3 DEF Promises
  <2>5. req'[r] = Idle /\ \A q \in Reqs \ {r} : req'[q] = req[q]
    BY <1>1, <1>t DEF Finish
  <2>6. Handlers'
    BY <1>1, <1>t, <2>5, IdleOK DEF Handlers
  <2>7. Lineage'
    BY <1>1, <1>t, <2>2 DEF Lineage, ParentKnown
  <2>8. InsertsKept
    BY <2>5 DEF InsertsKept, Idle, BeforeRefresh
  <2>9. \A event \in audit_events :
          Settled(event, DOMAIN delivered', nextPair', req')
    BY <1>1, <1>t, <2>2, <2>8, SettledKept
  <2>10. Trail'
    BY <1>1, <1>t, <2>9 DEF Trail
  <2>11. Cutoffs'
    BY <1>1, <1>t DEF Cutoffs
  <2> QED BY <2>4, <2>6, <2>7, <2>10, <2>11 DEF RowInv
<1> QED BY <1>1, <1>2, <1>3

-----------------------------------------------------------------------------
LEMMA RowInit == Init => RowInv
<1> SUFFICES ASSUME Init PROVE RowInv
  OBVIOUS
<1>1. TokenInv
  BY TokenInit
<1>2. /\ DOMAIN access_sessions = {} /\ DOMAIN refresh_sessions = {}
      /\ DOMAIN delivered = {} /\ audit_events = {} /\ now \in Nat
      /\ \A r \in Reqs : req[r] = Idle
  BY EmptyTableIsTable DEF Init
<1>3. Cutoffs
  BY <1>2, UnixIsNat DEF Cutoffs, Init, CleanerIdle
<1>4. Handlers
  BY <1>2, IdleOK DEF Handlers
<1>5. Promises /\ Lineage /\ Trail
  BY <1>2 DEF Promises, Lineage, Trail, PairOK, ChildOK, ParentKnown
<1> QED BY <1>1, <1>3, <1>4, <1>5 DEF RowInv

LEMMA RowNext == RowInv /\ [Next]_vars => RowInv'
<1> SUFFICES ASSUME RowInv, [Next]_vars PROVE RowInv'
  OBVIOUS
<1>t. /\ TypeInv /\ TokenInv' /\ req \in [Reqs -> Local] /\ now \in Nat
      /\ nextPair \in Nat /\ Cutoffs
      /\ cleaner \in [Cleaners -> CleanerLocal]
  BY TokenNext DEF RowInv, TokenInv, TypeInv, TypeOK, Times
<1>1. ASSUME NEW r \in Reqs, NEW email \in Emails, PairDevice(r, email)
      PROVE  RowInv'
  <2> DEFINE l == [pc |-> "createAccess", session |-> 0, device |-> nextPair,
                   new |-> nextPair, at |-> now, barred |-> FALSE]
  <2>1. req' = [req EXCEPT ![r] = l] /\ l.new = nextPair /\ l.pc = "createAccess"
    BY <1>1 DEF PairDevice
  <2> HIDE DEF l
  <2> QED BY <1>1, <1>t, <2>1, GenerateKeeps DEF PairDevice
<1>2. ASSUME NEW r \in Reqs, RefreshGetDevice(r)
      PROVE  RowInv'
  <2> DEFINE l == [req[r] EXCEPT !.pc = "createNewAccess", !.new = nextPair,
                                 !.at = now]
  <2>1. /\ req' = [req EXCEPT ![r] = l] /\ req[r].pc = "getDevice"
        /\ l.new = nextPair /\ l.session = req[r].session
        /\ l.device = req[r].device /\ l.pc = "createNewAccess"
    BY <1>2, <1>t DEF RefreshGetDevice, Local
  <2> HIDE DEF l
  <2> QED BY <1>2, <1>t, <2>1, GenerateKeeps DEF RefreshGetDevice, tableVars
<1>3. ASSUME NEW r \in Reqs, NEW k \in Pairs, RefreshGetSession(r, k)
      PROVE  RowInv'
  <2>1. PICK s \in DOMAIN refresh_sessions :
          req' = [req EXCEPT ![r] =
                    Found("getDevice", s, refresh_sessions[s].device_id)]
    BY <1>3 DEF RefreshGetSession, RefreshRead, GetRefreshSession
  <2>2. UNCHANGED <<access_sessions, refresh_sessions, now, cleaner, delivered,
                    audit_events, nextPair>>
    BY <1>3 DEF RefreshGetSession, RefreshRead, tableVars
  <2> QED BY <1>t, <2>1, <2>2, FoundKeeps
<1>4. ASSUME NEW r \in Reqs, NEW k \in Pairs,
             RevokeGetSession(r, k) \/ AuthenticateDevice(r, k)
      PROVE  RowInv'
  <2>1. PICK s \in DOMAIN access_sessions, pc \in {"revokeAll", "authDevice"} :
          req' = [req EXCEPT ![r] =
                    Found(pc, s, access_sessions[s].device_id)]
    BY <1>4 DEF RevokeGetSession, AuthenticateDevice, GetAccessSession
  <2>2. UNCHANGED <<access_sessions, refresh_sessions, now, cleaner, delivered,
                    audit_events, nextPair>>
    BY <1>4 DEF RevokeGetSession, AuthenticateDevice, tableVars
  <2> QED BY <1>t, <2>1, <2>2, FoundKeeps
<1>5. ASSUME NEW r \in Reqs,
             \/ RefreshDeviceRejected(r) \/ RotateFails(r)
             \/ AuthDeviceRejected(r) \/ AuthDevice(r)
             \/ ProxyEnds(r) \/ DBError(r)
      PROVE  RowInv'
  <2>1. /\ UNCHANGED <<access_sessions, refresh_sessions, now, cleaner,
                       delivered, audit_events, nextPair>>
        /\ TablesAge({})
    BY <1>5, UnchangedAge
       DEF RefreshDeviceRejected, RotateFails, AuthDeviceRejected, AuthDevice,
           ProxyEnds, DBError, tableVars
  <2>2. \/ Finish(r)
        \/ \E pc \in {"proxying", "denyRevoke", "denyAudit"} : Goto(r, pc)
        \/ req[r].pc = "auditRefresh" /\ Goto(r, "respondRefresh")
    BY <1>5 DEF RefreshDeviceRejected, RotateFails, AuthDeviceRejected,
       AuthDevice, ProxyEnds, DBError
  <2>3. CASE Finish(r)
    BY <1>t, <2>1, <2>3, FinishKeeps
  <2>4. CASE \E pc \in {"proxying", "denyRevoke", "denyAudit"} : Goto(r, pc)
    BY <1>t, <2>1, <2>4, GotoKeeps
  <2>5. CASE req[r].pc = "auditRefresh" /\ Goto(r, "respondRefresh")
    BY <1>t, <2>1, <2>5, GotoKeeps
  <2> QED BY <2>2, <2>3, <2>4, <2>5
<1>6. ASSUME NEW r \in Reqs, RevokeSessions(r)
      PROVE  RowInv'
  <2>1. /\ RevokeAllSessionsForDevice(req[r].device) /\ Goto(r, "auditRevoke")
        /\ UNCHANGED <<now, cleaner, delivered, audit_events, nextPair>>
        /\ req[r].pc = "revokeAll"
    BY <1>6 DEF RevokeSessions
  <2>2. TablesAge({})
    BY <1>t, <2>1, RevokedAge
  <2>3. OfDevice(access_sessions, req[r].session, req[r].device)
    BY <2>1 DEF RowInv, Handlers, HandlerOK, Revoking
  <2>4. req[r].session \in DOMAIN access_sessions' =>
          access_sessions'[req[r].session].revoked
    BY <1>t, <2>1, <2>3
       DEF RevokeAllSessionsForDevice, Revoked, OfDevice, TypeInv, TypeOK,
           IsTable, AccessRow
  <2> QED BY <1>t, <2>1, <2>2, <2>4, GotoKeeps
<1>7. ASSUME NEW r \in Reqs, DenyRevoke(r)
      PROVE  RowInv'
  <2>1. /\ RevokeAllSessionsForDevice(req[r].device) /\ Goto(r, "denyAudit")
        /\ UNCHANGED <<now, cleaner, delivered, audit_events, nextPair>>
    BY <1>7 DEF DenyRevoke
  <2>2. TablesAge({})
    BY <1>t, <2>1, RevokedAge
  <2> QED BY <1>t, <2>1, <2>2, GotoKeeps
<1>8. ASSUME NEW device \in Devices, RevokeMobileDevice(device)
      PROVE  RowInv'
  <2>1. TablesAge({})
    BY <1>8, <1>t, RevokedAge DEF RevokeMobileDevice
  <2>2. UNCHANGED <<now, req, cleaner, delivered, audit_events, nextPair>>
    BY <1>8 DEF RevokeMobileDevice
  <2>3. Cutoffs' /\ InsertsKept /\ now <= now' /\ nextPair <= nextPair'
    BY <1>t, <2>2 DEF Cutoffs, InsertsKept
  <2> QED BY <1>t, <2>1, <2>2, <2>3, AgeStep
<1>9. ASSUME NEW c \in Cleaners, Cleanup(c) \/ CleanupError(c)
      PROVE  RowInv'
  <2>1. UNCHANGED <<now, req, delivered, audit_events, nextPair>>
    BY <1>9 DEF Cleanup, CleanupStart, CleanupRefresh, CleanupAccess,
       CleanupError
  <2>2. cleaner[c].cutoff \in Nat /\ cleaner[c].cutoff <= Unix(now)
    BY <1>t DEF CleanerLocal, Cutoffs
  <2>3. TablesAge({})
    BY <1>9, <1>t, <2>2, CleanupAge
       DEF Cleanup, CleanupStart, CleanupRefresh, CleanupAccess, CleanupError,
           tableVars
  <2>4. Unix(now) \in Nat
    BY <1>t, UnixIsNat
  <2>5. Cutoffs'
    BY <1>9, <1>t, <2>1, <2>4
       DEF Cutoffs, CleanerLocal, CleanerIdle, Cleanup, CleanupStart,
           CleanupRefresh, CleanupAccess, CleanupError
  <2>6. InsertsKept /\ now <= now' /\ nextPair <= nextPair'
    BY <1>t, <2>1 DEF InsertsKept
  <2> QED BY <1>t, <2>1, <2>3, <2>5, <2>6, AgeStep
<1>10. CASE Restart
  <2>1. /\ UNCHANGED <<now, delivered, audit_events, nextPair>>
        /\ \A q \in Reqs : req'[q] = Idle
        /\ \A c \in Cleaners : cleaner'[c].cutoff = 0
    BY <1>10 DEF Restart, CleanerIdle
  <2>2. Unix(now) \in Nat
    BY <1>t, UnixIsNat
  <2>3. TablesAge({})
    BY <1>10, <1>t, <2>2, CleanupAge DEF Restart
  <2>4. Cutoffs' /\ now <= now' /\ nextPair <= nextPair'
    BY <1>t, <2>1, <2>2 DEF Cutoffs
  <2>5. InsertsKept
    BY <2>1 DEF InsertsKept, Idle, BeforeRefresh
  <2> QED BY <1>t, <2>1, <2>3, <2>4, <2>5, IdleOK, AgeStep
<1>11. CASE Tick \/ UNCHANGED vars
  <2>1. /\ UNCHANGED <<access_sessions, refresh_sessions, req, cleaner,
                       delivered, audit_events, nextPair>>
        /\ now' \in {now, now + 1}
    BY <1>11 DEF Tick, vars, tableVars
  <2>2. now <= now' /\ nextPair <= nextPair' /\ InsertsKept
    BY <1>t, <2>1 DEF InsertsKept
  <2>3. /\ Unix(now) \in Nat /\ Unix(now + 1) \in Nat
        /\ Unix(now) <= Unix(now + 1)
    BY <1>t, UnixIsNat, UnixLater
  <2>4. Cutoffs'
    BY <1>t, <2>1, <2>3 DEF Cutoffs, CleanerLocal
  <2> QED BY <1>t, <2>1, <2>2, <2>4, UnchangedAge, AgeStep
<1> QED BY <1>1, <1>2, <1>3, <1>4, <1>5, <1>6, <1>7, <1>8, <1>9, <1>10, <1>11,
           <1>t, AuditKeeps, AccessInserted, RefreshInserted, Rotated, Answered
        DEF Next, Arrive, Step
-----------------------------------------------------------------------------
(* The steps that insert a session row.                                    *)
Inserting(r) == \/ PairCreateAccess(r) \/ RefreshCreateAccess(r)
                \/ PairCreateRefresh(r) \/ RefreshRotate(r)

RotatedKept ==
  \A k \in DOMAIN refresh_sessions \cap DOMAIN refresh_sessions' :
    refresh_sessions'[k].rotated = refresh_sessions[k].rotated

(* Every other step only lets rows age, and rotates none.                  *)
LEMMA StepAges ==
  ASSUME RowInv, [Next]_vars, \A r \in Reqs : ~Inserting(r)
  PROVE  TablesAge({}) /\ RotatedKept
<1>t. /\ TypeInv /\ Cutoffs /\ now \in Nat
      /\ cleaner \in [Cleaners -> CleanerLocal]
      /\ IsTable(refresh_sessions, Pairs, RefreshRow)
  BY DEF RowInv, TokenInv, TypeInv, TypeOK, Times
<1>1. CASE UNCHANGED <<access_sessions, refresh_sessions>>
  BY <1>1, UnchangedAge DEF RotatedKept
<1>2. ASSUME NEW device, RevokeAllSessionsForDevice(device)
      PROVE  TablesAge({}) /\ RotatedKept
  <2>1. RotatedKept
    BY <1>2, <1>t
       DEF RotatedKept, RevokeAllSessionsForDevice, Revoked, IsTable, RefreshRow
  <2> QED BY <1>2, <1>t, <2>1, RevokedAge
<1>3. ASSUME NEW cutoff \in Nat, cutoff <= Unix(now),
             \/ UNCHANGED access_sessions
             \/ access_sessions' =
                  Delete(access_sessions, ExpiredRows(access_sessions, cutoff)),
             \/ UNCHANGED refresh_sessions
             \/ refresh_sessions' =
                  Delete(refresh_sessions, ExpiredRows(refresh_sessions, cutoff))
      PROVE  TablesAge({}) /\ RotatedKept
  <2>1. TablesAge({})
    BY <1>3, <1>t, CleanupAge
  <2>2. RotatedKept
    BY <1>3 DEF RotatedKept, Delete
  <2> QED BY <2>1, <2>2
<1>4. ASSUME NEW r \in Reqs, Arrive(r) \/ Step(r)
      PROVE  TablesAge({}) /\ RotatedKept
  <2>1. CASE RevokeSessions(r) \/ DenyRevoke(r)
    BY <2>1, <1>2 DEF RevokeSessions, DenyRevoke
  <2>2. CASE ~(RevokeSessions(r) \/ DenyRevoke(r))
    <3>1. UNCHANGED <<access_sessions, refresh_sessions>>
      BY <1>4, <2>2 DEF Inserting, Arrive, Step, PairDevice, RefreshGetSession,
         RefreshRead, RevokeGetSession, AuthenticateDevice, Respond,
         RefreshGetDevice, RefreshDeviceRejected, RotateFails, RefreshAudit,
         RevokeAudit, AuthDeviceRejected, AuthDevice, DenyAudit, ProxyEnds,
         DBError, tableVars
    <3> QED BY <3>1, <1>1
  <2> QED BY <2>1, <2>2
<1>5. ASSUME NEW c \in Cleaners, Cleanup(c) \/ CleanupError(c)
      PROVE  TablesAge({}) /\ RotatedKept
  <2>1. cleaner[c].cutoff \in Nat /\ cleaner[c].cutoff <= Unix(now)
    BY <1>t DEF CleanerLocal, Cutoffs
  <2> QED BY <1>5, <1>3, <2>1
          DEF Cleanup, CleanupStart, CleanupRefresh, CleanupAccess,
              CleanupError, tableVars
<1>6. CASE Restart
  <2>1. Unix(now) \in Nat
    BY <1>t, UnixIsNat
  <2> QED BY <1>6, <1>3, <2>1 DEF Restart
<1>7. CASE Tick \/ UNCHANGED vars
  BY <1>7, <1>1 DEF Tick, vars, tableVars
<1>8. ASSUME NEW device \in Devices, RevokeMobileDevice(device)
      PROVE  TablesAge({}) /\ RotatedKept
  BY <1>8, <1>2 DEF RevokeMobileDevice
<1> QED BY <1>4, <1>5, <1>6, <1>7, <1>8 DEF Next

(* What the inserting steps do to the rows that are there already.         *)
LEMMA AccessRows ==
  ASSUME RowInv, NEW r \in Reqs, PairCreateAccess(r) \/ RefreshCreateAccess(r)
  PROVE  /\ UNCHANGED refresh_sessions
         /\ DOMAIN access_sessions' = DOMAIN access_sessions \cup {req[r].new}
         /\ access_sessions'[req[r].new].device_id = req[r].device
         /\ \A j \in DOMAIN access_sessions :
              access_sessions'[j] = access_sessions[j]
<1>1. req[r].new \notin DOMAIN access_sessions
  BY DEF RowInv, Handlers, HandlerOK, BeforeAccess, PairCreateAccess,
     RefreshCreateAccess
<1>2. PICK row : /\ access_sessions' = Insert(access_sessions, req[r].new, row)
                 /\ row.device_id = req[r].device
  BY DEF PairCreateAccess, RefreshCreateAccess, CreateAccessSession
<1> QED BY <1>1, <1>2 DEF PairCreateAccess, RefreshCreateAccess, Insert

LEMMA RefreshRows ==
  ASSUME RowInv, NEW r \in Reqs, PairCreateRefresh(r)
  PROVE  /\ UNCHANGED access_sessions
         /\ req[r].new \notin DOMAIN refresh_sessions
         /\ DOMAIN refresh_sessions' = DOMAIN refresh_sessions \cup {req[r].new}
         /\ refresh_sessions'[req[r].new].parent_token_hash = NoHash
         /\ refresh_sessions'[req[r].new].device_id = req[r].device
         /\ refresh_sessions'[req[r].new].rotated = FALSE
         /\ \A j \in DOMAIN refresh_sessions :
              refresh_sessions'[j] = refresh_sessions[j]
<1>1. req[r].new \notin DOMAIN refresh_sessions
  BY DEF RowInv, Handlers, HandlerOK, BeforeRefresh, PairCreateRefresh
<1>2. PICK row : /\ refresh_sessions' = Insert(refresh_sessions, req[r].new, row)
                 /\ row.parent_token_hash = NoHash
                 /\ row.device_id = req[r].device
                 /\ row.rotated = FALSE
  BY DEF PairCreateRefresh, CreateRefreshSession
<1> QED BY <1>1, <1>2 DEF PairCreateRefresh, Insert

(* SessionsOnlyAge, for one step.                                          *)
LEMMA OnlyAgesNext ==
  ASSUME RowInv, [Next]_vars
  PROVE  /\ OnlyAges(access_sessions, access_sessions')
         /\ OnlyAges(refresh_sessions, refresh_sessions')
         /\ \A k \in DOMAIN refresh_sessions \cap DOMAIN refresh_sessions' :
              refresh_sessions[k].rotated => refresh_sessions'[k].rotated
<1>t. /\ DOMAIN access_sessions \subseteq 0..MaxPairs
      /\ DOMAIN refresh_sessions \subseteq 0..MaxPairs
      /\ IsTable(refresh_sessions, Pairs, RefreshRow)
  BY DEF RowInv, TokenInv, TypeInv, TypeOK, IsTable, Pairs
<1>1. CASE \A r \in Reqs : ~Inserting(r)
  <2>1. TablesAge({})
    BY <1>1, StepAges
  <2> QED BY <1>t, <2>1 DEF TablesAge, Ages, RefreshAges, OnlyAges
<1>2. ASSUME NEW r \in Reqs, PairCreateAccess(r) \/ RefreshCreateAccess(r)
      PROVE  /\ OnlyAges(access_sessions, access_sessions')
             /\ UNCHANGED refresh_sessions
  BY <1>2, AccessRows DEF OnlyAges
<1>3. ASSUME NEW r \in Reqs, PairCreateRefresh(r)
      PROVE  /\ OnlyAges(refresh_sessions, refresh_sessions')
             /\ UNCHANGED access_sessions
             /\ \A k \in DOMAIN refresh_sessions :
                  refresh_sessions'[k] = refresh_sessions[k]
  BY <1>3, RefreshRows DEF OnlyAges
<1>4. ASSUME NEW r \in Reqs, RefreshRotate(r)
      PROVE  /\ OnlyAges(refresh_sessions, refresh_sessions')
             /\ UNCHANGED access_sessions
             /\ \A k \in DOMAIN refresh_sessions :
                  refresh_sessions[k].rotated => refresh_sessions'[k].rotated
  <2> DEFINE s == req[r].session
  <2>1. /\ s \in DOMAIN refresh_sessions
        /\ DOMAIN refresh_sessions' = DOMAIN refresh_sessions \cup {req[r].new}
        /\ refresh_sessions'[s] = [refresh_sessions[s] EXCEPT !.rotated = TRUE]
        /\ \A j \in DOMAIN refresh_sessions \ {s} :
             refresh_sessions'[j] = refresh_sessions[j]
    BY <1>4, RotateRows
  <2> HIDE DEF s
  <2>2. /\ refresh_sessions'[s].device_id = refresh_sessions[s].device_id
        /\ refresh_sessions'[s].token_hash = refresh_sessions[s].token_hash
        /\ refresh_sessions'[s].expires_at = refresh_sessions[s].expires_at
        /\ refresh_sessions'[s].revoked = refresh_sessions[s].revoked
        /\ refresh_sessions'[s].rotated
    BY <1>t, <2>1 DEF IsTable, RefreshRow
  <2>3. UNCHANGED access_sessions
    BY <1>4 DEF RefreshRotate
  <2> QED BY <2>1, <2>2, <2>3 DEF OnlyAges
<1>5. OnlyAges(access_sessions, access_sessions) /\ OnlyAges(refresh_sessions, refresh_sessions)
  BY DEF OnlyAges
<1> QED BY <1>1, <1>2, <1>3, <1>4, <1>5 DEF Inserting

(* No interleaving of handlers, cleanups, restarts and operator calls      *)
(* changes a session's identity or expiry, undoes its revocation or its    *)
(* rotation, or deletes it before it has expired.                          *)
THEOREM RowsOnlyAge == Spec => SessionsOnlyAge
<1>1. RowInv /\ [Next]_vars =>
        [/\ OnlyAges(access_sessions, access_sessions')
         /\ OnlyAges(refresh_sessions, refresh_sessions')
         /\ \A k \in DOMAIN refresh_sessions \cap DOMAIN refresh_sessions' :
              refresh_sessions[k].rotated => refresh_sessions'[k].rotated]_vars
  BY OnlyAgesNext
<1> QED BY <1>1, RowInit, RowNext, PTL DEF Spec, SessionsOnlyAge

(* A response is sent only once both sessions are stored, and they stay    *)
(* until the expiry it named, for every lifetime and clock resolution.     *)
THEOREM PromisesKept == Spec => []DeliveredHonoured
<1>1. RowInv => DeliveredHonoured
  BY DEF RowInv, Promises, PromiseKept, Honoured, DeliveredHonoured
<1> QED BY <1>1, RowInit, RowNext, PTL DEF Spec

(* The two sessions of a pair belong to one device, and so do a session    *)
(* and the one it was rotated into.                                        *)
THEOREM DevicesAgree == Spec => []SameDevice
<1>1. RowInv => SameDevice
  <2>1. SUFFICES ASSUME RowInv PROVE SameDevice
    OBVIOUS
  <2>2. /\ DOMAIN access_sessions \subseteq Pairs
        /\ DOMAIN refresh_sessions \subseteq Pairs
    BY <2>1 DEF RowInv, TokenInv, TypeInv, TypeOK, IsTable
  <2>3. \A k \in Pairs : PairOK(access_sessions, refresh_sessions, k)
    BY <2>1 DEF RowInv, Lineage
  <2>4. \A p, k \in Pairs : ChildOK(refresh_sessions, p, k)
    BY <2>1 DEF RowInv, Lineage
  <2> QED BY <2>2, <2>3, <2>4 DEF PairOK, ChildOK, SameDevice
<1> QED BY <1>1, RowInit, RowNext, PTL DEF Spec

(* The audit trail names no revocation and no refresh that the tables do   *)
(* not show, whichever call failed or was overtaken.                       *)
THEOREM TrailTruthful == Spec => []AuditTruthful
<1>1. RowInv => AuditTruthful
  BY DEF RowInv, Trail, EventOK, AuditTruthful
<1> QED BY <1>1, RowInit, RowNext, PTL DEF Spec
-----------------------------------------------------------------------------
(* A step of one request leaves the local variables of the others alone.   *)
LEMMA OthersKept ==
  ASSUME TypeInv, NEW r \in Reqs, Arrive(r) \/ Step(r), NEW q \in Reqs \ {r}
  PROVE  req'[q] = req[q]
<1>t. req \in [Reqs -> Local]
  BY DEF TypeInv, TypeOK
<1>1. \E l : req' = [req EXCEPT ![r] = l]
  BY <1>t DEF Arrive, Step, PairDevice, RefreshGetSession, RefreshRead,
     RevokeGetSession, AuthenticateDevice, PairCreateAccess, PairCreateRefresh,
     Respond, RefreshGetDevice, RefreshDeviceRejected, RefreshCreateAccess,
     RefreshRotate, RotateFails, RefreshAudit, RevokeSessions, RevokeAudit,
     AuthDeviceRejected, AuthDevice, DenyRevoke, DenyAudit, ProxyEnds, DBError,
     Goto, Finish
<1> QED BY <1>t, <1>1

(* After the rotation the handler can only go on to its response.          *)
LEMMA OnToResponse ==
  ASSUME RowInv, [Next]_vars, NEW r \in Reqs, req[r].pc = "auditRefresh",
         req'[r] # req[r], restarts' = restarts
  PROVE  req'[r] = [req[r] EXCEPT !.pc = "respondRefresh"]
<1>t. TypeInv /\ req \in [Reqs -> Local] /\ restarts \in Nat
  BY DEF RowInv, TokenInv, TypeInv, TypeOK
<1>1. ~Restart
  BY <1>t DEF Restart
<1>2. \E q \in Reqs : Arrive(q) \/ Step(q)
  BY <1>1 DEF Next, Cleanup, CleanupStart, CleanupRefresh, CleanupAccess,
     CleanupError, RevokeMobileDevice, Tick, vars
<1>3. Arrive(r) \/ Step(r)
  BY <1>2, <1>t, OthersKept
<1>4. Goto(r, "respondRefresh")
  BY <1>3 DEF Arrive, Step, PairDevice, RefreshGetSession, RefreshRead,
     RevokeGetSession, AuthenticateDevice, PairCreateAccess, PairCreateRefresh,
     Respond, RefreshGetDevice, RefreshDeviceRejected, RefreshCreateAccess,
     RefreshRotate, RotateFails, RefreshAudit, RevokeSessions, RevokeAudit,
     AuthDeviceRejected, AuthDevice, DenyRevoke, DenyAudit, ProxyEnds, DBError
<1> QED BY <1>4, <1>t DEF Goto

(* A refresh token is spent only together with storing its successor, and  *)
(* the request that spent it goes on to answer with the successor, unless  *)
(* the process ends.                                                       *)
THEOREM SpentIsAnswered == Spec => RotationAnswered
<1>1. ASSUME RowInv, [Next]_vars,
             NEW k \in DOMAIN refresh_sessions \cap DOMAIN refresh_sessions',
             refresh_sessions'[k].rotated, ~refresh_sessions[k].rotated
      PROVE  \E r \in Reqs :
               /\ req'[r].pc = "auditRefresh" /\ req'[r].session = k
               /\ req'[r].new \in DOMAIN refresh_sessions'
  <2>t. RowInv /\ req \in [Reqs -> Local]
    BY <1>1 DEF RowInv, TokenInv, TypeInv, TypeOK
  <2>1. PICK r \in Reqs : Inserting(r)
    BY <1>1, StepAges DEF RotatedKept
  <2>2. ~(PairCreateAccess(r) \/ RefreshCreateAccess(r))
    BY <1>1, AccessRows
  <2>3. ~PairCreateRefresh(r)
    BY <1>1, RefreshRows
  <2>4. RefreshRotate(r)
    BY <2>1, <2>2, <2>3 DEF Inserting
  <2>5. /\ k = req[r].session
        /\ req[r].new \in DOMAIN refresh_sessions'
    <3>1. /\ req[r].new \in DOMAIN refresh_sessions'
          /\ \A j \in DOMAIN refresh_sessions \ {req[r].session} :
               refresh_sessions'[j] = refresh_sessions[j]
      <4> DEFINE s == req[r].session
                 n == req[r].new
      <4> HIDE DEF s, n
      <4>1. /\ DOMAIN refresh_sessions' = DOMAIN refresh_sessions \cup {n}
            /\ \A j \in DOMAIN refresh_sessions \ {s} :
                 refresh_sessions'[j] = refresh_sessions[j]
        BY <2>t, <2>4, RotateRows DEF s, n
      <4> QED BY <4>1 DEF s, n
    <3> QED BY <1>1, <3>1
  <2>6. req'[r] = [req[r] EXCEPT !.pc = "auditRefresh"]
    BY <2>4, <2>t DEF RefreshRotate, Goto
  <2>7. /\ req'[r].pc = "auditRefresh" /\ req'[r].session = req[r].session
        /\ req'[r].new = req[r].new
    BY <2>6, <2>t DEF Local
  <2> QED BY <2>5, <2>7
<1>2. RowInv /\ [Next]_vars =>
        [/\ \A k \in DOMAIN refresh_sessions \cap DOMAIN refresh_sessions' :
              refresh_sessions'[k].rotated /\ ~refresh_sessions[k].rotated
                => \E r \in Reqs :
                     /\ req'[r].pc = "auditRefresh" /\ req'[r].session = k
                     /\ req'[r].new \in DOMAIN refresh_sessions'
         /\ \A r \in Reqs :
              req[r].pc = "auditRefresh" /\ req'[r] # req[r]
                  /\ restarts' = restarts
                => req'[r] = [req[r] EXCEPT !.pc = "respondRefresh"]]_vars
  BY <1>1, OnToResponse
<1> QED BY <1>2, RowInit, RowNext, PTL DEF Spec, RotationAnswered
-----------------------------------------------------------------------------
(* Refreshes that have read the session p and not rotated it yet.          *)
PendingPCs == {"getDevice", "createNewAccess", "rotate"}
PendingOn(locals, p) ==
  {r \in Reqs : locals[r].pc \in PendingPCs /\ locals[r].session = p}

ChildrenIn(f, p) ==
  {k \in DOMAIN f : f[k].parent_token_hash = f[p].token_hash}

(* The session p can still be rotated by the refreshes that read it before *)
(* its first rotation, and no new one joins them after it.                 *)
ForkInv ==
  \A p \in DOMAIN refresh_sessions :
    Cardinality(ChildrenIn(refresh_sessions, p))
      + Cardinality(PendingOn(req, p)) <= Cardinality(Reqs)

LEMMA ForkSets ==
  ASSUME NEW C \in SUBSET Pairs, NEW P \in SUBSET Reqs
  PROVE  /\ IsFiniteSet(C) /\ IsFiniteSet(P)
         /\ Cardinality(C) \in Nat /\ Cardinality(P) \in Nat
         /\ Cardinality(Reqs) \in Nat /\ Cardinality(P) <= Cardinality(Reqs)
<1>1. IsFiniteSet(Pairs) /\ IsFiniteSet(Reqs)
  BY FS_Interval DEF Pairs
<1>2. IsFiniteSet(C) /\ IsFiniteSet(P) /\ Cardinality(P) <= Cardinality(Reqs)
  BY <1>1, FS_Subset
<1> QED BY <1>1, <1>2, FS_CardinalityType

(* Children go, or refreshes end; or a refresh r becomes the child k.      *)
LEMMA ForkShrinks ==
  ASSUME NEW C \in SUBSET Pairs, NEW P \in SUBSET Reqs,
         Cardinality(C) + Cardinality(P) <= Cardinality(Reqs),
         NEW D \in SUBSET C, NEW Q \in SUBSET P
  PROVE  Cardinality(D) + Cardinality(Q) <= Cardinality(Reqs)
<1>1. /\ Cardinality(C) \in Nat /\ Cardinality(P) \in Nat
      /\ Cardinality(D) \in Nat /\ Cardinality(Q) \in Nat
      /\ Cardinality(Reqs) \in Nat
      /\ IsFiniteSet(C) /\ IsFiniteSet(P)
  BY ForkSets
<1>2. Cardinality(D) <= Cardinality(C) /\ Cardinality(Q) <= Cardinality(P)
  BY <1>1, FS_Subset
<1> QED BY <1>1, <1>2

LEMMA ForkMoves ==
  ASSUME NEW C \in SUBSET Pairs, NEW P \in SUBSET Reqs,
         Cardinality(C) + Cardinality(P) <= Cardinality(Reqs),
         NEW k \in Pairs, NEW r \in P,
         NEW D \in SUBSET (C \cup {k}), NEW Q \in SUBSET (P \ {r})
  PROVE  Cardinality(D) + Cardinality(Q) <= Cardinality(Reqs)
<1> DEFINE E == C \cup {k}
           R == P \ {r}
<1>1. E \in SUBSET Pairs /\ R \in SUBSET Reqs
  OBVIOUS
<1>2. /\ Cardinality(C) \in Nat /\ Cardinality(P) \in Nat
      /\ Cardinality(Reqs) \in Nat /\ IsFiniteSet(C) /\ IsFiniteSet(P)
  BY ForkSets
<1>3. Cardinality(E) <= Cardinality(C) + 1 /\ Cardinality(E) \in Nat
  <2>1. Cardinality(E) = IF k \in C THEN Cardinality(C) ELSE Cardinality(C) + 1
    BY <1>2, FS_AddElement
  <2> QED BY <1>2, <2>1
<1>4. Cardinality(R) = Cardinality(P) - 1 /\ IsFiniteSet(R)
  BY <1>2, FS_RemoveElement
<1>5. Cardinality(R) \in Nat
  BY <1>4, FS_CardinalityType
<1>6. Cardinality(E) + Cardinality(R) <= Cardinality(Reqs)
  BY <1>2, <1>3, <1>4, <1>5
<1> HIDE DEF E, R
<1>7. D \in SUBSET E /\ Q \in SUBSET R
  BY DEF E, R
<1> QED BY <1>1, <1>6, <1>7, ForkShrinks

(* A refresh joins those pending on a session only by reading it before    *)
(* its first rotation.                                                     *)
LEMMA PendingJoins ==
  ASSUME RowInv, [Next]_vars, NEW p, NEW r \in PendingOn(req', p),
         r \notin PendingOn(req, p)
  PROVE  /\ UNCHANGED refresh_sessions
         /\ p \in DOMAIN refresh_sessions /\ ~refresh_sessions[p].rotated
<1>t. TypeInv /\ req \in [Reqs -> Local] /\ r \in Reqs
  BY DEF RowInv, TokenInv, TypeInv, TypeOK, PendingOn
<1>1. /\ req'[r].pc \in PendingPCs /\ req'[r].session = p
      /\ ~(req[r].pc \in PendingPCs /\ req[r].session = p)
  BY DEF PendingOn
<1>2. req'[r] # req[r]
  BY <1>1
<1>3. ~Restart
  <2>1. Restart => req'[r].pc = "idle"
    BY <1>t DEF Restart, Idle
  <2> QED BY <1>1, <2>1 DEF PendingPCs
<1>4. \E q \in Reqs : Arrive(q) \/ Step(q)
  BY <1>2, <1>3 DEF Next, Cleanup, CleanupStart, CleanupRefresh, CleanupAccess,
     CleanupError, RevokeMobileDevice, Tick, vars
<1>5. Arrive(r) \/ Step(r)
  BY <1>2, <1>4, <1>t, OthersKept
<1>6. ASSUME NEW pc, Goto(r, pc), pc \in PendingPCs => req[r].pc \in PendingPCs
      PROVE  FALSE
  <2>1. req'[r].pc = pc /\ req'[r].session = req[r].session
    BY <1>6, <1>t DEF Goto, Local
  <2> QED BY <1>1, <1>6, <2>1
<1>7. ~Finish(r)
  BY <1>1, <1>t DEF Finish, Idle, PendingPCs
<1>8. ~Step(r)
  <2>1. ~RefreshGetDevice(r)
    <3>1. SUFFICES ASSUME RefreshGetDevice(r) PROVE FALSE
      OBVIOUS
    <3>2. req'[r].session = req[r].session /\ req[r].pc = "getDevice"
      BY <3>1, <1>t DEF RefreshGetDevice, Local
    <3> QED BY <1>1, <3>2 DEF PendingPCs
  <2>2. ~(PairCreateAccess(r) \/ PairCreateRefresh(r) \/ RefreshCreateAccess(r))
    BY <1>6 DEF PairCreateAccess, PairCreateRefresh, RefreshCreateAccess,
       PendingPCs
  <2>3. ~(RefreshRotate(r) \/ RefreshAudit(r) \/ RevokeSessions(r)
          \/ DenyRevoke(r))
    BY <1>6 DEF RefreshRotate, RefreshAudit, RevokeSessions, DenyRevoke,
       PendingPCs
  <2>4. ~AuthDevice(r)
    BY <1>6 DEF AuthDevice, PendingPCs
  <2>5. ~DBError(r)
    BY <1>6, <1>7 DEF DBError, PendingPCs
  <2>6. ~(Respond(r) \/ RefreshDeviceRejected(r) \/ RotateFails(r)
          \/ RevokeAudit(r) \/ AuthDeviceRejected(r) \/ DenyAudit(r)
          \/ ProxyEnds(r))
    BY <1>7 DEF Respond, RefreshDeviceRejected, RotateFails, RevokeAudit,
       AuthDeviceRejected, DenyAudit, ProxyEnds
  <2> QED BY <2>1, <2>2, <2>3, <2>4, <2>5, <2>6 DEF Step
<1>9. PICK k \in Pairs : RefreshGetSession(r, k)
  <2>1. ASSUME NEW l, req' = [req EXCEPT ![r] = l], l.pc \notin PendingPCs
        PROVE  FALSE
    BY <2>1, <1>1, <1>t
  <2>2. \A email \in Emails : ~PairDevice(r, email)
    BY <2>1 DEF PairDevice, PendingPCs
  <2>3. ASSUME NEW pc \in {"revokeAll", "authDevice"}, NEW s, NEW d,
               req' = [req EXCEPT ![r] = Found(pc, s, d)]
        PROVE  FALSE
    <3>1. Found(pc, s, d).pc \notin PendingPCs
      BY DEF Found, PendingPCs
    <3> QED BY <2>1, <2>3, <3>1
  <2>4. \A k \in Pairs : ~RevokeGetSession(r, k) /\ ~AuthenticateDevice(r, k)
    BY <2>3 DEF RevokeGetSession, AuthenticateDevice
  <2> QED BY <1>5, <1>8, <2>2, <2>4 DEF Arrive
<1>10. PICK s \in DOMAIN refresh_sessions :
         /\ ~refresh_sessions[s].rotated
         /\ req' = [req EXCEPT ![r] =
                      Found("getDevice", s, refresh_sessions[s].device_id)]
  BY <1>9 DEF RefreshGetSession, RefreshRead, GetRefreshSession
<1>11. s = p
  BY <1>1, <1>10, <1>t DEF Found
<1>12. UNCHANGED refresh_sessions
  BY <1>9 DEF RefreshGetSession, RefreshRead, tableVars
<1> QED BY <1>10, <1>11, <1>12
LEMMA ForkNext ==
  ASSUME RowInv, RowInv', ForkInv, [Next]_vars
  PROVE  ForkInv'
<1>t. /\ TypeInv /\ req \in [Reqs -> Local]
      /\ DOMAIN refresh_sessions \subseteq Pairs
      /\ DOMAIN refresh_sessions' \subseteq Pairs
  BY DEF RowInv, TokenInv, TypeInv, TypeOK, IsTable
<1> SUFFICES ASSUME NEW p \in DOMAIN refresh_sessions'
             PROVE  Cardinality(ChildrenIn(refresh_sessions', p))
                      + Cardinality(PendingOn(req', p)) <= Cardinality(Reqs)
  BY DEF ForkInv
<1> DEFINE D == ChildrenIn(refresh_sessions', p)
           Q == PendingOn(req', p)
           C == ChildrenIn(refresh_sessions, p)
           P == PendingOn(req, p)
<1>1. /\ D \in SUBSET Pairs /\ Q \in SUBSET Reqs
      /\ C \in SUBSET Pairs /\ P \in SUBSET Reqs
  BY <1>t DEF ChildrenIn, PendingOn
<1>2. CASE ~refresh_sessions'[p].rotated
  <2>1. \A k \in Pairs : ChildOK(refresh_sessions', p, k)
    BY <1>t DEF RowInv, Lineage
  <2>2. D = {}
    BY <1>2, <1>t, <2>1 DEF ChildOK, ChildrenIn
  <2>3. Cardinality(D) = 0
    BY <2>2, FS_EmptySet
  <2>4. Cardinality(Q) \in Nat /\ Cardinality(Q) <= Cardinality(Reqs)
    BY <1>1, ForkSets
  <2> HIDE DEF D, Q
  <2>5. Cardinality(D) + Cardinality(Q) <= Cardinality(Reqs)
    BY <2>3, <2>4
  <2> QED BY <2>5 DEF D, Q
<1>3. CASE refresh_sessions'[p].rotated
  <2>1. Q \in SUBSET P
    BY <1>3, PendingJoins
  <2>2. p \in DOMAIN refresh_sessions =>
          Cardinality(C) + Cardinality(P) <= Cardinality(Reqs)
    BY DEF ForkInv
  <2>3. CASE p \in DOMAIN refresh_sessions /\ D \in SUBSET C
    BY <1>1, <2>1, <2>2, <2>3, ForkShrinks
  <2>4. CASE \A r \in Reqs : ~Inserting(r)
    <3>1. TablesAge({})
      BY <2>4, StepAges
    <3>2. \A j \in DOMAIN refresh_sessions' :
            /\ j \in DOMAIN refresh_sessions
            /\ refresh_sessions'[j].token_hash = refresh_sessions[j].token_hash
            /\ refresh_sessions'[j].parent_token_hash =
                 refresh_sessions[j].parent_token_hash
      BY <3>1, <1>t DEF TablesAge, RefreshAges, Ages, Pairs
    <3>3. p \in DOMAIN refresh_sessions /\ D \in SUBSET C
      BY <3>2 DEF ChildrenIn
    <3> QED BY <2>3, <3>3
  <2>5. ASSUME NEW r \in Reqs, PairCreateAccess(r) \/ RefreshCreateAccess(r)
        PROVE  p \in DOMAIN refresh_sessions /\ D \in SUBSET C
    BY <2>5, AccessRows
  <2>6. ASSUME NEW r \in Reqs, PairCreateRefresh(r)
        PROVE  p \in DOMAIN refresh_sessions /\ D \in SUBSET C
    <3> DEFINE k == req[r].new
    <3>1. /\ DOMAIN refresh_sessions' = DOMAIN refresh_sessions \cup {k}
          /\ refresh_sessions'[k].parent_token_hash = NoHash
          /\ \A j \in DOMAIN refresh_sessions :
               refresh_sessions'[j] = refresh_sessions[j]
      BY <2>6, RefreshRows
    <3>2. refresh_sessions'[k].rotated = FALSE
      BY <2>6, RefreshRows
    <3>3. refresh_sessions'[p].token_hash # NoHash
      <4>1. refresh_sessions'[p].token_hash \in Hashes
        BY DEF RowInv, TokenInv, TypeInv, TypeOK, IsTable, RefreshRow
      <4> QED BY <4>1, SomeHash
    <3> HIDE DEF k
    <3> QED BY <1>3, <3>1, <3>2, <3>3 DEF ChildrenIn
  <2>7. ASSUME NEW r \in Reqs, RefreshRotate(r)
        PROVE  Cardinality(D) + Cardinality(Q) <= Cardinality(Reqs)
    <3> DEFINE k == req[r].new
               s == req[r].session
    <3> HIDE DEF k, s
    <3>1. /\ k \in Pairs /\ k \notin DOMAIN refresh_sessions
          /\ s \in DOMAIN refresh_sessions
          /\ DOMAIN refresh_sessions' = DOMAIN refresh_sessions \cup {k}
          /\ refresh_sessions'[k] = RotatedInto(s, s, k, req[r].at)
          /\ refresh_sessions'[s] = [refresh_sessions[s] EXCEPT !.rotated = TRUE]
          /\ \A j \in DOMAIN refresh_sessions \ {s} :
               refresh_sessions'[j] = refresh_sessions[j]
      BY <2>7, RotateRows DEF k, s
    <3>2. /\ refresh_sessions'[s].token_hash = refresh_sessions[s].token_hash
          /\ refresh_sessions'[s].parent_token_hash =
               refresh_sessions[s].parent_token_hash
      BY <3>1 DEF RowInv, TokenInv, TypeInv, TypeOK, IsTable, RefreshRow
    <3>3. /\ refresh_sessions'[k].rotated = FALSE
          /\ refresh_sessions'[k].parent_token_hash = HashSecret(s)
      BY <3>1 DEF RotatedInto
    <3>4. p \in DOMAIN refresh_sessions /\ D \in SUBSET (C \cup {k})
      BY <1>3, <3>1, <3>2, <3>3 DEF ChildrenIn
    <3>5. CASE p = s
      <4>1. /\ req[r].pc = "rotate" /\ req'[r].pc = "auditRefresh"
            /\ req[r].session = p
        BY <2>7, <3>5, <1>t DEF RefreshRotate, Goto, Local, s
      <4>2. r \in P /\ r \notin Q
        BY <4>1 DEF PendingOn, PendingPCs
      <4>3. Q \in SUBSET (P \ {r})
        BY <2>1, <4>2
      <4> HIDE DEF C, P, D, Q
      <4> QED BY <1>1, <2>2, <3>1, <3>4, <4>2, <4>3, ForkMoves
    <3>6. CASE p # s
      <4>1. refresh_sessions[p].token_hash[2] = p
        <5>1. Keyed(refresh_sessions)
          BY DEF RowInv, TokenInv
        <5>2. refresh_sessions[p].token_hash =
                <<refresh_sessions[p].token_hash[1], p>>
          BY <3>4, <5>1 DEF Keyed
        <5> DEFINE h == refresh_sessions[p].token_hash
                   h1 == h[1]
        <5>3. h = <<h1, p>>
          BY <5>2
        <5> HIDE DEF h, h1
        <5>4. h[2] = p
          BY <5>3
        <5> QED BY <5>4 DEF h
      <4>2. HashSecret(s) # refresh_sessions'[p].token_hash
        <5>1. HashSecret(s)[2] = s
          BY DEF HashSecret
        <5> QED BY <5>1, <4>1, <3>1, <3>4, <3>6
      <4>3. k \notin D
        BY <3>3, <4>2 DEF ChildrenIn
      <4>4. D \in SUBSET C
        BY <3>4, <4>3
      <4> HIDE DEF C, D
      <4> QED BY <2>3, <3>4, <4>4 DEF C, D
    <3> QED BY <3>5, <3>6
  <2> QED BY <2>3, <2>4, <2>5, <2>6, <2>7 DEF Inserting
<1> QED BY <1>2, <1>3

LEMMA ForkInit == Init => ForkInv
BY EmptyTableIsTable DEF Init, ForkInv

(* A refresh token is rotated no more often than requests run at once,     *)
(* although the UPDATE of RotateRefreshSession has no condition and is two *)
(* calls after the check.                                                  *)
THEOREM ForksBounded == Spec => []ForkBound
<1>1. RowInv /\ ForkInv => ForkBound
  <2> SUFFICES ASSUME RowInv, ForkInv, NEW p \in DOMAIN refresh_sessions
               PROVE  Cardinality(Children(p)) <= Cardinality(Reqs)
    BY DEF ForkBound
  <2> DEFINE C == ChildrenIn(refresh_sessions, p)
             P == PendingOn(req, p)
  <2>1. C \in SUBSET Pairs /\ P \in SUBSET Reqs
    BY DEF RowInv, TokenInv, TypeInv, TypeOK, IsTable, ChildrenIn, PendingOn
  <2>2. Cardinality(C) + Cardinality(P) <= Cardinality(Reqs) /\ Children(p) = C
    BY DEF ForkInv, Children, ChildrenIn
  <2> HIDE DEF C, P
  <2> QED BY <2>1, <2>2, ForkSets
<1> QED BY <1>1, RowInit, RowNext, ForkInit, ForkNext, PTL DEF Spec

(* README.md's "Refresh tokens rotate on every use" holds when the         *)
(* requests are served one at a time.                                      *)
THEOREM SerialSingleUse ==
  ASSUME Cardinality(Reqs) = 1
  PROVE  Spec => []RotationSingleUse
<1>1. ForkBound => RotationSingleUse
  BY DEF ForkBound, RotationSingleUse
<1> QED BY <1>1, ForksBounded, PTL

-----------------------------------------------------------------------------
(* Where a handler holds a device it may store a session for; the          *)
(* revocations that nothing undoes when requests come one at a time, and   *)
(* where a handler is about to put one on record.  A denied request is     *)
(* recorded even if its revocation failed.                                 *)
Storing == {"getDevice", "createAccess", "createRefresh", "createNewAccess",
            "rotate"}
FinalCodes == {"session_revoked"}
                \cup (IF Faults THEN {} ELSE {"proxy_denied"})
Recording  == {"auditRevoke"} \cup (IF Faults THEN {} ELSE {"denyAudit"})

AllRevoked(table, device) ==
  \A k \in DOMAIN table : table[k].device_id = device => table[k].revoked

LoggedOut(device, a, f) == AllRevoked(a, device) /\ AllRevoked(f, device)

(* The devices some handler may store a session for.                       *)
StoringDevices(locals) ==
  {locals[r].device : r \in {q \in Reqs : locals[q].pc \in Storing}}

(* No device is known before it was paired.                                *)
DevicesMinted(table, n) == \A k \in DOMAIN table : table[k].device_id < n

(* A device logged out on record has no session, gets none from a handler  *)
(* that runs, and pairing always makes another device.                     *)
SerialInv ==
  /\ \A event \in audit_events :
       event[1] \in FinalCodes =>
         /\ LoggedOut(event[2], access_sessions, refresh_sessions)
         /\ event[2] < nextPair
         /\ event[2] \notin StoringDevices(req)
  /\ \A r \in Reqs :
       req[r].pc \in Recording =>
         LoggedOut(req[r].device, access_sessions, refresh_sessions)
  /\ \A r \in Reqs : req[r].pc # "idle" => req[r].device < nextPair
  /\ DevicesMinted(access_sessions, nextPair)
  /\ DevicesMinted(refresh_sessions, nextPair)

(* Where the rows of a table come from: from the same row, with its        *)
(* revocation, or from a handler that stores a session of a device in D.   *)
RowsFrom(old, new, D) ==
  \A k \in DOMAIN new :
    \/ /\ k \in DOMAIN old
       /\ new[k].device_id = old[k].device_id
       /\ new[k].expires_at = old[k].expires_at
       /\ old[k].revoked => new[k].revoked
    \/ new[k].device_id \in D

LEMMA AllRevokedKept ==
  ASSUME NEW old, NEW new, NEW D, RowsFrom(old, new, D), NEW d, d \notin D,
         AllRevoked(old, d)
  PROVE  AllRevoked(new, d)
BY DEF RowsFrom, AllRevoked

LEMMA MintedKept ==
  ASSUME NEW n \in Nat, NEW m \in Nat, n <= m,
         NEW old, NEW new, NEW D \in SUBSET Nat, RowsFrom(old, new, D),
         \A k \in DOMAIN old : old[k].device_id \in Nat,
         DevicesMinted(old, n), \A d \in D : d < n
  PROVE  DevicesMinted(new, m)
<1> SUFFICES ASSUME NEW k \in DOMAIN new PROVE new[k].device_id < m
  BY DEF DevicesMinted
<1>1. CASE new[k].device_id \in D
  <2>1. PICK d \in D : d = new[k].device_id
    BY <1>1
  <2>2. d \in Nat /\ d < n
    OBVIOUS
  <2> QED BY <2>1, <2>2
<1>2. CASE k \in DOMAIN old /\ new[k].device_id = old[k].device_id
  <2>1. old[k].device_id < n /\ old[k].device_id \in Nat
    BY <1>2 DEF DevicesMinted
  <2> QED BY <1>2, <2>1
<1> QED BY <1>1, <1>2 DEF RowsFrom

(* Every step stores sessions only for the devices its handler holds.      *)
LEMMA StoredFrom ==
  ASSUME RowInv, [Next]_vars
  PROVE  /\ RowsFrom(access_sessions, access_sessions', StoringDevices(req))
         /\ RowsFrom(refresh_sessions, refresh_sessions', StoringDevices(req))
<1> DEFINE D == StoringDevices(req)
<1>t. /\ DOMAIN access_sessions' \subseteq 0..MaxPairs
      /\ DOMAIN refresh_sessions' \subseteq 0..MaxPairs
      /\ IsTable(refresh_sessions, Pairs, RefreshRow)
      /\ RowInv
  <2>1. TypeOK'
    BY RowNext DEF RowInv, TokenInv, TypeInv
  <2> QED BY <2>1 DEF RowInv, TokenInv, TypeInv, TypeOK, IsTable, Pairs
<1>d. \A r \in Reqs : req[r].pc \in Storing => req[r].device \in D
  BY DEF StoringDevices
<1> HIDE DEF D
<1>1. CASE \A r \in Reqs : ~Inserting(r)
  <2>1. TablesAge({})
    BY <1>1, StepAges
  <2> QED BY <1>t, <2>1 DEF TablesAge, Ages, RefreshAges, RowsFrom
<1>2. ASSUME NEW r \in Reqs, PairCreateAccess(r) \/ RefreshCreateAccess(r)
      PROVE  /\ RowsFrom(access_sessions, access_sessions', D)
             /\ RowsFrom(refresh_sessions, refresh_sessions', D)
  <2>1. req[r].device \in D
    BY <1>2, <1>d DEF PairCreateAccess, RefreshCreateAccess, Storing
  <2> QED BY <2>1, <1>2, <1>t, AccessRows DEF RowsFrom
<1>3. ASSUME NEW r \in Reqs, PairCreateRefresh(r)
      PROVE  /\ RowsFrom(access_sessions, access_sessions', D)
             /\ RowsFrom(refresh_sessions, refresh_sessions', D)
  <2>1. req[r].device \in D
    BY <1>3, <1>d DEF PairCreateRefresh, Storing
  <2> QED BY <2>1, <1>3, <1>t, RefreshRows DEF RowsFrom
<1>4. ASSUME NEW r \in Reqs, RefreshRotate(r)
      PROVE  /\ RowsFrom(access_sessions, access_sessions', D)
             /\ RowsFrom(refresh_sessions, refresh_sessions', D)
  <2> DEFINE s == req[r].session
             k == req[r].new
  <2>1. /\ s \in DOMAIN refresh_sessions
        /\ DOMAIN refresh_sessions' = DOMAIN refresh_sessions \cup {k}
        /\ refresh_sessions'[k] = RotatedInto(s, s, k, req[r].at)
        /\ refresh_sessions'[s] = [refresh_sessions[s] EXCEPT !.rotated = TRUE]
        /\ \A j \in DOMAIN refresh_sessions \ {s} :
             refresh_sessions'[j] = refresh_sessions[j]
    BY <1>4, RotateRows
  <2>2. req[r].device \in D /\ refresh_sessions[s].device_id = req[r].device
    <3>1. req[r].pc = "rotate"
      BY <1>4 DEF RefreshRotate
    <3>2. HandlerOK(req[r], access_sessions, refresh_sessions, now)
      BY <1>t DEF RowInv, Handlers
    <3> QED BY <3>1, <3>2, <2>1, <1>d
            DEF HandlerOK, Refreshing, OfDevice, Storing
  <2> HIDE DEF s, k
  <2>3. refresh_sessions'[k].device_id \in D
    BY <2>1, <2>2 DEF RotatedInto
  <2>4. /\ refresh_sessions'[s].device_id = refresh_sessions[s].device_id
        /\ refresh_sessions'[s].expires_at = refresh_sessions[s].expires_at
        /\ refresh_sessions[s].revoked => refresh_sessions'[s].revoked
    BY <2>1, <1>t DEF IsTable, RefreshRow
  <2>5. UNCHANGED access_sessions
    BY <1>4 DEF RefreshRotate
  <2> QED BY <2>1, <2>3, <2>4, <2>5 DEF RowsFrom
<1> QED BY <1>1, <1>2, <1>3, <1>4 DEF Inserting, D

(* The audit trail grows by the revocation a handler has just made.        *)
LEMMA EventsFrom ==
  ASSUME RowInv, [Next]_vars, NEW event \in audit_events' \ audit_events,
         event[1] \in FinalCodes
  PROVE  \E r \in Reqs : /\ req[r].pc \in Recording
                         /\ event[2] = req[r].device
                         /\ req' = [req EXCEPT ![r] = Idle]
<1>1. PICK r \in Reqs : RefreshAudit(r) \/ RevokeAudit(r) \/ DenyAudit(r)
  BY DEF Next, Arrive, Step, PairDevice, RefreshGetSession, RefreshRead,
     RevokeGetSession, AuthenticateDevice, PairCreateAccess, PairCreateRefresh,
     Respond, RefreshGetDevice, RefreshDeviceRejected, RefreshCreateAccess,
     RefreshRotate, RotateFails, RevokeSessions, AuthDeviceRejected, AuthDevice,
     DenyRevoke, ProxyEnds, DBError, Cleanup, CleanupStart, CleanupRefresh,
     CleanupAccess, CleanupError, RevokeMobileDevice, Restart, Tick, vars
<1>2. ~RefreshAudit(r)
  <2>1. RefreshAudit(r) =>
          event = <<"token_refreshed", req[r].device, req[r].new>>
    BY DEF RefreshAudit
  <2> QED BY <2>1 DEF FinalCodes
<1>3. CASE RevokeAudit(r)
  <2>1. event = <<"session_revoked", req[r].device, req[r].session>>
    BY <1>3 DEF RevokeAudit
  <2>2. event[2] = req[r].device
    BY <2>1
  <2> QED BY <1>3, <2>2 DEF RevokeAudit, Finish, Recording
<1>4. CASE DenyAudit(r)
  <2>1. event = <<"proxy_denied", req[r].device, req[r].session>>
    BY <1>4 DEF DenyAudit
  <2>2. event[2] = req[r].device /\ event[1] = "proxy_denied"
    BY <2>1
  <2> QED BY <1>4, <2>2 DEF DenyAudit, Finish, Recording, FinalCodes
<1> QED BY <1>1, <1>2, <1>3, <1>4

(* Where a handler's device comes from, and what a handler on its way to   *)
(* record a revocation has done.                                           *)
DeviceFrom(old, new, n, m, a, f) ==
  /\ new.pc # "idle" => \/ old.pc # "idle" /\ new.device = old.device
                        \/ new.device = n /\ m = n + 1
                        \/ \E k \in DOMAIN a : new.device = a[k].device_id
                        \/ \E k \in DOMAIN f : new.device = f[k].device_id
  /\ new.pc \in Storing => \/ old.pc \in Storing /\ new.device = old.device
                           \/ new.device = n /\ m = n + 1
                           \/ Usable(f, new.device)
  /\ new.pc = "authDevice" => \/ old.pc = "authDevice" /\ new.device = old.device
                              \/ Usable(a, new.device)

RecordingFrom(old, new, a, f) ==
  new.pc \in Recording => \/ old.pc \in Recording /\ new.device = old.device
                          \/ LoggedOut(new.device, a, f)

LEMMA GotoDevice ==
  ASSUME NEW r \in Reqs, req \in [Reqs -> Local], NEW pc, Goto(r, pc)
  PROVE  req'[r].pc = pc /\ req'[r].device = req[r].device
BY DEF Goto, Local

LEMMA FoundDevice ==
  ASSUME NEW r \in Reqs, req \in [Reqs -> Local], NEW pc, NEW s, NEW d,
         req' = [req EXCEPT ![r] = Found(pc, s, d)]
  PROVE  req'[r].pc = pc /\ req'[r].device = d
BY DEF Found

LEMMA RevokedLogsOut ==
  ASSUME IsTable(access_sessions, Pairs, AccessRow),
         IsTable(refresh_sessions, Pairs, RefreshRow),
         NEW d, RevokeAllSessionsForDevice(d)
  PROVE  LoggedOut(d, access_sessions', refresh_sessions')
<1>1. ASSUME NEW table, NEW R, IsTable(table, Pairs, R),
             R = AccessRow \/ R = RefreshRow
      PROVE  AllRevoked(Revoked(table, d), d)
  <2> SUFFICES ASSUME NEW k \in DOMAIN table,
                      Revoked(table, d)[k].device_id = d
               PROVE  Revoked(table, d)[k].revoked
    BY DEF AllRevoked, Revoked
  <2>1. table[k] \in AccessRow \/ table[k] \in RefreshRow
    BY <1>1 DEF IsTable
  <2>2. Revoked(table, d)[k] = IF table[k].device_id = d
                                 THEN [table[k] EXCEPT !.revoked = TRUE]
                                 ELSE table[k]
    BY DEF Revoked
  <2> QED BY <2>1, <2>2 DEF AccessRow, RefreshRow
<1> QED BY <1>1 DEF RevokeAllSessionsForDevice, LoggedOut

LEMMA HandlersFrom ==
  ASSUME RowInv, [Next]_vars, NEW r \in Reqs
  PROVE  \/ req'[r] = req[r]
         \/ /\ DeviceFrom(req[r], req'[r], nextPair, nextPair',
                          access_sessions, refresh_sessions)
            /\ RecordingFrom(req[r], req'[r], access_sessions',
                             refresh_sessions')
<1> DEFINE Good ==
      /\ DeviceFrom(req[r], req'[r], nextPair, nextPair',
                    access_sessions, refresh_sessions)
      /\ RecordingFrom(req[r], req'[r], access_sessions', refresh_sessions')
<1>t. /\ TypeInv /\ req \in [Reqs -> Local]
      /\ IsTable(access_sessions, Pairs, AccessRow)
      /\ IsTable(refresh_sessions, Pairs, RefreshRow)
  BY DEF RowInv, TokenInv, TypeInv, TypeOK
<1>1. CASE req'[r].pc = "idle"
  BY <1>1 DEF DeviceFrom, RecordingFrom, Storing, Recording
<1>2. CASE req'[r] # req[r] /\ req'[r].pc # "idle"
  <2>1. ~Restart
    <3>1. Restart => req'[r].pc = "idle"
      BY <1>t DEF Restart, Idle
    <3> QED BY <1>2, <3>1
  <2>2. \E q \in Reqs : Arrive(q) \/ Step(q)
    BY <1>2, <2>1 DEF Next, Cleanup, CleanupStart, CleanupRefresh,
       CleanupAccess, CleanupError, RevokeMobileDevice, Tick, vars
  <2>3. Arrive(r) \/ Step(r)
    BY <1>2, <2>2, <1>t, OthersKept
  <2>4. ~Finish(r)
    BY <1>2, <1>t DEF Finish, Idle
  <2>5. ASSUME NEW pc, Goto(r, pc), req[r].pc # "idle",
               pc \in Storing => req[r].pc \in Storing,
               pc \notin Recording, pc # "authDevice"
        PROVE  Good
    <3>1. req'[r].pc = pc /\ req'[r].device = req[r].device
      BY <2>5, <1>t, GotoDevice
    <3> QED BY <3>1, <2>5 DEF DeviceFrom, RecordingFrom
  <2>6. CASE RefreshGetDevice(r)
    <3>1. /\ req'[r].pc = "createNewAccess" /\ req[r].pc = "getDevice"
          /\ req'[r].device = req[r].device
      BY <2>6, <1>t DEF RefreshGetDevice, Local
    <3> QED BY <3>1 DEF DeviceFrom, RecordingFrom, Storing, Recording
  <2>7. CASE PairCreateAccess(r) \/ PairCreateRefresh(r)
             \/ RefreshCreateAccess(r) \/ RefreshRotate(r) \/ RefreshAudit(r)
    BY <2>7, <2>5 DEF PairCreateAccess, PairCreateRefresh, RefreshCreateAccess,
       RefreshRotate, RefreshAudit, Storing, Recording
  <2>8. CASE AuthDevice(r)
    BY <2>8, <2>5 DEF AuthDevice, Storing, Recording
  <2>9. CASE DBError(r)
    BY <2>9, <2>4, <2>5 DEF DBError, Storing, Recording
  <2>10. CASE RevokeSessions(r) \/ DenyRevoke(r)
    <3>1. PICK pc \in {"auditRevoke", "denyAudit"} :
            /\ Goto(r, pc) /\ req[r].pc # "idle"
            /\ RevokeAllSessionsForDevice(req[r].device)
      BY <2>10 DEF RevokeSessions, DenyRevoke
    <3>2. req'[r].pc = pc /\ req'[r].device = req[r].device
      BY <3>1, <1>t, GotoDevice
    <3>3. LoggedOut(req'[r].device, access_sessions', refresh_sessions')
      BY <3>1, <3>2, <1>t, RevokedLogsOut
    <3> QED BY <3>1, <3>2, <3>3 DEF DeviceFrom, RecordingFrom, Storing
  <2>11. CASE \E email \in Emails : PairDevice(r, email)
    <3>1. /\ req'[r].pc = "createAccess" /\ req'[r].device = nextPair
          /\ nextPair' = nextPair + 1
      BY <2>11, <1>t DEF PairDevice
    <3> QED BY <3>1 DEF DeviceFrom, RecordingFrom, Recording
  <2>12. ASSUME NEW k \in Pairs, RefreshGetSession(r, k)
         PROVE  Good
    <3>1. PICK s \in DOMAIN refresh_sessions :
            /\ ~refresh_sessions[s].revoked
            /\ ~After(now, refresh_sessions[s].expires_at)
            /\ req' = [req EXCEPT ![r] =
                         Found("getDevice", s, refresh_sessions[s].device_id)]
      BY <2>12 DEF RefreshGetSession, RefreshRead, GetRefreshSession
    <3> DEFINE d == refresh_sessions[s].device_id
    <3>2. req' = [req EXCEPT ![r] = Found("getDevice", s, d)]
      BY <3>1
    <3> HIDE DEF d
    <3>3. req'[r].pc = "getDevice" /\ req'[r].device = d
      BY <3>2, <1>t, FoundDevice
    <3>4. req'[r].device = refresh_sessions[s].device_id
      BY <3>3 DEF d
    <3>5. Usable(refresh_sessions, req'[r].device)
      BY <3>1, <3>4 DEF Usable
    <3> QED BY <3>1, <3>3, <3>4, <3>5 DEF DeviceFrom, RecordingFrom, Recording
  <2>13. ASSUME NEW k \in Pairs, RevokeGetSession(r, k) \/ AuthenticateDevice(r, k)
         PROVE  Good
    <3> DEFINE Reads(pc, s) ==
                 req' = [req EXCEPT ![r] = Found(pc, s, access_sessions[s].device_id)]
               Live(s) == /\ ~access_sessions[s].revoked
                          /\ ~After(now, access_sessions[s].expires_at)
    <3>1. \A s \in GetAccessSession(HashSecret(k)) : s \in DOMAIN access_sessions
      BY DEF GetAccessSession
    <3>2. \/ \E s \in GetAccessSession(HashSecret(k)) : Reads("revokeAll", s)
          \/ \E s \in GetAccessSession(HashSecret(k)) :
               Reads("authDevice", s) /\ Live(s)
      <4>1. CASE RevokeGetSession(r, k)
        BY <4>1 DEF RevokeGetSession
      <4>2. CASE AuthenticateDevice(r, k)
        BY <4>2 DEF AuthenticateDevice
      <4> QED BY <2>13, <4>1, <4>2
    <3> HIDE DEF Reads, Live
    <3>3. PICK s \in DOMAIN access_sessions, pc \in {"revokeAll", "authDevice"} :
            Reads(pc, s) /\ (pc = "authDevice" => Live(s))
      BY <3>1, <3>2
    <3> DEFINE d == access_sessions[s].device_id
    <3>4. req' = [req EXCEPT ![r] = Found(pc, s, d)]
      BY <3>3 DEF Reads
    <3> HIDE DEF d
    <3>5. req'[r].pc = pc /\ req'[r].device = d
      BY <3>4, <1>t, FoundDevice
    <3>6. req'[r].device = access_sessions[s].device_id
      BY <3>5 DEF d
    <3>7. pc = "authDevice" => Usable(access_sessions, req'[r].device)
      BY <3>3, <3>6 DEF Usable, Live
    <3> QED BY <3>3, <3>5, <3>6, <3>7
            DEF DeviceFrom, RecordingFrom, Recording, Storing
  <2>14. ~(Respond(r) \/ RefreshDeviceRejected(r) \/ RotateFails(r)
           \/ RevokeAudit(r) \/ AuthDeviceRejected(r) \/ DenyAudit(r)
           \/ ProxyEnds(r))
    BY <2>4 DEF Respond, RefreshDeviceRejected, RotateFails, RevokeAudit,
       AuthDeviceRejected, DenyAudit, ProxyEnds
  <2> HIDE DEF Good
  <2> QED BY <2>3, <2>6, <2>7, <2>8, <2>9, <2>10, <2>11, <2>12, <2>13, <2>14
          DEF Arrive, Step, Good
<1> QED BY <1>1, <1>2

LEMMA SerialInit == Init => SerialInv
<1> SUFFICES ASSUME Init PROVE SerialInv
  OBVIOUS
<1>1. DOMAIN access_sessions = {} /\ DOMAIN refresh_sessions = {}
  BY EmptyTableIsTable DEF Init
<1>2. \A r \in Reqs : req[r].pc = "idle"
  BY DEF Init, Idle
<1>3. audit_events = {}
  BY DEF Init
<1> QED BY <1>1, <1>2, <1>3 DEF SerialInv, DevicesMinted, Recording

LEMMA NextPairGrows ==
  ASSUME TypeOK, [Next]_vars
  PROVE  nextPair \in Nat /\ nextPair' \in Nat /\ nextPair <= nextPair'
<1>1. nextPair \in Nat
  BY DEF TypeOK
<1>2. nextPair' = nextPair \/ nextPair' = nextPair + 1
  BY DEF Next, Arrive, Step, PairDevice, RefreshGetSession, RefreshRead,
     RevokeGetSession, AuthenticateDevice, PairCreateAccess, PairCreateRefresh,
     Respond, RefreshGetDevice, RefreshDeviceRejected, RefreshCreateAccess,
     RefreshRotate, RotateFails, RefreshAudit, RevokeSessions, RevokeAudit,
     AuthDeviceRejected, AuthDevice, DenyRevoke, DenyAudit, ProxyEnds, DBError,
     Cleanup, CleanupStart, CleanupRefresh, CleanupAccess, CleanupError,
     RevokeMobileDevice, Restart, Tick, vars
<1> QED BY <1>1, <1>2

LEMMA SerialNext ==
  ASSUME Cardinality(Reqs) = 1, RowInv, SerialInv, [Next]_vars
  PROVE  SerialInv'
<1> DEFINE D == StoringDevices(req)
           n == nextPair
           m == nextPair'
<1>t. /\ TypeOK /\ req \in [Reqs -> Local]
      /\ \A k \in DOMAIN access_sessions : access_sessions[k].device_id \in Nat
      /\ \A k \in DOMAIN refresh_sessions : refresh_sessions[k].device_id \in Nat
      /\ \A r \in Reqs : req[r].device \in Nat
  BY DEF RowInv, TokenInv, TypeInv, TypeOK, IsTable, AccessRow, RefreshRow,
     Devices, Pairs, Local
<1>n. n \in Nat /\ m \in Nat /\ n <= m
  BY <1>t, NextPairGrows
<1>q. \A q, r \in Reqs : q = r
  <2>1. \E x : Reqs = {x}
    BY FS_Singleton
  <2> QED BY <2>1
<1>d. D \in SUBSET Nat /\ \A d \in D : d < n
  BY <1>t DEF SerialInv, StoringDevices, Storing
<1>r. /\ RowsFrom(access_sessions, access_sessions', D)
      /\ RowsFrom(refresh_sessions, refresh_sessions', D)
  BY StoredFrom
<1>s. ASSUME NEW d, d \notin D, LoggedOut(d, access_sessions, refresh_sessions)
      PROVE  LoggedOut(d, access_sessions', refresh_sessions')
  <2> HIDE DEF D
  <2> QED BY <1>r, <1>s, AllRevokedKept DEF LoggedOut
<1>e. ASSUME NEW r \in Reqs, req[r].pc \in Recording
      PROVE  D = {}
  BY <1>e, <1>q DEF StoringDevices, Storing, Recording
<1>1. DevicesMinted(access_sessions', m) /\ DevicesMinted(refresh_sessions', m)
  <2>1. DevicesMinted(access_sessions, n) /\ DevicesMinted(refresh_sessions, n)
    BY DEF SerialInv
  <2> HIDE DEF D, n, m
  <2> QED BY <1>t, <1>n, <1>d, <1>r, <2>1, MintedKept
<1>2. ASSUME NEW r \in Reqs, req'[r].pc # "idle"
      PROVE  req'[r].device < m
  <2>0. \/ req'[r] = req[r]
        \/ DeviceFrom(req[r], req'[r], n, m, access_sessions, refresh_sessions)
    BY HandlersFrom
  <2>1. CASE req[r].pc # "idle" /\ req'[r].device = req[r].device
    <3>1. req[r].device \in Nat /\ req[r].device < n
      BY <2>1, <1>t DEF SerialInv
    <3> QED BY <2>1, <3>1, <1>n
  <2>2. ASSUME NEW a, NEW k \in DOMAIN a, DevicesMinted(a, n),
               a[k].device_id \in Nat, req'[r].device = a[k].device_id
        PROVE  req'[r].device < m
    <3>1. a[k].device_id < n
      BY <2>2 DEF DevicesMinted
    <3> QED BY <2>2, <3>1, <1>n
  <2>3. CASE req'[r].device = n /\ m = n + 1
    BY <2>3, <1>n
  <2>4. DevicesMinted(access_sessions, n) /\ DevicesMinted(refresh_sessions, n)
    BY DEF SerialInv
  <2> HIDE DEF n, m
  <2> QED BY <1>2, <1>t, <2>0, <2>1, <2>2, <2>3, <2>4 DEF DeviceFrom
<1>3. ASSUME NEW r \in Reqs, req'[r].pc \in Recording
      PROVE  LoggedOut(req'[r].device, access_sessions', refresh_sessions')
  <2>1. \/ req[r].pc \in Recording /\ req'[r].device = req[r].device
        \/ LoggedOut(req'[r].device, access_sessions', refresh_sessions')
    BY <1>3, HandlersFrom DEF RecordingFrom
  <2>2. CASE req[r].pc \in Recording /\ req'[r].device = req[r].device
    <3>1. LoggedOut(req[r].device, access_sessions, refresh_sessions)
      BY <2>2 DEF SerialInv
    <3>2. D = {}
      BY <2>2, <1>e
    <3> QED BY <2>2, <3>1, <3>2, <1>s
  <2> QED BY <2>1, <2>2
<1>4. ASSUME NEW event \in audit_events', event[1] \in FinalCodes
      PROVE  /\ LoggedOut(event[2], access_sessions', refresh_sessions')
             /\ event[2] < m
             /\ event[2] \notin StoringDevices(req')
  <2>1. CASE event \in audit_events
    <3> DEFINE d == event[2]
    <3>1. /\ LoggedOut(d, access_sessions, refresh_sessions)
          /\ d < n /\ d \notin D
      BY <1>4, <2>1 DEF SerialInv
    <3>2. d \in Nat
      BY <2>1, <1>t DEF TypeOK, Devices, Pairs
    <3> HIDE DEF d
    <3>3. ASSUME NEW r \in Reqs, req'[r].pc \in Storing, req'[r].device = d
          PROVE  FALSE
      <4>1. ~(req[r].pc \in Storing /\ req[r].device = d)
        BY <3>1 DEF StoringDevices
      <4>2. DeviceFrom(req[r], req'[r], n, m, access_sessions, refresh_sessions)
        BY <3>3, <4>1, HandlersFrom
      <4>3. \A k \in DOMAIN refresh_sessions :
              refresh_sessions[k].device_id = d => refresh_sessions[k].revoked
        BY <3>1 DEF LoggedOut, AllRevoked
      <4>4. ~Usable(refresh_sessions, d)
        BY <4>3 DEF Usable
      <4>5. d # n
        BY <3>1, <3>2, <1>n
      <4> QED BY <3>3, <4>1, <4>2, <4>4, <4>5 DEF DeviceFrom
    <3>4. d \notin StoringDevices(req')
      BY <3>3 DEF StoringDevices
    <3>5. d < m
      BY <3>1, <3>2, <1>n
    <3>6. LoggedOut(d, access_sessions', refresh_sessions')
      BY <3>1, <1>s
    <3> QED BY <3>4, <3>5, <3>6 DEF d
  <2>2. CASE event \notin audit_events
    <3>1. PICK r \in Reqs : /\ req[r].pc \in Recording
                            /\ event[2] = req[r].device
                            /\ req' = [req EXCEPT ![r] = Idle]
      BY <1>4, <2>2, EventsFrom
    <3>2. LoggedOut(req[r].device, access_sessions, refresh_sessions)
      BY <3>1 DEF SerialInv
    <3>3. D = {}
      BY <3>1, <1>e
    <3>4. LoggedOut(event[2], access_sessions', refresh_sessions')
      BY <3>1, <3>2, <3>3, <1>s
    <3>5. req'[r].pc = "idle"
      BY <3>1, <1>t DEF Idle
    <3>6. StoringDevices(req') = {}
      BY <3>5, <1>q DEF StoringDevices, Storing
    <3>7. req[r].device < n /\ req[r].device \in Nat
      BY <3>1, <1>t DEF SerialInv, Recording
    <3>8. event[2] < m
      BY <3>1, <3>7, <1>n
    <3> QED BY <3>4, <3>6, <3>8
  <2> QED BY <2>1, <2>2
<1> QED BY <1>1, <1>2, <1>3, <1>4 DEF SerialInv

(* A session of a device that is logged out is of no use to a request.     *)
LEMMA LoggedOutUnusable ==
  ASSUME NEW d, LoggedOut(d, access_sessions, refresh_sessions)
  PROVE  ~Usable(access_sessions, d) /\ ~Usable(refresh_sessions, d)
BY DEF LoggedOut, AllRevoked, Usable

(* mobile-auth-broker/README.md's "revokes the current device's sessions"  *)
(* holds for good when requests are served one at a time, whichever calls  *)
(* of a handler fail and whenever cleanups, restarts and                   *)
(* RevokeMobileDevice come in between.                                     *)
THEOREM SerialLogoutFinal ==
  ASSUME Cardinality(Reqs) = 1
  PROVE  Spec => []LogoutIsFinal
<1>1. SerialInv => LogoutIsFinal
  BY LoggedOutUnusable DEF SerialInv, LogoutIsFinal, FinalCodes
<1>2. SerialInv /\ RowInv /\ [Next]_vars => SerialInv'
  BY SerialNext
<1> QED BY <1>1, <1>2, RowInit, RowNext, SerialInit, PTL DEF Spec

(* The same for a device that was denied, provided its revocation cannot   *)
(* fail: the result of that call is ignored.                               *)
THEOREM SerialRevocationFinal ==
  ASSUME Cardinality(Reqs) = 1, ~Faults
  PROVE  Spec => []RevocationIsFinal
<1>1. SerialInv => RevocationIsFinal
  BY LoggedOutUnusable DEF SerialInv, RevocationIsFinal, FinalCodes
<1>2. SerialInv /\ RowInv /\ [Next]_vars => SerialInv'
  BY SerialNext
<1> QED BY <1>1, <1>2, RowInit, RowNext, SerialInit, PTL DEF Spec

-----------------------------------------------------------------------------
(* Sessions implements DeviceAccess.                                       *)

LEMMA NowGrows ==
  ASSUME TypeOK, [Next]_vars
  PROVE  now \in Nat /\ now' \in Nat /\ now <= now'
<1>1. now \in Nat
  BY DEF TypeOK, Times
<1>2. now' = now \/ now' = now + 1
  BY DEF Next, Arrive, Step, PairDevice, RefreshGetSession, RefreshRead,
     RevokeGetSession, AuthenticateDevice, PairCreateAccess, PairCreateRefresh,
     Respond, RefreshGetDevice, RefreshDeviceRejected, RefreshCreateAccess,
     RefreshRotate, RotateFails, RefreshAudit, RevokeSessions, RevokeAudit,
     AuthDeviceRejected, AuthDevice, DenyRevoke, DenyAudit, ProxyEnds, DBError,
     Cleanup, CleanupStart, CleanupRefresh, CleanupAccess, CleanupError,
     RevokeMobileDevice, Restart, Tick, vars
<1> QED BY <1>1, <1>2

(* A usable session was usable before, or a handler has just stored it.    *)
LEMMA UsableFrom ==
  ASSUME NEW old, NEW new, NEW D, RowsFrom(old, new, D),
         \A k \in DOMAIN old : old[k].expires_at \in Nat,
         now \in Nat, NEW later \in Nat, now <= later,
         NEW d, d \notin D, NEW k \in DOMAIN new, new[k].device_id = d,
         ~new[k].revoked, ~After(later, new[k].expires_at)
  PROVE  Usable(old, d)
<1>1. /\ k \in DOMAIN old /\ old[k].device_id = d /\ ~old[k].revoked
      /\ new[k].expires_at = old[k].expires_at
  BY DEF RowsFrom
<1>2. ~After(now, old[k].expires_at)
  BY <1>1, AfterLater
<1> QED BY <1>1, <1>2 DEF Usable

(* No step gives a device that is out its access back.                     *)
LEMMA StaysOut ==
  ASSUME RowInv, Minted, [Next]_vars, NEW d \in DOMAIN mobile_devices,
         d \in Admitted'
  PROVE  d \in Admitted
<1> DEFINE D == StoringDevices(req)
<1>t. /\ TypeOK
      /\ \A k \in DOMAIN access_sessions : access_sessions[k].expires_at \in Nat
      /\ \A k \in DOMAIN refresh_sessions : refresh_sessions[k].expires_at \in Nat
      /\ d \in Nat /\ nextPair \in Nat
  BY DEF RowInv, TokenInv, TypeInv, TypeOK, IsTable, AccessRow, RefreshRow,
     Devices, Pairs
<1>n. now \in Nat /\ now' \in Nat /\ now <= now'
  BY <1>t, NowGrows
<1>r. /\ RowsFrom(access_sessions, access_sessions', D)
      /\ RowsFrom(refresh_sessions, refresh_sessions', D)
  BY StoredFrom
<1>1. CASE d \in D
  BY <1>1 DEF StoringDevices, Storing, Holding, Admitted
<1>2. CASE d \notin D /\ Usable(access_sessions, d)'
  <2> HIDE DEF D
  <2>1. PICK k \in DOMAIN access_sessions' :
          /\ access_sessions'[k].device_id = d /\ ~access_sessions'[k].revoked
          /\ ~After(now', access_sessions'[k].expires_at)
    BY <1>2 DEF Usable
  <2>2. Usable(access_sessions, d)
    BY <1>t, <1>n, <1>r, <1>2, <2>1, UsableFrom
  <2> QED BY <2>2 DEF Admitted
<1>3. CASE d \notin D /\ Usable(refresh_sessions, d)'
  <2> HIDE DEF D
  <2>1. PICK k \in DOMAIN refresh_sessions' :
          /\ refresh_sessions'[k].device_id = d /\ ~refresh_sessions'[k].revoked
          /\ ~After(now', refresh_sessions'[k].expires_at)
    BY <1>3 DEF Usable
  <2>2. Usable(refresh_sessions, d)
    BY <1>t, <1>n, <1>r, <1>3, <2>1, UsableFrom
  <2> QED BY <2>2 DEF Admitted
<1>4. ASSUME NEW r \in Reqs, req'[r].pc \in Holding, req'[r].device = d
      PROVE  d \in Admitted
  <2>1. CASE req[r].pc \in Holding /\ req[r].device = d
    BY <2>1 DEF Admitted
  <2>2. CASE DeviceFrom(req[r], req'[r], nextPair, nextPair',
                        access_sessions, refresh_sessions)
    <3>1. d # nextPair
      BY <1>t DEF Minted
    <3>2. req'[r].pc \in Storing \/ req'[r].pc = "authDevice"
      BY <1>4 DEF Holding, Storing
    <3>3. \/ (req[r].pc \in Storing \/ req[r].pc = "authDevice") /\ req[r].device = d
          \/ Usable(access_sessions, d) \/ Usable(refresh_sessions, d)
      BY <1>4, <2>2, <3>1, <3>2 DEF DeviceFrom
    <3>4. (req[r].pc \in Storing \/ req[r].pc = "authDevice") => req[r].pc \in Holding
      BY DEF Holding, Storing
    <3> QED BY <3>3, <3>4 DEF Admitted
  <2> QED BY <1>4, <2>1, <2>2, HandlersFrom
<1>5. \/ Usable(access_sessions, d)' \/ Usable(refresh_sessions, d)'
      \/ \E r \in Reqs : req'[r].pc \in Holding /\ req'[r].device = d
  BY DEF Admitted
<1> QED BY <1>1, <1>2, <1>3, <1>4, <1>5

(* The gate alone connects a device to the Gateway.                        *)
LEMMA ConnectedFrom ==
  ASSUME TypeInv, [Next]_vars, NEW r \in Reqs, req'[r].pc = "proxying"
  PROVE  req'[r] = req[r] \/ AuthDevice(r)
<1>t. req \in [Reqs -> Local]
  BY DEF TypeInv, TypeOK
<1> SUFFICES ASSUME req'[r] # req[r] PROVE AuthDevice(r)
  OBVIOUS
<1>1. ~Restart
  <2>1. Restart => req'[r].pc = "idle"
    BY <1>t DEF Restart, Idle
  <2> QED BY <2>1
<1>2. \E q \in Reqs : Arrive(q) \/ Step(q)
  BY <1>1 DEF Next, Cleanup, CleanupStart, CleanupRefresh, CleanupAccess,
     CleanupError, RevokeMobileDevice, Tick, vars
<1>3. Arrive(r) \/ Step(r)
  BY <1>2, OthersKept
<1>4. ~Finish(r)
  BY <1>t DEF Finish, Idle
<1>5. \A pc : Goto(r, pc) => pc = "proxying"
  BY <1>t, GotoDevice
<1>6. ASSUME NEW pc, NEW s, NEW d, req' = [req EXCEPT ![r] = Found(pc, s, d)]
      PROVE  pc = "proxying"
  BY <1>t, <1>6, FoundDevice
<1>7. ~Arrive(r)
  <2>1. ASSUME NEW email \in Emails, PairDevice(r, email) PROVE FALSE
    BY <1>t, <2>1 DEF PairDevice
  <2>2. ASSUME NEW k \in Pairs, RefreshGetSession(r, k) PROVE FALSE
    BY <1>6, <2>2 DEF RefreshGetSession, RefreshRead
  <2>3. ASSUME NEW k \in Pairs, RevokeGetSession(r, k) PROVE FALSE
    BY <1>6, <2>3 DEF RevokeGetSession
  <2>4. ASSUME NEW k \in Pairs, AuthenticateDevice(r, k) PROVE FALSE
    BY <1>6, <2>4 DEF AuthenticateDevice
  <2> QED BY <2>1, <2>2, <2>3, <2>4 DEF Arrive
<1>8. ~RefreshGetDevice(r)
  BY <1>t DEF RefreshGetDevice, Local
<1> QED
  BY <1>3, <1>4, <1>5, <1>7, <1>8
     DEF Step, PairCreateAccess, PairCreateRefresh, Respond,
     RefreshDeviceRejected, RefreshCreateAccess, RefreshRotate, RotateFails,
     RefreshAudit, RevokeSessions, RevokeAudit, AuthDeviceRejected, DenyRevoke,
     DenyAudit, ProxyEnds, DBError

(* Only pairing adds a device.                                             *)
LEMMA PairedFrom ==
  ASSUME [Next]_vars
  PROVE  \/ DOMAIN mobile_devices' = DOMAIN mobile_devices
         \/ \E r \in Reqs, email \in Emails : PairDevice(r, email)
<1>1. CASE \E device \in Devices : RevokeMobileDevice(device)
  BY <1>1 DEF RevokeMobileDevice
<1>2. CASE UNCHANGED mobile_devices
  BY <1>2
<1> QED
  BY <1>1, <1>2
     DEF Next, Arrive, Step, RefreshGetSession, RefreshRead,
     RevokeGetSession, AuthenticateDevice, PairCreateAccess, PairCreateRefresh,
     Respond, RefreshGetDevice, RefreshDeviceRejected, RefreshCreateAccess,
     RefreshRotate, RotateFails, RefreshAudit, RevokeSessions, RevokeAudit,
     AuthDeviceRejected, AuthDevice, DenyRevoke, DenyAudit, ProxyEnds, DBError,
     Cleanup, CleanupStart, CleanupRefresh, CleanupAccess, CleanupError,
     Restart, Tick, vars, tableVars

(* Pairing makes another device, which is admitted at once.                *)
LEMMA PairIsPair ==
  ASSUME RowInv, Minted, NEW r \in Reqs, NEW email \in Emails,
         PairDevice(r, email), [Next]_vars
  PROVE  Access!Pair(nextPair) /\ nextPair \in Devices
<1> DEFINE n == nextPair
<1>t. req \in [Reqs -> Local] /\ TypeInv /\ n \in Nat
  BY DEF RowInv, TokenInv, TypeInv, TypeOK
<1>1. /\ req[r].pc = "idle" /\ req'[r].pc = "createAccess" /\ req'[r].device = n
      /\ UNCHANGED <<now, access_sessions, refresh_sessions>> /\ n \in Pairs
  BY <1>t DEF PairDevice
<1>2. \A q \in Reqs \ {r} : req'[q] = req[q]
  BY <1>t DEF PairDevice
<1>3. DOMAIN mobile_devices' = DOMAIN mobile_devices \cup {n}
  BY InsertRow DEF PairDevice
<1>4. n \notin DOMAIN mobile_devices
  BY <1>t DEF Minted
<1> HIDE DEF n
<1>5. ASSUME NEW d \in Admitted PROVE d \in Admitted'
  <2>1. CASE \E q \in Reqs : req[q].pc \in Holding /\ req[q].device = d
    <3>1. PICK q \in Reqs : req[q].pc \in Holding /\ req[q].device = d
      BY <2>1
    <3>2. q # r
      BY <1>1, <3>1 DEF Holding
    <3> QED BY <1>2, <1>3, <3>1, <3>2 DEF Admitted
  <2>2. CASE Usable(access_sessions, d) \/ Usable(refresh_sessions, d)
    BY <1>1, <1>3, <2>2 DEF Admitted, Usable
  <2> QED BY <2>1, <2>2 DEF Admitted
<1>6. n \in Admitted'
  BY <1>1, <1>3 DEF Admitted, Holding
<1>7. ASSUME NEW d \in Admitted' PROVE d \in Admitted \cup {n}
  <2>1. d \in DOMAIN mobile_devices \cup {n}
    BY <1>3 DEF Admitted
  <2> QED BY <1>7, <2>1, StaysOut
<1>8. Admitted' = Admitted \cup {n}
  BY <1>5, <1>6, <1>7
<1>9. Connected' = Connected
  BY <1>1, <1>2 DEF Connected
<1> QED BY <1>1, <1>3, <1>4, <1>8, <1>9 DEF Access!Pair, n, Devices

LEMMA AccessStep ==
  ASSUME RowInv, Minted, [Next]_vars
  PROVE  [Access!Next]_(Access!vars)
<1>t. /\ TypeInv /\ req \in [Reqs -> Local]
      /\ DOMAIN mobile_devices \subseteq Devices
  BY DEF RowInv, TokenInv, TypeInv, TypeOK, IsTable
<1>1. CASE \E r \in Reqs, email \in Emails : PairDevice(r, email)
  BY <1>1, PairIsPair DEF Access!Next
<1>2. CASE DOMAIN mobile_devices' = DOMAIN mobile_devices
  <2>1. Admitted' \in SUBSET Admitted
    <3>1. ASSUME NEW d \in Admitted' PROVE d \in Admitted
      <4>1. d \in DOMAIN mobile_devices
        BY <1>2 DEF Admitted
      <4> QED BY <3>1, <4>1, StaysOut
    <3> QED BY <3>1
  <2>2. CASE \E r \in Reqs : AuthDevice(r) /\ req'[r].pc = "proxying"
    <3>1. PICK r \in Reqs : AuthDevice(r) /\ req'[r].pc = "proxying"
      BY <2>2
    <3> DEFINE d == req[r].device
    <3>2. /\ req[r].pc = "authDevice" /\ d \in DOMAIN mobile_devices
          /\ req'[r].device = d
      BY <3>1, <1>t, GotoDevice DEF AuthDevice, DeviceActive
    <3>3. \A q \in Reqs \ {r} : req'[q] = req[q]
      BY <3>1, <1>t, OthersKept DEF Step
    <3>4. d \in Admitted
      BY <3>2 DEF Admitted, Holding
    <3> HIDE DEF d
    <3>5. Connected' = Connected \cup {d}
      <4>1. \A q \in Reqs \ {r} : /\ req'[q].pc = req[q].pc
                                    /\ req'[q].device = req[q].device
        BY <3>3
      <4>2. req[r].pc # "proxying" /\ req'[r].pc = "proxying"
        BY <3>1, <3>2
      <4> QED BY <3>2, <4>1, <4>2 DEF Connected
    <3>6. Access!Connect(d) /\ d \in Devices
      BY <1>2, <1>t, <2>1, <3>2, <3>4, <3>5 DEF Access!Connect
    <3> QED BY <3>6 DEF Access!Next
  <2>3. CASE \A r \in Reqs : ~(AuthDevice(r) /\ req'[r].pc = "proxying")
    <3>1. \A r \in Reqs : req'[r].pc = "proxying" => req'[r] = req[r]
      BY <2>3, <1>t, ConnectedFrom
    <3>2. Connected' \in SUBSET Connected
      BY <3>1 DEF Connected
    <3>3. Access!Leave
      BY <1>2, <2>1, <3>2 DEF Access!Leave
    <3> QED BY <3>3 DEF Access!Next
  <2> QED BY <2>2, <2>3
<1> QED BY <1>1, <1>2, PairedFrom

LEMMA AccessInit == Init => Access!Init
<1> SUFFICES ASSUME Init PROVE Access!Init
  OBVIOUS
<1>1. DOMAIN mobile_devices = {}
  BY EmptyTableIsTable DEF Init
<1>2. \A r \in Reqs : req[r].pc = "idle"
  BY DEF Init, Idle
<1> QED BY <1>1, <1>2 DEF Access!Init, Admitted, Connected

(* The session endpoints and the gate keep what DeviceAccess promises,     *)
(* with any number of requests, cleanups, failing calls and restarts: a    *)
(* device that is out stays out, and only a device that was in reaches the *)
(* Gateway.                                                                *)
THEOREM SessionsImplementDeviceAccess == Spec => ImplementsDeviceAccess
<1>1. GateInv => Minted
  BY DEF GateInv
<1>2. RowInv /\ Minted /\ [Next]_vars => [Access!Next]_(Access!vars)
  BY AccessStep
<1> QED
  BY <1>1, <1>2, AccessInit, RowInit, RowNext, GateInit, GateNext, PTL
     DEF Spec, ImplementsDeviceAccess, Access!Spec
=============================================================================
