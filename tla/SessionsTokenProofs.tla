------------------------ MODULE SessionsTokenProofs ------------------------
(***************************************************************************)
(* Which tokens a handler can get past its token lookup with, for every    *)
(* number of requests, restarts and values of SERVER_SECRET.               *)
(***************************************************************************)
EXTENDS SessionsProofs

(* Every pair in use was generated before.                                 *)
Generated ==
  /\ \A k \in DOMAIN access_sessions : k < nextPair
  /\ \A k \in DOMAIN refresh_sessions : k < nextPair
  /\ \A k \in DOMAIN delivered : k < nextPair
  /\ \A r \in Reqs : req[r].new < nextPair

(* The pair a handler has generated is its own until the response.         *)
Owned ==
  \A r \in Reqs :
    req[r].new # 0 =>
      /\ req[r].new \notin DOMAIN delivered
      /\ \A q \in Reqs \ {r} : req[q].new # req[r].new

(* A row stores the hash of its own token, made under the secret that was  *)
(* in force when the token was handed out, or is while it still is going   *)
(* to be.                                                                  *)
Keyed(table) ==
  /\ \A k \in DOMAIN table : table[k].token_hash = <<table[k].token_hash[1], k>>
  /\ \A k \in DOMAIN table \cap DOMAIN delivered :
       table[k].token_hash[1] = delivered[k].secret
  /\ \A r \in Reqs :
       req[r].new \in DOMAIN table =>
         table[req[r].new].token_hash[1] = serverSecret

(* What a handler found was handed out under the running secret.           *)
Presented ==
  \A r \in Reqs :
    req[r].session # 0 =>
      /\ req[r].session \in DOMAIN delivered
      /\ delivered[req[r].session].secret = serverSecret

TokenInv ==
  /\ TypeInv
  /\ Generated
  /\ Owned
  /\ Keyed(access_sessions)
  /\ Keyed(refresh_sessions)
  /\ Presented

-----------------------------------------------------------------------------
(* The rows of a table after a step: the hash is as it was, or the row is  *)
(* the one a handler stores for the pair it has generated.                 *)
RowsKept(old, new) ==
  \A k \in DOMAIN new :
    \/ k \in DOMAIN old /\ new[k].token_hash = old[k].token_hash
    \/ /\ new[k].token_hash = HashSecret(k)
       /\ k \in Pairs
       /\ \E r \in Reqs : k = req[r].new

(* No handler takes a new pair or a new session.                           *)
NothingTaken ==
  \A r \in Reqs : /\ req'[r].new \in {req[r].new, 0}
                  /\ req'[r].session \in {req[r].session, 0}

LEMMA RowsUnchanged ==
  ASSUME NEW table
  PROVE  RowsKept(table, table)
BY DEF RowsKept

LEMMA DeleteKept ==
  ASSUME NEW table, NEW S
  PROVE  RowsKept(table, Delete(table, S))
BY DEF RowsKept, Delete

LEMMA RevokedKept ==
  ASSUME TypeInv, NEW device
  PROVE  /\ RowsKept(access_sessions, Revoked(access_sessions, device))
         /\ RowsKept(refresh_sessions, Revoked(refresh_sessions, device))
<1>1. /\ IsTable(access_sessions, Pairs, AccessRow)
      /\ IsTable(refresh_sessions, Pairs, RefreshRow)
  BY DEF TypeInv, TypeOK
<1>2. \A k \in DOMAIN access_sessions :
        Revoked(access_sessions, device)[k].token_hash =
          access_sessions[k].token_hash
  BY <1>1 DEF Revoked, IsTable, AccessRow
<1>3. \A k \in DOMAIN refresh_sessions :
        Revoked(refresh_sessions, device)[k].token_hash =
          refresh_sessions[k].token_hash
  BY <1>1 DEF Revoked, IsTable, RefreshRow
<1> QED BY <1>2, <1>3, RevokedRows DEF RowsKept

(* A row stored for the pair of handler r.                                 *)
LEMMA InsertKept ==
  ASSUME NEW table, NEW r \in Reqs, req[r].new \in Pairs, NEW row,
         row.token_hash = HashSecret(req[r].new)
  PROVE  RowsKept(table, Insert(table, req[r].new, row))
<1> DEFINE k == req[r].new
<1>1. /\ DOMAIN Insert(table, k, row) = DOMAIN table \cup {k}
      /\ Insert(table, k, row)[k] = row
      /\ \A j \in DOMAIN table : j # k => Insert(table, k, row)[j] = table[j]
  BY DEF Insert
<1> QED BY <1>1 DEF RowsKept

-----------------------------------------------------------------------------
(* A step that generates, delivers and looks up nothing keeps the          *)
(* invariant; only a restart, which ends every handler, changes the secret.*)
LEMMA QuietStep ==
  ASSUME TokenInv, TypeInv', UNCHANGED <<nextPair, delivered>>, NothingTaken,
         RowsKept(access_sessions, access_sessions'),
         RowsKept(refresh_sessions, refresh_sessions'),
         \/ UNCHANGED serverSecret
         \/ \A r \in Reqs : req'[r].new = 0 /\ req'[r].session = 0
  PROVE  TokenInv'
<1>t. /\ Generated /\ Owned /\ Presented
      /\ Keyed(access_sessions) /\ Keyed(refresh_sessions)
      /\ nextPair \in Nat \ {0}
      /\ DOMAIN access_sessions' \subseteq Pairs
      /\ DOMAIN refresh_sessions' \subseteq Pairs
  BY DEF TokenInv, TypeInv, TypeOK, IsTable
<1>1. Generated'
  <2>1. \A r \in Reqs : req'[r].new < nextPair'
    BY <1>t DEF NothingTaken, Generated
  <2>2. \A k \in DOMAIN access_sessions' : k < nextPair'
    BY <1>t DEF RowsKept, Generated
  <2>3. \A k \in DOMAIN refresh_sessions' : k < nextPair'
    BY <1>t DEF RowsKept, Generated
  <2>4. \A k \in DOMAIN delivered' : k < nextPair'
    BY <1>t DEF Generated
  <2> QED BY <2>1, <2>2, <2>3, <2>4 DEF Generated
<1>2. Owned'
  BY <1>t DEF NothingTaken, Owned
<1>3. ASSUME NEW table, NEW new, RowsKept(table, new), Keyed(table),
             DOMAIN new \subseteq Pairs
      PROVE  /\ \A k \in DOMAIN new :
                  new[k].token_hash = <<new[k].token_hash[1], k>>
             /\ \A k \in DOMAIN new \cap DOMAIN delivered :
                  new[k].token_hash[1] = delivered[k].secret
             /\ \A r \in Reqs :
                  req'[r].new \in DOMAIN new =>
                    new[req'[r].new].token_hash[1] = serverSecret'
  <2>1. \A k \in DOMAIN new : new[k].token_hash = <<new[k].token_hash[1], k>>
    BY <1>3 DEF RowsKept, Keyed, HashSecret
  <2>2. ASSUME NEW k \in DOMAIN new \cap DOMAIN delivered
        PROVE  new[k].token_hash[1] = delivered[k].secret
    <3>1. k \in DOMAIN table /\ new[k].token_hash = table[k].token_hash
      BY <1>3, <1>t DEF RowsKept, Owned, Pairs
    <3> QED BY <3>1, <1>3 DEF Keyed
  <2>3. ASSUME NEW r \in Reqs, req'[r].new \in DOMAIN new
        PROVE  new[req'[r].new].token_hash[1] = serverSecret'
    <3> DEFINE k == req'[r].new
    <3>1. k # 0 /\ k = req[r].new /\ UNCHANGED serverSecret
      BY <1>3, <2>3 DEF NothingTaken, Pairs
    <3>2. CASE k \in DOMAIN table /\ new[k].token_hash = table[k].token_hash
      BY <1>3, <3>1, <3>2 DEF Keyed
    <3>3. CASE new[k].token_hash = HashSecret(k)
      BY <3>1, <3>3 DEF HashSecret
    <3> QED BY <1>3, <2>3, <3>2, <3>3 DEF RowsKept
  <2> QED BY <2>1, <2>2, <2>3
<1>4. Keyed(access_sessions)'
  BY <1>3, <1>t DEF Keyed
<1>5. Keyed(refresh_sessions)'
  BY <1>3, <1>t DEF Keyed
<1>6. Presented'
  BY <1>t DEF NothingTaken, Presented
<1> QED BY <1>1, <1>2, <1>4, <1>5, <1>6 DEF TokenInv

LEMMA NothingTakenBy ==
  ASSUME TypeInv, NEW r \in Reqs, NEW pc, Goto(r, pc) \/ Finish(r)
  PROVE  NothingTaken
<1>t. req \in [Reqs -> Local]
  BY DEF TypeInv, TypeOK
<1>1. CASE Goto(r, pc)
  BY <1>1, <1>t DEF Goto, NothingTaken, Local
<1>2. CASE Finish(r)
  BY <1>2, <1>t DEF Finish, NothingTaken, Idle
<1> QED BY <1>1, <1>2

(* GenerateTokenPair: a pair nobody has seen.                              *)
LEMMA GenerateStep ==
  ASSUME TokenInv, TypeInv', NEW r \in Reqs, NEW l,
         req' = [req EXCEPT ![r] = l],
         l.new = nextPair, l.session \in {req[r].session, 0},
         nextPair' = nextPair + 1,
         UNCHANGED <<access_sessions, refresh_sessions, delivered, serverSecret>>
  PROVE  TokenInv'
<1>t. /\ Generated /\ Owned /\ Presented
      /\ Keyed(access_sessions) /\ Keyed(refresh_sessions)
      /\ nextPair \in Nat \ {0}
      /\ DOMAIN access_sessions \subseteq Pairs
      /\ DOMAIN refresh_sessions \subseteq Pairs
      /\ DOMAIN delivered \subseteq Pairs
      /\ req \in [Reqs -> Local]
  BY DEF TokenInv, TypeInv, TypeOK, IsTable
<1>1. req'[r] = l /\ \A q \in Reqs \ {r} : req'[q] = req[q]
  BY <1>t
<1>2. \A q \in Reqs : req[q].new \in Nat
  BY <1>t DEF Local
<1>3. Generated'
  <2>1. \A q \in Reqs : req'[q].new < nextPair'
    BY <1>t, <1>1, <1>2 DEF Generated
  <2>2. \A k \in Pairs : k < nextPair => k < nextPair'
    BY <1>t DEF Pairs
  <2> QED BY <1>t, <2>1, <2>2 DEF Generated
<1>4. nextPair \notin DOMAIN access_sessions \cup DOMAIN refresh_sessions
                      \cup DOMAIN delivered
  BY <1>t DEF Generated
<1>5. \A q \in Reqs : req[q].new # nextPair
  BY <1>t, <1>2 DEF Generated
<1>6. Owned'
  BY <1>t, <1>1, <1>4, <1>5 DEF Owned
<1>7. Keyed(access_sessions)'
  BY <1>t, <1>1, <1>4 DEF Keyed
<1>8. Keyed(refresh_sessions)'
  BY <1>t, <1>1, <1>4 DEF Keyed
<1>9. Presented'
  BY <1>t, <1>1 DEF Presented
<1> QED BY <1>3, <1>6, <1>7, <1>8, <1>9 DEF TokenInv

(* The token lookup: the hash of a token that was handed out, made under   *)
(* the running secret, is only found in that token's own row.              *)
LEMMA FoundStep ==
  ASSUME TokenInv, TypeInv', NEW r \in Reqs, NEW pc, NEW s, NEW d,
         NEW table, Keyed(table), s \in DOMAIN table,
         NEW k \in DOMAIN delivered, table[s].token_hash = HashSecret(k),
         req' = [req EXCEPT ![r] = Found(pc, s, d)],
         UNCHANGED <<access_sessions, refresh_sessions, delivered,
                     serverSecret, nextPair>>
  PROVE  TokenInv'
<1>t. /\ Generated /\ Owned /\ Presented
      /\ Keyed(access_sessions) /\ Keyed(refresh_sessions)
      /\ nextPair \in Nat \ {0}
      /\ DOMAIN access_sessions \subseteq Pairs
      /\ DOMAIN refresh_sessions \subseteq Pairs
      /\ req \in [Reqs -> Local]
  BY DEF TokenInv, TypeInv, TypeOK, IsTable
<1>1. /\ req'[r].new = 0 /\ req'[r].session = s
      /\ \A q \in Reqs \ {r} : req'[q] = req[q]
  BY <1>t DEF Found
<1>2. s = k /\ delivered[s].secret = serverSecret
  BY DEF Keyed, HashSecret
<1>3. Generated'
  BY <1>t, <1>1 DEF Generated
<1>4. Owned'
  BY <1>t, <1>1 DEF Owned
<1>5. Keyed(access_sessions)'
  BY <1>t, <1>1 DEF Keyed, Pairs
<1>6. Keyed(refresh_sessions)'
  BY <1>t, <1>1 DEF Keyed, Pairs
<1>7. Presented'
  BY <1>t, <1>1, <1>2 DEF Presented
<1> QED BY <1>3, <1>4, <1>5, <1>6, <1>7 DEF TokenInv

(* The response: what was stored under the running secret is now known to  *)
(* the client.                                                             *)
LEMMA RespondStep ==
  ASSUME TokenInv, TypeInv', NEW r \in Reqs, Respond(r)
  PROVE  TokenInv'
<1>t. /\ TypeInv /\ Generated /\ Owned /\ Presented
      /\ Keyed(access_sessions) /\ Keyed(refresh_sessions)
      /\ nextPair \in Nat \ {0}
      /\ DOMAIN access_sessions \subseteq Pairs
      /\ DOMAIN refresh_sessions \subseteq Pairs
      /\ req \in [Reqs -> Local]
  BY DEF TokenInv, TypeInv, TypeOK, IsTable
<1> DEFINE k == req[r].new
<1>0. k \in Pairs /\ k # 0
  BY <1>t DEF Respond, TypeInv, LocalOK, HasNew, Pairs
<1>1. UNCHANGED <<access_sessions, refresh_sessions, serverSecret, nextPair>>
  BY DEF Respond, tableVars, configVars
<1>2. /\ req'[r].new = 0 /\ req'[r].session = 0
      /\ \A q \in Reqs \ {r} : req'[q] = req[q]
  BY <1>t DEF Respond, Finish, Idle
<1>3. CASE UNCHANGED delivered
  <2>1. NothingTaken
    BY <1>t, NothingTakenBy DEF Respond
  <2> QED BY <1>1, <1>3, <2>1, RowsUnchanged, QuietStep
<1>4. ASSUME NEW told, delivered' = Insert(delivered, k, told),
             told.secret = serverSecret
      PROVE  TokenInv'
  <2>1. /\ DOMAIN delivered' = DOMAIN delivered \cup {k}
        /\ delivered'[k] = told
        /\ \A j \in DOMAIN delivered : j # k => delivered'[j] = delivered[j]
    BY <1>4 DEF Insert
  <2>2. k \notin DOMAIN delivered
    BY <1>t, <1>0 DEF Owned
  <2> HIDE DEF k
  <2>3. k < nextPair /\ \A q \in Reqs \ {r} : req[q].new # k
    BY <1>t, <1>0 DEF Generated, Owned, k
  <2>4. Generated'
    BY <1>t, <1>1, <1>2, <2>1, <2>3 DEF Generated
  <2>5. Owned'
    BY <1>t, <1>2, <2>1, <2>3 DEF Owned
  <2>6. ASSUME NEW table, Keyed(table), DOMAIN table \subseteq Pairs
        PROVE  /\ \A j \in DOMAIN table \cap DOMAIN delivered' :
                    table[j].token_hash[1] = delivered'[j].secret
               /\ \A q \in Reqs :
                    req'[q].new \in DOMAIN table =>
                      table[req'[q].new].token_hash[1] = serverSecret'
    <3>1. k \in DOMAIN table => table[k].token_hash[1] = serverSecret
      BY <2>6 DEF Keyed, k
    <3>2. \A j \in DOMAIN table \cap DOMAIN delivered' :
            table[j].token_hash[1] = delivered'[j].secret
      BY <2>6, <2>1, <2>2, <3>1, <1>4 DEF Keyed
    <3>3. \A q \in Reqs :
            req'[q].new \in DOMAIN table =>
              table[req'[q].new].token_hash[1] = serverSecret'
      BY <2>6, <1>1, <1>2 DEF Keyed, Pairs
    <3> QED BY <3>2, <3>3
  <2>7. Keyed(access_sessions)'
    BY <1>t, <1>1, <2>6 DEF Keyed
  <2>8. Keyed(refresh_sessions)'
    BY <1>t, <1>1, <2>6 DEF Keyed
  <2>9. Presented'
    BY <1>t, <1>1, <1>2, <2>1, <2>2 DEF Presented
  <2> QED BY <2>4, <2>5, <2>7, <2>8, <2>9 DEF TokenInv
<1> QED BY <1>3, <1>4 DEF Respond

-----------------------------------------------------------------------------
LEMMA TokenInit == Init => TokenInv
<1> SUFFICES ASSUME Init PROVE TokenInv
  OBVIOUS
<1>1. TypeInv
  BY TypeInit
<1>2. \A r \in Reqs : req[r].new = 0 /\ req[r].session = 0
  BY DEF Init, Idle
<1>3. /\ DOMAIN access_sessions = {} /\ DOMAIN refresh_sessions = {}
      /\ DOMAIN delivered = {} /\ nextPair = 1
  BY EmptyTableIsTable DEF Init
<1> QED BY <1>1, <1>2, <1>3
        DEF TokenInv, Generated, Owned, Keyed, Presented

(* The calls of the handlers between generating a pair and responding.     *)
LEMMA CallStep ==
  ASSUME TokenInv, TypeInv', NEW r \in Reqs,
         \/ PairCreateAccess(r) \/ PairCreateRefresh(r)
         \/ RefreshCreateAccess(r) \/ RefreshRotate(r)
  PROVE  TokenInv'
<1>t. TypeInv /\ req[r].new \in Pairs
  BY DEF TokenInv, TypeInv, LocalOK, HasNew, PairCreateAccess,
     PairCreateRefresh, RefreshCreateAccess, RefreshRotate
<1>1. NothingTaken
  BY <1>t, NothingTakenBy
     DEF PairCreateAccess, PairCreateRefresh, RefreshCreateAccess, RefreshRotate
<1>2. UNCHANGED <<nextPair, delivered, serverSecret>>
  BY DEF PairCreateAccess, PairCreateRefresh, RefreshCreateAccess,
     RefreshRotate, configVars
<1>3. CASE PairCreateAccess(r) \/ RefreshCreateAccess(r)
  <2>1. UNCHANGED refresh_sessions
    BY <1>3 DEF PairCreateAccess, RefreshCreateAccess
  <2>2. PICK row : /\ row.token_hash = HashSecret(req[r].new)
                   /\ access_sessions' =
                        Insert(access_sessions, req[r].new, row)
    BY <1>3 DEF PairCreateAccess, RefreshCreateAccess, CreateAccessSession
  <2>3. RowsKept(access_sessions, access_sessions')
    BY <1>t, <2>2, InsertKept
  <2> QED BY <1>1, <1>2, <2>1, <2>3, RowsUnchanged, QuietStep
<1>4. CASE PairCreateRefresh(r)
  <2>1. UNCHANGED access_sessions
    BY <1>4 DEF PairCreateRefresh
  <2>2. PICK row : /\ row.token_hash = HashSecret(req[r].new)
                   /\ refresh_sessions' =
                        Insert(refresh_sessions, req[r].new, row)
    BY <1>4 DEF PairCreateRefresh, CreateRefreshSession
  <2>3. RowsKept(refresh_sessions, refresh_sessions')
    BY <1>t, <2>2, InsertKept
  <2> QED BY <1>1, <1>2, <2>1, <2>3, RowsUnchanged, QuietStep
<1>5. CASE RefreshRotate(r)
  <2>1. UNCHANGED access_sessions
    BY <1>5 DEF RefreshRotate
  <2> DEFINE marked == [refresh_sessions EXCEPT ![req[r].session].rotated = TRUE]
  <2>2. PICK row : /\ row.token_hash = HashSecret(req[r].new)
                   /\ refresh_sessions' = Insert(marked, req[r].new, row)
    BY <1>5 DEF RefreshRotate, RotateRefreshSession, RotatedInto
  <2>3. /\ DOMAIN marked = DOMAIN refresh_sessions
        /\ \A k \in DOMAIN refresh_sessions :
             marked[k].token_hash = refresh_sessions[k].token_hash
    BY <1>t DEF TypeInv, TypeOK, IsTable, RefreshRow
  <2> HIDE DEF marked
  <2>4. RowsKept(marked, refresh_sessions')
    BY <1>t, <2>2, InsertKept
  <2>5. RowsKept(refresh_sessions, refresh_sessions')
    BY <2>3, <2>4 DEF RowsKept
  <2> QED BY <1>1, <1>2, <2>1, <2>5, RowsUnchanged, QuietStep
<1> QED BY <1>3, <1>4, <1>5

LEMMA TokenNext == TokenInv /\ [Next]_vars => TokenInv'
<1> SUFFICES ASSUME TokenInv, [Next]_vars PROVE TokenInv'
  OBVIOUS
<1>t. /\ TypeInv /\ TypeInv' /\ req \in [Reqs -> Local]
      /\ Keyed(access_sessions) /\ Keyed(refresh_sessions)
  BY TypeNext DEF TokenInv, TypeInv, TypeOK
<1>1. ASSUME NEW r \in Reqs, NEW email \in Emails, PairDevice(r, email)
      PROVE  TokenInv'
  <2> DEFINE l == [pc |-> "createAccess", session |-> 0, device |-> nextPair,
                   new |-> nextPair, at |-> now, barred |-> FALSE]
  <2>1. req' = [req EXCEPT ![r] = l] /\ l.new = nextPair /\ l.session = 0
    BY <1>1 DEF PairDevice
  <2> HIDE DEF l
  <2> QED BY <1>1, <1>t, <2>1, GenerateStep DEF PairDevice, configVars
<1>2. ASSUME NEW r \in Reqs, RefreshGetDevice(r)
      PROVE  TokenInv'
  <2> DEFINE l == [req[r] EXCEPT !.pc = "createNewAccess", !.new = nextPair,
                                 !.at = now]
  <2>1. /\ req' = [req EXCEPT ![r] = l]
        /\ l.new = nextPair /\ l.session = req[r].session
    BY <1>2, <1>t DEF RefreshGetDevice, Local
  <2> HIDE DEF l
  <2> QED BY <1>2, <1>t, <2>1, GenerateStep
          DEF RefreshGetDevice, configVars, tableVars
<1>3. ASSUME NEW r \in Reqs, NEW k \in Pairs, RefreshGetSession(r, k)
      PROVE  TokenInv'
  <2>1. PICK s \in DOMAIN refresh_sessions :
          /\ refresh_sessions[s].token_hash = HashSecret(k)
          /\ req' = [req EXCEPT ![r] =
                       Found("getDevice", s, refresh_sessions[s].device_id)]
    BY <1>3 DEF RefreshGetSession, RefreshRead, GetRefreshSession
  <2>2. /\ k \in DOMAIN delivered
        /\ UNCHANGED <<access_sessions, refresh_sessions, delivered,
                       serverSecret, nextPair>>
    BY <1>3 DEF RefreshGetSession, RefreshRead, tableVars, configVars
  <2> QED BY <1>t, <2>1, <2>2, FoundStep
<1>4. ASSUME NEW r \in Reqs, NEW k \in Pairs,
             RevokeGetSession(r, k) \/ AuthenticateDevice(r, k)
      PROVE  TokenInv'
  <2>1. PICK s \in DOMAIN access_sessions, pc \in {"revokeAll", "authDevice"} :
          /\ access_sessions[s].token_hash = HashSecret(k)
          /\ req' = [req EXCEPT ![r] =
                       Found(pc, s, access_sessions[s].device_id)]
    BY <1>4 DEF RevokeGetSession, AuthenticateDevice, GetAccessSession
  <2>2. /\ k \in DOMAIN delivered
        /\ UNCHANGED <<access_sessions, refresh_sessions, delivered,
                       serverSecret, nextPair>>
    BY <1>4 DEF RevokeGetSession, AuthenticateDevice, tableVars, configVars
  <2> QED BY <1>t, <2>1, <2>2, FoundStep
<1>5. ASSUME NEW r \in Reqs,
             \/ RefreshDeviceRejected(r) \/ RotateFails(r) \/ RefreshAudit(r)
             \/ RevokeAudit(r) \/ AuthDeviceRejected(r) \/ AuthDevice(r)
             \/ DenyAudit(r) \/ ProxyEnds(r) \/ DBError(r)
      PROVE  TokenInv'
  <2>1. PICK pc : Goto(r, pc) \/ Finish(r)
    BY <1>5 DEF RefreshDeviceRejected, RotateFails, RefreshAudit, RevokeAudit,
       AuthDeviceRejected, AuthDevice, DenyAudit, ProxyEnds, DBError
  <2>2. UNCHANGED <<access_sessions, refresh_sessions, nextPair, delivered,
                    serverSecret>>
    BY <1>5 DEF RefreshDeviceRejected, RotateFails, RefreshAudit, RevokeAudit,
       AuthDeviceRejected, AuthDevice, DenyAudit, ProxyEnds, DBError,
       tableVars, configVars
  <2>3. NothingTaken
    BY <1>t, <2>1, NothingTakenBy
  <2> QED BY <1>t, <2>2, <2>3, RowsUnchanged, QuietStep
<1>6. ASSUME NEW r \in Reqs, RevokeSessions(r) \/ DenyRevoke(r)
      PROVE  TokenInv'
  <2>1. NothingTaken
    BY <1>6, <1>t, NothingTakenBy DEF RevokeSessions, DenyRevoke
  <2>2. /\ RowsKept(access_sessions, access_sessions')
        /\ RowsKept(refresh_sessions, refresh_sessions')
    BY <1>6, <1>t, RevokedKept
       DEF RevokeSessions, DenyRevoke, RevokeAllSessionsForDevice
  <2>3. UNCHANGED <<nextPair, delivered, serverSecret>>
    BY <1>6 DEF RevokeSessions, DenyRevoke, configVars
  <2> QED BY <1>t, <2>1, <2>2, <2>3, QuietStep
<1>7. ASSUME NEW device \in Devices, RevokeMobileDevice(device)
      PROVE  TokenInv'
  <2>1. NothingTaken
    BY <1>7 DEF RevokeMobileDevice, NothingTaken
  <2>2. /\ RowsKept(access_sessions, access_sessions')
        /\ RowsKept(refresh_sessions, refresh_sessions')
    BY <1>7, <1>t, RevokedKept DEF RevokeMobileDevice, RevokeAllSessionsForDevice
  <2>3. UNCHANGED <<nextPair, delivered, serverSecret>>
    BY <1>7 DEF RevokeMobileDevice, configVars
  <2> QED BY <1>t, <2>1, <2>2, <2>3, QuietStep
<1>8. CASE \/ \E c \in Cleaners : Cleanup(c) \/ CleanupError(c)
           \/ Tick \/ UNCHANGED vars
  <2>1. UNCHANGED <<req, nextPair, delivered, serverSecret>>
    BY <1>8 DEF Cleanup, CleanupStart, CleanupRefresh, CleanupAccess,
       CleanupError, Tick, vars, configVars
  <2>2. /\ RowsKept(access_sessions, access_sessions')
        /\ RowsKept(refresh_sessions, refresh_sessions')
    BY <1>8, RowsUnchanged, DeleteKept
       DEF Cleanup, CleanupStart, CleanupRefresh, CleanupAccess, CleanupError,
           Tick, vars, tableVars
  <2>3. NothingTaken
    BY <2>1 DEF NothingTaken
  <2> QED BY <1>t, <2>1, <2>2, <2>3, QuietStep
<1>9. CASE Restart
  <2>1. \A r \in Reqs : req'[r].new = 0 /\ req'[r].session = 0
    BY <1>9 DEF Restart, Idle
  <2>2. /\ RowsKept(access_sessions, access_sessions')
        /\ RowsKept(refresh_sessions, refresh_sessions')
    BY <1>9, RowsUnchanged, DeleteKept DEF Restart
  <2>3. NothingTaken
    BY <2>1 DEF NothingTaken
  <2>4. UNCHANGED <<nextPair, delivered>>
    BY <1>9 DEF Restart
  <2> QED BY <1>t, <2>1, <2>2, <2>3, <2>4, QuietStep
<1> QED BY <1>1, <1>2, <1>3, <1>4, <1>5, <1>6, <1>7, <1>8, <1>9, <1>t,
           CallStep, RespondStep DEF Next, Arrive, Step

(* Changing SERVER_SECRET locks out every token that was handed out under  *)
(* another one, at whichever call of whichever handler the process is      *)
(* restarted.                                                              *)
THEOREM TokensOfRunningSecret == Spec => []SecretRotationLocksOut
<1>1. TokenInv => SecretRotationLocksOut
  BY DEF TokenInv, Presented, SecretRotationLocksOut
<1> QED BY <1>1, TokenInit, TokenNext, PTL DEF Spec
=============================================================================
