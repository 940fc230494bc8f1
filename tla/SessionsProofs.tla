--------------------------- MODULE SessionsProofs ---------------------------
(***************************************************************************)
(* Theorems about Sessions, for every number of requests, emails, secrets, *)
(* tokens and every lifetime.                                              *)
(***************************************************************************)
EXTENDS Sessions, RowTheorems

USE SessionsAssumption

(* Which local variables a handler has set, by where it is.                *)
HasSession == {"getDevice", "createNewAccess", "rotate", "auditRefresh",
               "respondRefresh", "revokeAll", "auditRevoke", "authDevice",
               "denyRevoke", "denyAudit", "proxying"}
HasNew     == {"createAccess", "createRefresh", "respondPair",
               "createNewAccess", "rotate", "auditRefresh", "respondRefresh"}

LocalOK(l) ==
  /\ l.pc = "idle" => l = Idle
  /\ l.pc # "idle" => l.device \in Pairs
  /\ IF l.pc \in HasSession THEN l.session \in Pairs ELSE l.session = 0
  /\ IF l.pc \in HasNew THEN l.new \in Pairs ELSE l.new = 0

TypeInv == TypeOK /\ \A r \in Reqs : LocalOK(req[r])

-----------------------------------------------------------------------------
(* Unix of an instant is a column value.                                   *)
LEMMA UnixIsNat ==
  ASSUME NEW t \in Nat
  PROVE  Unix(t) \in Nat
BY DivIsNat DEF Unix

(* Revoking rows keeps keys and every other column.                        *)
LEMMA RevokedRows ==
  ASSUME NEW table, NEW device
  PROVE  /\ DOMAIN Revoked(table, device) = DOMAIN table
         /\ \A k \in DOMAIN table :
              Revoked(table, device)[k] =
                IF table[k].device_id = device
                  THEN [table[k] EXCEPT !.revoked = TRUE] ELSE table[k]
BY DEF Revoked

LEMMA RevokedAccess ==
  ASSUME NEW table, IsTable(table, Pairs, AccessRow), NEW device
  PROVE  IsTable(Revoked(table, device), Pairs, AccessRow)
BY DEF Revoked, IsTable, AccessRow

LEMMA RevokedRefresh ==
  ASSUME NEW table, IsTable(table, Pairs, RefreshRow), NEW device
  PROVE  IsTable(Revoked(table, device), Pairs, RefreshRow)
BY DEF Revoked, IsTable, RefreshRow

LEMMA RevokeAllTypes ==
  ASSUME TypeOK, NEW device, RevokeAllSessionsForDevice(device)
  PROVE  /\ IsTable(access_sessions', Pairs, AccessRow)
         /\ IsTable(refresh_sessions', Pairs, RefreshRow)
BY RevokedAccess, RevokedRefresh DEF TypeOK, RevokeAllSessionsForDevice

(* The rows the handlers insert are rows of their tables.                  *)
LEMMA CreateAccessTypes ==
  ASSUME TypeOK, NEW k \in Pairs, NEW device \in Devices, NEW at \in Times,
         CreateAccessSession(k, device, at)
  PROVE  IsTable(access_sessions', Pairs, AccessRow)
<1> DEFINE row == [device_id |-> device, token_hash |-> HashSecret(k),
                   expires_at |-> Unix(at + AccessTTL), revoked |-> FALSE]
<1>1. Unix(at + AccessTTL) \in Nat
  BY UnixIsNat DEF Times
<1>2. row \in AccessRow
  BY <1>1 DEF AccessRow, HashSecret, Hashes, TypeOK
<1> HIDE DEF row
<1>3. access_sessions' = Insert(access_sessions, k, row)
  BY DEF CreateAccessSession, row
<1> QED BY <1>2, <1>3, InsertIsTable DEF TypeOK

LEMMA CreateRefreshTypes ==
  ASSUME TypeOK, NEW k \in Pairs, NEW device \in Devices, NEW at \in Times,
         CreateRefreshSession(k, device, at)
  PROVE  IsTable(refresh_sessions', Pairs, RefreshRow)
<1> DEFINE row == [device_id |-> device, token_hash |-> HashSecret(k),
                   parent_token_hash |-> NoHash,
                   expires_at |-> Unix(at + RefreshTTL),
                   revoked |-> FALSE, rotated |-> FALSE]
<1>1. Unix(at + RefreshTTL) \in Nat
  BY UnixIsNat DEF Times
<1>2. row \in RefreshRow
  BY <1>1 DEF RefreshRow, HashSecret, Hashes, TypeOK
<1> HIDE DEF row
<1>3. refresh_sessions' = Insert(refresh_sessions, k, row)
  BY DEF CreateRefreshSession, row
<1> QED BY <1>2, <1>3, InsertIsTable DEF TypeOK

LEMMA RotateTypes ==
  ASSUME TypeOK, NEW old \in Pairs, NEW k \in Pairs, NEW at \in Times,
         RotateRefreshSession(old, k, at)
  PROVE  IsTable(refresh_sessions', Pairs, RefreshRow)
<1>1. PICK parent \in GetRefreshSession(HashSecret(old)) :
        refresh_sessions' =
          Insert([refresh_sessions EXCEPT ![old].rotated = TRUE],
                 k, RotatedInto(old, parent, k, at))
  BY DEF RotateRefreshSession
<1>2. Unix(at + RefreshTTL) \in Nat
  BY UnixIsNat DEF Times
<1>3. refresh_sessions[parent].device_id \in Devices
  BY TableRead DEF TypeOK, GetRefreshSession, IsTable, RefreshRow
<1>4. RotatedInto(old, parent, k, at) \in RefreshRow
  BY <1>2, <1>3 DEF RotatedInto, RefreshRow, HashSecret, Hashes, TypeOK
<1>5. IsTable([refresh_sessions EXCEPT ![old].rotated = TRUE], Pairs, RefreshRow)
  BY DEF IsTable, TypeOK, RefreshRow
<1> QED BY <1>1, <1>4, <1>5, InsertIsTable

-----------------------------------------------------------------------------
LEMMA TypeInit == Init => TypeInv
<1> SUFFICES ASSUME Init PROVE TypeInv
  OBVIOUS
<1>1. Idle \in Local /\ LocalOK(Idle)
  BY DEF Idle, Local, PCs, Times, LocalOK, HasSession, HasNew
<1>2. TypeOK
  BY <1>1, EmptyTableIsTable
     DEF Init, TypeOK, Times, CleanerLocal, CleanerIdle
<1> QED BY <1>1, <1>2 DEF TypeInv, Init

(* The local variables a handler starts with or moves on to.               *)
LEMMA LocalRecord ==
  ASSUME NEW pc \in PCs \ {"idle"}, NEW session \in 0..MaxPairs,
         NEW device \in Pairs, NEW new \in 0..MaxPairs, NEW at \in Times,
         NEW barred \in BOOLEAN, NEW l,
         IF pc \in HasSession THEN session \in Pairs ELSE session = 0,
         IF pc \in HasNew THEN new \in Pairs ELSE new = 0,
         l = [pc |-> pc, session |-> session, device |-> device, new |-> new,
              at |-> at, barred |-> barred]
  PROVE  l \in Local /\ LocalOK(l)
<1>1. device \in 0..MaxPairs
  BY DEF Pairs
<1>2. l \in Local
  BY <1>1 DEF Local
<1>3. /\ l.pc = pc /\ l.session = session /\ l.device = device
      /\ l.new = new
  OBVIOUS
<1>4. LocalOK(l)
  BY <1>3 DEF LocalOK
<1> QED BY <1>2, <1>4

LEMMA FoundIsLocal ==
  ASSUME NEW pc \in {"getDevice", "revokeAll", "authDevice"},
         NEW session \in Pairs, NEW device \in Pairs
  PROVE  /\ Found(pc, session, device) \in Local
         /\ LocalOK(Found(pc, session, device))
<1> DEFINE b == DeviceRevoked(device)
<1>1. b \in BOOLEAN
  BY DEF DeviceRevoked
<1>2. Found(pc, session, device) =
        [pc |-> pc, session |-> session, device |-> device, new |-> 0,
         at |-> 0, barred |-> b]
  BY DEF Found
<1>3. session \in 0..MaxPairs /\ 0 \in 0..MaxPairs /\ 0 \in Times
  BY DEF Pairs, Times
<1>4. pc \in PCs \ {"idle"} /\ pc \in HasSession /\ pc \notin HasNew
  BY DEF PCs, HasSession, HasNew
<1> HIDE DEF b
<1> QED BY <1>1, <1>2, <1>3, <1>4, LocalRecord

(* A handler that moves on in a way LocalOK allows.                        *)
LEMMA LocalStep ==
  ASSUME TypeInv, NEW r \in Reqs, NEW l \in Local, LocalOK(l),
         req' = [req EXCEPT ![r] = l]
  PROVE  req' \in [Reqs -> Local] /\ \A q \in Reqs : LocalOK(req'[q])
BY DEF TypeInv, TypeOK

LEMMA FinishStep ==
  ASSUME TypeInv, NEW r \in Reqs, Finish(r)
  PROVE  req' \in [Reqs -> Local] /\ \A q \in Reqs : LocalOK(req'[q])
<1>1. Idle \in Local /\ LocalOK(Idle)
  BY DEF Idle, Local, PCs, Times, LocalOK, HasSession, HasNew
<1> QED BY <1>1, LocalStep DEF Finish

LEMMA GotoStep ==
  ASSUME TypeInv, NEW r \in Reqs, NEW pc \in PCs, Goto(r, pc),
         LocalOK([req[r] EXCEPT !.pc = pc])
  PROVE  req' \in [Reqs -> Local] /\ \A q \in Reqs : LocalOK(req'[q])
<1>1. [req[r] EXCEPT !.pc = pc] \in Local
  BY DEF TypeInv, TypeOK, Local
<1>2. req' = [req EXCEPT ![r] = [req[r] EXCEPT !.pc = pc]]
  BY DEF Goto, TypeInv, TypeOK
<1> QED BY <1>1, <1>2, LocalStep

(* A handler that has only a session goes to a place that needs only that; *)
(* one that has only a new pair likewise; one that has both likewise.      *)
LEMMA MoveOn ==
  ASSUME TypeInv, NEW r \in Reqs, NEW pc \in PCs \ {"idle"}, Goto(r, pc),
         req[r].pc # "idle",
         req[r].pc \in HasSession <=> pc \in HasSession,
         req[r].pc \in HasNew <=> pc \in HasNew
  PROVE  req' \in [Reqs -> Local] /\ \A q \in Reqs : LocalOK(req'[q])
<1>1. req[r] \in Local /\ LocalOK(req[r])
  BY DEF TypeInv, TypeOK
<1>2. LocalOK([req[r] EXCEPT !.pc = pc])
  BY <1>1 DEF LocalOK, Local
<1> QED BY <1>2, GotoStep

-----------------------------------------------------------------------------
LEMMA TypeNext == TypeInv /\ [Next]_vars => TypeInv'
<1> SUFFICES ASSUME TypeInv, [Next]_vars PROVE TypeInv'
  OBVIOUS
<1>t. TypeOK /\ req \in [Reqs -> Local] /\ \A r \in Reqs : LocalOK(req[r])
  BY DEF TypeInv, TypeOK
<1>1. CASE UNCHANGED vars
  BY <1>1, <1>t DEF TypeInv, TypeOK, vars
<1>2. ASSUME NEW r \in Reqs, NEW email \in Emails, PairDevice(r, email)
      PROVE  TypeInv'
  <2>1. [email |-> email, revoked |-> FALSE] \in DeviceRow /\ nextPair \in Devices
    BY <1>2 DEF DeviceRow, PairDevice, Devices
  <2>2. IsTable(mobile_devices', Devices, DeviceRow)
    BY <1>2, <1>t, <2>1, InsertIsTable DEF PairDevice, TypeOK
  <2> DEFINE l == [pc |-> "createAccess", session |-> 0, device |-> nextPair,
                   new |-> nextPair, at |-> now, barred |-> FALSE]
  <2>3. l \in Local /\ LocalOK(l)
    <3>1. nextPair \in Pairs /\ nextPair \in 0..MaxPairs /\ now \in Times
      BY <1>2, <1>t DEF PairDevice, TypeOK, Pairs
    <3>2. /\ "createAccess" \in PCs \ {"idle"} /\ "createAccess" \in HasNew
          /\ "createAccess" \notin HasSession /\ 0 \in 0..MaxPairs
      BY DEF PCs, HasSession, HasNew
    <3> QED BY <3>1, <3>2, LocalRecord
  <2>4. req' \in [Reqs -> Local] /\ \A q \in Reqs : LocalOK(req'[q])
    BY <1>2, <2>3, LocalStep DEF PairDevice
  <2>5. nextPair' \in 1..(MaxPairs + 1)
    BY <1>2 DEF PairDevice, Pairs
  <2> QED BY <1>2, <1>t, <2>2, <2>4, <2>5
          DEF TypeInv, TypeOK, PairDevice, configVars
<1>3. ASSUME NEW r \in Reqs, PairCreateAccess(r)
      PROVE  TypeInv'
  <2>1. req[r].new \in Pairs /\ req[r].device \in Devices /\ req[r].at \in Times
    BY <1>3, <1>t DEF PairCreateAccess, LocalOK, HasNew, Local, Devices
  <2>2. IsTable(access_sessions', Pairs, AccessRow)
    BY <1>3, <1>t, <2>1, CreateAccessTypes DEF PairCreateAccess
  <2>3. req' \in [Reqs -> Local] /\ \A q \in Reqs : LocalOK(req'[q])
    BY <1>3, MoveOn DEF PairCreateAccess, PCs, HasSession, HasNew
  <2> QED BY <1>3, <1>t, <2>2, <2>3
          DEF TypeInv, TypeOK, PairCreateAccess, configVars
<1>4. ASSUME NEW r \in Reqs, PairCreateRefresh(r)
      PROVE  TypeInv'
  <2>1. req[r].new \in Pairs /\ req[r].device \in Devices /\ req[r].at \in Times
    BY <1>4, <1>t DEF PairCreateRefresh, LocalOK, HasNew, Local, Devices
  <2>2. IsTable(refresh_sessions', Pairs, RefreshRow)
    BY <1>4, <1>t, <2>1, CreateRefreshTypes DEF PairCreateRefresh
  <2>3. req' \in [Reqs -> Local] /\ \A q \in Reqs : LocalOK(req'[q])
    BY <1>4, MoveOn DEF PairCreateRefresh, PCs, HasSession, HasNew
  <2> QED BY <1>4, <1>t, <2>2, <2>3
          DEF TypeInv, TypeOK, PairCreateRefresh, configVars
<1>5. ASSUME NEW r \in Reqs, Respond(r)
      PROVE  TypeInv'
  <2>1. req[r].new \in Pairs /\ req[r].at \in Nat
    BY <1>5, <1>t DEF Respond, LocalOK, HasNew, Local, Times
  <2> DEFINE told == [access  |-> Unix(req[r].at + AccessTTL),
                      refresh |-> Unix(req[r].at + RefreshTTL),
                      secret  |-> serverSecret]
  <2>2. told \in [access : Nat, refresh : Nat, secret : Secrets]
    BY <2>1, <1>t, UnixIsNat DEF TypeOK
  <2> HIDE DEF told
  <2>3. delivered' = Insert(delivered, req[r].new, told) \/ delivered' = delivered
    BY <1>5 DEF Respond, told
  <2> DEFINE T == [access : Nat, refresh : Nat, secret : Secrets]
  <2>4. IsTable(delivered', Pairs, T)
    <3>1. IsTable(delivered, Pairs, T) /\ told \in T
      BY <1>t, <2>2 DEF TypeOK
    <3> HIDE DEF T
    <3>2. IsTable(Insert(delivered, req[r].new, told), Pairs, T)
      BY <2>1, <3>1, InsertIsTable
    <3> QED BY <2>3, <3>1, <3>2
  <2>5. req' \in [Reqs -> Local] /\ \A q \in Reqs : LocalOK(req'[q])
    BY <1>5, FinishStep DEF Respond
  <2> QED BY <1>5, <1>t, <2>4, <2>5
          DEF TypeInv, TypeOK, Respond, configVars, tableVars
<1>6. ASSUME NEW r \in Reqs, NEW k \in Pairs, RefreshGetSession(r, k)
      PROVE  TypeInv'
  <2>1. PICK s \in DOMAIN refresh_sessions :
          req' = [req EXCEPT ![r] =
                    Found("getDevice", s, refresh_sessions[s].device_id)]
    BY <1>6 DEF RefreshGetSession, RefreshRead, GetRefreshSession
  <2>2. s \in Pairs /\ refresh_sessions[s].device_id \in Pairs
    BY <1>t DEF TypeOK, IsTable, RefreshRow, Devices
  <2>5. req' \in [Reqs -> Local] /\ \A q \in Reqs : LocalOK(req'[q])
    BY <2>1, <2>2, FoundIsLocal, LocalStep
  <2> QED BY <1>6, <1>t, <2>5
          DEF TypeInv, TypeOK, RefreshGetSession, RefreshRead, configVars,
              tableVars
<1>7. ASSUME NEW r \in Reqs, RefreshGetDevice(r)
      PROVE  TypeInv'
  <2> DEFINE l == [req[r] EXCEPT !.pc = "createNewAccess", !.new = nextPair,
                                 !.at = now]
  <2>1. req' = [req EXCEPT ![r] = l]
    BY <1>7, <1>t DEF RefreshGetDevice
  <2>2. l \in Local /\ LocalOK(l)
    <3>1. req[r] \in Local /\ LocalOK(req[r]) /\ req[r].pc = "getDevice"
      BY <1>7, <1>t DEF RefreshGetDevice
    <3>2. /\ req[r].session \in Pairs /\ req[r].device \in Pairs
          /\ req[r].session \in 0..MaxPairs /\ req[r].barred \in BOOLEAN
      BY <3>1 DEF LocalOK, HasSession, Local
    <3>3. nextPair \in Pairs /\ nextPair \in 0..MaxPairs /\ now \in Times
      BY <1>7, <1>t DEF RefreshGetDevice, TypeOK, Pairs
    <3> DEFINE l1 == [req[r] EXCEPT !.pc = "createNewAccess"]
               l2 == [l1 EXCEPT !.new = nextPair]
    <3>4. l1 \in Local
      BY <3>1 DEF Local, PCs
    <3>5. l2 \in Local
      <4> HIDE DEF l1
      <4> QED BY <3>3, <3>4 DEF Local
    <3>6. [l2 EXCEPT !.at = now] \in Local
      <4> HIDE DEF l2
      <4> QED BY <3>3, <3>5 DEF Local
    <3>7. l \in Local
      BY <3>6
    <3>8. /\ l.pc = "createNewAccess" /\ l.new = nextPair
          /\ l.session = req[r].session /\ l.device = req[r].device
      BY <3>1 DEF Local
    <3> HIDE DEF l
    <3>9. LocalOK(l)
      BY <3>2, <3>3, <3>8 DEF LocalOK, HasSession, HasNew
    <3> QED BY <3>7, <3>9
  <2>3. req' \in [Reqs -> Local] /\ \A q \in Reqs : LocalOK(req'[q])
    BY <2>1, <2>2, LocalStep
  <2>4. nextPair' \in 1..(MaxPairs + 1)
    BY <1>7 DEF RefreshGetDevice, Pairs
  <2> QED BY <1>7, <1>t, <2>3, <2>4
          DEF TypeInv, TypeOK, RefreshGetDevice, configVars, tableVars
<1>8. ASSUME NEW r \in Reqs,
             \/ RefreshDeviceRejected(r) \/ RotateFails(r)
             \/ AuthDeviceRejected(r) \/ ProxyEnds(r)
      PROVE  TypeInv'
  <2>1. req' \in [Reqs -> Local] /\ \A q \in Reqs : LocalOK(req'[q])
    BY <1>8, FinishStep
       DEF RefreshDeviceRejected, RotateFails, AuthDeviceRejected, ProxyEnds
  <2> QED BY <1>8, <1>t, <2>1
          DEF TypeInv, TypeOK, configVars, tableVars,
              RefreshDeviceRejected, RotateFails, AuthDeviceRejected, ProxyEnds
<1>9. ASSUME NEW r \in Reqs, RefreshCreateAccess(r)
      PROVE  TypeInv'
  <2>1. req[r].new \in Pairs /\ req[r].device \in Devices /\ req[r].at \in Times
    BY <1>9, <1>t DEF RefreshCreateAccess, LocalOK, HasNew, Local, Devices
  <2>2. IsTable(access_sessions', Pairs, AccessRow)
    BY <1>9, <1>t, <2>1, CreateAccessTypes DEF RefreshCreateAccess
  <2>3. req' \in [Reqs -> Local] /\ \A q \in Reqs : LocalOK(req'[q])
    BY <1>9, MoveOn DEF RefreshCreateAccess, PCs, HasSession, HasNew
  <2> QED BY <1>9, <1>t, <2>2, <2>3
          DEF TypeInv, TypeOK, RefreshCreateAccess, configVars
<1>10. ASSUME NEW r \in Reqs, RefreshRotate(r)
       PROVE  TypeInv'
  <2>1. req[r].new \in Pairs /\ req[r].session \in Pairs /\ req[r].at \in Times
    BY <1>10, <1>t DEF RefreshRotate, LocalOK, HasNew, HasSession, Local
  <2>2. IsTable(refresh_sessions', Pairs, RefreshRow)
    BY <1>10, <1>t, <2>1, RotateTypes DEF RefreshRotate
  <2>3. req' \in [Reqs -> Local] /\ \A q \in Reqs : LocalOK(req'[q])
    BY <1>10, MoveOn DEF RefreshRotate, PCs, HasSession, HasNew
  <2> QED BY <1>10, <1>t, <2>2, <2>3
          DEF TypeInv, TypeOK, RefreshRotate, configVars
<1>11. ASSUME NEW r \in Reqs, RefreshAudit(r)
       PROVE  TypeInv'
  <2>1. req[r].new \in Pairs /\ req[r].device \in Devices
    BY <1>11, <1>t DEF RefreshAudit, LocalOK, HasNew, Devices
  <2>2. req' \in [Reqs -> Local] /\ \A q \in Reqs : LocalOK(req'[q])
    BY <1>11, MoveOn DEF RefreshAudit, PCs, HasSession, HasNew
  <2>3. audit_events' \in SUBSET (EventCodes \X Devices \X Pairs)
    BY <1>11, <1>t, <2>1 DEF RefreshAudit, TypeOK, EventCodes
  <2> QED BY <1>11, <1>t, <2>2, <2>3
          DEF TypeInv, TypeOK, RefreshAudit, configVars, tableVars
<1>12. ASSUME NEW r \in Reqs, NEW k \in Pairs,
              RevokeGetSession(r, k) \/ AuthenticateDevice(r, k)
       PROVE  TypeInv'
  <2>1. PICK s \in DOMAIN access_sessions, pc \in {"revokeAll", "authDevice"} :
          req' = [req EXCEPT ![r] =
                    Found(pc, s, access_sessions[s].device_id)]
    BY <1>12 DEF RevokeGetSession, AuthenticateDevice, GetAccessSession
  <2>2. s \in Pairs /\ access_sessions[s].device_id \in Pairs
    BY <1>t DEF TypeOK, IsTable, AccessRow, Devices
  <2>4. req' \in [Reqs -> Local] /\ \A q \in Reqs : LocalOK(req'[q])
    BY <2>1, <2>2, FoundIsLocal, LocalStep
  <2> QED BY <1>12, <1>t, <2>4
          DEF TypeInv, TypeOK, RevokeGetSession, AuthenticateDevice,
              configVars, tableVars
<1>13. ASSUME NEW r \in Reqs, RevokeSessions(r) \/ DenyRevoke(r)
       PROVE  TypeInv'
  <2>1. /\ IsTable(access_sessions', Pairs, AccessRow)
        /\ IsTable(refresh_sessions', Pairs, RefreshRow)
    BY <1>13, <1>t, RevokeAllTypes DEF RevokeSessions, DenyRevoke
  <2>2. req' \in [Reqs -> Local] /\ \A q \in Reqs : LocalOK(req'[q])
    BY <1>13, MoveOn DEF RevokeSessions, DenyRevoke, PCs, HasSession, HasNew
  <2> QED BY <1>13, <1>t, <2>1, <2>2
          DEF TypeInv, TypeOK, RevokeSessions, DenyRevoke, configVars
<1>14. ASSUME NEW r \in Reqs, RevokeAudit(r) \/ DenyAudit(r)
       PROVE  TypeInv'
  <2>1. req[r].session \in Pairs /\ req[r].device \in Devices
    BY <1>14, <1>t DEF RevokeAudit, DenyAudit, LocalOK, HasSession, Devices
  <2>2. req' \in [Reqs -> Local] /\ \A q \in Reqs : LocalOK(req'[q])
    BY <1>14, FinishStep DEF RevokeAudit, DenyAudit
  <2>3. audit_events' \in SUBSET (EventCodes \X Devices \X Pairs)
    BY <1>14, <1>t, <2>1 DEF RevokeAudit, DenyAudit, TypeOK, EventCodes
  <2> QED BY <1>14, <1>t, <2>2, <2>3
          DEF TypeInv, TypeOK, RevokeAudit, DenyAudit, configVars, tableVars
<1>15. ASSUME NEW r \in Reqs, AuthDevice(r)
       PROVE  TypeInv'
  <2>1. req' \in [Reqs -> Local] /\ \A q \in Reqs : LocalOK(req'[q])
    <3>1. PICK pc \in {"proxying", "denyRevoke"} : Goto(r, pc)
      BY <1>15 DEF AuthDevice
    <3> QED BY <1>15, <3>1, MoveOn DEF AuthDevice, PCs, HasSession, HasNew
  <2> QED BY <1>15, <1>t, <2>1
          DEF TypeInv, TypeOK, AuthDevice, configVars, tableVars
<1>16. ASSUME NEW r \in Reqs, DBError(r)
       PROVE  TypeInv'
  <2>1. req' \in [Reqs -> Local] /\ \A q \in Reqs : LocalOK(req'[q])
    <3>1. CASE Finish(r)
      BY <3>1, FinishStep
    <3>2. CASE req[r].pc = "auditRefresh" /\ Goto(r, "respondRefresh")
      BY <3>2, MoveOn DEF PCs, HasSession, HasNew
    <3>3. CASE req[r].pc = "denyRevoke" /\ Goto(r, "denyAudit")
      BY <3>3, MoveOn DEF PCs, HasSession, HasNew
    <3> QED BY <1>16, <3>1, <3>2, <3>3 DEF DBError
  <2> QED BY <1>16, <1>t, <2>1
          DEF TypeInv, TypeOK, DBError, configVars, tableVars
<1>17. ASSUME NEW c \in Cleaners, Cleanup(c) \/ CleanupError(c)
       PROVE  TypeInv'
  <2>1. Unix(now) \in Nat
    BY <1>t, UnixIsNat DEF TypeOK, Times
  <2>2. cleaner' \in [Cleaners -> CleanerLocal]
    BY <1>17, <1>t, <2>1
       DEF Cleanup, CleanupStart, CleanupRefresh, CleanupAccess, CleanupError,
           TypeOK, CleanerLocal, CleanerIdle
  <2>3. IsTable(refresh_sessions', Pairs, RefreshRow)
    BY <1>17, <1>t, DeleteIsTable
       DEF Cleanup, CleanupStart, CleanupRefresh, CleanupAccess, CleanupError,
           TypeOK, tableVars
  <2>4. IsTable(access_sessions', Pairs, AccessRow)
    BY <1>17, <1>t, DeleteIsTable
       DEF Cleanup, CleanupStart, CleanupRefresh, CleanupAccess, CleanupError,
           TypeOK, tableVars
  <2> QED BY <1>17, <1>t, <2>2, <2>3, <2>4
          DEF TypeInv, TypeOK, Cleanup, CleanupStart, CleanupRefresh,
              CleanupAccess, CleanupError, configVars, tableVars
<1>18. ASSUME NEW device \in Devices, RevokeMobileDevice(device)
       PROVE  TypeInv'
  <2>1. /\ IsTable(access_sessions', Pairs, AccessRow)
        /\ IsTable(refresh_sessions', Pairs, RefreshRow)
    BY <1>18, <1>t, RevokeAllTypes DEF RevokeMobileDevice
  <2>2. IsTable(mobile_devices', Devices, DeviceRow)
    BY <1>18, <1>t DEF RevokeMobileDevice, TypeOK, IsTable, DeviceRow
  <2> QED BY <1>18, <1>t, <2>1, <2>2
          DEF TypeInv, TypeOK, RevokeMobileDevice, configVars
<1>19. ASSUME Restart
       PROVE  TypeInv'
  <2>1. Idle \in Local /\ LocalOK(Idle)
    BY DEF Idle, Local, PCs, Times, LocalOK, HasSession, HasNew
  <2>2. /\ IsTable(refresh_sessions', Pairs, RefreshRow)
        /\ IsTable(access_sessions', Pairs, AccessRow)
    BY <1>19, <1>t, DeleteIsTable DEF Restart, TypeOK
  <2>3. cleaner' \in [Cleaners -> CleanerLocal]
    BY <1>19 DEF Restart, CleanerLocal, CleanerIdle
  <2>4. restarts' \in 0..MaxRestarts
    BY <1>19, <1>t DEF Restart, TypeOK
  <2> QED BY <1>19, <1>t, <2>1, <2>2, <2>3, <2>4 DEF TypeInv, TypeOK, Restart
<1>20. ASSUME Tick
       PROVE  TypeInv'
  BY <1>20, <1>t DEF TypeInv, TypeOK, Tick, Times, configVars, tableVars
<1> QED
  BY <1>1, <1>2, <1>3, <1>4, <1>5, <1>6, <1>7, <1>8, <1>9, <1>10, <1>11,
     <1>12, <1>13, <1>14, <1>15, <1>16, <1>17, <1>18, <1>19, <1>20
     DEF Next, Arrive, Step

(* Type correctness: every handler keeps the tables, the audit trail and   *)
(* its own local variables well formed, whatever the other handlers do     *)
(* between its calls.                                                      *)
THEOREM TypeCorrect == Spec => []TypeOK
<1>1. TypeInv => TypeOK
  BY DEF TypeInv
<1> QED BY <1>1, TypeInit, TypeNext, PTL DEF Spec

-----------------------------------------------------------------------------
(* Who gets past authenticateDevice and handleRefreshSession.              *)

BarredPCs == {"getDevice", "authDevice", "revokeAll", "auditRevoke"}

(* Device ids are drawn in order, so that a new device never takes the     *)
(* place of an old one.                                                    *)
Minted == \A d \in DOMAIN mobile_devices : d < nextPair

(* A handler that started on a revoked device's session: the device is     *)
(* still revoked when the handler asks for it.                             *)
BarredLocal(l) == l.barred => l.pc \in BarredPCs /\ DeviceRevoked(l.device)

(* A handler that reached the Gateway: its device is still there.          *)
ProxyLocal(l) ==
  l.pc = "proxying" => /\ l.device \in DOMAIN mobile_devices
                       /\ IsEmailAllowed(mobile_devices[l.device].email)

GateInv ==
  /\ TypeInv
  /\ Minted
  /\ \A r \in Reqs : BarredLocal(req[r]) /\ ProxyLocal(req[r])

-----------------------------------------------------------------------------
(* A device keeps its row and its email, and a revoked one stays revoked.  *)
DevicesKept ==
  \A d \in DOMAIN mobile_devices :
    /\ d \in DOMAIN mobile_devices'
    /\ mobile_devices'[d].email = mobile_devices[d].email
    /\ mobile_devices[d].revoked => mobile_devices'[d].revoked

(* No action takes a device or its revocation away.                        *)
LEMMA DevicesNext ==
  ASSUME TypeInv, Minted, [Next]_vars
  PROVE  Minted' /\ DevicesKept
<1>t. nextPair \in Nat /\ IsTable(mobile_devices, Devices, DeviceRow)
  BY DEF TypeInv, TypeOK
<1>1. CASE /\ UNCHANGED mobile_devices
           /\ nextPair' = nextPair \/ nextPair' = nextPair + 1
  BY <1>1, <1>t DEF Minted, DevicesKept, IsTable, Devices, Pairs
<1>2. ASSUME NEW r \in Reqs, NEW email \in Emails, PairDevice(r, email)
      PROVE  Minted' /\ DevicesKept
  <2> DEFINE row == [email |-> email, revoked |-> FALSE]
  <2>1. mobile_devices' = Insert(mobile_devices, nextPair, row)
    BY <1>2 DEF PairDevice
  <2>2. nextPair' = nextPair + 1 /\ nextPair \notin DOMAIN mobile_devices
    BY <1>2, <1>t DEF PairDevice, Minted
  <2> HIDE DEF row
  <2>3. /\ DOMAIN mobile_devices' = DOMAIN mobile_devices \cup {nextPair}
        /\ \A d \in DOMAIN mobile_devices : mobile_devices'[d] = mobile_devices[d]
    <3>1. /\ DOMAIN Insert(mobile_devices, nextPair, row)
               = DOMAIN mobile_devices \cup {nextPair}
          /\ \A d \in DOMAIN mobile_devices :
               d # nextPair =>
                 Insert(mobile_devices, nextPair, row)[d] = mobile_devices[d]
      BY DEF Insert
    <3> QED BY <2>1, <2>2, <3>1
  <2>4. Minted'
    BY <2>2, <2>3, <1>t DEF Minted, IsTable, Devices, Pairs
  <2>5. DevicesKept
    BY <2>3 DEF DevicesKept
  <2> QED BY <2>4, <2>5
<1>3. ASSUME NEW device \in Devices, RevokeMobileDevice(device)
      PROVE  Minted' /\ DevicesKept
  BY <1>3, <1>t DEF RevokeMobileDevice, Minted, DevicesKept, IsTable, DeviceRow
<1>4. ASSUME NEW r \in Reqs, NEW k \in Pairs,
             \/ RefreshGetSession(r, k) \/ RevokeGetSession(r, k)
             \/ AuthenticateDevice(r, k)
      PROVE  UNCHANGED <<mobile_devices, nextPair>>
  BY <1>4 DEF RefreshGetSession, RefreshRead, RevokeGetSession,
     AuthenticateDevice, tableVars
<1>5. ASSUME NEW r \in Reqs, Step(r)
      PROVE  /\ UNCHANGED mobile_devices
             /\ nextPair' = nextPair \/ nextPair' = nextPair + 1
  BY <1>5 DEF Step, PairCreateAccess, PairCreateRefresh, Respond,
     RefreshGetDevice, RefreshDeviceRejected, RefreshCreateAccess,
     RefreshRotate, RotateFails, RefreshAudit, RevokeSessions, RevokeAudit,
     AuthDeviceRejected, AuthDevice, DenyRevoke, DenyAudit, ProxyEnds, DBError,
     tableVars
<1>6. ASSUME \/ \E c \in Cleaners : Cleanup(c) \/ CleanupError(c)
             \/ Restart \/ Tick \/ UNCHANGED vars
      PROVE  UNCHANGED <<mobile_devices, nextPair>>
  BY <1>6 DEF Cleanup, CleanupStart, CleanupRefresh, CleanupAccess,
     CleanupError, Restart, Tick, tableVars, vars
<1> QED BY <1>1, <1>2, <1>3, <1>4, <1>5, <1>6 DEF Next, Arrive

(* What the gate's handlers rely on survives a step that leaves the        *)
(* handler and the configuration alone.                                    *)
LEMMA LocalKept ==
  ASSUME NEW q \in Reqs, BarredLocal(req[q]), ProxyLocal(req[q]),
         DevicesKept, UNCHANGED allowedEmails, req'[q] = req[q]
  PROVE  BarredLocal(req[q])' /\ ProxyLocal(req[q])'
BY DEF DevicesKept, BarredLocal, ProxyLocal, DeviceRevoked, IsEmailAllowed

(* A handler that is neither barred nor proxying relies on nothing.        *)
LEMMA LocalFree ==
  ASSUME NEW q \in Reqs, ~req'[q].barred, req'[q].pc # "proxying"
  PROVE  BarredLocal(req[q])' /\ ProxyLocal(req[q])'
BY DEF BarredLocal, ProxyLocal

(* One that moves on between the two lookups of a logout relies on what it *)
(* relied on before.                                                       *)
LEMMA LocalMoves ==
  ASSUME NEW q \in Reqs, BarredLocal(req[q]), DevicesKept,
         req'[q].barred = req[q].barred, req'[q].device = req[q].device,
         req'[q].pc \in PCs \ {"proxying"},
         req[q].barred => req'[q].pc \in BarredPCs
  PROVE  BarredLocal(req[q])' /\ ProxyLocal(req[q])'
BY DEF DevicesKept, BarredLocal, ProxyLocal, DeviceRevoked

-----------------------------------------------------------------------------
LEMMA GateInit == Init => GateInv
<1> SUFFICES ASSUME Init PROVE GateInv
  OBVIOUS
<1>1. TypeInv
  BY TypeInit
<1>2. Minted
  BY EmptyTableIsTable DEF Init, Minted
<1>3. \A r \in Reqs : req[r] = Idle
  BY DEF Init
<1>4. ~Idle.barred /\ Idle.pc # "proxying"
  BY DEF Idle
<1> QED BY <1>1, <1>2, <1>3, <1>4 DEF GateInv, BarredLocal, ProxyLocal

(* The step of one handler, on that handler.                               *)
LEMMA GateStep ==
  ASSUME GateInv, NEW r \in Reqs, Arrive(r) \/ Step(r), DevicesKept
  PROVE  BarredLocal(req[r])' /\ ProxyLocal(req[r])'
<1>t. /\ req \in [Reqs -> Local] /\ BarredLocal(req[r]) /\ ProxyLocal(req[r])
      /\ req[r] \in Local
  BY DEF GateInv, TypeInv, TypeOK
<1>1. ASSUME Finish(r)
      PROVE  BarredLocal(req[r])' /\ ProxyLocal(req[r])'
  <2>1. req'[r] = Idle
    BY <1>1, <1>t DEF Finish
  <2> QED BY <2>1, LocalFree DEF Idle
<1>2. ASSUME NEW pc \in PCs \ {"proxying"}, Goto(r, pc),
             req[r].pc \in BarredPCs => pc \in BarredPCs
      PROVE  BarredLocal(req[r])' /\ ProxyLocal(req[r])'
  <2>1. /\ req'[r].pc = pc /\ req'[r].barred = req[r].barred
        /\ req'[r].device = req[r].device
    BY <1>2, <1>t DEF Goto, Local
  <2>2. req[r].barred => pc \in BarredPCs
    BY <1>t, <1>2 DEF BarredLocal
  <2> QED BY <1>t, <2>1, <2>2, LocalMoves
<1>3. CASE \E email \in Emails : PairDevice(r, email)
  <2>1. ~req'[r].barred /\ req'[r].pc = "createAccess"
    BY <1>3, <1>t DEF PairDevice
  <2> QED BY <2>1, LocalFree
<1>4. ASSUME NEW k \in Pairs,
             \/ RefreshGetSession(r, k) \/ RevokeGetSession(r, k)
             \/ AuthenticateDevice(r, k)
      PROVE  BarredLocal(req[r])' /\ ProxyLocal(req[r])'
  <2>0. PICK pc \in {"getDevice", "revokeAll", "authDevice"} :
          \E s, d : req' = [req EXCEPT ![r] = Found(pc, s, d)]
    BY <1>4 DEF RefreshGetSession, RefreshRead, RevokeGetSession,
       AuthenticateDevice
  <2>1. PICK s, d : req' = [req EXCEPT ![r] = Found(pc, s, d)]
    BY <2>0
  <2>2. /\ req'[r].pc = pc /\ req'[r].device = d
        /\ req'[r].barred = DeviceRevoked(d)
    BY <2>1, <1>t DEF Found
  <2>3. UNCHANGED mobile_devices
    BY <1>4 DEF RefreshGetSession, RefreshRead, RevokeGetSession,
       AuthenticateDevice, tableVars
  <2>4. BarredLocal(req[r])'
    BY <2>2, <2>3 DEF BarredLocal, BarredPCs, DeviceRevoked
  <2>5. ProxyLocal(req[r])'
    BY <2>2 DEF ProxyLocal
  <2> QED BY <2>4, <2>5
<1>5. CASE RefreshGetDevice(r)
  <2>1. ~req[r].barred
    BY <1>5, <1>t DEF RefreshGetDevice, DeviceActive, BarredLocal, DeviceRevoked
  <2>2. req'[r].barred = req[r].barred /\ req'[r].pc = "createNewAccess"
    BY <1>5, <1>t DEF RefreshGetDevice, Local
  <2> QED BY <2>1, <2>2, LocalFree
<1>6. CASE AuthDevice(r)
  <2>1. ~req[r].barred /\ req[r].device \in DOMAIN mobile_devices
    BY <1>6, <1>t DEF AuthDevice, DeviceActive, BarredLocal, DeviceRevoked
  <2>2. req'[r].barred = req[r].barred /\ req'[r].device = req[r].device
    BY <1>6, <1>t DEF AuthDevice, Goto, Local
  <2>3. req'[r].pc = IF IsEmailAllowed(mobile_devices[req[r].device].email)
                       THEN "proxying" ELSE "denyRevoke"
    BY <1>6, <1>t DEF AuthDevice, Goto, Local
  <2>4. UNCHANGED <<allowedEmails, mobile_devices>>
    BY <1>6 DEF AuthDevice, configVars, tableVars
  <2>5. BarredLocal(req[r])'
    BY <2>1, <2>2 DEF BarredLocal
  <2>6. ProxyLocal(req[r])'
    BY <2>1, <2>2, <2>3, <2>4 DEF ProxyLocal, IsEmailAllowed
  <2> QED BY <2>5, <2>6
<1>7. CASE \/ Respond(r) \/ RefreshDeviceRejected(r) \/ RotateFails(r)
           \/ RevokeAudit(r) \/ AuthDeviceRejected(r) \/ DenyAudit(r)
           \/ ProxyEnds(r)
  BY <1>1, <1>7 DEF Respond, RefreshDeviceRejected, RotateFails, RevokeAudit,
     AuthDeviceRejected, DenyAudit, ProxyEnds
<1>8. CASE \/ PairCreateAccess(r) \/ PairCreateRefresh(r)
           \/ RefreshCreateAccess(r) \/ RefreshRotate(r) \/ RefreshAudit(r)
           \/ RevokeSessions(r) \/ DenyRevoke(r)
  BY <1>2, <1>8 DEF PairCreateAccess, PairCreateRefresh, RefreshCreateAccess,
     RefreshRotate, RefreshAudit, RevokeSessions, DenyRevoke, BarredPCs, PCs
<1>9. CASE DBError(r)
  BY <1>1, <1>2, <1>9 DEF DBError, BarredPCs, PCs
<1> QED BY <1>3, <1>4, <1>5, <1>6, <1>7, <1>8, <1>9 DEF Arrive, Step

LEMMA GateNext == GateInv /\ [Next]_vars => GateInv'
<1> SUFFICES ASSUME GateInv, [Next]_vars PROVE GateInv'
  OBVIOUS
<1>1. TypeInv' /\ Minted' /\ DevicesKept
  BY TypeNext, DevicesNext DEF GateInv
<1>t. \A q \in Reqs : BarredLocal(req[q]) /\ ProxyLocal(req[q])
  BY DEF GateInv
<1> SUFFICES ASSUME NEW q \in Reqs
             PROVE  BarredLocal(req[q])' /\ ProxyLocal(req[q])'
  BY <1>1 DEF GateInv
<1>2. ASSUME NEW r \in Reqs, Arrive(r) \/ Step(r), q # r
      PROVE  req'[q] = req[q] /\ UNCHANGED allowedEmails
  <2>1. PICK l : req' = [req EXCEPT ![r] = l]
    BY <1>2 DEF Arrive, Step, PairDevice, RefreshGetSession, RefreshRead,
       RevokeGetSession, AuthenticateDevice, PairCreateAccess,
       PairCreateRefresh, Respond, RefreshGetDevice, RefreshDeviceRejected,
       RefreshCreateAccess, RefreshRotate, RotateFails, RefreshAudit,
       RevokeSessions, RevokeAudit, AuthDeviceRejected, AuthDevice,
       DenyRevoke, DenyAudit, ProxyEnds, DBError, Goto, Finish
  <2>2. UNCHANGED allowedEmails
    BY <1>2 DEF Arrive, Step, PairDevice, RefreshGetSession, RefreshRead,
       RevokeGetSession, AuthenticateDevice, PairCreateAccess,
       PairCreateRefresh, Respond, RefreshGetDevice, RefreshDeviceRejected,
       RefreshCreateAccess, RefreshRotate, RotateFails, RefreshAudit,
       RevokeSessions, RevokeAudit, AuthDeviceRejected, AuthDevice,
       DenyRevoke, DenyAudit, ProxyEnds, DBError, configVars
  <2> QED BY <1>2, <2>1, <2>2 DEF GateInv, TypeInv, TypeOK
<1>3. CASE \E r \in Reqs : Arrive(r) \/ Step(r)
  BY <1>2, <1>3, <1>1, <1>t, GateStep, LocalKept
<1>4. CASE Restart
  <2>1. req'[q] = Idle
    BY <1>4 DEF Restart
  <2> QED BY <2>1, LocalFree DEF Idle
<1>5. CASE \/ \E c \in Cleaners : Cleanup(c) \/ CleanupError(c)
           \/ \E device \in Devices : RevokeMobileDevice(device)
           \/ Tick \/ UNCHANGED vars
  <2>1. UNCHANGED <<req, allowedEmails>>
    BY <1>5 DEF Cleanup, CleanupStart, CleanupRefresh, CleanupAccess,
       CleanupError, RevokeMobileDevice, Tick, configVars, vars
  <2> QED BY <2>1, <1>1, <1>t, LocalKept
<1> QED BY <1>3, <1>4, <1>5 DEF Next

(* Whatever else runs, and however often the process is restarted with     *)
(* another allow list, the Gateway talks only to devices whose email the   *)
(* running configuration allows.                                           *)
THEOREM GateForwardsAllowed == Spec => []ForwardsAllowed
<1>1. GateInv => ForwardsAllowed
  BY DEF GateInv, ProxyLocal, ForwardsAllowed
<1> QED BY <1>1, GateInit, GateNext, PTL DEF Spec

(* A session a refresh in flight leaves behind for a revoked device buys   *)
(* neither a proxied request nor another token pair.                       *)
THEOREM GateBarredStayOut == Spec => []BarredStayOut
<1>1. GateInv => BarredStayOut
  BY DEF GateInv, BarredLocal, BarredPCs, BarredStayOut
<1> QED BY <1>1, GateInit, GateNext, PTL DEF Spec
=============================================================================
