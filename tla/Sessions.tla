------------------------------ MODULE Sessions ------------------------------
(***************************************************************************)
(* Token sessions of mobile-auth-broker: the tables mobile_devices,        *)
(* access_sessions, refresh_sessions and audit_events, and the request     *)
(* handlers that share them:                                               *)
(*   - pairing, the last third of handleGetDeviceAuthorization;            *)
(*   - handleRefreshSession and handleRevokeCurrentSession;                *)
(*   - authenticateDevice, the gate in front of the proxied Gateway;       *)
(*   - CleanupExpired (ticker, /readyz and startup);                       *)
(*   - RevokeMobileDevice, exported by internal/db for an operator;        *)
(*   - crash and restart of the process, with a new configuration.         *)
(* A handler is a goroutine; each of its database calls is one action, and *)
(* anything may happen between two of them.  What a handler keeps in local *)
(* variables across calls is the record req[r].                            *)
(*                                                                         *)
(* GenerateTokenPair draws an access and a refresh token together, and the *)
(* session ids (and, when pairing, the device id) are drawn beside them    *)
(* from the same random source; a "pair" number stands for all of them.    *)
(* Columns that are written and never read by a handler (created_at,       *)
(* issued_at, last_seen_at, metadata) are left out; of revoked_at and      *)
(* rotated_at only NULL or not NULL is read.                               *)
(***************************************************************************)
EXTENDS Integers, FiniteSets, Rows

CONSTANTS
  Reqs,            \* requests that can be in a handler at the same time
  Cleaners,        \* callers of CleanupExpired: main's ticker, handleReadyz
  Emails,          \* GitHub primary emails, up to letter case
  Secrets,         \* values SERVER_SECRET takes over the deployment's life
  AccessTTL,       \* ACCESS_TOKEN_TTL, in clock ticks
  RefreshTTL,      \* REFRESH_TOKEN_TTL, in clock ticks
  TicksPerSecond,  \* resolution of time.Now(); the tables keep whole seconds
  MaxPairs,        \* bound: token pairs ever generated
  MaxNow,          \* bound: last clock tick
  MaxRestarts,     \* bound: crashes of the process
  Faults,          \* whether a database call may return an error
  OperatorRevokes  \* whether RevokeMobileDevice is ever called

ASSUME SessionsAssumption ==
  /\ IsFiniteSet(Reqs) /\ IsFiniteSet(Cleaners)
  /\ AccessTTL \in Nat /\ RefreshTTL \in Nat
  /\ TicksPerSecond \in Nat \ {0}
  /\ MaxPairs \in Nat /\ MaxNow \in Nat /\ MaxRestarts \in Nat
  /\ Faults \in BOOLEAN /\ OperatorRevokes \in BOOLEAN

VARIABLES
  now,               \* the clock, in ticks
  serverSecret,      \* Config.ServerSecret of the running process
  allowedEmails,     \* Config.AllowedEmails of the running process
  mobile_devices,    \* device id -> [email, revoked]
  access_sessions,   \* pair -> [device_id, token_hash, expires_at, revoked]
  refresh_sessions,  \* pair -> the same and parent_token_hash, rotated
  audit_events,      \* rows of audit_events as <<event_code, device, session>>
  req,               \* request -> local variables of its handler
  cleaner,           \* caller -> local variables of its CleanupExpired
  nextPair,          \* next pair GenerateTokenPair returns
  restarts,          \* crashes so far
  delivered          \* pair -> what the response told the client about it

configVars == <<serverSecret, allowedEmails>>
tableVars  == <<mobile_devices, access_sessions, refresh_sessions>>
vars == <<now, serverSecret, allowedEmails, mobile_devices, access_sessions,
          refresh_sessions, audit_events, req, cleaner, nextPair, restarts,
          delivered>>

-----------------------------------------------------------------------------
Pairs   == 1..MaxPairs
Devices == Pairs
Times   == 0..MaxNow
Hashes  == Secrets \X Pairs
NoHash  == <<>>                     \* parent_token_hash of a paired session

(* Mutant: the token is hashed without the server secret.                  *)
HashSecret_Unkeyed(k) == <<CHOOSE s \in Secrets : TRUE, k>>

(* Config.HashSecret: SHA-256 over the server secret and the token, taken  *)
(* to be injective.                                                        *)
HashSecret(k) == <<serverSecret, k>>

(* Time.Unix truncates to seconds; a stored second is read back as an      *)
(* instant, and Time.After compares instants.                              *)
Unix(t) == t \div TicksPerSecond
After(t, second) == t > second * TicksPerSecond

DeviceRow  == [email : Emails, revoked : BOOLEAN]
AccessRow  == [device_id : Devices, token_hash : Hashes, expires_at : Nat,
               revoked : BOOLEAN]
RefreshRow == [device_id : Devices, token_hash : Hashes,
               parent_token_hash : Hashes \cup {NoHash}, expires_at : Nat,
               revoked : BOOLEAN, rotated : BOOLEAN]

PCs == {"idle", "createAccess", "createRefresh", "respondPair",
        "getDevice", "createNewAccess", "rotate", "auditRefresh",
        "respondRefresh", "revokeAll", "auditRevoke", "authDevice",
        "denyRevoke", "denyAudit", "proxying"}

EventCodes == {"token_refreshed", "session_revoked", "proxy_denied"}

(* Local variables of a handler: the stored session it found (0: none yet),*)
(* its device, the pair it generated and time.Now() when it did.  barred   *)
(* is a history variable: the session's device was already revoked when    *)
(* the handler read the session.                                           *)
Local == [pc : PCs, session : 0..MaxPairs, device : 0..MaxPairs,
          new : 0..MaxPairs, at : Times, barred : BOOLEAN]
Idle  == [pc |-> "idle", session |-> 0, device |-> 0, new |-> 0, at |-> 0,
          barred |-> FALSE]

CleanerLocal == [pc : {"idle", "refresh", "access"}, cutoff : Nat]
CleanerIdle  == [pc |-> "idle", cutoff |-> 0]

TypeOK ==
  /\ now \in Times
  /\ serverSecret \in Secrets
  /\ allowedEmails \in SUBSET Emails
  /\ IsTable(mobile_devices, Devices, DeviceRow)
  /\ IsTable(access_sessions, Pairs, AccessRow)
  /\ IsTable(refresh_sessions, Pairs, RefreshRow)
  /\ audit_events \in SUBSET (EventCodes \X Devices \X Pairs)
  /\ req \in [Reqs -> Local]
  /\ cleaner \in [Cleaners -> CleanerLocal]
  /\ nextPair \in 1..(MaxPairs + 1)
  /\ restarts \in 0..MaxRestarts
  /\ IsTable(delivered, Pairs,
             [access : Nat, refresh : Nat, secret : Secrets])

Init ==
  /\ now = 0
  /\ serverSecret \in Secrets
  /\ allowedEmails \in SUBSET Emails \ {{}}
  /\ mobile_devices = EmptyTable
  /\ access_sessions = EmptyTable
  /\ refresh_sessions = EmptyTable
  /\ audit_events = {}
  /\ req = [r \in Reqs |-> Idle]
  /\ cleaner = [c \in Cleaners |-> CleanerIdle]
  /\ nextPair = 1
  /\ restarts = 0
  /\ delivered = EmptyTable

-----------------------------------------------------------------------------
(* Statements of internal/db.                                              *)

GetAccessSession(hash) ==
  {k \in DOMAIN access_sessions : access_sessions[k].token_hash = hash}

GetRefreshSession(hash) ==
  {k \in DOMAIN refresh_sessions : refresh_sessions[k].token_hash = hash}

CreateAccessSession(k, device, at) ==
  access_sessions' = Insert(access_sessions, k,
    [device_id |-> device, token_hash |-> HashSecret(k),
     expires_at |-> Unix(at + AccessTTL), revoked |-> FALSE])

CreateRefreshSession(k, device, at) ==
  refresh_sessions' = Insert(refresh_sessions, k,
    [device_id |-> device, token_hash |-> HashSecret(k),
     parent_token_hash |-> NoHash, expires_at |-> Unix(at + RefreshTTL),
     revoked |-> FALSE, rotated |-> FALSE])

(* Mutant: the rotated-into session gets the lifetime of an access token.  *)
RotatedInto_AccessTTL(old, parent, k, at) ==
  [device_id |-> refresh_sessions[parent].device_id,
   token_hash |-> HashSecret(k), parent_token_hash |-> HashSecret(old),
   expires_at |-> Unix(at + AccessTTL), revoked |-> FALSE, rotated |-> FALSE]

(* The row RotateRefreshSession inserts for the pair k.                    *)
RotatedInto(old, parent, k, at) ==
  [device_id |-> refresh_sessions[parent].device_id,
   token_hash |-> HashSecret(k), parent_token_hash |-> HashSecret(old),
   expires_at |-> Unix(at + RefreshTTL), revoked |-> FALSE, rotated |-> FALSE]

(* Mutants: marking the old row clears revoked_at; the device is taken from *)
(* whichever row comes first.                                               *)
RotateRefreshSession_Revives(old, k, at) ==
  \E parent \in GetRefreshSession(HashSecret(old)) :
    refresh_sessions' =
      Insert([refresh_sessions EXCEPT ![old].rotated = TRUE,
                                      ![old].revoked = FALSE],
             k, RotatedInto(old, parent, k, at))

RotateRefreshSession_AnyDevice(old, k, at) ==
  \E parent \in DOMAIN refresh_sessions :
    refresh_sessions' = Insert([refresh_sessions EXCEPT ![old].rotated = TRUE],
                               k, RotatedInto(old, parent, k, at))

(* The transaction of RotateRefreshSession.  The UPDATE is not conditional *)
(* on rotated_at or revoked_at.  The new row takes its device from the row *)
(* that has the old token's hash; without one the NOT NULL constraint      *)
(* fails and the transaction is rolled back (RotateFails).                 *)
RotateRefreshSession(old, k, at) ==
  \E parent \in GetRefreshSession(HashSecret(old)) :
    refresh_sessions' = Insert([refresh_sessions EXCEPT ![old].rotated = TRUE],
                               k, RotatedInto(old, parent, k, at))

Revoked(table, device) ==
  [k \in DOMAIN table |-> IF table[k].device_id = device
                            THEN [table[k] EXCEPT !.revoked = TRUE]
                            ELSE table[k]]

RevokeAllSessionsForDevice(device) ==
  /\ refresh_sessions' = Revoked(refresh_sessions, device)
  /\ access_sessions' = Revoked(access_sessions, device)

(* Mutant: rows that were revoked are kept.                                *)
ExpiredRows_KeepRevoked(table, cutoff) ==
  {k \in DOMAIN table : table[k].expires_at < cutoff /\ ~table[k].revoked}

(* The rows one DELETE of CleanupExpired removes.                          *)
ExpiredRows(table, cutoff) ==
  {k \in DOMAIN table : table[k].expires_at < cutoff}

(* History: what RevokeMobileDevice has left behind.                       *)
DeviceRevoked(device) ==
  /\ device \in DOMAIN mobile_devices
  /\ mobile_devices[device].revoked

IsEmailAllowed(email) == email \in allowedEmails

(* Mutant: a revoked device still counts.                                  *)
DeviceActive_Exists(device) == device \in DOMAIN mobile_devices

(* "device != nil && device.RevokedAt == nil" on GetMobileDevice's answer. *)
DeviceActive(device) ==
  /\ device \in DOMAIN mobile_devices
  /\ ~mobile_devices[device].revoked

-----------------------------------------------------------------------------
Goto(r, pc) == req' = [req EXCEPT ![r].pc = pc]
Finish(r)   == req' = [req EXCEPT ![r] = Idle]

(* A handler that has looked up the token it was sent.                     *)
Found(pc, session, device) ==
  [pc |-> pc, session |-> session, device |-> device, new |-> 0, at |-> 0,
   barred |-> DeviceRevoked(device)]

(* Pairing, once GitHub has confirmed an allowed email: CreateMobileDevice,*)
(* GenerateTokenPair and time.Now(), then the two sessions, then the       *)
(* response.  What the handler does to device_authorizations in between is *)
(* in module DeviceFlow.                                                   *)
PairDevice(r, email) ==
  /\ req[r].pc = "idle"
  /\ nextPair \in Pairs
  /\ IsEmailAllowed(email)
  /\ mobile_devices' = Insert(mobile_devices, nextPair,
                              [email |-> email, revoked |-> FALSE])
  /\ req' = [req EXCEPT ![r] =
                [pc |-> "createAccess", session |-> 0, device |-> nextPair,
                 new |-> nextPair, at |-> now, barred |-> FALSE]]
  /\ nextPair' = nextPair + 1
  /\ UNCHANGED <<now, configVars, access_sessions, refresh_sessions,
                 audit_events, cleaner, restarts, delivered>>

PairCreateAccess(r) ==
  /\ req[r].pc = "createAccess"
  /\ CreateAccessSession(req[r].new, req[r].device, req[r].at)
  /\ Goto(r, "createRefresh")
  /\ UNCHANGED <<now, configVars, mobile_devices, refresh_sessions,
                 audit_events, cleaner, nextPair, restarts, delivered>>

PairCreateRefresh(r) ==
  /\ req[r].pc = "createRefresh"
  /\ CreateRefreshSession(req[r].new, req[r].device, req[r].at)
  /\ Goto(r, "respondPair")
  /\ UNCHANGED <<now, configVars, mobile_devices, access_sessions,
                 audit_events, cleaner, nextPair, restarts, delivered>>

(* The response carries both tokens and their expiry, formatted to the     *)
(* second.  It may be lost on the way.                                     *)
Respond(r) ==
  /\ req[r].pc \in {"respondPair", "respondRefresh"}
  /\ \/ delivered' = Insert(delivered, req[r].new,
                            [access  |-> Unix(req[r].at + AccessTTL),
                             refresh |-> Unix(req[r].at + RefreshTTL),
                             secret  |-> serverSecret])
     \/ UNCHANGED delivered
  /\ Finish(r)
  /\ UNCHANGED <<now, configVars, tableVars, audit_events, cleaner, nextPair,
                 restarts>>

-----------------------------------------------------------------------------
(* handleRefreshSession.  A client presents a token it was given, possibly *)
(* again, possibly twice at once.  The requests the handler rejects change *)
(* nothing and take no step.                                               *)
RefreshRead(r, k, Usable(_)) ==
  /\ req[r].pc = "idle"
  /\ k \in DOMAIN delivered
  /\ \E s \in GetRefreshSession(HashSecret(k)) :
       /\ Usable(refresh_sessions[s])
       /\ req' = [req EXCEPT ![r] =
                    Found("getDevice", s, refresh_sessions[s].device_id)]
  /\ UNCHANGED <<now, configVars, tableVars, audit_events, cleaner, nextPair,
                 restarts, delivered>>

(* Mutants: without the check of RotatedAt; without that of RevokedAt.     *)
RefreshGetSession_Reuse(r, k) ==
  RefreshRead(r, k, LAMBDA row : ~row.revoked /\ ~After(now, row.expires_at))

RefreshGetSession_Revoked(r, k) ==
  RefreshRead(r, k, LAMBDA row : ~row.rotated /\ ~After(now, row.expires_at))

RefreshGetSession(r, k) ==
  RefreshRead(r, k, LAMBDA row : /\ ~row.revoked
                                 /\ ~After(now, row.expires_at)
                                 /\ ~row.rotated)

RefreshGetDevice(r) ==
  /\ req[r].pc = "getDevice"
  /\ nextPair \in Pairs
  /\ DeviceActive(req[r].device)
  /\ req' = [req EXCEPT ![r] =
                [@ EXCEPT !.pc = "createNewAccess", !.new = nextPair,
                          !.at = now]]
  /\ nextPair' = nextPair + 1
  /\ UNCHANGED <<now, configVars, tableVars, audit_events, cleaner, restarts,
                 delivered>>

RefreshDeviceRejected(r) ==
  /\ req[r].pc = "getDevice"
  /\ ~DeviceActive(req[r].device)
  /\ Finish(r)
  /\ UNCHANGED <<now, configVars, tableVars, audit_events, cleaner, nextPair,
                 restarts, delivered>>

RefreshCreateAccess(r) ==
  /\ req[r].pc = "createNewAccess"
  /\ CreateAccessSession(req[r].new, req[r].device, req[r].at)
  /\ Goto(r, "rotate")
  /\ UNCHANGED <<now, configVars, mobile_devices, refresh_sessions,
                 audit_events, cleaner, nextPair, restarts, delivered>>

RefreshRotate(r) ==
  /\ req[r].pc = "rotate"
  /\ RotateRefreshSession(req[r].session, req[r].new, req[r].at)
  /\ Goto(r, "auditRefresh")
  /\ UNCHANGED <<now, configVars, mobile_devices, access_sessions,
                 audit_events, cleaner, nextPair, restarts, delivered>>

(* Mutant: device_id may be NULL, and the row is inserted.                 *)
RotateFails_NullDevice(r) ==
  /\ req[r].pc = "rotate"
  /\ GetRefreshSession(HashSecret(req[r].session)) = {}
  /\ refresh_sessions' = Insert(refresh_sessions, req[r].new,
       [device_id |-> 0, token_hash |-> HashSecret(req[r].new),
        parent_token_hash |-> HashSecret(req[r].session),
        expires_at |-> Unix(req[r].at + RefreshTTL),
        revoked |-> FALSE, rotated |-> FALSE])
  /\ Finish(r)
  /\ UNCHANGED <<now, configVars, mobile_devices, access_sessions,
                 audit_events, cleaner, nextPair, restarts, delivered>>

(* The old session was cleaned up since it was read: the INSERT fails, the *)
(* handler answers 500 and the access session it created stays behind.     *)
RotateFails(r) ==
  /\ req[r].pc = "rotate"
  /\ GetRefreshSession(HashSecret(req[r].session)) = {}
  /\ Finish(r)
  /\ UNCHANGED <<now, configVars, tableVars, audit_events, cleaner, nextPair,
                 restarts, delivered>>

RefreshAudit(r) ==
  /\ req[r].pc = "auditRefresh"
  /\ audit_events' = audit_events \cup
                       {<<"token_refreshed", req[r].device, req[r].new>>}
  /\ Goto(r, "respondRefresh")
  /\ UNCHANGED <<now, configVars, tableVars, cleaner, nextPair, restarts,
                 delivered>>

-----------------------------------------------------------------------------
(* handleRevokeCurrentSession accepts any access token that has a row,     *)
(* expired or revoked ones too.                                            *)
RevokeGetSession(r, k) ==
  /\ req[r].pc = "idle"
  /\ k \in DOMAIN delivered
  /\ \E s \in GetAccessSession(HashSecret(k)) :
       req' = [req EXCEPT ![r] =
                 Found("revokeAll", s, access_sessions[s].device_id)]
  /\ UNCHANGED <<now, configVars, tableVars, audit_events, cleaner, nextPair,
                 restarts, delivered>>

RevokeSessions(r) ==
  /\ req[r].pc = "revokeAll"
  /\ RevokeAllSessionsForDevice(req[r].device)
  /\ Goto(r, "auditRevoke")
  /\ UNCHANGED <<now, configVars, mobile_devices, audit_events, cleaner,
                 nextPair, restarts, delivered>>

RevokeAudit(r) ==
  /\ req[r].pc = "auditRevoke"
  /\ audit_events' = audit_events \cup
                       {<<"session_revoked", req[r].device, req[r].session>>}
  /\ Finish(r)
  /\ UNCHANGED <<now, configVars, tableVars, cleaner, nextPair, restarts,
                 delivered>>

-----------------------------------------------------------------------------
(* authenticateDevice, and the proxied exchange that follows it: while     *)
(* req[r].pc = "proxying" the Gateway is talking to the device under the   *)
(* device's email.                                                         *)
AuthenticateDevice(r, k) ==
  /\ req[r].pc = "idle"
  /\ k \in DOMAIN delivered
  /\ \E s \in GetAccessSession(HashSecret(k)) :
       /\ ~access_sessions[s].revoked
       /\ ~After(now, access_sessions[s].expires_at)
       /\ req' = [req EXCEPT ![r] =
                    Found("authDevice", s, access_sessions[s].device_id)]
  /\ UNCHANGED <<now, configVars, tableVars, audit_events, cleaner, nextPair,
                 restarts, delivered>>

AuthDeviceRejected(r) ==
  /\ req[r].pc = "authDevice"
  /\ ~DeviceActive(req[r].device)
  /\ Finish(r)
  /\ UNCHANGED <<now, configVars, tableVars, audit_events, cleaner, nextPair,
                 restarts, delivered>>

(* Mutant: the allow list is only consulted when a device is paired.       *)
AuthDevice_NoAllowList(r) ==
  /\ req[r].pc = "authDevice"
  /\ DeviceActive(req[r].device)
  /\ Goto(r, "proxying")
  /\ UNCHANGED <<now, configVars, tableVars, audit_events, cleaner, nextPair,
                 restarts, delivered>>

AuthDevice(r) ==
  /\ req[r].pc = "authDevice"
  /\ DeviceActive(req[r].device)
  /\ Goto(r, IF IsEmailAllowed(mobile_devices[req[r].device].email)
               THEN "proxying" ELSE "denyRevoke")
  /\ UNCHANGED <<now, configVars, tableVars, audit_events, cleaner, nextPair,
                 restarts, delivered>>

DenyRevoke(r) ==
  /\ req[r].pc = "denyRevoke"
  /\ RevokeAllSessionsForDevice(req[r].device)
  /\ Goto(r, "denyAudit")
  /\ UNCHANGED <<now, configVars, mobile_devices, audit_events, cleaner,
                 nextPair, restarts, delivered>>

DenyAudit(r) ==
  /\ req[r].pc = "denyAudit"
  /\ audit_events' = audit_events \cup
                       {<<"proxy_denied", req[r].device, req[r].session>>}
  /\ Finish(r)
  /\ UNCHANGED <<now, configVars, tableVars, cleaner, nextPair, restarts,
                 delivered>>

ProxyEnds(r) ==
  /\ req[r].pc = "proxying"
  /\ Finish(r)
  /\ UNCHANGED <<now, configVars, tableVars, audit_events, cleaner, nextPair,
                 restarts, delivered>>

-----------------------------------------------------------------------------
(* Mutant: a refresh that cannot be audited is answered with 500.          *)
DBError_AuditMatters(r) ==
  /\ Faults
  /\ \/ /\ req[r].pc \in {"createAccess", "createRefresh", "getDevice",
                          "createNewAccess", "rotate", "auditRefresh",
                          "revokeAll", "auditRevoke", "authDevice", "denyAudit"}
        /\ Finish(r)
     \/ /\ req[r].pc = "denyRevoke"
        /\ Goto(r, "denyAudit")
  /\ UNCHANGED <<now, configVars, tableVars, audit_events, cleaner, nextPair,
                 restarts, delivered>>

(* Mutant: a logout goes on to its audit event when the revocation failed. *)
DBError_RevokeIgnored(r) ==
  /\ Faults
  /\ \/ /\ req[r].pc \in {"createAccess", "createRefresh", "getDevice",
                          "createNewAccess", "rotate", "auditRevoke",
                          "authDevice", "denyAudit"}
        /\ Finish(r)
     \/ /\ req[r].pc = "auditRefresh"
        /\ Goto(r, "respondRefresh")
     \/ /\ req[r].pc = "revokeAll"
        /\ Goto(r, "auditRevoke")
     \/ /\ req[r].pc = "denyRevoke"
        /\ Goto(r, "denyAudit")
  /\ UNCHANGED <<now, configVars, tableVars, audit_events, cleaner, nextPair,
                 restarts, delivered>>

(* A database call returns an error.  Most calls end the request with 500; *)
(* the results of CreateAuditEvent and, when a request is denied, of       *)
(* RevokeAllSessionsForDevice are ignored and the handler goes on.         *)
DBError(r) ==
  /\ Faults
  /\ \/ /\ req[r].pc \in {"createAccess", "createRefresh", "getDevice",
                          "createNewAccess", "rotate", "revokeAll",
                          "auditRevoke", "authDevice", "denyAudit"}
        /\ Finish(r)
     \/ /\ req[r].pc = "auditRefresh"
        /\ Goto(r, "respondRefresh")
     \/ /\ req[r].pc = "denyRevoke"
        /\ Goto(r, "denyAudit")
  /\ UNCHANGED <<now, configVars, tableVars, audit_events, cleaner, nextPair,
                 restarts, delivered>>

(* CleanupExpired: the time is read once, then each table is purged by a   *)
(* statement of its own; the first error ends it.  (device_authorizations, *)
(* purged first, belong to module DeviceFlow.)                             *)
CleanupStart(c) ==
  /\ cleaner[c].pc = "idle"
  /\ cleaner' = [cleaner EXCEPT ![c] = [pc |-> "refresh", cutoff |-> Unix(now)]]
  /\ UNCHANGED <<now, configVars, tableVars, audit_events, req, nextPair,
                 restarts, delivered>>

CleanupRefresh(c) ==
  /\ cleaner[c].pc = "refresh"
  /\ refresh_sessions' =
       Delete(refresh_sessions, ExpiredRows(refresh_sessions, cleaner[c].cutoff))
  /\ cleaner' = [cleaner EXCEPT ![c].pc = "access"]
  /\ UNCHANGED <<now, configVars, mobile_devices, access_sessions,
                 audit_events, req, nextPair, restarts, delivered>>

CleanupAccess(c) ==
  /\ cleaner[c].pc = "access"
  /\ access_sessions' =
       Delete(access_sessions, ExpiredRows(access_sessions, cleaner[c].cutoff))
  /\ cleaner' = [cleaner EXCEPT ![c] = CleanerIdle]
  /\ UNCHANGED <<now, configVars, mobile_devices, refresh_sessions,
                 audit_events, req, nextPair, restarts, delivered>>

CleanupError(c) ==
  /\ Faults
  /\ cleaner[c].pc # "idle"
  /\ cleaner' = [cleaner EXCEPT ![c] = CleanerIdle]
  /\ UNCHANGED <<now, configVars, tableVars, audit_events, req, nextPair,
                 restarts, delivered>>

(* RevokeMobileDevice: device and sessions in one transaction.  internal/db*)
(* exports it; no route of the broker calls it.                            *)
RevokeMobileDevice(device) ==
  /\ OperatorRevokes
  /\ device \in DOMAIN mobile_devices
  /\ mobile_devices' = [mobile_devices EXCEPT ![device].revoked = TRUE]
  /\ RevokeAllSessionsForDevice(device)
  /\ UNCHANGED <<now, configVars, audit_events, req, cleaner, nextPair,
                 restarts, delivered>>

(* The process dies and is started again, with the configuration of the    *)
(* new pod (strategy Recreate: never two at a time).  Requests and proxied *)
(* connections are gone, the tables stay.  main runs CleanupExpired before *)
(* it listens and only logs its failure.                                   *)
Restart ==
  /\ restarts < MaxRestarts
  /\ restarts' = restarts + 1
  /\ serverSecret' \in Secrets
  /\ allowedEmails' \in SUBSET Emails \ {{}}
  /\ req' = [r \in Reqs |-> Idle]
  /\ cleaner' = [c \in Cleaners |-> CleanerIdle]
  /\ \/ /\ refresh_sessions' =
             Delete(refresh_sessions, ExpiredRows(refresh_sessions, Unix(now)))
        /\ access_sessions' =
             Delete(access_sessions, ExpiredRows(access_sessions, Unix(now)))
     \/ /\ Faults
        /\ UNCHANGED <<refresh_sessions, access_sessions>>
  /\ UNCHANGED <<now, mobile_devices, audit_events, nextPair, delivered>>

Tick ==
  /\ now < MaxNow
  /\ now' = now + 1
  /\ UNCHANGED <<configVars, tableVars, audit_events, req, cleaner, nextPair,
                 restarts, delivered>>

-----------------------------------------------------------------------------
Step(r) ==
  \/ PairCreateAccess(r) \/ PairCreateRefresh(r) \/ Respond(r)
  \/ RefreshGetDevice(r) \/ RefreshDeviceRejected(r) \/ RefreshCreateAccess(r)
  \/ RefreshRotate(r) \/ RotateFails(r) \/ RefreshAudit(r)
  \/ RevokeSessions(r) \/ RevokeAudit(r)
  \/ AuthDeviceRejected(r) \/ AuthDevice(r) \/ DenyRevoke(r) \/ DenyAudit(r)
  \/ ProxyEnds(r) \/ DBError(r)

Arrive(r) ==
  \/ \E email \in Emails : PairDevice(r, email)
  \/ \E k \in Pairs : \/ RefreshGetSession(r, k)
                      \/ RevokeGetSession(r, k)
                      \/ AuthenticateDevice(r, k)

Cleanup(c) == CleanupStart(c) \/ CleanupRefresh(c) \/ CleanupAccess(c)

Next ==
  \/ \E r \in Reqs : Arrive(r) \/ Step(r)
  \/ \E c \in Cleaners : Cleanup(c) \/ CleanupError(c)
  \/ \E device \in Devices : RevokeMobileDevice(device)
  \/ Restart
  \/ Tick

Spec == Init /\ [][Next]_vars

(* The ticker of main and the kubelet's readiness probe start CleanupExpired *)
(* for ever, and a statement of it that keeps being tried is not made to     *)
(* fail every time.  Nothing is assumed of the handlers or the clients.      *)
FairSpec ==
  /\ Spec
  /\ \A c \in Cleaners : /\ WF_vars(CleanupStart(c))
                         /\ SF_vars(CleanupRefresh(c))
                         /\ SF_vars(CleanupAccess(c))

-----------------------------------------------------------------------------
(* The two sessions of a pair belong to one device, and a rotated-into     *)
(* session to its parent's device, with the parent marked as rotated:      *)
(* handleRefreshSession creates the access session from the device it read *)
(* before, RotateRefreshSession looks the device up again.                 *)
SameDevice ==
  /\ \A k \in DOMAIN access_sessions \cap DOMAIN refresh_sessions :
       access_sessions[k].device_id = refresh_sessions[k].device_id
  /\ \A p, k \in DOMAIN refresh_sessions :
       refresh_sessions[k].parent_token_hash = refresh_sessions[p].token_hash
         => /\ refresh_sessions[k].device_id = refresh_sessions[p].device_id
            /\ refresh_sessions[p].rotated

Children(p) ==
  {k \in DOMAIN refresh_sessions :
     refresh_sessions[k].parent_token_hash = refresh_sessions[p].token_hash}

(* The check of RotatedAt and the unconditional UPDATE of                  *)
(* RotateRefreshSession are two calls apart, so one refresh token can be   *)
(* rotated more than once, but never more often than requests run at once. *)
ForkBound ==
  \A p \in DOMAIN refresh_sessions :
    Cardinality(Children(p)) <= Cardinality(Reqs)

(* README.md, Security: "Refresh tokens rotate on every use, with the old  *)
(* token being immediately invalidated": a refresh token is exchanged at   *)
(* most once.                                                              *)
RotationSingleUse ==
  \A p \in DOMAIN refresh_sessions : Cardinality(Children(p)) <= 1

(* A session of the device that a request arriving now could use.          *)
Usable(table, device) ==
  \E k \in DOMAIN table : /\ table[k].device_id = device
                          /\ ~table[k].revoked
                          /\ ~After(now, table[k].expires_at)

(* mobile-auth-broker/README.md: "DELETE /v1/sessions/current revokes the  *)
(* current device's sessions".  Pairing always makes a new device, so once *)
(* the revocation is on record no session of the device is usable again.   *)
LogoutIsFinal ==
  \A event \in audit_events :
    event[1] = "session_revoked" =>
      /\ ~Usable(access_sessions, event[2])
      /\ ~Usable(refresh_sessions, event[2])

(* The same for a device denied because its email left the allow list: it  *)
(* stays out even if the email is allowed again.                           *)
RevocationIsFinal ==
  \A event \in audit_events :
    event[1] \in {"session_revoked", "proxy_denied"} =>
      /\ ~Usable(access_sessions, event[2])
      /\ ~Usable(refresh_sessions, event[2])

(* The audit trail does not run ahead of the tables: a recorded revocation *)
(* has revoked the session it names, and a recorded refresh names a        *)
(* session that was rotated into.                                          *)
AuditTruthful ==
  \A event \in audit_events :
    LET device == event[2]
        k      == event[3]
    IN  /\ event[1] = "session_revoked" /\ k \in DOMAIN access_sessions
             => /\ access_sessions[k].device_id = device
                /\ access_sessions[k].revoked
        /\ event[1] = "token_refreshed" /\ k \in DOMAIN refresh_sessions
             => /\ refresh_sessions[k].device_id = device
                /\ refresh_sessions[k].parent_token_hash # NoHash

(* A response is only sent once both sessions are stored, and CleanupExpired *)
(* never takes a session away before the expiry the client was told, however *)
(* ticks are truncated to seconds.                                           *)
DeliveredHonoured ==
  \A k \in DOMAIN delivered :
    /\ ~After(now, delivered[k].access) =>
         /\ k \in DOMAIN access_sessions
         /\ access_sessions[k].expires_at = delivered[k].access
    /\ ~After(now, delivered[k].refresh) =>
         /\ k \in DOMAIN refresh_sessions
         /\ refresh_sessions[k].expires_at = delivered[k].refresh

(* Whatever tokens were handed out earlier, the Gateway only ever talks to *)
(* a device whose email the running configuration allows.  The gate is the *)
(* only place to stop a device whose email has left the list:              *)
(* handleRefreshSession, which does not look at the list, goes on giving   *)
(* it new token pairs.                                                     *)
ForwardsAllowed ==
  \A r \in Reqs :
    req[r].pc = "proxying" =>
      IsEmailAllowed(mobile_devices[req[r].device].email)

(* Changing SERVER_SECRET invalidates every token handed out before: a     *)
(* handler that got past its token lookup holds a token that was issued    *)
(* under the running secret.                                               *)
SecretRotationLocksOut ==
  \A r \in Reqs :
    req[r].session # 0 => delivered[req[r].session].secret = serverSecret

(* RevokeMobileDevice can be overtaken by a refresh in flight that creates *)
(* usable sessions of the revoked device; a request that presents one of   *)
(* them reaches neither the Gateway nor a new token pair: it can only be   *)
(* rejected, or log the device out.                                        *)
BarredStayOut ==
  \A r \in Reqs :
    req[r].barred => req[r].pc \in {"getDevice", "authDevice", "revokeAll",
                                    "auditRevoke"}

(* old and new are the contents of a session table before and after a step.*)
OnlyAges(old, new) ==
  \A k \in DOMAIN old :
    \/ /\ k \in DOMAIN new
       /\ new[k].device_id = old[k].device_id
       /\ new[k].token_hash = old[k].token_hash
       /\ new[k].expires_at = old[k].expires_at
       /\ old[k].revoked => new[k].revoked
    \/ /\ k \notin DOMAIN new
       /\ After(now, old[k].expires_at)

(* No interleaving brings a session back: it keeps its identity and its    *)
(* expiry, a revocation or a rotation is never undone, and it is deleted   *)
(* only once it has expired.                                               *)
SessionsOnlyAge ==
  [][/\ OnlyAges(access_sessions, access_sessions')
     /\ OnlyAges(refresh_sessions, refresh_sessions')
     /\ \A k \in DOMAIN refresh_sessions \cap DOMAIN refresh_sessions' :
          refresh_sessions[k].rotated => refresh_sessions'[k].rotated]_vars

(* handleRefreshSession spends the client's only refresh token before it   *)
(* answers.  Only RotateRefreshSession spends one, together with storing   *)
(* its successor, and the request then goes on to answer with that         *)
(* successor, whatever call fails after it: the client is left without a   *)
(* token only by a response lost on the way or by the end of the process.  *)
RotationAnswered ==
  [][/\ \A k \in DOMAIN refresh_sessions \cap DOMAIN refresh_sessions' :
          refresh_sessions'[k].rotated /\ ~refresh_sessions[k].rotated
            => \E r \in Reqs :
                 /\ req'[r].pc = "auditRefresh" /\ req'[r].session = k
                 /\ req'[r].new \in DOMAIN refresh_sessions'
     /\ \A r \in Reqs :
          req[r].pc = "auditRefresh" /\ req'[r] # req[r] /\ restarts' = restarts
            => req'[r] = [req[r] EXCEPT !.pc = "respondRefresh"]]_vars

(* The calls before which a handler may still store a session of its       *)
(* device or let it through to the Gateway.                                *)
Holding == {"createAccess", "createRefresh", "getDevice", "createNewAccess",
            "rotate", "authDevice"}

Admitted ==
  {d \in DOMAIN mobile_devices :
     \/ Usable(access_sessions, d) \/ Usable(refresh_sessions, d)
     \/ \E r \in Reqs : req[r].pc \in Holding /\ req[r].device = d}

Connected == {req[r].device : r \in {q \in Reqs : req[q].pc = "proxying"}}

(* LogoutIsFinal fails because a refresh in flight overtakes a logout.     *)
(* Nothing else brings a device back, at any concurrency: once it has no   *)
(* usable session and no request that found one is under way, it never     *)
(* gets a session and never reaches the Gateway again.                     *)
Access == INSTANCE DeviceAccess
          WITH paired <- DOMAIN mobile_devices, admitted <- Admitted,
               connected <- Connected
ImplementsDeviceAccess == Access!Spec

IsExpired(table, k) ==
  k \in DOMAIN table /\ table[k].expires_at < Unix(now)

(* Every expired session is eventually deleted by CleanupExpired, although *)
(* a slow handler may still insert one after its expiry and every cleanup  *)
(* may be cut short by an error or a crash.                                *)
ExpiredPurged ==
  \A k \in Pairs :
    /\ IsExpired(access_sessions, k) ~> k \notin DOMAIN access_sessions
    /\ IsExpired(refresh_sessions, k) ~> k \notin DOMAIN refresh_sessions
=============================================================================
