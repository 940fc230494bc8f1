----------------------------- MODULE DeviceFlow -----------------------------
(***************************************************************************)
(* The GitHub Device Flow of mobile-auth-broker: table                     *)
(* device_authorizations, the handlers that create and poll a transaction, *)
(* the client of GitHub's API they use, and CleanupExpired's part of the   *)
(* table.  A poll is a goroutine; what it still has to do is the sequence  *)
(* req[r].todo of calls, and other requests run between any two of them.   *)
(* Pairing ends with CreateMobileDevice, CreateAccessSession and           *)
(* CreateRefreshSession; stored[tx] says which of the three rows were      *)
(* inserted for a transaction (module Sessions is about those rows).       *)
(* GitHub is external: a device code turns into one token, once.           *)
(***************************************************************************)
EXTENDS Integers, Sequences, FiniteSets, Rows

CONSTANTS
  Reqs,         \* requests that can be in a handler at the same time
  Txns, NoTx,   \* transaction ids; not a transaction id
  Emails,       \* GitHub primary verified emails
  NoEmail,      \* account without a primary verified email
  Secrets,      \* values SERVER_SECRET takes
  ExpiresIn,    \* lifetime of a GitHub device code, in seconds
  MaxInterval,  \* bound: largest poll interval, in steps of 5 seconds
  MaxNow,       \* bound: last second of the clock
  MaxRestarts,  \* bound: crashes of the process
  Faults,       \* whether a database call may fail
  Cleaning      \* whether CleanupExpired runs beside the requests

ASSUME DeviceFlowAssumption ==
  /\ NoTx \notin Txns /\ NoEmail \notin Emails
  /\ ExpiresIn \in Nat /\ MaxInterval \in Nat \ {0}
  /\ MaxNow \in Nat /\ MaxRestarts \in Nat
  /\ Faults \in BOOLEAN /\ Cleaning \in BOOLEAN

VARIABLES
  now,                    \* the clock, in seconds
  serverSecret,           \* Config.ServerSecret of the running process
  allowedEmails,          \* Config.AllowedEmails of the running process
  device_authorizations,  \* tx -> [status, consumed, expires_at,
                          \*        poll_after_seconds, encrypted_under]
  stored,                 \* tx -> rows inserted by its pairing
  audit_events,           \* set of <<event_code, tx>>
  github,                 \* tx -> [state, email] of the device code
  tokens,                 \* tx -> fate of the GitHub token of the code
  req,                    \* request -> local variables of its handler
  answers,                \* tx -> what its client was told, but for "go on"
  restarts                \* crashes so far

configVars == <<serverSecret, allowedEmails>>
githubVars == <<github, tokens>>
vars == <<now, serverSecret, allowedEmails, device_authorizations, stored,
          audit_events, github, tokens, req, answers, restarts>>

-----------------------------------------------------------------------------
Terminal == {"approved", "denied", "forbidden", "expired"}
Statuses == Terminal \cup {"pending", "slow_down"}

(* "created" is the answer to the creation, "consumed" is forbidden with   *)
(* the error already_consumed.                                             *)
Answers == Statuses \cup {"created", "consumed", "not_found", "server_error"}

(* Answers after which a client has nothing to poll for; only these are    *)
(* remembered.                                                             *)
Final    == Terminal \cup {"consumed", "not_found"}
RowKinds == {"device", "access", "refresh"}
EventCodes == {"device_flow_denied", "device_flow_forbidden",
               "device_flow_approved"}

AuthRow == [status : Statuses, consumed : BOOLEAN, expires_at : Nat,
            poll_after_seconds : 1..MaxInterval, encrypted_under : Secrets]

(* The device code is stored under AES-GCM: of the ciphertext only the key *)
(* matters, and Decrypt fails under any other.                             *)
Encrypt       == serverSecret
Decrypts(key) == key = serverSecret

(* Calls a handler has ahead of it.                                        *)
Poll          == <<"poll", "">>
UserEmails    == <<"emails", "">>
RevokeToken   == <<"revoke", "">>
MarkConsumed  == <<"consume", "">>
Store(kind)   == <<"store", kind>>
Update(s)     == <<"update", s>>
Interval(i)   == <<"interval", i>>
Audit(code)   == <<"audit", code>>
Answer(s)     == <<"answer", s>>
Insertion     == <<"insert", "">>

(* The branches of handleGetDeviceAuthorization, as the calls they make.   *)
Expire       == <<Update("expired"), Answer("expired")>>
SlowDown(i)  == <<Interval(i), Answer("slow_down")>>
EmailsFailed == <<RevokeToken, Update("denied"), Answer("denied")>>
NoPrimary    == <<RevokeToken, Update("denied"), Audit("device_flow_denied"),
                  Answer("denied")>>
NotAllowed   == <<RevokeToken, Update("forbidden"),
                  Audit("device_flow_forbidden"), Answer("forbidden")>>
StoreFailed  == <<RevokeToken, Answer("server_error")>>

(* Mutant: the transaction is approved before the rows are stored.         *)
Approve_First == <<Update("approved"), MarkConsumed, Store("device"),
                   Store("access"), Store("refresh"),
                   Audit("device_flow_approved"), RevokeToken,
                   Answer("approved")>>

Approve      == <<Store("device"), Store("access"), Store("refresh"),
                  Update("approved"), MarkConsumed,
                  Audit("device_flow_approved"), RevokeToken,
                  Answer("approved")>>

Calls == {Poll, UserEmails, RevokeToken, MarkConsumed, Insertion}
           \cup {Store(kind) : kind \in RowKinds}
           \cup {Update(s) : s \in Terminal}
           \cup {Interval(i) : i \in 1..MaxInterval}
           \cup {Audit(code) : code \in EventCodes}
           \cup {Answer(s) : s \in Answers}

(* Local variables of a handler: its transaction, the columns status and   *)
(* poll_after_seconds as it read them, and the calls ahead.                *)
Local == [tx : Txns \cup {NoTx}, status : Statuses, poll_after : 1..MaxInterval,
          at : Nat, todo : Seq(Calls)]
Idle  == [tx |-> NoTx, status |-> "pending", poll_after |-> 1, at |-> 0,
          todo |-> <<>>]

GitHubStates == {"none", "pending", "approved", "refused", "used"}
TokenStates  == {"none", "held", "revoke_sent", "lost"}

TypeOK ==
  /\ now \in 0..MaxNow
  /\ serverSecret \in Secrets
  /\ allowedEmails \in SUBSET Emails
  /\ IsTable(device_authorizations, Txns, AuthRow)
  /\ stored \in [Txns -> SUBSET RowKinds]
  /\ audit_events \in SUBSET (EventCodes \X Txns)
  /\ github \in [Txns -> [state : GitHubStates, email : Emails \cup {NoEmail}]]
  /\ tokens \in [Txns -> TokenStates]
  /\ req \in [Reqs -> Local]
  /\ answers \in [Txns -> SUBSET Answers]
  /\ restarts \in 0..MaxRestarts

Init ==
  /\ now = 0
  /\ serverSecret \in Secrets
  /\ allowedEmails \in SUBSET Emails \ {{}}
  /\ device_authorizations = EmptyTable
  /\ stored = [tx \in Txns |-> {}]
  /\ audit_events = {}
  /\ github = [tx \in Txns |-> [state |-> "none", email |-> NoEmail]]
  /\ tokens = [tx \in Txns |-> "none"]
  /\ req = [r \in Reqs |-> Idle]
  /\ answers = [tx \in Txns |-> {}]
  /\ restarts = 0

-----------------------------------------------------------------------------
(* Statements of internal/db on device_authorizations: an UPDATE of a row  *)
(* that is gone changes nothing.                                           *)
UpdateRow(tx, New(_)) ==
  device_authorizations' =
    [t \in DOMAIN device_authorizations |->
       IF t = tx THEN New(device_authorizations[t])
                 ELSE device_authorizations[t]]

(* Mutants: every status but approved clears consumed_at; a row that is    *)
(* gone is inserted again, with the column defaults.                       *)
UpdateDeviceAuthorizationStatus_Clears(tx, status) ==
  UpdateRow(tx, LAMBDA row : [row EXCEPT !.status = status,
                                         !.consumed = (status = "approved")])

UpdateDeviceAuthorizationStatus_Upsert(tx, status) ==
  device_authorizations' = Insert(device_authorizations, tx,
    IF tx \in DOMAIN device_authorizations
      THEN [device_authorizations[tx] EXCEPT !.status = status]
      ELSE [status |-> status, consumed |-> FALSE, expires_at |-> 0,
            poll_after_seconds |-> 0, encrypted_under |-> serverSecret])

UpdateDeviceAuthorizationStatus(tx, status) ==
  UpdateRow(tx, LAMBDA row : [row EXCEPT !.status = status,
                                         !.consumed = @ \/ status = "approved"])

(* Sets status to slow_down whatever it was.                               *)
UpdateDeviceAuthorizationPollInterval(tx, i) ==
  UpdateRow(tx, LAMBDA row : [row EXCEPT !.poll_after_seconds = i,
                                         !.status = "slow_down"])

MarkDeviceAuthorizationConsumed(tx) ==
  UpdateRow(tx, LAMBDA row : [row EXCEPT !.consumed = TRUE])

(* "DELETE ... WHERE expires_at < ? AND status != 'approved'".             *)
CleanedUp(cutoff) ==
  Delete(device_authorizations,
         {tx \in DOMAIN device_authorizations :
            /\ device_authorizations[tx].expires_at < cutoff
            /\ device_authorizations[tx].status # "approved"})

Ahead(r) == req[r].todo # <<>>
Call(r)  == Head(req[r].todo)[1]
Arg(r)   == Head(req[r].todo)[2]

(* The handler goes on with its next call; or takes a branch.              *)
Return(r)       == req' = [req EXCEPT ![r].todo = Tail(@)]
Take(r, branch) == req' = [req EXCEPT ![r].todo = branch]

-----------------------------------------------------------------------------
(* handleCreateDeviceAuthorization: a device code from GitHub, then the    *)
(* row.  If that fails there is nothing for the client to poll.  Bound: no *)
(* transaction starts too late to expire before the clock stops.           *)
RequestDeviceAuthorization(r, tx) ==
  /\ ~Ahead(r)
  /\ now + ExpiresIn < MaxNow
  /\ github[tx].state = "none"
  /\ github' = [github EXCEPT ![tx].state = "pending"]
  /\ req' = [req EXCEPT ![r] = [Idle EXCEPT !.tx = tx, !.at = now,
                                            !.todo = <<Insertion>>]]
  /\ UNCHANGED <<now, configVars, device_authorizations, stored, audit_events,
                 tokens, answers, restarts>>

CreateDeviceAuthorization(r) ==
  /\ Ahead(r) /\ Call(r) = "insert"
  /\ \/ /\ device_authorizations' = Insert(device_authorizations, req[r].tx,
             [status |-> "pending", consumed |-> FALSE,
              expires_at |-> req[r].at + ExpiresIn, poll_after_seconds |-> 1,
              encrypted_under |-> Encrypt])
        /\ answers' = [answers EXCEPT ![req[r].tx] = @ \cup {"created"}]
     \/ Faults /\ UNCHANGED <<device_authorizations, answers>>
  /\ req' = [req EXCEPT ![r] = Idle]
  /\ UNCHANGED <<now, configVars, stored, audit_events, githubVars, restarts>>

(* The user at github.com/login/device.                                    *)
UserDecides(tx) ==
  /\ github[tx].state = "pending"
  /\ \/ \E email \in Emails \cup {NoEmail} :
          github' = [github EXCEPT ![tx] = [state |-> "approved",
                                            email |-> email]]
     \/ github' = [github EXCEPT ![tx].state = "refused"]
  /\ UNCHANGED <<now, configVars, device_authorizations, stored, audit_events,
                 tokens, req, answers, restarts>>

-----------------------------------------------------------------------------
(* handleGetDeviceAuthorization up to its first call: the branch it takes  *)
(* is decided by the row it has read.  The checks are in the code's order. *)
(* Mutant: the expiry is left to CleanupExpired.                           *)
Branch_NoExpiry(row) ==
  IF row.consumed THEN <<Answer("consumed")>>
  ELSE IF row.status \in {"denied", "forbidden"} THEN <<Answer(row.status)>>
  ELSE IF ~Decrypts(row.encrypted_under) THEN <<Answer("server_error")>>
  ELSE <<Poll>>

Branch(row) ==
  IF row.consumed THEN <<Answer("consumed")>>
  ELSE IF now > row.expires_at THEN Expire
  ELSE IF row.status \in {"denied", "forbidden"} THEN <<Answer(row.status)>>
  ELSE IF row.status \notin {"pending", "slow_down"}
    THEN <<Answer(row.status)>>
  ELSE IF ~Decrypts(row.encrypted_under)
    THEN <<Answer("server_error")>>
  ELSE <<Poll>>

GetDeviceAuthorization(r, tx) ==
  /\ ~Ahead(r)
  /\ "created" \in answers[tx]         \* the client was given the id
  /\ IF tx \in DOMAIN device_authorizations
       THEN LET row == device_authorizations[tx]
            IN  req' = [req EXCEPT ![r] =
                          [Idle EXCEPT !.tx = tx, !.status = row.status,
                                       !.poll_after = row.poll_after_seconds,
                                       !.todo = Branch(row)]]
       ELSE req' = [req EXCEPT ![r] =
                      [Idle EXCEPT !.tx = tx,
                                   !.todo = <<Answer("not_found")>>]]
  /\ UNCHANGED <<now, configVars, device_authorizations, stored, audit_events,
                 githubVars, answers, restarts>>

(* "if interval <= 0 { interval = 5 }" on the interval GitHub names.       *)
SlowDownInterval(i) == IF i <= 0 THEN 1 ELSE i

(* PollDeviceAuthorization returns: nothing yet; slow_down with an         *)
(* interval; or an error, which is "non-fatal":                            *)
(* the status read before is answered.  A refused, used up or expired code *)
(* is such an error, and so is an answer of GitHub that never arrives.     *)
PollNoToken(r) ==
  /\ Ahead(r) /\ Call(r) = "poll"
  /\ \/ /\ github[req[r].tx].state = "pending"
        /\ \/ Take(r, <<Answer(req[r].status)>>)
           \/ \E i \in {SlowDownInterval(n) : n \in 0..MaxInterval} :
                Take(r, IF i > req[r].poll_after
                          THEN SlowDown(i) ELSE <<Answer("slow_down")>>)
        /\ UNCHANGED githubVars
     \/ /\ Take(r, <<Answer(req[r].status)>>)
        /\ \/ UNCHANGED githubVars
           \/ /\ github[req[r].tx].state = "approved"
              /\ github' = [github EXCEPT ![req[r].tx].state = "used"]
              /\ tokens' = [tokens EXCEPT ![req[r].tx] = "lost"]
  /\ UNCHANGED <<now, configVars, device_authorizations, stored, audit_events,
                 answers, restarts>>

PollToken(r) ==
  /\ Ahead(r) /\ Call(r) = "poll"
  /\ github[req[r].tx].state = "approved"
  /\ github' = [github EXCEPT ![req[r].tx].state = "used"]
  /\ tokens' = [tokens EXCEPT ![req[r].tx] = "held"]
  /\ Take(r, <<UserEmails>>)
  /\ UNCHANGED <<now, configVars, device_authorizations, stored, audit_events,
                 answers, restarts>>

(* GetUserEmails, the primary verified email and the allow list.           *)
GetUserEmails(r) ==
  /\ Ahead(r) /\ Call(r) = "emails"
  /\ LET email == github[req[r].tx].email
     IN  \/ Take(r, EmailsFailed)
         \/ Take(r, IF email = NoEmail THEN NoPrimary
                    ELSE IF email \notin allowedEmails THEN NotAllowed
                    ELSE Approve)
  /\ UNCHANGED <<now, configVars, device_authorizations, stored, audit_events,
                 githubVars, answers, restarts>>

(* RevokeToken's result is ignored.                                        *)
GitHubRevokeToken(r) ==
  /\ Ahead(r) /\ Call(r) = "revoke"
  /\ tokens' = [tokens EXCEPT ![req[r].tx] = "revoke_sent"]
  /\ Return(r)
  /\ UNCHANGED <<now, configVars, device_authorizations, stored, audit_events,
                 github, answers, restarts>>

(* Mutant: on an error the handler returns without revoking the token.     *)
StoreRow_Leaks(r) ==
  /\ Ahead(r) /\ Call(r) = "store"
  /\ \/ /\ stored' = [stored EXCEPT ![req[r].tx] = @ \cup {Arg(r)}]
        /\ Return(r)
     \/ /\ Faults
        /\ Take(r, <<Answer("server_error")>>)
        /\ UNCHANGED stored
  /\ UNCHANGED <<now, configVars, device_authorizations, audit_events,
                 githubVars, answers, restarts>>

(* CreateMobileDevice, CreateAccessSession, CreateRefreshSession.          *)
StoreRow(r) ==
  /\ Ahead(r) /\ Call(r) = "store"
  /\ \/ /\ stored' = [stored EXCEPT ![req[r].tx] = @ \cup {Arg(r)}]
        /\ Return(r)
     \/ /\ Faults
        /\ Take(r, StoreFailed)
        /\ UNCHANGED stored
  /\ UNCHANGED <<now, configVars, device_authorizations, audit_events,
                 githubVars, answers, restarts>>

(* Errors of these calls are ignored.                                      *)
WriteStatus(r) ==
  /\ Ahead(r) /\ Call(r) \in {"update", "interval", "consume"}
  /\ \/ /\ Call(r) = "update"
        /\ UpdateDeviceAuthorizationStatus(req[r].tx, Arg(r))
     \/ /\ Call(r) = "interval"
        /\ UpdateDeviceAuthorizationPollInterval(req[r].tx, Arg(r))
     \/ /\ Call(r) = "consume"
        /\ MarkDeviceAuthorizationConsumed(req[r].tx)
     \/ /\ Faults
        /\ UNCHANGED device_authorizations
  /\ Return(r)
  /\ UNCHANGED <<now, configVars, stored, audit_events, githubVars, answers,
                 restarts>>

CreateAuditEvent(r) ==
  /\ Ahead(r) /\ Call(r) = "audit"
  /\ \/ audit_events' = audit_events \cup {<<Arg(r), req[r].tx>>}
     \/ Faults /\ UNCHANGED audit_events
  /\ Return(r)
  /\ UNCHANGED <<now, configVars, device_authorizations, stored, githubVars,
                 answers, restarts>>

Respond(r) ==
  /\ Ahead(r) /\ Call(r) = "answer"
  /\ answers' = [answers EXCEPT ![req[r].tx] = @ \cup ({Arg(r)} \cap Final)]
  /\ req' = [req EXCEPT ![r] = Idle]
  /\ UNCHANGED <<now, configVars, device_authorizations, stored, audit_events,
                 githubVars, restarts>>

-----------------------------------------------------------------------------
(* The DELETE may come any time after CleanupExpired read the clock.       *)
CleanupExpired ==
  /\ Cleaning
  /\ \E cutoff \in 0..now : device_authorizations' = CleanedUp(cutoff)
  /\ UNCHANGED <<now, configVars, stored, audit_events, githubVars, req,
                 answers, restarts>>

(* The process dies and starts again with the configuration of the new     *)
(* pod; the GitHub tokens its requests held are gone with them.            *)
Restart ==
  /\ restarts < MaxRestarts
  /\ restarts' = restarts + 1
  /\ serverSecret' \in Secrets
  /\ allowedEmails' \in SUBSET Emails \ {{}}
  /\ req' = [r \in Reqs |-> Idle]
  /\ tokens' = [tx \in Txns |-> IF tokens[tx] = "held" THEN "lost"
                                                       ELSE tokens[tx]]
  /\ \/ device_authorizations' = CleanedUp(now)
     \/ Faults /\ UNCHANGED device_authorizations
  /\ UNCHANGED <<now, stored, audit_events, github, answers>>

Tick ==
  /\ now < MaxNow
  /\ now' = now + 1
  /\ UNCHANGED <<configVars, device_authorizations, stored, audit_events,
                 githubVars, req, answers, restarts>>

-----------------------------------------------------------------------------
Step(r) ==
  \/ CreateDeviceAuthorization(r)
  \/ PollNoToken(r) \/ PollToken(r) \/ GetUserEmails(r)
  \/ GitHubRevokeToken(r) \/ StoreRow(r) \/ WriteStatus(r)
  \/ CreateAuditEvent(r) \/ Respond(r)

Next ==
  \/ \E r \in Reqs : Step(r)
  \/ \E r \in Reqs, tx \in Txns : \/ RequestDeviceAuthorization(r, tx)
                                  \/ GetDeviceAuthorization(r, tx)
  \/ \E tx \in Txns : UserDecides(tx)
  \/ CleanupExpired \/ Restart \/ Tick

Spec == Init /\ [][Next]_vars

(* A handler that has started is scheduled until it returns (every call to *)
(* GitHub has the client's timeout), the clock advances, and the client of *)
(* a transaction goes on polling it whenever a handler is free.  Nothing   *)
(* is assumed of the user or of GitHub.                                    *)
FairSpec ==
  /\ Spec
  /\ WF_vars(Tick)
  /\ \A r \in Reqs : WF_vars(Step(r))
  /\ \A tx \in Txns : SF_vars(\E r \in Reqs : GetDeviceAuthorization(r, tx))

-----------------------------------------------------------------------------
(* A transaction is never reported or recorded as approved before the      *)
(* device and both of its sessions are stored, whichever of the calls      *)
(* failed and wherever the process died: no client holds tokens without    *)
(* rows, and no transaction is used up for nothing.                        *)
ApprovedIsComplete ==
  \A tx \in Txns :
    \/ stored[tx] = RowKinds
    \/ /\ answers[tx] \cap {"approved", "consumed"} = {}
       /\ <<"device_flow_approved", tx>> \notin audit_events
       /\ tx \in DOMAIN device_authorizations =>
            /\ ~device_authorizations[tx].consumed
            /\ device_authorizations[tx].status # "approved"

(* A GitHub token the broker was given is revoked on every path, the error *)
(* paths too: as long as no revocation was sent, a running request is      *)
(* still going to send it.  (A token is lost with the process that held it *)
(* or with an answer of GitHub that never arrived.)                        *)
TokenNotForgotten ==
  \A tx \in Txns :
    tokens[tx] = "held" =>
      \E r \in Reqs :
        /\ req[r].tx = tx
        /\ \E i \in DOMAIN req[r].todo :
             req[r].todo[i] \in {UserEmails, RevokeToken}

(* Late writes of other polls of the transaction (expired, slow_down) do   *)
(* not reopen it: once consumed it stays consumed and pairs nothing more.  *)
ConsumedIsFinal ==
  [][\A tx \in DOMAIN device_authorizations :
       device_authorizations[tx].consumed =>
         /\ stored'[tx] = stored[tx]
         /\ tx \in DOMAIN device_authorizations' =>
              device_authorizations'[tx].consumed]_vars

(* The client that goes on polling is told in the end: a terminal status,  *)
(* or that the transaction is gone.                                        *)
Settled ==
  \A tx \in Txns :
    "created" \in answers[tx] ~> answers[tx] \cap Final # {}

(* README.md calls approved, denied, forbidden and expired the terminal    *)
(* statuses of a transaction: once the row says denied or forbidden, which *)
(* the handler takes to mean that GitHub need not be asked again, it does  *)
(* not go back to a status that makes the handler ask.                     *)
TerminalStatusStays ==
  [][\A tx \in DOMAIN device_authorizations
                 \cap DOMAIN device_authorizations' :
       device_authorizations[tx].status \in {"denied", "forbidden"} =>
         device_authorizations'[tx].status \in Terminal]_vars
=============================================================================
