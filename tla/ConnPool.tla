------------------------------ MODULE ConnPool ------------------------------
(***************************************************************************)
(* internal/db on database/sql with SetMaxOpenConns(1).  A method of DB    *)
(* checks the only connection out of the pool, runs its statements and     *)
(* puts the connection back; a method that finds it taken waits, without a *)
(* timeout (no context is passed).  The methods differ in the statements   *)
(* they run and in what their caller does with an error, so a handler is   *)
(* the sequence of methods it calls.  The autocommitted statement of an    *)
(* Exec is a transaction of one statement; a QueryRow has none to commit,  *)
(* and neither have the Rows of a Query, which give the connection back    *)
(* when Next has returned false.  database/sql and SQLite are external.    *)
(***************************************************************************)
EXTENDS Naturals, Sequences, FiniteSets

CONSTANTS
  Goroutines,  \* requests in a handler, and main's cleanup ticker
  Served,      \* names of the handlers that requests arrive for
  Nobody,      \* not a goroutine: the connection is in the pool
  OuterTx      \* not a goroutine: a transaction of DB.BeginTx has it

ASSUME ConnPoolAssumption ==
  /\ Nobody \notin Goroutines /\ OuterTx \notin Goroutines /\ Nobody # OuterTx
  /\ Served \subseteq {"refresh", "revoke", "proxied", "denied", "pairing",
                       "create", "cleanup", "sessions", "events", "pending",
                       "operator"}

VARIABLES
  conn,     \* who has the connection
  waiting,  \* goroutines in the pool's connRequests
  calls,    \* goroutine -> methods its handler has ahead of it
  dirty,    \* statements of the transaction open on the connection
  disk      \* goroutine -> writes of its current or last request in the file

vars == <<conn, waiting, calls, dirty, disk>>

-----------------------------------------------------------------------------
(* A method: its name, the statements that write, and whether its caller   *)
(* ends with 500 when it fails ("must") or drops the error ("try").        *)
Must(id, n) == [name |-> id, writes |-> n, error |-> "must"]
Try(id, n)  == [name |-> id, writes |-> n, error |-> "try"]

GetRefreshSession == Must("GetRefreshSession", 0)
GetAccessSession  == Must("GetAccessSession", 0)
GetMobileDevice   == Must("GetMobileDevice", 0)
GetDeviceAuth     == Must("GetDeviceAuthorization", 0)
CreateDeviceAuth  == Must("CreateDeviceAuthorization", 1)
CreateDevice      == Must("CreateMobileDevice", 1)
CreateAccess      == Must("CreateAccessSession", 1)
CreateRefresh     == Must("CreateRefreshSession", 1)
LastSeen          == Try("UpdateMobileDeviceLastSeen", 1)
CreateAuditEvent  == Try("CreateAuditEvent", 1)
RotateRefreshSession == Must("RotateRefreshSession", 2)
RevokeAllSessionsForDevice == Must("RevokeAllSessionsForDevice", 2)
RevokeMobileDevice == Must("RevokeMobileDevice", 3)

(* CleanupExpired is three methods in this sense: its DELETEs are not in   *)
(* a transaction.                                                          *)
CleanupExpired == <<Must("CleanupAuthorizations", 1),
                    Must("CleanupRefresh", 1), Must("CleanupAccess", 1)>>

(* Two Query calls, one after the other: the connection is taken twice.    *)
GetDeviceSessions == <<Must("AccessRows", 0), Must("RefreshRows", 0)>>

(* Queries for an operator, which no handler calls.                        *)
GetAuditEvents == Must("GetAuditEvents", 0)
ListPendingDeviceAuthorizations == Must("ListPendingDeviceAuthorizations", 0)

(* DB.BeginTx, which no handler calls.                                     *)
BeginTx == Must("BeginTx", 0)

(* Mutant: the handler as it was before tests/refresh_deadlock_test.go: a  *)
(* transaction of its own around calls that do not use it.                 *)
Refresh_OuterTx == <<GetRefreshSession, GetMobileDevice, BeginTx, CreateAccess,
                     RotateRefreshSession, CreateAuditEvent>>

Refresh == <<GetRefreshSession, GetMobileDevice, CreateAccess,
             RotateRefreshSession, CreateAuditEvent>>
Revoke  == <<GetAccessSession, RevokeAllSessionsForDevice, CreateAuditEvent>>
Proxied == <<GetAccessSession, GetMobileDevice, LastSeen, CreateAuditEvent,
             CreateAuditEvent>>
Denied  == <<GetAccessSession, GetMobileDevice,
             [RevokeAllSessionsForDevice EXCEPT !.error = "try"],
             CreateAuditEvent>>
Pairing == <<GetDeviceAuth, CreateDevice, CreateAccess, CreateRefresh,
             Try("UpdateDeviceAuthorizationStatus", 1),
             Try("MarkDeviceAuthorizationConsumed", 1), CreateAuditEvent>>

Program == [refresh |-> Refresh, revoke |-> Revoke, proxied |-> Proxied,
            denied |-> Denied, pairing |-> Pairing, cleanup |-> CleanupExpired,
            create |-> <<CreateDeviceAuth>>, sessions |-> GetDeviceSessions,
            events |-> <<GetAuditEvents>>,
            pending |-> <<ListPendingDeviceAuthorizations>>,
            operator |-> <<RevokeMobileDevice>>]

Handlers == {Program[name] : name \in Served}

Write(m, i)    == <<m.name, i>>
Prefix(m, n)   == [i \in 1..n |-> Write(m, i)]
Statements(m)  == Prefix(m, m.writes)
Method(g)      == Head(calls[g])
Busy(g)        == calls[g] # <<>>

Methods == UNION {{h[i] : i \in DOMAIN h} : h \in Handlers}
Writes  == UNION {{Write(m, i) : i \in 1..m.writes} : m \in Methods}

TypeOK ==
  /\ conn \in Goroutines \cup {Nobody, OuterTx}
  /\ waiting \in SUBSET Goroutines
  /\ calls \in [Goroutines -> Seq(Methods)]
  /\ dirty \in Seq(Writes)
  /\ disk \in [Goroutines -> Seq(Writes)]

Init ==
  /\ conn = Nobody
  /\ waiting = {}
  /\ calls = [g \in Goroutines |-> <<>>]
  /\ dirty = <<>>
  /\ disk = [g \in Goroutines |-> <<>>]

-----------------------------------------------------------------------------
(* A request reaches its handler.                                          *)
Arrive(g) ==
  /\ ~Busy(g)
  /\ \E h \in Handlers : calls' = [calls EXCEPT ![g] = h]
  /\ disk' = [disk EXCEPT ![g] = <<>>]
  /\ UNCHANGED <<conn, waiting, dirty>>

(* DB.conn: the connection, or a place among the connRequests.             *)
CheckOut(g) ==
  /\ Busy(g) /\ conn # g /\ g \notin waiting
  /\ IF conn = Nobody THEN conn' = g /\ UNCHANGED waiting
                      ELSE waiting' = waiting \cup {g} /\ UNCHANGED conn
  /\ UNCHANGED <<calls, dirty, disk>>

(* putConn: a connRequest chosen at random gets the connection.            *)
PutConn ==
  \/ waiting = {} /\ conn' = Nobody /\ UNCHANGED waiting
  \/ \E w \in waiting : conn' = w /\ waiting' = waiting \ {w}

Exec(g) ==
  /\ conn = g /\ Len(dirty) < Method(g).writes
  /\ dirty' = Append(dirty, Write(Method(g), Len(dirty) + 1))
  /\ UNCHANGED <<conn, waiting, calls, disk>>

(* The last statement is done: commit, and give the connection back.  What *)
(* BeginTx has taken stays with its caller, out of the reach of the methods*)
(* of DB.                                                                  *)
Commit(g) ==
  /\ conn = g /\ Len(dirty) = Method(g).writes
  /\ disk' = [disk EXCEPT ![g] = @ \o dirty]
  /\ dirty' = <<>>
  /\ calls' = [calls EXCEPT ![g] = Tail(@)]
  /\ IF Method(g) = BeginTx THEN conn' = OuterTx /\ UNCHANGED waiting
                            ELSE PutConn

(* Mutant: the statements run on the pool and not in the transaction, so   *)
(* that those before the failing one stay.                                 *)
Rollback_Keeps(g) ==
  /\ conn = g
  /\ disk' = [disk EXCEPT ![g] = @ \o dirty]
  /\ dirty' = <<>>
  /\ calls' = [calls EXCEPT ![g] = IF Method(g).error = "must" THEN <<>>
                                                               ELSE Tail(@)]
  /\ PutConn

(* A statement or the commit fails; the deferred Rollback or Close gives   *)
(* the connection back.                                                    *)
Rollback(g) ==
  /\ conn = g
  /\ dirty' = <<>>
  /\ calls' = [calls EXCEPT ![g] = IF Method(g).error = "must" THEN <<>>
                                                               ELSE Tail(@)]
  /\ PutConn
  /\ UNCHANGED disk

(* What was read, or a check between two calls, makes the handler answer.  *)
Answer(g) ==
  /\ Busy(g) /\ conn # g /\ g \notin waiting
  /\ calls' = [calls EXCEPT ![g] = <<>>]
  /\ UNCHANGED <<conn, waiting, dirty, disk>>

(* The process dies and starts again: SQLite's log has no commit for what  *)
(* was open.                                                               *)
Crash ==
  /\ conn' = Nobody
  /\ waiting' = {}
  /\ calls' = [g \in Goroutines |-> <<>>]
  /\ dirty' = <<>>
  /\ UNCHANGED disk
-----------------------------------------------------------------------------
Step(g) == CheckOut(g) \/ Exec(g) \/ Commit(g) \/ Rollback(g)

Next ==
  \/ \E g \in Goroutines : Arrive(g) \/ Step(g) \/ Answer(g)
  \/ Crash

Spec == Init /\ [][Next]_vars

(* Goroutines are scheduled; a waiting goroutine that is passed over at    *)
(* random is not passed over for ever.                                     *)
FairSpec ==
  /\ Spec
  /\ \A g \in Goroutines :
       /\ WF_vars(Step(g))
       /\ SF_vars(\E h \in Goroutines : (Commit(h) \/ Rollback(h)) /\ conn' = g)

-----------------------------------------------------------------------------
(* handler.go: an outer transaction "would also check out the pool's only  *)
(* connection (SetMaxOpenConns(1)) and never release it", and the handler  *)
(* would wait for "a second connection the same goroutine is already       *)
(* holding".  Whoever waits for the connection waits for a goroutine that  *)
(* is inside a method of DB and itself waits for nothing: not for the      *)
(* caller of an earlier BeginTx, and not for a connection nobody has.      *)
HolderWorks ==
  waiting # {} => conn \in Goroutines \ waiting /\ Busy(conn)

(* Every method of internal/db is atomic: the writes of a transaction      *)
(* reach the file together, those of a failed or interrupted one never,    *)
(* and a handler's methods take effect in the order of its calls.          *)
Atomic == INSTANCE AtomicStore
ImplementsAtomicStore == Atomic!Spec

(* handler.go: "every later h.db.* call, including /readyz's               *)
(* CleanupExpired, would then block forever": with one connection, a       *)
(* handler that keeps it while it calls another method stops everyone.  No *)
(* handler does: every request gets out of the database again.             *)
Answered == \A g \in Goroutines : Busy(g) ~> ~Busy(g)
=============================================================================
